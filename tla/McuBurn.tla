------------------------------ MODULE McuBurn ------------------------------
(* mcu_update of the recovery program, bootable/recovery/mcu_burning.c: the *)
(* image on the card is sent to the MCU in chunks of NUM_ONCE bytes, each   *)
(* confirmed by the sum the MCU computes, and the whole transfer is         *)
(* repeated until it succeeds.  The MCU is external: it appends a chunk to  *)
(* what it has received since the last restart and answers with its sum.    *)
EXTENDS Integers, Sequences

CONSTANTS NUM_ONCE, FILE_MAX_SIZE,
          DSP_2P, DSP_10P,  \* the parts of the progress bar: 50 and 10
          McuFiles,         \* lengths the image file may have; 0: no file
          MaxStale          \* bound: chunks a lost restart may leave behind

ASSUME McuAssumption ==
    /\ NUM_ONCE \in Nat \ {0} /\ DSP_2P \in Nat \ {0} /\ DSP_10P \in Nat \ {0}
    /\ FILE_MAX_SIZE \in Nat \ {0} /\ FILE_MAX_SIZE % NUM_ONCE = 0
    /\ McuFiles \subseteq Nat /\ MaxStale \in Nat

VARIABLES file_len,         \* file_len, after padding
          mcu_pc,           \* where mcu_update is
          mcu_i,            \* i of mcu_data_transfer
          mcu_ret,          \* what mcu_update returned
          mcu_flash,        \* what the MCU took since the last restart,
                            \* as far as this run sent it
          mcu_touched,      \* history: the MCU took a chunk from this run
          restart_lost      \* history: the last transfer began without a
                            \* restart it needed, or the next one will

mcu_vars == <<file_len, mcu_pc, mcu_i, mcu_ret, mcu_flash, mcu_touched,
              restart_lost>>

(* get_burning_data: at most FILE_MAX_SIZE bytes are read, then zeros fill  *)
(* the last chunk                                                           *)
Padded(len) ==
    LET n == IF len < FILE_MAX_SIZE THEN len ELSE FILE_MAX_SIZE
    IN  IF n % NUM_ONCE = 0 THEN n ELSE n + (NUM_ONCE - (n % NUM_ONCE))

transfer_times == (file_len + NUM_ONCE - 1) \div NUM_ONCE

(* A chunk as the MCU holds it: the one sent; another one with the same     *)
(* sum; or one whose sum differs.                                           *)
Chunk(i, how) == [id |-> i, how |-> how]
Damage == {"collides", "differs"}

McuInit ==
    /\ file_len = 0 /\ mcu_pc = "off" /\ mcu_i = 0 /\ mcu_ret = "none"
    /\ mcu_flash = <<>> /\ mcu_touched = FALSE /\ restart_lost = FALSE

(* power up: the program starts afresh and the MCU expects chunk 0 *)
McuPowerUp ==
    /\ file_len' = 0 /\ mcu_pc' = "off" /\ mcu_i' = 0 /\ mcu_ret' = "none"
    /\ mcu_flash' = <<>> /\ mcu_touched' = FALSE /\ restart_lost' = FALSE

(* The program alone starts afresh.  The MCU keeps what earlier runs sent,  *)
(* which nothing tells the new run; its transfer begins behind it.          *)
McuRespawn ==
    /\ file_len' = 0 /\ mcu_pc' = "off" /\ mcu_i' = 0 /\ mcu_ret' = "none"
    /\ restart_lost' = (restart_lost \/ mcu_touched)
    /\ mcu_flash' = <<>> /\ mcu_touched' = FALSE

McuDone(r) == mcu_pc' = "return" /\ mcu_ret' = r
-----------------------------------------------------------------------------
(* the file is read, or is missing or empty *)
McuBegin ==
    /\ mcu_pc = "off"
    /\ \E len \in McuFiles :
          IF len = 0 THEN McuDone("NOT_EXISTED") /\ UNCHANGED file_len
          ELSE mcu_pc' = "open" /\ file_len' = Padded(len) /\ UNCHANGED mcu_ret
    /\ UNCHANGED <<mcu_i, mcu_flash, mcu_touched, restart_lost>>

McuOpen ==
    /\ mcu_pc = "open"
    /\ (mcu_pc' = "write" /\ UNCHANGED mcu_ret) \/ McuDone("ERROR")
    /\ UNCHANGED <<file_len, mcu_i, mcu_flash, mcu_touched, restart_lost>>

(* the MCU takes the chunk that is being sent *)
Take(how) ==
    mcu_flash' = Append(mcu_flash, Chunk(mcu_i, how)) /\ mcu_touched' = TRUE

(* ioctl(MCU_BURN_WRITE) succeeds, ... *)
McuWrite ==
    /\ mcu_pc = "write" /\ mcu_pc' = "sum" /\ Take("same")
    /\ UNCHANGED <<file_len, mcu_i, mcu_ret, restart_lost>>

(* ... succeeds, but the bus damaged the chunk, ... *)
McuWriteDamaged ==
    /\ mcu_pc = "write" /\ mcu_pc' = "sum" /\ (\E d \in Damage : Take(d))
    /\ UNCHANGED <<file_len, mcu_i, mcu_ret, restart_lost>>

(* ... or fails, with the chunk taken or not *)
McuWriteFails ==
    /\ mcu_pc = "write" /\ mcu_pc' = "failed"
    /\ Take("same") \/ UNCHANGED <<mcu_flash, mcu_touched>>
    /\ UNCHANGED <<file_len, mcu_i, mcu_ret, restart_lost>>

(* The progress bar: the remainders by dsp_2p and dsp_10p are undefined     *)
(* when the image has fewer chunks than the bar has parts; the program goes *)
(* on or is killed.                                                         *)
DivisorZero == transfer_times \div DSP_2P = 0 \/ transfer_times \div DSP_10P = 0

(* the head of the for loop: `len -= NUM_ONCE, i++' and `len > 0' *)
NextChunk ==
    IF (mcu_i + 1) * NUM_ONCE < file_len
    THEN mcu_i' = mcu_i + 1 /\ mcu_pc' = "write" /\ UNCHANGED mcu_ret
    ELSE mcu_i' = mcu_i + 1 /\ McuDone("SUCCESS")

(* ioctl(MCU_BURN_READ), the comparison and the progress bar *)
McuSum ==
    /\ mcu_pc = "sum"
    /\ LET equal == mcu_flash[Len(mcu_flash)].how # "differs" IN
       \/ equal /\ NextChunk
       \/ /\ equal /\ DivisorZero
          /\ mcu_pc' = "killed" /\ UNCHANGED <<mcu_i, mcu_ret>>
       \/ ~equal /\ mcu_pc' = "failed" /\ UNCHANGED <<mcu_i, mcu_ret>>
    /\ UNCHANGED <<file_len, mcu_flash, mcu_touched, restart_lost>>

(* ioctl(MCU_BURN_READ) fails *)
McuSumFails ==
    /\ mcu_pc = "sum" /\ mcu_pc' = "failed"
    /\ UNCHANGED <<file_len, mcu_i, mcu_ret, mcu_flash, mcu_touched,
                   restart_lost>>

(* mutant: the transfer is repeated without MCU_BURN_RESTART *)
McuAgainOnly ==
    /\ mcu_pc = "failed"
    /\ mcu_pc' = "write" /\ mcu_i' = 0
    /\ Len(mcu_flash) <= MaxStale
    /\ UNCHANGED <<file_len, mcu_ret, mcu_flash, mcu_touched, restart_lost>>

(* "transfer error, and try again": ioctl(MCU_BURN_RESTART), whose result   *)
(* is ignored, then mcu_data_transfer from the first chunk                  *)
McuRestart ==
    /\ mcu_pc = "failed" /\ mcu_pc' = "write" /\ mcu_i' = 0
    /\ \/ mcu_flash' = <<>> /\ restart_lost' = FALSE
       \/ /\ Len(mcu_flash) <= MaxStale
          /\ restart_lost' = TRUE /\ UNCHANGED mcu_flash
    /\ UNCHANGED <<file_len, mcu_ret, mcu_touched>>

(* mcu_update returns; which chunks the MCU holds is of no further interest *)
McuReturn ==
    /\ mcu_pc = "return" /\ mcu_pc' = "done"
    /\ file_len' = 0 /\ mcu_i' = 0 /\ mcu_flash' = <<>>
    /\ restart_lost' = (restart_lost \/ mcu_touched)
    /\ UNCHANGED <<mcu_ret, mcu_touched>>

(* the MCU or its bus fails: the transfer is begun again, or goes wrong *)
McuFails == McuWriteDamaged \/ McuWriteFails \/ McuSumFails

McuStep == \/ McuOpen \/ McuWrite \/ McuSum \/ McuFails \/ McuRestart
           \/ McuReturn
-----------------------------------------------------------------------------
McuChunks == 0 .. FILE_MAX_SIZE \div NUM_ONCE

McuTypeOK ==
    /\ file_len \in 0 .. FILE_MAX_SIZE
    /\ mcu_pc \in {"off", "open", "write", "sum", "failed", "killed",
                   "return", "done"}
    /\ mcu_i \in McuChunks
    /\ mcu_ret \in {"none", "SUCCESS", "ERROR", "NOT_EXISTED"}
    /\ mcu_flash \in Seq([id : McuChunks, how : Damage \cup {"same"}])
    /\ mcu_touched \in BOOLEAN /\ restart_lost \in BOOLEAN

(* "Transfer mcu burning image success": the MCU ends on the chunks of the  *)
(* padded image, each once and in order, none with a sum other than the     *)
(* one sent, whatever failed on the way; and it holds nothing else, unless  *)
(* a restart whose result nobody looks at was lost, or an earlier run of    *)
(* the program ended before the CPU was reset.                              *)
McuBurnt ==
    mcu_pc = "return" /\ mcu_ret = "SUCCESS" =>
        LET n == transfer_times
            extra == Len(mcu_flash) - n
        IN  /\ extra >= 0
            /\ ~restart_lost => extra = 0
            /\ \A i \in 1 .. n : /\ mcu_flash[extra + i].id = i - 1
                                 /\ mcu_flash[extra + i].how # "differs"
=============================================================================
