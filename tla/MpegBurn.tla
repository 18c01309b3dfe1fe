------------------------------ MODULE MpegBurn ------------------------------
(* mpeg_update of the recovery program, bootable/recovery/mpeg_burning.c:   *)
(* the MPEG decoder is reset and recognised, its SDRAM set up, a loader     *)
(* written to it word by word and read back, the loader started, and the    *)
(* rom image sent to it frame by frame.  The decoder and the serial line    *)
(* are external: commands and answers may be lost, answers may be late, and *)
(* the decoder may fall silent.                                             *)
EXTENDS Integers, Sequences

CONSTANTS Loaders,          \* loader files: [len |-> bytes, words |-> sequence]
          ProbeValues,      \* what the decoder may answer to the reads made
                            \* before the loader is sent: its number, a
                            \* register, the memory at 0
          RomFrames,        \* the frames of 4096 bytes of the rom image,
                            \* which is not empty
          MPEG_2P, MPEG_10P,\* the parts of the progress bar: 50 and 5
          SDRAM_TRIES, SDRAM_HITS,   \* 40 probes, more than 13 hits
          TRIES,            \* mpeg_update gives up after 3 tries
          MaxLine           \* bound: answers of the decoder not read yet

ASSUME MpegAssumption ==
    /\ \A l \in Loaders : /\ l.len \in Nat /\ l.words \in Seq(Nat)
                          /\ Len(l.words) = (l.len + 3) \div 4
    /\ MPEG_2P \in Nat \ {0} /\ MPEG_10P \in Nat \ {0}
    /\ RomFrames \in Nat \ {0} /\ TRIES \in Nat \ {0}
    /\ SDRAM_TRIES \in Nat /\ SDRAM_HITS \in Nat /\ MaxLine \in Nat
    /\ ProbeValues \subseteq Nat /\ ProbeValues # {}

VARIABLES loader,           \* the loader file
          mpeg_pc,          \* where mpeg_update is
          mpeg_ret,         \* what it returned
          try_time,
          sdram,            \* count and times of init_sdram
          word,             \* the word send_sloader is at
          read_buf,         \* read_buf[0], the last value read
          line,             \* answers of the decoder not read yet
          ram,              \* the decoder's memory from SLOADER_JUMP_POINT on
          frameid, romsize, \* of transfer; romsize in frames
          mpeg_flash,       \* the frames the decoder took, in order
          mpeg_touched,     \* history: it took a frame from this run
          transferred,      \* what transfer returned
          silent            \* the decoder keeps mpeg_update waiting for ever

mpeg_vars == <<loader, mpeg_pc, mpeg_ret, try_time, sdram, word,
               read_buf, line, ram, frameid, romsize, mpeg_flash,
               mpeg_touched, transferred, silent>>
burn_vars == <<frameid, romsize, mpeg_flash, mpeg_touched, transferred>>
link_vars == <<word, read_buf, line, ram>>

Junk == -1                  \* what no loader file contains

(* send_sloader: `if (len & 3) { len = len | (~3); len = len + 4; }' in 32  *)
(* bits.  len | ~3 is len % 4 - 4 modulo 2^32, so that the length of a file *)
(* that is not a multiple of 4 becomes len % 4.                             *)
Aligned(len) == IF len % 4 = 0 THEN len ELSE (len % 4) - 4 + 4

LoaderWords == Aligned(loader.len) \div 4

NoLoader == [len |-> 0, words |-> <<>>]

MpegInit ==
    /\ loader = NoLoader /\ mpeg_pc = "off" /\ mpeg_ret = "none"
    /\ try_time = 0 /\ sdram = [count |-> 0, times |-> 0]
    /\ word = 1 /\ read_buf = 0 /\ line = <<>> /\ ram = <<>>
    /\ frameid = 0 /\ romsize = 0 /\ mpeg_flash = <<>>
    /\ mpeg_touched = FALSE /\ transferred = "none" /\ silent = FALSE

(* the variables of mpeg_update when it does not run *)
MpegClear ==
    /\ loader' = NoLoader /\ try_time' = 0
    /\ sdram' = [count |-> 0, times |-> 0]
    /\ word' = 1 /\ read_buf' = 0 /\ line' = <<>> /\ ram' = <<>>
    /\ frameid' = 0 /\ romsize' = 0 /\ mpeg_flash' = <<>>
    /\ transferred' = "none" /\ silent' = FALSE

(* the program starts afresh, with the decoder or alone: it will reset it *)
MpegStart ==
    MpegClear /\ mpeg_pc' = "off" /\ mpeg_ret' = "none" /\ mpeg_touched' = FALSE

MpegDone(r) == mpeg_pc' = "return" /\ mpeg_ret' = r
MpegGoto(l) == mpeg_pc' = l /\ UNCHANGED mpeg_ret
-----------------------------------------------------------------------------
(* label burning: both files must be there.  The decoder's memory holds    *)
(* anything before the first try.                                           *)
MpegBegin ==
    /\ mpeg_pc = "off"
    /\ \/ /\ MpegDone("NOT_EXISTED")
          /\ UNCHANGED <<loader, ram>>
       \/ /\ MpegGoto("confirm")
          /\ IF loader = NoLoader
             THEN /\ loader' \in Loaders
                  /\ ram' = [i \in 1 .. Len(loader'.words) |-> Junk]
             ELSE UNCHANGED <<loader, ram>>
    /\ UNCHANGED <<try_time, sdram, word, read_buf, line, burn_vars, silent>>

(* What the probes before the loader may leave on the line: late answers to *)
(* any of their writes and reads.                                           *)
Probe == [cmd : {"W"}, val : {0}] \cup [cmd : {"R"}, val : ProbeValues]
ProbeLines == UNION {[1 .. n -> Probe] : n \in 0 .. MaxLine}

(* confirm_device: get_a_reply resets the decoder, opens the line empty and *)
(* waits for an `a'; get_device_id reads RF_STAMP                           *)
ConfirmDevice ==
    /\ mpeg_pc = "confirm"
    /\ \/ MpegGoto("sdram") /\ read_buf' \in ProbeValues
       \/ MpegGoto("error") /\ read_buf' \in ProbeValues \cup {read_buf}
    /\ line' = <<>> /\ sdram' = [count |-> 0, times |-> 0]
    /\ UNCHANGED <<loader, try_time, word, ram, burn_vars, silent>>

(* init_sdram: one probe of the memory, which finds the magic number or not *)
InitSdram ==
    /\ mpeg_pc = "sdram" /\ ~silent
    /\ \/ /\ sdram.count < SDRAM_TRIES
          /\ \E hit \in {0, 1} : sdram' = [count |-> sdram.count + 1,
                                          times |-> sdram.times + hit]
          /\ MpegGoto(IF sdram'.times > SDRAM_HITS THEN "loader" ELSE "sdram")
          /\ line' \in ProbeLines /\ read_buf' \in ProbeValues
       \/ /\ sdram.count = SDRAM_TRIES
          /\ MpegGoto("error") /\ UNCHANGED <<sdram, line, read_buf>>
    /\ UNCHANGED <<loader, try_time, word, ram, burn_vars, silent>>

(* send_sloader up to its loop: malloc, the file, the configuration words *)
SendSloader ==
    /\ mpeg_pc = "loader"
    /\ word' = 1
    /\ \/ /\ MpegGoto(IF LoaderWords = 0 THEN "reboot" ELSE "write")
          /\ line' \in ProbeLines
       \/ MpegGoto("error") /\ UNCHANGED line
    /\ UNCHANGED <<loader, try_time, sdram, read_buf, ram, burn_vars, silent>>

(* Reading the line for command c: what is left of it when an answer to c   *)
(* is found, and what may be left when time runs out before one is read.    *)
Answers(l, c) == {k \in 1 .. Len(l) : l[k].cmd = c}
FirstOf(l, c) == {k \in Answers(l, c) : \A j \in Answers(l, c) : k <= j}
After(l, k) == SubSeq(l, k + 1, Len(l))
LateRests(l, c) == {After(l, k) : k \in
                       {j \in 0 .. Len(l) : \A i \in 1 .. j : l[i].cmd # c}}

(* mpeg_write_command(addr, *buf_ptr), whose result nobody looks at.  The   *)
(* decoder takes the word and answers `W'; all up to the first `W' is read. *)
WriteWord ==
    /\ mpeg_pc = "write" /\ MpegGoto("readback")
    /\ ram' = [ram EXCEPT ![word] = loader.words[word]]
    /\ LET sent == Append(line, [cmd |-> "W", val |-> 0])
       IN  \E k \in FirstOf(sent, "W") : line' = After(sent, k)
    /\ UNCHANGED <<loader, try_time, sdram, word, read_buf, burn_vars, silent>>

(* the word is taken, but the wait times out *)
WriteLate ==
    /\ mpeg_pc = "write" /\ MpegGoto("readback")
    /\ ram' = [ram EXCEPT ![word] = loader.words[word]]
    /\ line' \in LateRests(Append(line, [cmd |-> "W", val |-> 0]), "W")
    /\ Len(line') <= MaxLine
    /\ UNCHANGED <<loader, try_time, sdram, word, read_buf, burn_vars, silent>>

(* the command is lost *)
WriteLost ==
    /\ mpeg_pc = "write" /\ MpegGoto("readback")
    /\ line' \in LateRests(line, "W")
    /\ UNCHANGED <<loader, try_time, sdram, word, read_buf, ram, burn_vars,
                   silent>>

(* mutant: an `R' is enough, its value is not compared *)
ReadBackUnchecked ==
    /\ mpeg_pc = "readback"
    /\ IF word < LoaderWords THEN word' = word + 1 /\ MpegGoto("write")
                             ELSE UNCHANGED word /\ MpegGoto("reboot")
    /\ read_buf' = ram[word]
    /\ UNCHANGED <<loader, try_time, sdram, line, ram, burn_vars, silent>>

(* the comparison of send_sloader: on to the next word, or `goto write_flow' *)
Compare(check_fb) ==
    IF check_fb # loader.words[word]
    THEN MpegGoto("write") /\ UNCHANGED word
    ELSE IF word < LoaderWords
    THEN MpegGoto("write") /\ word' = word + 1
    ELSE MpegGoto("reboot") /\ UNCHANGED word

(* the answer to the read-back behind what is on the line already *)
Answered == Append(line, [cmd |-> "R", val |-> ram[word]])

(* mpeg_read_command(addr): the value follows the first `R' on the line *)
ReadBack ==
    /\ mpeg_pc = "readback"
    /\ \E k \in FirstOf(Answered, "R") :
          line' = After(Answered, k) /\ read_buf' = Answered[k].val
    /\ Compare(read_buf')
    /\ UNCHANGED <<loader, try_time, sdram, ram, burn_vars, silent>>

(* the read behind the `R' comes short and leaves read_buf as it was *)
ReadShort ==
    /\ mpeg_pc = "readback"
    /\ \E k \in FirstOf(Answered, "R") : line' = After(Answered, k)
    /\ Compare(read_buf)
    /\ UNCHANGED <<loader, try_time, sdram, read_buf, ram, burn_vars, silent>>

(* the command or its answer is lost, or the answer comes after the wait    *)
(* timed out: 0 is returned                                                 *)
ReadLost ==
    /\ mpeg_pc = "readback"
    /\ line' \in LateRests(Answered, "R") \cup LateRests(line, "R")
    /\ Len(line') <= MaxLine
    /\ Compare(0)
    /\ UNCHANGED <<loader, try_time, sdram, read_buf, ram, burn_vars, silent>>

(* reboot_into_sloader: the loader is started and the line opened again,    *)
(* now for reads that block; 1000 bytes are read for a `B', and make it     *)
(* fail if there is none among them.                                        *)
RebootIntoSloader ==
    /\ mpeg_pc = "reboot" /\ ~silent
    /\ line' = <<>>
    /\ MpegGoto("ready") \/ MpegGoto("error")
    /\ UNCHANGED <<loader, try_time, sdram, word, read_buf, ram, burn_vars,
                   silent>>

(* send_start_wait_ready, then the head of transfer: the rom file is read,  *)
(* or it or the memory for it cannot be had and transfer returns 0          *)
StartTransfer ==
    /\ mpeg_pc = "ready" /\ ~silent
    /\ frameid' = 0 /\ romsize' = RomFrames - 1
    /\ \/ MpegGoto("frame") /\ UNCHANGED transferred
       \/ transferred' = "no" /\ MpegDone("SUCCESS")
    /\ UNCHANGED <<loader, try_time, sdram, link_vars, mpeg_flash,
                   mpeg_touched, silent>>

(* The decoder answers no more, stays busy, or what it sent before the line *)
(* was opened again is lost.  init_sdram then repeats a read, the others    *)
(* wait, for ever; confirm_device gives up, and send_sloader goes round.    *)
FallSilent ==
    /\ mpeg_pc \in {"sdram", "reboot", "ready"}
    /\ ~silent /\ silent' = TRUE
    /\ UNCHANGED <<loader, mpeg_pc, mpeg_ret, try_time, sdram, link_vars,
                   burn_vars>>

(* mutant: a frame the decoder refused is not sent again *)
AnswerSkips(fb) ==
    \/ /\ fb \in {"O", "L", "X"} /\ romsize > 0
       /\ frameid' = frameid + 1 /\ romsize' = romsize - 1
       /\ MpegGoto("frame") /\ UNCHANGED transferred
    \/ /\ fb = "E" \/ (fb \in {"O", "L", "X"} /\ romsize = 0)
       /\ transferred' = "yes" /\ MpegDone("SUCCESS")
       /\ UNCHANGED <<frameid, romsize>>
    \/ /\ fb = "none" /\ transferred' = "no" /\ MpegDone("SUCCESS")
       /\ UNCHANGED <<frameid, romsize>>

(* The progress bar, drawn when the next frame is made ready: as in         *)
(* mcu_burning.c the remainders are undefined for an image of fewer frames  *)
(* than the bar has parts.                                                  *)
RomDivisorZero == RomFrames \div MPEG_2P = 0 \/ RomFrames \div MPEG_10P = 0

(* The switch of transfer.  Whatever transfer returns, mpeg_update prints   *)
(* "update mpeg success" and returns INSTALL_SUCCESS.                       *)
Answer(fb) ==
    \/ /\ fb = "O" /\ romsize > 0
       /\ frameid' = frameid + 1 /\ romsize' = romsize - 1
       /\ \/ MpegGoto("frame")
          \/ RomDivisorZero /\ MpegGoto("killed")
       /\ UNCHANGED transferred
    \/ /\ fb \in {"L", "X"}
       /\ MpegGoto("frame") /\ UNCHANGED <<frameid, romsize, transferred>>
    \/ /\ fb = "E" \/ (fb = "O" /\ romsize = 0)
       /\ transferred' = "yes" /\ MpegDone("SUCCESS")
       /\ UNCHANGED <<frameid, romsize>>
    \/ /\ fb = "none" /\ transferred' = "no" /\ MpegDone("SUCCESS")
       /\ UNCHANGED <<frameid, romsize>>

(* clear_rx_buff and mpeg_send_frame *)
SendFrame ==
    /\ mpeg_pc = "frame" /\ MpegGoto("answer")
    /\ UNCHANGED <<loader, try_time, sdram, link_vars, burn_vars, silent>>

(* mpeg_wait_return.  The decoder takes the frame and answers `O', or `E'   *)
(* when it has them all; ...                                                *)
TakeFrame ==
    /\ mpeg_pc = "answer" /\ ~silent
    /\ mpeg_flash' = Append(mpeg_flash, frameid) /\ mpeg_touched' = TRUE
    /\ Answer("O") \/ (Len(mpeg_flash') = RomFrames /\ Answer("E"))
    /\ UNCHANGED <<loader, try_time, sdram, link_vars, silent>>

(* ... or it refuses a damaged frame with `L' or `X'; or 10000 other bytes  *)
(* come; ...                                                                *)
RefuseFrame ==
    /\ mpeg_pc = "answer" /\ ~silent
    /\ \E fb \in {"L", "X", "none"} : Answer(fb)
    /\ UNCHANGED <<loader, try_time, sdram, link_vars, mpeg_flash,
                   mpeg_touched, silent>>

(* ... or no answer comes *)
LoseFrame ==
    /\ mpeg_pc = "answer" /\ ~silent /\ silent' = TRUE
    /\ \/ mpeg_flash' = Append(mpeg_flash, frameid) /\ mpeg_touched' = TRUE
       \/ UNCHANGED <<mpeg_flash, mpeg_touched>>
    /\ UNCHANGED <<loader, mpeg_pc, mpeg_ret, try_time, sdram, link_vars,
                   frameid, romsize, transferred>>

(* mutant: the tries are counted, but there is no limit *)
MpegErrorAgain ==
    /\ mpeg_pc = "error" /\ try_time' = try_time + 1 /\ MpegGoto("off")
    /\ UNCHANGED <<loader, sdram, link_vars, burn_vars, silent>>

(* mutant: the tries are not counted *)
MpegErrorUncounted ==
    /\ mpeg_pc = "error"
    /\ IF try_time < TRIES THEN MpegGoto("off") ELSE MpegDone("ERROR")
    /\ UNCHANGED <<loader, try_time, sdram, link_vars, burn_vars, silent>>

(* label mpeg_error *)
MpegError ==
    /\ mpeg_pc = "error" /\ try_time' = try_time + 1
    /\ IF try_time + 1 < TRIES THEN MpegGoto("off") ELSE MpegDone("ERROR")
    /\ UNCHANGED <<loader, sdram, link_vars, burn_vars, silent>>

MpegReturn ==
    /\ mpeg_pc = "return" /\ mpeg_pc' = "done"
    /\ MpegClear /\ UNCHANGED <<mpeg_ret, mpeg_touched>>

(* a word of the loader or a frame goes wrong and may have to be sent again *)
MpegFails == WriteLate \/ WriteLost \/ ReadShort \/ ReadLost \/ RefuseFrame

MpegStep ==
    \/ ConfirmDevice \/ InitSdram \/ SendSloader \/ WriteWord \/ ReadBack
    \/ RebootIntoSloader \/ StartTransfer \/ FallSilent \/ SendFrame
    \/ TakeFrame \/ LoseFrame \/ MpegFails \/ MpegError \/ MpegReturn
-----------------------------------------------------------------------------
MpegTypeOK ==
    /\ loader \in Loaders \cup {NoLoader}
    /\ mpeg_pc \in {"off", "confirm", "sdram", "loader", "write", "readback",
                    "reboot", "ready", "frame", "answer", "killed", "error",
                    "return", "done"}
    /\ mpeg_ret \in {"none", "SUCCESS", "ERROR", "NOT_EXISTED"}
    /\ try_time \in 0 .. TRIES
    /\ sdram \in [count : 0 .. SDRAM_TRIES, times : 0 .. SDRAM_TRIES]
    /\ word \in 1 .. Len(loader.words) + 1
    /\ frameid \in 0 .. RomFrames - 1 /\ romsize \in 0 .. RomFrames - 1
    /\ mpeg_flash \in Seq(0 .. RomFrames - 1)
    /\ mpeg_touched \in BOOLEAN
    /\ transferred \in {"none", "yes", "no"} /\ silent \in BOOLEAN

(* "verify success": what the read-back really shows.  When the loader is   *)
(* started, a word that is not 0, that no earlier word equals and that no   *)
(* probe before it may have read is in the decoder's memory, in spite of    *)
(* lost commands, answers that come late and are taken for another word's,  *)
(* reads that come short and waits that time out - provided the file's      *)
(* length is a multiple of 4.                                               *)
LoaderVerified ==
    mpeg_pc \in {"reboot", "ready", "frame", "answer"} /\ loader.len % 4 = 0 =>
        \A i \in 1 .. Len(loader.words) :
            /\ loader.words[i] \notin ProbeValues \cup {0}
            /\ \A j \in 1 .. i - 1 : loader.words[j] # loader.words[i]
            => ram[i] = loader.words[i]

(* When transfer reports success the decoder has taken every frame of the   *)
(* rom image, once and in order, however many were refused on the way.      *)
MpegFlashed ==
    transferred = "yes" => mpeg_flash = [k \in 1 .. RomFrames |-> k - 1]
=============================================================================
