--------------------------- MODULE RecoveryProofs ---------------------------
(* Proofs about Recovery: which command runs after a loss of power, and     *)
(* what a run has done to the MCU, the decoder and /data when it ends.      *)
(* They hold for any files, loaders, modes and bounds, and for any number   *)
(* of faults and losses of power.                                           *)
EXTENDS Recovery, TLAPS

(* Once a command has been taken, and get_args could read and write, it is  *)
(* in the BCB, or is no command and no command file could take its place.   *)
CommandKept ==
    /\ taken \notin {"unknown", "lost"} =>
          /\ bcb = taken
          /\ taken = "none" => command_file = "none"
    /\ pc # "get_args" => taken # "unknown" \/ pc = "bricked"
    /\ bcb \notin {"unknown", "lost"} /\ command_file \notin {"unknown", "lost"}

CInv == CommandKept /\ SameCommand
-----------------------------------------------------------------------------
LEMMA CommandInit == Init => CInv
BY RecoveryAssumption
   DEF Init, RunIdle, CInv, CommandKept, SameCommand

(* a step that neither starts a run nor touches what get_args reads *)
LEMMA CommandStays ==
  ASSUME CInv, pc \notin {"get_args", "bricked"} \/ pc' \in {"get_args", "bricked"},
         UNCHANGED <<bcb, taken>>, command_file' \in {"none", command_file},
         pc' # "command"
  PROVE  CInv'
BY DEF CInv, CommandKept, SameCommand

LEMMA CommandStep == CInv /\ [Next]_vars => CInv'
<1> SUFFICES ASSUME CInv, [Next]_vars PROVE CInv'
  OBVIOUS
<1>1. CASE GetArgs
  BY <1>1 DEF GetArgs, CInv, CommandKept, SameCommand
<1>2. CASE Command \/ FsErase \/ FsEraseCache \/ FsRestore
  BY <1>2, CommandStays DEF Command, FsErase, FsEraseCache, FsRestore,
     disk_vars, hist_vars
<1>3. CASE OtaBegin \/ OtaEnd \/ CardBegin \/ CardEnd
  BY <1>3, CommandStays DEF OtaBegin, OtaEnd, CardBegin, CardEnd, InstallBegin,
     InstallEnd, disk_vars, hist_vars
<1>4. CASE Dispatch \/ CleanData \/ CleanCache \/ RecBegin \/ RecEnd \/ RecFlag
  BY <1>4, CommandStays DEF Dispatch, CleanData, CleanCache, RecBegin, RecEnd,
     RecFlag, disk_vars, run_vars, hist_vars
<1>5. CASE Mpeg \/ Mcu
  BY <1>5, CommandStays DEF Mpeg, Mcu, main_vars, disk_vars, run_vars,
     hist_vars
<1>6. CASE CardPackage \/ CardErase \/ UpdateEnd \/ Verdict
  BY <1>6, CommandStays DEF CardPackage, CardErase, UpdateEnd, Verdict,
     disk_vars, run_vars, hist_vars
<1>7. CASE Crash \/ Again \/ Respawn
  BY <1>7, CommandStays DEF Crash, Again, Respawn, PowerUp, Start, disk_vars, hist_vars
<1>8. CASE MainSystem
  BY <1>8, RecoveryAssumption DEF MainSystem, PowerUp, Start, CInv, CommandKept,
     SameCommand
<1>9. CASE UNCHANGED vars
  BY <1>9 DEF vars, main_vars, disk_vars, run_vars, hist_vars, CInv,
     CommandKept, SameCommand
<1> QED BY <1>1, <1>2, <1>3, <1>4, <1>5, <1>6, <1>7, <1>8, <1>9 DEF Next, Run

(* Whatever was interrupted, the next run takes the command of the first    *)
(* one from the BCB, as long as get_args could read the BCB and the command *)
(* file and could write the BCB.                                            *)
THEOREM CommandRestarts == Spec => []SameCommand
<1>1. Spec => []CInv
  BY CommandInit, CommandStep, PTL DEF Spec
<1> QED BY <1>1, PTL DEF CInv
-----------------------------------------------------------------------------
(* Before the part of main that burns, nothing was burnt; a burnt MCU is    *)
(* one whose burning goes on or has succeeded, and so is a burnt decoder.   *)
Burning == {"mpeg", "card_erase", "card", "card_run", "update_end", "verdict",
            "ended"}

McuTouched ==
    /\ pc \notin Burning => mcu_pc = "off"
    /\ mcu_pc \in {"off", "open"} => ~mcu_touched
    /\ mcu_pc \in {"return", "done"} /\ mcu_touched => mcu_ret = "SUCCESS"
    /\ pc \in Burning \ {"mpeg", "ended"} => mcu_pc = "done"

MpegTouched ==
    /\ pc \notin Burning => mpeg_pc = "off" /\ ~mpeg_touched
    /\ mpeg_touched => mpeg_pc \in {"frame", "answer", "killed", "return", "done"}
    /\ mpeg_pc \in {"return", "done"} /\ mpeg_touched => mpeg_ret = "SUCCESS"
    /\ pc \in Burning \ {"mpeg", "ended"} => mpeg_pc = "done"
    /\ mcu_pc # "off" => mpeg_pc = "done"

(* only a run that has ended shows a result *)
NoResultYet == pc # "ended" => screen = "none" /\ ending = "none"

BInv == /\ McuTouched /\ MpegTouched /\ NoResultYet
        /\ BurntMcuResets /\ FailureTouchesNothing

LEMMA BurnInit == Init => BInv
BY DEF Init, RunIdle, McuInit, MpegInit, BInv, McuTouched, MpegTouched,
       NoResultYet, BurntMcuResets, FailureTouchesNothing, Burning

(* steps of main that leave the two burning programs alone *)
LEMMA BurnStays ==
  ASSUME BInv, MainOnly, pc # "ended",
         \/ pc \notin Burning /\ pc' \notin Burning
         \/ pc \notin Burning /\ pc' = "mpeg"
         \/ pc \in Burning \ {"mpeg"} /\ pc' \in Burning \ {"mpeg", "ended"}
         \/ /\ pc = "mpeg" /\ pc' \in Burning \ {"mpeg", "ended"}
            /\ mcu_pc = "done",
         UNCHANGED <<screen, ending>>
  PROVE  BInv'
<1>1. McuTouched' /\ MpegTouched'
  BY DEF BInv, MainOnly, mcu_vars, mpeg_vars, McuTouched, MpegTouched, Burning
<1>2. NoResultYet' /\ BurntMcuResets' /\ FailureTouchesNothing'
  BY DEF BInv, NoResultYet, BurntMcuResets, FailureTouchesNothing, Burning
<1> QED BY <1>1, <1>2 DEF BInv

(* a run that ends before anything was burnt *)
LEMMA EndsUnburnt ==
  ASSUME BInv, MainOnly, pc \notin Burning, pc' = "ended", UNCHANGED screen
  PROVE  BInv'
BY DEF BInv, MainOnly, mcu_vars, mpeg_vars, McuTouched, MpegTouched, Burning,
       NoResultYet, BurntMcuResets, FailureTouchesNothing

LEMMA StartUnburnt ==
  ASSUME Start("get_args") \/ Start("bricked"), McuPowerUp \/ McuRespawn,
         MpegStart
  PROVE  BInv'
BY DEF Start, McuPowerUp, McuRespawn, MpegStart, MpegClear, BInv, McuTouched,
       MpegTouched, NoResultYet, BurntMcuResets, FailureTouchesNothing, Burning

(* a burnt decoder is never lost for an error: only transfer burns *)
DecoderKept ==
    /\ mpeg_touched => mpeg_pc \in {"frame", "answer", "killed", "return", "done"}
    /\ mpeg_pc \in {"return", "done"} /\ mpeg_touched => mpeg_ret = "SUCCESS"

LEMMA DecoderStep ==
  ASSUME DecoderKept, MpegBegin \/ MpegStep
  PROVE  DecoderKept'
<1> USE DEF DecoderKept
<1>1. CASE MpegBegin
  BY <1>1 DEF MpegBegin, burn_vars
<1>2. CASE ConfirmDevice \/ InitSdram \/ SendSloader
  BY <1>2 DEF ConfirmDevice, InitSdram, SendSloader, MpegGoto, burn_vars
<1>3. CASE WriteWord \/ WriteLate \/ WriteLost
  BY <1>3 DEF WriteWord, WriteLate, WriteLost, MpegGoto, burn_vars
<1>4. CASE ReadBack \/ ReadShort \/ ReadLost
  BY <1>4 DEF ReadBack, ReadShort, ReadLost, burn_vars
<1>5. CASE RebootIntoSloader \/ StartTransfer
  BY <1>5 DEF RebootIntoSloader, StartTransfer, burn_vars
<1>6. CASE SendFrame \/ LoseFrame
  BY <1>6 DEF SendFrame, LoseFrame, MpegGoto, burn_vars
<1>7. CASE TakeFrame \/ RefuseFrame
  BY <1>7 DEF TakeFrame, RefuseFrame, Answer, MpegGoto, MpegDone
<1>8. CASE MpegError \/ MpegReturn \/ FallSilent
  BY <1>8 DEF MpegError, MpegReturn, FallSilent, burn_vars
<1> QED BY <1>1, <1>2, <1>3, <1>4, <1>5, <1>6, <1>7, <1>8 DEF MpegStep, MpegFails

LEMMA MpegKeeps == BInv /\ Mpeg => BInv'
<1> SUFFICES ASSUME BInv, Mpeg PROVE BInv'
  OBVIOUS
<1>1. /\ pc = "mpeg" /\ pc' = pc /\ mcu_pc = "off" /\ ~mcu_touched
      /\ UNCHANGED <<mcu_pc, mcu_touched, mcu_ret, screen, ending>>
  BY DEF Mpeg, BInv, McuTouched, MpegTouched, main_vars, run_vars, mcu_vars
<1>2. DecoderKept'
  BY DecoderStep DEF Mpeg, BInv, MpegTouched, DecoderKept
<1> QED BY <1>1, <1>2 DEF BInv, McuTouched, MpegTouched, DecoderKept,
           NoResultYet, BurntMcuResets, FailureTouchesNothing, Burning

LEMMA McuKeeps == BInv /\ Mcu => BInv'
<1> SUFFICES ASSUME BInv, Mcu PROVE BInv'
  OBVIOUS
<1>1. /\ pc = "mpeg" /\ pc' = pc /\ mpeg_pc = "done"
      /\ UNCHANGED <<mpeg_pc, mpeg_touched, mpeg_ret, screen, ending>>
  BY DEF Mcu, main_vars, run_vars, mpeg_vars
<1>2. McuTouched'
  <2> USE <1>1 DEF BInv, McuTouched, Burning
  <2>1. CASE McuBegin
    BY <2>1 DEF McuBegin, McuDone
  <2>2. CASE McuOpen
    BY <2>2 DEF McuOpen, McuDone
  <2>3. CASE McuWrite \/ McuFails
    BY <2>3 DEF McuWrite, McuFails, McuWriteDamaged, McuWriteFails, McuSumFails
  <2>4. CASE McuSum
    BY <2>4 DEF McuSum, NextChunk, McuDone
  <2>5. CASE McuRestart
    BY <2>5 DEF McuRestart
  <2>6. CASE McuReturn
    BY <2>6 DEF McuReturn
  <2> QED BY <2>1, <2>2, <2>3, <2>4, <2>5, <2>6 DEF Mcu, McuStep
<1> QED BY <1>1, <1>2 DEF BInv, MpegTouched, NoResultYet, BurntMcuResets,
           FailureTouchesNothing, Burning

LEMMA VerdictKeeps == BInv /\ Verdict => BInv'
<1> SUFFICES ASSUME BInv, Verdict PROVE BInv'
  OBVIOUS
<1>1. McuTouched' /\ MpegTouched' /\ NoResultYet'
  BY DEF BInv, Verdict, MainOnly, mcu_vars, mpeg_vars, McuTouched, MpegTouched,
         NoResultYet, Burning
<1>2. BurntMcuResets' /\ FailureTouchesNothing'
  BY DEF BInv, Verdict, MainOnly, mcu_vars, mpeg_vars, McuTouched, MpegTouched,
         BurntMcuResets, FailureTouchesNothing, Burning
<1> QED BY <1>1, <1>2 DEF BInv

LEMMA BurnStep == BInv /\ [Next]_vars => BInv'
<1> SUFFICES ASSUME BInv, [Next]_vars PROVE BInv'
  OBVIOUS
<1>1. CASE GetArgs \/ Command \/ FsErase \/ FsEraseCache \/ FsRestore
  BY <1>1, BurnStays DEF GetArgs, Command, FsErase, FsEraseCache, FsRestore,
     Burning
<1>2. CASE OtaBegin \/ OtaEnd \/ CardBegin \/ CardEnd
  BY <1>2, BurnStays DEF OtaBegin, OtaEnd, CardBegin, CardEnd, InstallBegin,
     InstallEnd, Burning
<1>3. CASE Dispatch
  BY <1>3, BurnStays, EndsUnburnt DEF Dispatch, Burning
<1>4. CASE CleanData \/ RecBegin \/ RecEnd
  BY <1>4, BurnStays DEF CleanData, RecBegin, RecEnd, run_vars, Burning
<1>5. CASE CleanCache \/ RecFlag
  BY <1>5, EndsUnburnt DEF CleanCache, RecFlag, Burning
<1>6. CASE CardPackage \/ CardErase \/ UpdateEnd
  BY <1>6, BurnStays DEF CardPackage, CardErase, UpdateEnd, run_vars, Burning
<1>7. CASE Mpeg \/ Mcu \/ Verdict
  BY <1>7, MpegKeeps, McuKeeps, VerdictKeeps
<1>8. CASE Crash \/ Again \/ MainSystem \/ Respawn
  BY <1>8, StartUnburnt DEF Crash, Again, MainSystem, Respawn, PowerUp
<1>9. CASE UNCHANGED vars
  BY <1>9 DEF vars, main_vars, run_vars, mcu_vars, mpeg_vars, BInv, McuTouched,
     MpegTouched, NoResultYet, BurntMcuResets, FailureTouchesNothing
<1> QED BY <1>1, <1>2, <1>3, <1>4, <1>5, <1>6, <1>7, <1>8, <1>9 DEF Next, Run

LEMMA BurnInvariance == Spec => []BInv
BY BurnInit, BurnStep, PTL DEF Spec

(* A run that burnt the MCU resets the CPU through it, never by a plain     *)
(* reboot.                                                                  *)
THEOREM BurntMcuIsReset == Spec => []BurntMcuResets
BY BurnInvariance, PTL DEF BInv

(* The failure screen is shown only by a run that touched no firmware. *)
THEOREM FailureIsClean == Spec => []FailureTouchesNothing
BY BurnInvariance, PTL DEF BInv
-----------------------------------------------------------------------------
(* From CardErase to the installation /data is erased or its format failed; *)
(* and once the card's package is begun that does not change until the main *)
(* system runs.                                                             *)
ErasedBefore ==
    /\ pc \in {"card", "card_run"} => data # "user"
    /\ DataErasedFirst

(* The package of the card is never installed beside user data that a       *)
(* working format would have erased, wherever the power is lost.            *)
THEOREM ErasedBeforeInstall == Spec => []DataErasedFirst
<1>1. Init => ErasedBefore
  BY DEF Init, RunIdle, ErasedBefore, DataErasedFirst
<1>2. ErasedBefore /\ [Next]_vars => ErasedBefore'
  <2> SUFFICES ASSUME ErasedBefore, [Next]_vars PROVE ErasedBefore'
    OBVIOUS
  <2> USE DEF ErasedBefore, DataErasedFirst
  <2>1. CASE FsErase \/ CleanData \/ CardErase
    BY <2>1 DEF FsErase, CleanData, CardErase, EraseData, Formatted, NotFormatted
  <2>2. CASE FsRestore
    BY <2>2 DEF FsRestore, hist_vars
  <2>3. CASE CardBegin \/ CardEnd \/ OtaBegin \/ OtaEnd
    BY <2>3 DEF CardBegin, CardEnd, OtaBegin, OtaEnd, InstallBegin, InstallEnd,
       disk_vars, hist_vars
  <2>4. CASE GetArgs \/ Command \/ FsEraseCache \/ Dispatch \/ CleanCache
    BY <2>4 DEF GetArgs, Command, FsEraseCache, Dispatch, CleanCache, disk_vars,
       hist_vars
  <2>5. CASE RecBegin \/ RecEnd \/ RecFlag
    BY <2>5 DEF RecBegin, RecEnd, RecFlag, hist_vars
  <2>6. CASE Mpeg \/ Mcu
    BY <2>6 DEF Mpeg, Mcu, main_vars, disk_vars, hist_vars
  <2>7. CASE CardPackage \/ UpdateEnd \/ Verdict
    BY <2>7 DEF CardPackage, UpdateEnd, Verdict, disk_vars, hist_vars
  <2>8. CASE Crash \/ Again \/ Respawn
    BY <2>8 DEF Crash, Again, Respawn, PowerUp, Start, disk_vars, hist_vars
  <2>9. CASE MainSystem
    BY <2>9 DEF MainSystem, PowerUp, Start
  <2>10. CASE UNCHANGED vars
    BY <2>10 DEF vars, main_vars, disk_vars, hist_vars
  <2> QED BY <2>1, <2>2, <2>3, <2>4, <2>5, <2>6, <2>7, <2>8, <2>9, <2>10
          DEF Next, Run
<1>3. ErasedBefore => DataErasedFirst
  BY DEF ErasedBefore
<1> QED BY <1>1, <1>2, <1>3, PTL DEF Spec
=============================================================================
