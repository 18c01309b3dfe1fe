------------------------------ MODULE Recovery ------------------------------
(* main of the recovery program, bootable/recovery/recovery.c, composed     *)
(* with the two burning programs it calls.  A step is a stretch of main     *)
(* after which a loss of power leaves something new behind; the power may   *)
(* go at any step, and the program then starts again from the bootloader    *)
(* control block (BCB), the command file and the mode kept by the MCU.      *)
EXTENDS McuBurn, MpegBurn

CONSTANTS Commands,         \* commands the main system may write
          Modes,            \* recovery modes it may ask for
          MaxRestarts       \* bound: losses of power and new requests

ASSUME RecoveryAssumption ==
    /\ Commands \subseteq {"none", "package", "wipe_data", "fs_on", "fs_off",
                           "fs_invalid"}
    /\ Modes \subseteq {"CLEAN", "UPDATE_RECOVERY", "UPDATE_SYSTEM", "OTHER"}
    /\ MaxRestarts \in Nat

VARIABLES
    bcb, command_file,      \* the command each holds; a BCB without: "none"
    mode,                   \* what RECOVERY_GET_VAL answers
    data,                   \* what /data holds: "user" data, user data that a
                            \* failed format "kept", "erased", "settings"
    sys,                    \* what was last written, in part or whole, to the
                            \* system partition: "old", "package" or "card"
    rec,                    \* the recovery partition: "whole" or "partial"
    pc,                     \* where main is
    args,                   \* the arguments, while main looks at them
    status,                 \* of the package, like the variable of main
    screen, ending,         \* result shown; how the run ended
    restarts,
    taken                   \* history: command of the first run since the main
                            \* system ran; "lost" when a read or write of
                            \* get_args failed since then

disk_vars == <<bcb, command_file, mode, data, sys, rec>>
run_vars == <<args, status, screen, ending>>
hist_vars == <<restarts, taken>>
main_vars == <<disk_vars, run_vars, hist_vars, pc>>
vars == <<main_vars, mcu_vars, mpeg_vars>>

RunIdle ==
    /\ pc = "get_args" /\ args = "none" /\ status = "SUCCESS"
    /\ screen = "none" /\ ending = "none"

(* the main system asks for the first run *)
Init ==
    /\ bcb = "none" /\ command_file \in Commands /\ mode \in Modes
    /\ data = "user" /\ sys = "old" /\ rec = "whole"
    /\ RunIdle /\ McuInit /\ MpegInit
    /\ restarts = 0 /\ taken = "unknown"

(* main starts with its variables as declared *)
Start(l) ==
    /\ pc' = l /\ args' = "none" /\ status' = "SUCCESS"
    /\ screen' = "none" /\ ending' = "none"

(* everything volatile starts again *)
PowerUp ==
    /\ Start(IF rec = "partial" THEN "bricked" ELSE "get_args")
    /\ McuPowerUp /\ MpegStart
-----------------------------------------------------------------------------
(* a step of main that leaves the burning programs alone *)
MainOnly == UNCHANGED <<mcu_vars, mpeg_vars>>

(* mutant: the command is not copied to the BCB *)
GetArgsNoBcb ==
    /\ pc = "get_args"
    /\ LET c == IF bcb # "none" THEN bcb ELSE command_file IN
       args' = c /\ taken' = IF taken = "unknown" THEN c ELSE taken
    /\ pc' = "command"
    /\ MainOnly
    /\ UNCHANGED <<disk_vars, status, screen, ending, restarts>>

(* get_args: the arguments come from the BCB, else from the command file,   *)
(* and are written back to the BCB.  The BCB may fail to be read, "leaving  *)
(* a zeroed structure", the file may not open, and the BCB may fail to be   *)
(* written; none of it is noticed.                                          *)
GetArgs ==
    /\ pc = "get_args" /\ pc' = "command"
    /\ \E boot \in {bcb, "none"}, fp \in {command_file, "none"} :
       LET c == IF boot # "none" THEN boot ELSE fp IN
       /\ args' = c /\ bcb' \in {c, bcb}
       /\ taken' = IF \/ boot # bcb \/ bcb' # c
                      \/ boot = "none" /\ fp # command_file
                   THEN "lost"
                   ELSE IF taken = "unknown" THEN c ELSE taken
    /\ MainOnly
    /\ UNCHANGED <<command_file, mode, data, sys, rec, status, screen,
                   ending, restarts>>

(* wipe_data and wipe_cache were set back to 0, so --wipe_data is "No       *)
(* command specified"; an invalid file system setting changes nothing.      *)
NoAction == {"none", "wipe_data", "fs_invalid"}

(* The branches of main on the arguments.  A file system                    *)
(* that is to be encrypted becomes a plain one when read_encrypted_fs_info  *)
(* fails: user data may hold the key or not, an erased volume does not.     *)
Command ==
    /\ pc = "command"
    /\ \/ args = "fs_on" /\ data \in {"user", "kept"} /\ pc' = "fs_on"
       \/ args \in {"fs_on", "fs_off"} /\ pc' = "fs_off"
       \/ args = "package" /\ pc' = "ota"
       \/ args \in NoAction /\ pc' = "mode"
    /\ status' = IF args \in NoAction THEN "ERROR" ELSE status
    /\ args' = "none"
    /\ MainOnly /\ UNCHANGED <<disk_vars, screen, ending, hist_vars>>

(* erase_volume("/data") *)
Formatted == data' = "erased"
NotFormatted == data' = IF data = "user" THEN "kept" ELSE data
EraseData == Formatted \/ NotFormatted

(* erase_volume("/data") for the change of the encrypted file system *)
FsErase ==
    /\ pc \in {"fs_on", "fs_off"}
    /\ \/ /\ Formatted /\ UNCHANGED status
          /\ pc' = IF pc = "fs_on" THEN "on_cache" ELSE "off_cache"
       \/ NotFormatted /\ status' = "ERROR" /\ pc' = "mode"
    /\ MainOnly
    /\ UNCHANGED <<bcb, command_file, mode, sys, rec, args, screen,
                   ending, hist_vars>>

(* erase_volume("/cache"), which also takes the command file away *)
FsEraseCache ==
    /\ pc \in {"on_cache", "off_cache"}
    /\ \/ /\ command_file' = "none" /\ UNCHANGED status
          /\ pc' = IF pc = "on_cache" THEN "restore" ELSE "mode"
       \/ status' = "ERROR" /\ pc' = "mode" /\ UNCHANGED command_file
    /\ MainOnly
    /\ UNCHANGED <<bcb, mode, data, sys, rec, args, screen, ending,
                   hist_vars>>

(* restore_encrypted_fs_info *)
FsRestore ==
    /\ pc = "restore" /\ pc' = "mode"
    /\ \/ data' = "settings" /\ UNCHANGED status
       \/ status' = "ERROR" /\ UNCHANGED data
    /\ MainOnly
    /\ UNCHANGED <<bcb, command_file, mode, sys, rec, args, screen,
                   ending, hist_vars>>
-----------------------------------------------------------------------------
(* install_package: nothing is written when the package cannot be opened or *)
(* has no updater (CORRUPT), or the updater cannot be copied (ERROR); else  *)
(* the updater runs, ...                                                    *)
InstallBegin(from, to, package) ==
    /\ pc = from
    /\ \/ pc' = to /\ sys' = package /\ UNCHANGED status
       \/ /\ status' \in {"CORRUPT", "ERROR"} /\ UNCHANGED sys
          /\ pc' = IF from = "ota" THEN "mode" ELSE "update_end"

(* ... and may fail *)
InstallEnd(from, to) ==
    /\ pc = from /\ pc' = to
    /\ status' \in {"SUCCESS", "ERROR"}

(* main: install_package(update_package) *)
OtaBegin ==
    /\ InstallBegin("ota", "ota_run", "package")
    /\ MainOnly
    /\ UNCHANGED <<bcb, command_file, mode, data, rec, args, screen,
                   ending, hist_vars>>

OtaEnd ==
    /\ InstallEnd("ota_run", "mode")
    /\ MainOnly
    /\ UNCHANGED <<disk_vars, args, screen, ending, hist_vars>>

(* RECOVERY_GET_VAL and the branches on it; /dev/recovery may not open, and *)
(* main then returns.  With UPDATE_SYSTEM the configuration files of the    *)
(* card, if any, are copied to /firmware.                                   *)
Dispatch ==
    /\ pc = "mode"
    /\ \/ mode = "CLEAN" /\ pc' = "clean" /\ UNCHANGED ending
       \/ mode = "UPDATE_RECOVERY" /\ pc' = "rec" /\ UNCHANGED ending
       \/ mode = "UPDATE_SYSTEM" /\ pc' = "mpeg" /\ UNCHANGED ending
       \/ pc' = "ended" /\ ending' = "exit"
    /\ MainOnly
    /\ UNCHANGED <<disk_vars, args, status, screen, hist_vars>>

(* clean_boot: /data, then /cache, then the copy of /firmware, and reboot *)
CleanData ==
    /\ pc = "clean" /\ pc' = "clean_cache"
    /\ EraseData
    /\ MainOnly
    /\ UNCHANGED <<bcb, command_file, mode, sys, rec, run_vars, hist_vars>>

CleanCache ==
    /\ pc = "clean_cache" /\ pc' = "ended"
    /\ command_file' \in {"none", command_file}
    /\ ending' = "reboot"
    /\ MainOnly
    /\ UNCHANGED <<bcb, mode, data, sys, rec, args, status, screen,
                   hist_vars>>

(* burning_recovery_image: install_recovery writes over the partition the   *)
(* program was started from.  Nothing is written without a package that     *)
(* opens and holds bin/recovery.img.                                        *)
RecBegin ==
    /\ pc = "rec"
    /\ \/ pc' = "rec_flag" /\ UNCHANGED rec
       \/ pc' = "rec_run" /\ rec' = "partial"
    /\ MainOnly
    /\ UNCHANGED <<bcb, command_file, mode, data, sys, run_vars, hist_vars>>

(* the extraction may fail; burning_recovery_image goes on all the same *)
RecEnd ==
    /\ pc = "rec_run" /\ pc' = "rec_flag"
    /\ rec' \in {"whole", rec}
    /\ MainOnly
    /\ UNCHANGED <<bcb, command_file, mode, data, sys, run_vars, hist_vars>>

(* MCU_SET_UPDATE_FLAG 2, if the device opens, and reboot: the next start   *)
(* updates the system                                                       *)
RecFlag ==
    /\ pc = "rec_flag" /\ pc' = "ended"
    /\ \/ mode' = "UPDATE_SYSTEM" /\ ending' = "again"
       \/ ending' = "reboot" /\ UNCHANGED mode
    /\ MainOnly
    /\ UNCHANGED <<bcb, command_file, data, sys, rec, args, status,
                   screen, hist_vars>>
-----------------------------------------------------------------------------
(* mpeg_update, then mcu_update *)
Mpeg ==
    /\ pc = "mpeg" /\ mpeg_pc # "done"
    /\ MpegBegin \/ MpegStep
    /\ UNCHANGED <<main_vars, mcu_vars>>

Mcu ==
    /\ pc = "mpeg" /\ mpeg_pc = "done"
    /\ McuBegin \/ McuStep
    /\ UNCHANGED <<main_vars, mpeg_vars>>

(* `if (status == INSTALL_ERROR)': device_burn_data_if_exist begins *)
CardPackage ==
    /\ pc = "mpeg" /\ mcu_pc = "done"
    /\ \/ status = "ERROR" /\ pc' = "card_erase" /\ UNCHANGED status
       \/ status = "ERROR" /\ pc' = "verdict" /\ status' = "NOT_EXISTED"
       \/ status # "ERROR" /\ pc' = "verdict" /\ UNCHANGED status
    /\ MainOnly
    /\ UNCHANGED <<disk_vars, args, screen, ending, hist_vars>>

(* mutant: the package is installed before /data is erased *)
CardEraseLater ==
    /\ pc = "card_erase" /\ pc' = "card"
    /\ MainOnly
    /\ UNCHANGED <<disk_vars, run_vars, hist_vars>>

CardErase ==
    /\ pc = "card_erase" /\ pc' = "card"
    /\ EraseData
    /\ MainOnly
    /\ UNCHANGED <<bcb, command_file, mode, sys, rec, run_vars, hist_vars>>

CardBegin ==
    /\ InstallBegin("card", "card_run", "card")
    /\ MainOnly
    /\ UNCHANGED <<bcb, command_file, mode, data, rec, args, screen,
                   ending, hist_vars>>

CardEnd ==
    /\ InstallEnd("card_run", "update_end")
    /\ MainOnly
    /\ UNCHANGED <<disk_vars, args, screen, ending, hist_vars>>

(* `while (system_update_end == 0)': the progress thread counts to 50 *)
UpdateEnd ==
    /\ pc = "update_end" /\ pc' = "verdict"
    /\ MainOnly /\ UNCHANGED <<disk_vars, run_vars, hist_vars>>

(* mutant: the CPU is reset through the MCU when the package was installed *)
VerdictSystem ==
    /\ pc = "verdict" /\ pc' = "ended"
    /\ screen' = "success"
    /\ ending' = IF status = "SUCCESS" THEN "mcu_reset" ELSE "reboot"
    /\ MainOnly
    /\ UNCHANGED <<disk_vars, args, status, hist_vars>>

(* mutant: any failure is shown as a failure *)
VerdictAny ==
    /\ pc = "verdict" /\ pc' = "ended"
    /\ IF status # "SUCCESS" \/ mcu_ret # "SUCCESS" \/ mpeg_ret # "SUCCESS"
       THEN screen' = "failure" /\ ending' \in {"mcu_reset", "exit"}
       ELSE screen' = "success" /\ ending' \in {"mcu_reset", "exit"}
    /\ MainOnly
    /\ UNCHANGED <<disk_vars, args, status, hist_vars>>

(* The end of main: a failure only when every part failed and neither the   *)
(* key nor the radio configuration was on the card; the CPU is reset by the *)
(* MCU after a failure or a burnt MCU, and main returns when the MCU does   *)
(* not open                                                                 *)
Verdict ==
    /\ pc = "verdict" /\ pc' = "ended"
    /\ \E conf_ok \in BOOLEAN :
       LET failed == /\ status # "SUCCESS" /\ mcu_ret # "SUCCESS"
                     /\ mpeg_ret # "SUCCESS" /\ ~conf_ok
       IN /\ screen' = IF failed THEN "failure" ELSE "success"
          /\ ending' \in IF failed \/ mcu_ret = "SUCCESS"
                         THEN {"mcu_reset", "exit"} ELSE {"reboot"}
    /\ MainOnly
    /\ UNCHANGED <<disk_vars, args, status, hist_vars>>
-----------------------------------------------------------------------------
(* loss of power and a new start *)
Crash ==
    /\ pc \notin {"ended", "bricked"} /\ restarts < MaxRestarts
    /\ restarts' = restarts + 1
    /\ PowerUp
    /\ UNCHANGED <<disk_vars, taken>>

(* init.rc has the program as a service that is not `oneshot': when main    *)
(* returns or is killed, init starts it again, with no reset of any device  *)
Respawn ==
    /\ (pc = "ended" /\ ending = "exit") \/ "killed" \in {mcu_pc, mpeg_pc}
    /\ Start("get_args") /\ McuRespawn /\ MpegStart
    /\ UNCHANGED <<disk_vars, hist_vars>>

(* the reboot after the recovery image was burnt: recovery starts again *)
Again ==
    /\ pc = "ended" /\ ending = "again"
    /\ PowerUp
    /\ UNCHANGED <<disk_vars, hist_vars>>

(* the main system runs, makes new user data and asks for another run *)
MainSystem ==
    /\ pc = "ended" /\ ending \in {"reboot", "mcu_reset"}
    /\ restarts < MaxRestarts
    /\ \E c \in Commands, m \in Modes :
          /\ mode' = m
          /\ command_file' = IF c = "none" THEN command_file ELSE c
    /\ restarts' = restarts + 1 /\ taken' = "unknown"
    /\ data' = "user" /\ sys' = "old"
    /\ PowerUp
    /\ UNCHANGED <<bcb, rec>>

(* the program's own steps *)
Run ==
    \/ GetArgs \/ Command \/ FsErase \/ FsEraseCache \/ FsRestore
    \/ OtaBegin \/ OtaEnd \/ Dispatch \/ CleanData \/ CleanCache
    \/ RecBegin \/ RecEnd \/ RecFlag \/ Mpeg \/ Mcu \/ CardPackage
    \/ CardErase \/ CardBegin \/ CardEnd \/ UpdateEnd \/ Verdict \/ Again
    \/ Respawn

Next == Run \/ Crash \/ MainSystem

(* the recovery program runs as long as it can take a step *)
Spec == Init /\ [][Next]_vars /\ WF_vars(Run)
-----------------------------------------------------------------------------
TypeOK ==
    /\ McuTypeOK /\ MpegTypeOK
    /\ {bcb, command_file, args} \subseteq Commands \cup {"none"}
    /\ mode \in Modes \cup {"UPDATE_SYSTEM"}
    /\ data \in {"user", "kept", "erased", "settings"}
    /\ sys \in {"old", "package", "card"} /\ rec \in {"whole", "partial"}
    /\ taken \in Commands \cup {"none", "unknown", "lost"}
    /\ status \in {"SUCCESS", "ERROR", "NOT_EXISTED", "CORRUPT"}
    /\ screen \in {"none", "success", "failure"}
    /\ ending \in {"none", "reboot", "mcu_reset", "again", "exit"}

(* "after this, rebooting will restart the erase": until the main system    *)
(* runs again every run executes the command of the first one, wherever the *)
(* power was lost and even when the command file went with /cache - unless  *)
(* get_args could not read the BCB or the command file, or could not write  *)
(* the BCB.                                                                 *)
SameCommand == pc = "command" /\ taken # "lost" => args = taken

(* A failure is shown only when this run left both firmwares alone: neither *)
(* the MCU nor the decoder's flash took anything from it.  What an earlier  *)
(* run wrote before it was killed is not in the verdict.                    *)
FailureTouchesNothing ==
    screen = "failure" => ~mcu_touched /\ ~mpeg_touched

(* "while mcu is burning, the mcu need to restart and reset the main cpu":  *)
(* a run that sent the MCU a chunk does not end in a plain reboot.  A run   *)
(* that is killed ends in neither, and the next one may reboot plainly on   *)
(* the MCU it left half burnt.                                              *)
BurntMcuResets == ending = "reboot" => ~mcu_touched

(* The package of the card never meets the user's data of the old system:   *)
(* wherever the power is lost, /data was formatted before the first byte of *)
(* the system partition changed, or a format that failed kept the data.     *)
DataErasedFirst == sys = "card" => data # "user"

Stuck == silent \/ pc = "bricked"

DeviceFails == McuFails \/ MpegFails

(* Every run comes to its end, by a reboot, a return or a signal, unless it *)
(* waits for a decoder that fell silent, its partition was lost half        *)
(* written, or a device fails again and again for ever: mcu_update and      *)
(* send_sloader repeat a chunk or a word without a limit, transfer a frame  *)
(* (nothing else is repeated, or only three times), and once the device     *)
(* answers again late answers and lost restarts do not keep them going.     *)
RunEnds ==
    \/ []<>(pc = "ended" \/ "killed" \in {mcu_pc, mpeg_pc} \/ Stuck)
    \/ []<><<DeviceFails>>_vars

(* FACTORY RESET, steps 2 to 4: the command the main system wrote to the    *)
(* command file is what get_args takes and writes to the BCB.               *)
NewCommandTaken ==
    pc = "command" /\ taken # "lost" /\ command_file # "none"
        => args = command_file
=============================================================================
