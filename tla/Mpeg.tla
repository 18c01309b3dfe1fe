-------------------------------- MODULE Mpeg --------------------------------
(* libmpeg/mpeg.cpp: the HAL of the DVD/MPEG unit.  A frame is 0x4B 0xB4    *)
(* length command parameters checksum, and length counts the last three.    *)
EXTENDS SerialReader

CONSTANT ReportTypes        \* the commands parse_command does not return on

(* what the unit sends: HEAD bytes, the length, and as many bytes as it says *)
ASSUME FrameAssumption ==
    \A f \in Frames : /\ Len(f) >= 4 /\ f[1] = HeadOne /\ f[2] = HeadTwo
                      /\ Len(f) = f[3] + 3

(* mutant: the length is taken for a 16-bit word *)
PartialWide(h) ==
    \/ tty_buffer_pos - h \in {2, 3}
    \/ ByteMod * tty_buffer[h + 1] + LengthAt(h) > LeftBytes(h)

(* mutant: the last byte is not waited for *)
PartialEarly(h) ==
    \/ tty_buffer_pos - h \in {2, 3}
    \/ LengthAt(h) > LeftBytes(h) + 1

(* the length or one of the length bytes behind it has not arrived *)
Partial(h) ==
    \/ tty_buffer_pos - h \in {2, 3}
    \/ LengthAt(h) > LeftBytes(h)

HoldPartial(h) == FrameAt(h) /\ Partial(h) /\ KeepFrom(h)

(* what is copied into command: the length byte and length bytes more, and  *)
(* zero behind                                                              *)
CommandAt(h) == [k \in 1 .. LengthAt(h) + 1 |-> tty_buffer[h + 1 + k]]
CommandId(cmd) == IF Len(cmd) > 1 THEN cmd[2] ELSE 0

(* parse_command: a wrong checksum is only logged; the types that are not   *)
(* reported return, the fields of the others are those of the command       *)
parse_command(cmd) ==
    IF CommandId(cmd) \in ReportTypes THEN Q!Push(cmd) ELSE UNCHANGED qvars

TakeFrame(h) ==
    /\ FrameAt(h) /\ ~Partial(h)
    /\ parse_command(CommandAt(h))
    /\ CutFrame(h)

ReaderStep ==
    \/ \E n \in 1 .. MaxRead : ReadBytes(n)
    \/ NoHead
    \/ \E h \in Index : HeadLast(h) \/ SearchNext(h) \/ HoldPartial(h) \/ TakeFrame(h)

Next ==
    \/ ReaderStep \/ ReadFails \/ GetNotification
    \/ \E f \in Frames : DeviceSends(f)
    \/ \E b \in {0, HeadOne} : LineNoise(b)

Spec == Init /\ [][Next]_vars
-----------------------------------------------------------------------------
(* the command in a frame, as parse_command gets it *)
CommandOf(f) == SubSeq(f, 3, Len(f))
Reported(f) == CommandId(CommandOf(f)) \in ReportTypes

Picks == {pick \in [1 .. Len(got) -> 1 .. Len(sent)] :
             /\ InOrder(pick)
             /\ \A i \in 1 .. Len(got) : LET f == sent[pick[i]].frame
                                        IN  Reported(f) /\ got[i] = CommandOf(f)}

(* However read cuts the stream, the notifications are commands of frames   *)
(* that were sent, of reported types, never made up, duplicated or swapped: *)
(* as long as no stray byte comes in, whatever the data looks like, and     *)
(* with stray bytes as long as the data holds no HEAD bytes.  Otherwise the *)
(* search, which a stray HEAD byte sent past the head of a frame, may end   *)
(* in its data and report what lies there.                                  *)
FramesOnce == noise = 0 \/ HeadsApart => Picks # {}

(* Without stray bytes no frame is lost either, whatever its data looks     *)
(* like and wherever read cuts it: once every byte has been read, all that  *)
(* is to be reported has been, and the buffer is empty.                     *)
NoneMissed ==
    noise = 0 =>
        \E pick \in Picks :
            rx = <<>> /\ rpc = "select" =>
                /\ tty_buffer_pos = 0
                /\ \A j \in 1 .. Len(sent) : Reported(sent[j].frame) =>
                      \E i \in 1 .. Len(got) : pick[i] = j

(* Whatever the line carried, a notification is a stretch of it behind two  *)
(* HEAD bytes and as long as its length byte says, and lies behind all that *)
(* earlier ones were made of.                                               *)
NothingMadeUp ==
    [][/\ Consumed' >= Consumed
       /\ Len(got') > Len(got) =>
            LET n == got'[Len(got')]
            IN  /\ n[1] = Len(n) - 1
                /\ \E o \in Consumed .. Consumed' :
                      /\ o + 2 + Len(n) = Consumed'
                      /\ SubSeq(carried, o + 1, Consumed') = <<HeadOne, HeadTwo>> \o n]_vars
=============================================================================
