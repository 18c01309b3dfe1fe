-------------------------------- MODULE Ipod --------------------------------
(* libipod/ipod.cpp: the HAL of an iPod on a UART.  A frame is 0xFF 0x55    *)
(* length lingo command parameters checksum, and length does not count the  *)
(* checksum.  check_full_command waits for the checksum, but leaves it in   *)
(* the buffer when it cuts the frame out.                                   *)
EXTENDS SerialReader

CONSTANTS General,          \* GENERAL_LINGO_TYPE
          Extended,         \* EXTENDE_INTERFACE_MODE_TYPE
          GeneralTypes,     \* the commands of General that are reported
          ExtendedTypes,    \* those of Extended
          ChangeType,       \* of them, EIM_PLAYSTATUS_CHANGENOTIFICATION
          ChangeKinds       \* the kinds of change that are reported

(* what the iPod sends: HEAD bytes, the length, as many bytes as it says    *)
(* and a checksum, or a length of 0 and a large packet                      *)
ASSUME FrameAssumption ==
    \A f \in Frames : /\ Len(f) >= 3 /\ f[1] = HeadOne /\ f[2] = HeadTwo
                      /\ f[3] # 0 => Len(f) = f[3] + 4

(* the commands of the protocol are numbers *)
ASSUME TypesAssumption == GeneralTypes \cup ExtendedTypes \subseteq Nat

(* mutant: the checksum is not waited for *)
PartialShort(h) ==
    \/ tty_buffer_pos - h \in {2, 3}
    \/ LengthAt(h) # 0 /\ LengthAt(h) > LeftBytes(h)

(* mutant: the length is taken for a number of 16-bit words *)
PartialWords(h) ==
    \/ tty_buffer_pos - h \in {2, 3}
    \/ LengthAt(h) # 0 /\ 2 * LengthAt(h) + 1 > LeftBytes(h)

(* the length, one of the length bytes behind it or the checksum has not    *)
(* arrived                                                                  *)
Partial(h) ==
    \/ tty_buffer_pos - h \in {2, 3}
    \/ LengthAt(h) # 0 /\ LengthAt(h) + 1 > LeftBytes(h)

HoldPartial(h) == FrameAt(h) /\ Partial(h) /\ KeepFrom(h)

(* length 0 announces the large packet format: nothing is consumed *)
LargePacket(h) ==
    /\ FrameAt(h) /\ ~Partial(h) /\ LengthAt(h) = 0
    /\ rpc' = "select"
    /\ UNCHANGED <<tty_buffer, tty_buffer_pos, p_start, search_byte, retry_times, qvars, line>>

(* the length byte, length bytes and the checksum *)
CommandAt(h) == [k \in 1 .. LengthAt(h) + 2 |-> tty_buffer[h + 1 + k]]

(* command[k] of the code; what is behind the frame is zero *)
At(cmd, k) == IF k + 1 <= Len(cmd) THEN cmd[k + 1] ELSE 0

(* a value that is no report type: what the uninitialized one may hold *)
NoType == ByteMod * ByteMod

(* the 16-bit command of the extended interface *)
Wide(cmd, k) == ByteMod * At(cmd, k) + At(cmd, k + 1)

(* parse_command: the report types it may give the notification, none when  *)
(* it returns.  A wrong checksum is only logged.  The type of a notification *)
(* of any other lingo is not initialized.                                   *)
ReportedTypes(cmd) ==
    CASE At(cmd, 1) = General  -> {At(cmd, 2)} \cap GeneralTypes
      [] At(cmd, 1) = Extended ->
            IF Wide(cmd, 2) = ChangeType /\ At(cmd, 4) \notin ChangeKinds THEN {}
            ELSE {Wide(cmd, 2)} \cap ExtendedTypes
      [] OTHER -> GeneralTypes \cup ExtendedTypes \cup {NoType}

parse_command(cmd) ==
    \/ \E t \in ReportedTypes(cmd) : Q!Push(<<t>> \o cmd)
    \/ ReportedTypes(cmd) = {} /\ UNCHANGED qvars

TakeFrame(h) ==
    /\ FrameAt(h) /\ ~Partial(h) /\ LengthAt(h) # 0
    /\ parse_command(CommandAt(h))
    /\ CutFrame(h)

ReaderStep ==
    \/ \E n \in 1 .. MaxRead : ReadBytes(n)
    \/ NoHead
    \/ \E h \in Index : HeadLast(h) \/ SearchNext(h) \/ HoldPartial(h) \/ LargePacket(h) \/ TakeFrame(h)

Next ==
    \/ ReaderStep \/ ReadFails \/ GetNotification
    \/ \E f \in Frames : DeviceSends(f)
    \/ \E b \in {0, HeadOne} : LineNoise(b)

Spec == Init /\ [][Next]_vars
-----------------------------------------------------------------------------
(* the command in a frame, as parse_command gets it *)
CommandOf(f) == SubSeq(f, 3, Len(f))
Reported(f) == ReportedTypes(CommandOf(f)) # {}

(* notification n reports frame f *)
Reports(n, f) == Tail(n) = CommandOf(f) /\ Head(n) \in ReportedTypes(CommandOf(f))

Picks == {pick \in [1 .. Len(got) -> 1 .. Len(sent)] :
             /\ InOrder(pick)
             /\ \A i \in 1 .. Len(got) : Reports(got[i], sent[pick[i]].frame)}

(* a frame in the large packet format *)
Large(f) == f[3] = 0
LargeSent == \E j \in 1 .. Len(sent) : Large(sent[j].frame)

(* the head of a large packet, wherever it comes from *)
LargeCarried ==
    \E i \in 1 .. Len(carried) - 2 :
        carried[i] = HeadOne /\ carried[i + 1] = HeadTwo /\ carried[i + 2] = 0

(* Nothing was sent that the parser could take for a large packet: the line *)
(* carried no head of one, or it carried small packets and nothing else,    *)
(* whatever their data looks like.                                          *)
NoLarge == ~LargeCarried \/ (noise = 0 /\ ~LargeSent)

(* However read cuts the stream, although every frame leaves its checksum   *)
(* in the buffer, the notifications are those of frames that were sent,     *)
(* never made up, duplicated or swapped: short of a large packet, as long   *)
(* as no stray byte comes in, and with stray bytes as long as the data      *)
(* holds no HEAD bytes.  Of the general and the extended lingo only the     *)
(* types and kinds of change that are to be reported are; a packet of any   *)
(* other lingo is reported too, under whatever type.                        *)
FramesOnce == NoLarge /\ (noise = 0 \/ HeadsApart) => Picks # {}

(* Without stray bytes and large packets no frame is lost either: once      *)
(* every byte has been read, all that is to be reported has been, and no    *)
(* more than a checksum is left.                                            *)
NoneMissed ==
    noise = 0 /\ ~LargeSent =>
        \E pick \in Picks :
            rx = <<>> /\ rpc = "select" =>
                /\ tty_buffer_pos <= 1
                /\ \A j \in 1 .. Len(sent) : Reported(sent[j].frame) =>
                      \E i \in 1 .. Len(got) : pick[i] = j

(* Whatever the line carried short of a large packet, a notification is a   *)
(* stretch of it behind two HEAD bytes and as long as its length byte and   *)
(* the checksum say, and lies behind all that earlier ones were made of,    *)
(* but for the checksum, which may be taken for a HEAD byte.                *)
NothingMadeUp ==
    [][NoLarge' =>
       /\ Consumed' >= Consumed
       /\ Len(got') > Len(got) =>
            LET n == Tail(got'[Len(got')])
            IN  /\ n[1] = Len(n) - 2
                /\ \E o \in Consumed .. Consumed' :
                      /\ o + 1 + Len(n) = Consumed'
                      /\ SubSeq(carried, o + 1, Consumed' + 1) = <<HeadOne, HeadTwo>> \o n]_vars

(* check_full_command leaves no more than a part of one frame behind, so    *)
(* the next read fits the buffer, as long as there is no large packet.      *)
BoundedBuffer == NoLarge => BufferBound
=============================================================================
