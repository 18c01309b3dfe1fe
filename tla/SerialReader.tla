---------------------------- MODULE SerialReader ----------------------------
(* The read thread that libmpeg/mpeg.cpp and libipod/ipod.cpp share: bytes  *)
(* from the UART are collected in tty_buffer, a frame begins with two HEAD  *)
(* bytes and a length, and what lies before it is skipped.  How much of a   *)
(* frame must be there and what is reported differs: Mpeg and Ipod say.     *)
(* The whole of check_full_command is private to the thread but for the     *)
(* push, so a turn of its loop is one step.                                 *)
EXTENDS Integers, Sequences

CONSTANTS ByteMod,          \* 2^8 in the code
          HeadOne, HeadTwo, \* XXX_PROTOCAL_FRAME_START_BYTE_ONE, _TWO
          MaxBuffer,        \* MAX_BUFFER_STRING, 512
          Slack,            \* the extra bytes behind it, 16
          MaxRead,          \* MAX_READ_BYTE_ONCE, 256
          MaxRetryTimes,    \* MAX_RETRY_TIMES, 3
          Frames,           \* what the device sends: sequences of bytes
          MaxNoise          \* bound: stray bytes on the line

Byte == 0 .. ByteMod - 1
Index == 0 .. MaxBuffer + Slack - 1

(* A held frame and a full read fit the buffer with its slack. *)
ASSUME SerialAssumption ==
    /\ ByteMod \in Nat /\ MaxBuffer \in Nat /\ Slack \in Nat /\ MaxRead \in Nat
    /\ MaxRetryTimes \in Nat /\ MaxNoise \in Nat
    /\ {HeadOne, HeadTwo} \subseteq Byte /\ HeadOne \notin {0, HeadTwo}
    /\ MaxRead + ByteMod + 2 <= MaxBuffer + Slack
    /\ Frames \subseteq Seq(Byte)

VARIABLES tty_buffer, tty_buffer_pos,
          p_start, search_byte,     \* the locals of check_full_command
          rpc,                      \* where the read thread is
          retry_times,              \* failed reads of the read thread
          queue, delivered,         \* the notification queue
          rx,                       \* bytes on their way from the device
          carried,                  \* history: every byte the line carried
          sent, noise               \* history: frames sent and where each is in
                                    \* carried, number of stray bytes

qvars == <<queue, delivered>>
line == <<rx, carried, sent, noise>>
vars == <<tty_buffer, tty_buffer_pos, p_start, search_byte, rpc, retry_times, qvars, line>>

Q == INSTANCE NotifyQueue WITH Notification <- Seq(Nat)

(* xxx_open *)
Init ==
    /\ tty_buffer = [i \in Index |-> 0] /\ tty_buffer_pos = 0
    /\ p_start = 0 /\ search_byte = 0
    /\ rpc = "select" /\ retry_times = 0
    /\ Q!QInit
    /\ rx = <<>> /\ carried = <<>> /\ sent = <<>> /\ noise = 0
-----------------------------------------------------------------------------
(* read returns n bytes, which are appended; check_full_command begins *)
ReadBytes(n) ==
    /\ rpc = "select" /\ n <= Len(rx)
    /\ tty_buffer' = [i \in Index |-> IF i \in tty_buffer_pos .. tty_buffer_pos + n - 1
                                        THEN rx[i - tty_buffer_pos + 1] ELSE tty_buffer[i]]
    /\ tty_buffer_pos' = tty_buffer_pos + n
    /\ p_start' = 0 /\ search_byte' = tty_buffer_pos + n
    /\ rx' = SubSeq(rx, n + 1, Len(rx))
    /\ rpc' = "head"
    /\ UNCHANGED <<retry_times, qvars, carried, sent, noise>>

(* mutant: the thread never gives up *)
ReadFailsForEver ==
    /\ rpc = "select"
    /\ retry_times' = retry_times + 1
    /\ UNCHANGED <<tty_buffer, tty_buffer_pos, p_start, search_byte, rpc, qvars, line>>

(* read fails; retry_times is never reset *)
ReadFails ==
    /\ rpc = "select"
    /\ retry_times' = retry_times + 1
    /\ rpc' = IF retry_times' > MaxRetryTimes THEN "exit" ELSE "select"
    /\ UNCHANGED <<tty_buffer, tty_buffer_pos, p_start, search_byte, qvars, line>>

(* memchr from p_start: where the first HEAD byte is found *)
Found == {i \in p_start .. p_start + search_byte - 1 : tty_buffer[i] = HeadOne}
IsHead(h) == h \in Found /\ \A j \in Found : h <= j

(* no HEAD: whatever is buffered is dropped *)
NoHead ==
    /\ rpc = "head" /\ Found = {}
    /\ tty_buffer_pos' = 0 /\ rpc' = "select"
    /\ UNCHANGED <<tty_buffer, p_start, search_byte, retry_times, qvars, line>>

(* mutant: what lies before h stays in front *)
KeepFromUnmoved(h) ==
    /\ tty_buffer_pos' = tty_buffer_pos - h
    /\ rpc' = "select"
    /\ UNCHANGED <<tty_buffer, p_start, search_byte, retry_times, qvars, line>>

(* the bytes from h on are moved to the front, those behind stay; return *)
KeepFrom(h) ==
    /\ tty_buffer' = [i \in Index |-> IF i < tty_buffer_pos - h THEN tty_buffer[h + i]
                                      ELSE tty_buffer[i]]
    /\ tty_buffer_pos' = tty_buffer_pos - h
    /\ rpc' = "select"
    /\ UNCHANGED <<p_start, search_byte, retry_times, qvars, line>>

(* mutant: a first HEAD byte at the end is dropped *)
HeadLastDropped(h) ==
    /\ rpc = "head" /\ IsHead(h) /\ h + 1 = tty_buffer_pos
    /\ tty_buffer_pos' = 0 /\ rpc' = "select"
    /\ UNCHANGED <<tty_buffer, p_start, search_byte, retry_times, qvars, line>>

(* the first HEAD byte is the last valid byte: "So if later we have 0xB4 be *)
(* copy into the buffer, we won't miss this command."                       *)
HeadLast(h) ==
    /\ rpc = "head" /\ IsHead(h) /\ h + 1 = tty_buffer_pos
    /\ KeepFrom(h)

(* both HEAD bytes are at h *)
FrameAt(h) == rpc = "head" /\ IsHead(h) /\ h + 1 # tty_buffer_pos /\ tty_buffer[h + 1] = HeadTwo

(* a first HEAD byte alone: the search goes on behind it *)
SearchNext(h) ==
    /\ rpc = "head" /\ IsHead(h) /\ h + 1 # tty_buffer_pos /\ tty_buffer[h + 1] # HeadTwo
    /\ search_byte' = tty_buffer_pos - (h + 1) /\ p_start' = h + 1
    /\ UNCHANGED <<tty_buffer, tty_buffer_pos, rpc, retry_times, qvars, line>>

(* length and left_bytes of the frame at h *)
LengthAt(h) == tty_buffer[h + 2]
LeftBytes(h) == tty_buffer_pos - (h + 3)

(* mutant: the rest is moved from one byte too early *)
CutFrameEarly(h) ==
    LET rest == LeftBytes(h) - LengthAt(h)
    IN  /\ tty_buffer' = [i \in Index |-> IF i < rest THEN tty_buffer[h + 2 + LengthAt(h) + i]
                                          ELSE 0]
        /\ tty_buffer_pos' = rest
        /\ rpc' = IF rest = 0 THEN "select" ELSE "head"
        /\ UNCHANGED <<p_start, search_byte, retry_times, line>>

(* The HEAD bytes, the length and length bytes behind it are cut out, the   *)
(* rest is moved to the front and zeroed behind; the search goes on while   *)
(* bytes are left, from the p_start and for the search_byte of before.      *)
CutFrame(h) ==
    LET rest == LeftBytes(h) - LengthAt(h)
    IN  /\ tty_buffer' = [i \in Index |-> IF i < rest THEN tty_buffer[h + 3 + LengthAt(h) + i]
                                          ELSE 0]
        /\ tty_buffer_pos' = rest
        /\ rpc' = IF rest = 0 THEN "select" ELSE "head"
        /\ UNCHANGED <<p_start, search_byte, retry_times, line>>

(* xxx_get_notification *)
GetNotification ==
    /\ Q!Pop
    /\ UNCHANGED <<tty_buffer, tty_buffer_pos, p_start, search_byte, rpc, retry_times, line>>

(* the device sends a frame; between frames a stray byte may come in *)
DeviceSends(f) ==
    /\ rx' = rx \o f /\ carried' = carried \o f
    /\ sent' = Append(sent, [frame |-> f, at |-> Len(carried)])
    /\ UNCHANGED <<tty_buffer, tty_buffer_pos, p_start, search_byte, rpc, retry_times, qvars, noise>>

LineNoise(b) ==
    /\ noise < MaxNoise
    /\ rx' = Append(rx, b) /\ carried' = Append(carried, b) /\ noise' = noise + 1
    /\ UNCHANGED <<tty_buffer, tty_buffer_pos, p_start, search_byte, rpc, retry_times, qvars, sent>>
-----------------------------------------------------------------------------
(* Every variable stays within its type. *)
TypeOK ==
    /\ tty_buffer \in [Index -> Byte]
    /\ tty_buffer_pos \in Nat /\ p_start \in Nat /\ search_byte \in Nat
    /\ rpc \in {"select", "head", "exit"}
    /\ retry_times \in 0 .. MaxRetryTimes + 1
    /\ queue \in Seq(Seq(Nat)) /\ delivered \in Seq(Seq(Nat))
    /\ rx \in Seq(Byte) /\ carried \in Seq(Byte)
    /\ sent \in Seq([frame : Seq(Byte), at : Nat]) /\ noise \in 0 .. MaxNoise

(* How many of the bytes the line carried have left the buffer. *)
Consumed == Len(carried) - Len(rx) - tty_buffer_pos

(* what has been reported so far *)
got == delivered \o queue

(* pick names for each notification the frame it reports, in the order in   *)
(* which they were sent, none twice                                         *)
InOrder(pick) == \A i, j \in DOMAIN pick : i < j => pick[i] < pick[j]

(* The HEAD bytes follow each other on the line only where a frame begins:  *)
(* not in the data of one, nor where a stray byte stands before HeadTwo.    *)
HeadsApart ==
    \A i \in 1 .. Len(carried) - 1 :
        carried[i] = HeadOne /\ carried[i + 1] = HeadTwo =>
            \E j \in 1 .. Len(sent) : sent[j].at + 1 = i

(* Everything read from the line is stored inside tty_buffer, but not       *)
(* without the slack, which the largest frame held and a full read behind   *)
(* it do use (NoOverflow); between reads no more than one frame is held.    *)
BufferBound ==
    /\ tty_buffer_pos <= MaxBuffer + Slack
    /\ rpc = "select" => tty_buffer_pos <= ByteMod + 2

(* "as we have search all the buffer and do not found any head bytes, it's  *)
(* ok just return back to the start position in the main buffer": the       *)
(* buffer is dropped only when it holds no HEAD byte.                       *)
DropsNoHead ==
    rpc = "head" /\ Found = {} =>
        \A i \in 0 .. tty_buffer_pos - 1 : tty_buffer[i] # HeadOne

(* "the extra 16 bytes should never be used", and "such kind of case won't  *)
(* be happen in fact" of tty_buffer_pos + read_bytes > MAX_BUFFER_STRING:   *)
(* what has been read fits the buffer without its slack.                    *)
NoOverflow == tty_buffer_pos <= MaxBuffer
=============================================================================
