---------------------------- MODULE CanboxProofs ----------------------------
(* The canbox HAL, for every size of byte, buffer and read that satisfies   *)
(* CanboxAssumption and any number of senders: first the buffer of the read *)
(* thread, for any stream of bytes, then what becomes of the events the box *)
(* reports over a clean line.                                               *)
EXTENDS Canbox, SequenceTheorems, TLAPS

Scanning == rpc \in {"ack", "head", "answer"}

(* What a scan looks at fits the buffer; a thread that still reads has not  *)
(* used up its retries.                                                     *)
ScanBound == Scanning => search_byte <= ByteMod + 1 + MaxRead
RetryBound == rpc # "exit" => retry_times <= MaxRetryTimes

(* While the read thread answers, the frame it answers is all there but for *)
(* the checksum.                                                            *)
FrameThere == rpc = "answer" => \A h \in Index : IsHead(h) => ~Partial(h)

IInv == TypeOK /\ BufferBound /\ NoGhostBytes /\ ScanBound /\ RetryBound /\ FrameThere

(* The variables of the read thread's own state, without the line. *)
own == <<tty_buffer, tty_buffer_pos, search_byte, rpc, retry_times>>

LEMMA Sizes ==
  /\ ByteMod \in Nat /\ MaxRead \in Nat /\ MaxBuffer \in Nat /\ Slack \in Nat
  /\ MaxRetryTimes \in Nat
  /\ ByteMod > 0 /\ 0 \in Byte /\ HeadByte \in Byte /\ HeadByte # 0 /\ AckByte \in Byte
  /\ MaxRead + ByteMod + 1 <= MaxBuffer
  /\ Byte = 0 .. ByteMod - 1 /\ Index = 0 .. MaxBuffer + Slack - 1
BY CanboxAssumption DEF Byte, Index

LEMMA InitIInv == Init => IInv
<1> SUFFICES ASSUME Init PROVE IInv
  OBVIOUS
<1>1. noise \in BOOLEAN
  BY Zenon DEF Init
<1>2. BufferBound /\ NoGhostBytes /\ ScanBound /\ RetryBound /\ FrameThere
  BY Sizes DEF Init, BufferBound, NoGhostBytes, ScanBound, RetryBound, FrameThere, Scanning
<1>3. TypeOK
  BY Sizes, <1>1 DEF Init, TypeOK, WritePC, Threads
<1> QED BY <1>2, <1>3 DEF IInv

(* A step that leaves the read thread's own state alone keeps everything    *)
(* but the types, which are checked action by action.                       *)
LEMMA OwnUnchanged ==
  ASSUME IInv, UNCHANGED own
  PROVE  BufferBound' /\ NoGhostBytes' /\ ScanBound' /\ RetryBound' /\ FrameThere'
BY DEF IInv, own, BufferBound, NoGhostBytes, ScanBound, RetryBound, FrameThere, Scanning,
       IsHead, Found, Partial, LengthAt, LeftBytes

LEMMA CallWriteType ==
  ASSUME TypeOK, NEW t \in Threads, NEW b, CallWrite(t, b)
  PROVE  wpc' \in [Threads -> WritePC] /\ command_mutex' \in Threads \cup {NoThread}
BY DEF TypeOK, CallWrite, WritePC

(* The steps of canbox_write. *)
LEMMA WriteStepIInv ==
  ASSUME IInv, NEW t \in Threads, WriteStep(t)
  PROVE  IInv'
<1> USE DEF TypeOK, WritePC
<1>a. TypeOK
  BY DEF IInv
<1>1. CASE WriteLock(t)
  BY <1>a, <1>1, OwnUnchanged DEF WriteLock, own, buffer, world, IInv
<1>2. CASE Drain(t)
  <2>1. sem_command_count' \in Nat
    BY <1>a, <1>2 DEF Drain
  <2>2. wpc' \in [Threads -> WritePC]
    BY <1>a, <1>2 DEF Drain
  <2> QED BY <1>a, <1>2, <2>1, <2>2, OwnUnchanged DEF Drain, own, buffer, world, IInv
<1>3. CASE WriteBytes(t)
  <2>1. wpc' \in [Threads -> WritePC]
    BY <1>a, <1>3 DEF WriteBytes
  <2> QED BY <1>a, <1>3, <2>1, OwnUnchanged DEF WriteBytes, own, buffer, IInv
<1>b. ASSUME NEW r, NEW e, WaitReturns(t, r, e), sem_command_count' \in Nat
      PROVE  IInv'
  <2>1. wpc' \in [Threads -> WritePC]
    BY <1>a, <1>b DEF WaitReturns
  <2> QED BY <1>a, <1>b, <2>1, OwnUnchanged DEF WaitReturns, own, buffer, world, IInv
<1>4. CASE WaitAcked(t)
  BY <1>a, <1>b, <1>4 DEF WaitAcked
<1>5. CASE WaitInvalid(t)
  BY <1>a, <1>b, <1>5 DEF WaitInvalid
<1>6. CASE WaitBlocks(t)
  BY <1>a, <1>6, OwnUnchanged DEF WaitBlocks, own, buffer, world, IInv
<1>7. CASE WaitFails(t)
  BY <1>a, <1>b, <1>7 DEF WaitFails
<1>8. CASE WriteEnd(t)
  BY <1>a, <1>8, OwnUnchanged DEF WriteEnd, own, buffer, world, IInv
<1> QED BY <1>1, <1>2, <1>3, <1>4, <1>5, <1>6, <1>7, <1>8 DEF WriteStep

(* read appends at most MaxRead bytes to less than one frame. *)
LEMMA ReadBytesIInv ==
  ASSUME IInv, NEW n \in 1 .. MaxRead, ReadBytes(n)
  PROVE  IInv'
<1> USE Sizes
<1>1. /\ tty_buffer_pos \in Nat /\ tty_buffer_pos <= ByteMod + 1
      /\ rx \in Seq(Byte) /\ n \in Nat /\ n <= Len(rx) /\ n <= MaxRead
      /\ tty_buffer \in [Index -> Byte]
  BY DEF ReadBytes, IInv, TypeOK, BufferBound
<1>2. tty_buffer' \in [Index -> Byte]
  <2> SUFFICES ASSUME NEW i \in Index, i \in tty_buffer_pos .. tty_buffer_pos + n - 1
               PROVE  rx[i - tty_buffer_pos + 1] \in Byte
    BY <1>1 DEF ReadBytes
  <2>1. i - tty_buffer_pos + 1 \in 1 .. Len(rx)
    BY <1>1
  <2> QED BY <1>1, <2>1, ElementOfSeq
<1>3. rx' \in Seq(Byte)
  <2>1. n + 1 \in 1 .. Len(rx) + 1 /\ Len(rx) \in n + 1 - 1 .. Len(rx)
    BY <1>1, LenProperties
  <2>2. SubSeq(rx, n + 1, Len(rx)) \in Seq(Byte)
    BY <1>1, <2>1, SubSeqProperties, SMTT(30)
  <2> QED BY <2>2 DEF ReadBytes
<1>4. TypeOK'
  BY <1>1, <1>2, <1>3, SMTT(30) DEF ReadBytes, IInv, TypeOK, writer
<1>5. /\ tty_buffer_pos' = tty_buffer_pos + n /\ search_byte' = tty_buffer_pos + n
      /\ rpc' = "ack" /\ rpc = "select" /\ retry_times' = retry_times
  BY DEF ReadBytes
<1>6. BufferBound' /\ ScanBound'
  BY <1>1, <1>5 DEF BufferBound, ScanBound, Scanning
<1>7. NoGhostBytes'
  BY <1>1, <1>5 DEF NoGhostBytes
<1> QED BY <1>4, <1>5, <1>6, <1>7 DEF IInv, RetryBound, FrameThere

(* The head found lies among the valid bytes: those behind are zero. *)
LEMMA HeadInside ==
  ASSUME IInv, Scanning, NEW h, IsHead(h)
  PROVE  /\ h \in 0 .. tty_buffer_pos - 1
         /\ tty_buffer_pos \in Nat /\ tty_buffer_pos <= search_byte
         /\ search_byte \in Nat /\ search_byte <= MaxBuffer
         /\ tty_buffer \in [Index -> Byte]
BY Sizes DEF IInv, TypeOK, Scanning, IsHead, Found, NoGhostBytes, ScanBound

(* Less than one frame is held back. *)
LEMMA HoldPartialIInv ==
  ASSUME IInv, NEW h \in Index, HoldPartial(h)
  PROVE  IInv'
<1> USE Sizes
<1>1. Scanning /\ IsHead(h) /\ Partial(h) /\ KeepFrom(h)
  BY DEF HoldPartial, Scanning
<1>2. /\ h \in 0 .. tty_buffer_pos - 1
      /\ tty_buffer_pos \in Nat /\ tty_buffer_pos <= MaxBuffer
      /\ tty_buffer \in [Index -> Byte]
  BY <1>1, HeadInside
<1>3. tty_buffer_pos' = tty_buffer_pos - h /\ tty_buffer_pos' \in Nat
  BY <1>1, <1>2 DEF KeepFrom
<1>4. tty_buffer_pos - h <= ByteMod + 1
  <2>1. CASE tty_buffer_pos - h \in 1 .. 3
    <3>1. ByteMod >= 2
      <4> QED BY DEF Byte
    <3> QED BY <1>2, <2>1, <3>1
  <2>2. CASE tty_buffer_pos - h \notin 1 .. 3
    <3>1. tty_buffer[h + 2] \in Byte
      BY <1>2, <2>2
    <3> QED BY <1>1, <1>2, <2>2, <3>1 DEF Partial, LengthAt, LeftBytes
  <2> QED BY <2>1, <2>2
<1>5. tty_buffer' \in [Index -> Byte]
  <2> SUFFICES ASSUME NEW i \in Index, i < tty_buffer_pos - h
               PROVE  tty_buffer[h + i] \in Byte
    BY <1>1, <1>2 DEF KeepFrom
  <2> QED BY <1>2
<1>6. TypeOK'
  BY <1>3, <1>5 DEF HoldPartial, IInv, TypeOK, writer, world
<1> QED BY <1>3, <1>4, <1>6, SMTT(30)
        DEF HoldPartial, IInv, BufferBound, NoGhostBytes, ScanBound, RetryBound,
            FrameThere, Scanning, TypeOK

(* A frame that is not partial, and what is left behind it. *)
LEMMA FrameBounds ==
  ASSUME IInv, Scanning, NEW h, IsHead(h), ~Partial(h)
  PROVE  /\ LengthAt(h) \in 0 .. ByteMod - 1 /\ h + LengthAt(h) + 3 <= tty_buffer_pos
         /\ Remainder(h) \in Nat /\ Remainder(h) < tty_buffer_pos
         /\ tty_buffer_pos > h + LengthAt(h) + 3 =>
               h + LengthAt(h) + 4 + Remainder(h) = tty_buffer_pos
         /\ tty_buffer_pos = h + LengthAt(h) + 3 => Remainder(h) = 0
<1> USE Sizes
<1>2. /\ h \in 0 .. tty_buffer_pos - 1
      /\ tty_buffer_pos \in Nat /\ tty_buffer_pos <= search_byte
      /\ search_byte \in Nat /\ search_byte <= MaxBuffer
      /\ tty_buffer \in [Index -> Byte]
  BY HeadInside
<1>b. h \in Nat /\ tty_buffer_pos - h > 3
  BY <1>2 DEF Partial
<1>c. LengthAt(h) \in 0 .. ByteMod - 1
  BY <1>2, <1>b DEF LengthAt
<1> DEFINE L == LengthAt(h)
           R == Remainder(h)
<1>d. R = IF tty_buffer_pos - (h + 3) > L THEN tty_buffer_pos - (h + 3) - L - 1 ELSE 0
  BY DEF Remainder, LeftBytes
<1>e. ~(L > tty_buffer_pos - (h + 3))
  BY DEF Partial, LeftBytes
<1> HIDE DEF L, R
<1>f. L \in 0 .. ByteMod - 1 /\ L \in Nat
  BY <1>c DEF L
<1>g. /\ h + L + 3 <= tty_buffer_pos
      /\ R \in Nat /\ R < tty_buffer_pos
      /\ tty_buffer_pos > h + L + 3 => h + L + 4 + R = tty_buffer_pos
      /\ tty_buffer_pos = h + L + 3 => R = 0
  BY <1>2, <1>b, <1>d, <1>e, <1>f
<1> QED BY <1>f, <1>g DEF L, R

(* Cutting a frame out never leaves more bytes than there were. *)
LEMMA ConsumeIInv ==
  ASSUME IInv, NEW h \in Index, Consume(h)
  PROVE  IInv'
<1> USE Sizes
<1>1. Scanning /\ IsHead(h)
  BY DEF Consume, Scanning
<1>2. /\ h \in 0 .. tty_buffer_pos - 1
      /\ tty_buffer_pos \in Nat /\ tty_buffer_pos <= search_byte
      /\ search_byte \in Nat /\ search_byte <= MaxBuffer
      /\ tty_buffer \in [Index -> Byte]
  BY <1>1, HeadInside
<1>a. ~Partial(h)
  BY <1>1 DEF IInv, FrameThere, Consume
<1>b. h \in Nat
  BY <1>2
<1> DEFINE L == LengthAt(h)
           R == Remainder(h)
<1>3. /\ R \in Nat /\ R < tty_buffer_pos /\ L \in Nat
      /\ R > 0 => h + L + 4 + R = tty_buffer_pos
  <2>1. /\ L \in 0 .. ByteMod - 1 /\ h + L + 3 <= tty_buffer_pos
        /\ R \in Nat /\ R < tty_buffer_pos
        /\ tty_buffer_pos > h + L + 3 => h + L + 4 + R = tty_buffer_pos
        /\ tty_buffer_pos = h + L + 3 => R = 0
    BY <1>1, <1>a, FrameBounds
  <2> HIDE DEF L, R
  <2> QED BY <1>2, <1>b, <2>1
<1>e. /\ tty_buffer' = [i \in Index |-> IF i < R THEN tty_buffer[h + L + 4 + i] ELSE 0]
      /\ tty_buffer_pos' = R /\ search_byte' = search_byte
      /\ rpc' = IF R = 0 THEN "select" ELSE "ack"
      /\ retry_times' = retry_times
  BY DEF Consume
<1> HIDE DEF L, R
<1>4. tty_buffer' \in [Index -> Byte]
  <2> SUFFICES ASSUME NEW i \in Index, i < R
               PROVE  tty_buffer[h + L + 4 + i] \in Byte
    BY <1>2, <1>e
  <2>1. i \in Nat /\ h + L + 4 + R = tty_buffer_pos
    BY <1>3
  <2>2. h + L + 4 + i \in Index
    BY <1>2, <1>3, <1>b, <2>1
  <2> QED BY <1>2, <2>2
<1>5. TypeOK'
  BY <1>3, <1>4, <1>e DEF Consume, IInv, TypeOK, writer, world
<1>6. NoGhostBytes'
  <2>1. \A i \in R .. search_byte - 1 : i \in Index /\ ~(i < R)
    BY <1>2, <1>3
  <2>2. \A i \in R .. search_byte - 1 : tty_buffer'[i] = 0
    BY <2>1, <1>e
  <2>3. R <= search_byte
    BY <1>2, <1>3
  <2> QED BY <1>e, <2>2, <2>3 DEF NoGhostBytes
<1>7. BufferBound'
  BY <1>2, <1>3, <1>e DEF BufferBound
<1>8. ScanBound' /\ RetryBound' /\ FrameThere'
  <2>1. Scanning' => Scanning
    BY <1>1
  <2>2. rpc # "exit" /\ rpc' # "answer"
    BY <1>1, <1>e DEF Scanning
  <2> QED BY <1>e, <2>1, <2>2 DEF IInv, ScanBound, RetryBound, FrameThere
<1> QED BY <1>5, <1>6, <1>7, <1>8 DEF IInv

(* The other steps of the read thread. *)
LEMMA ReaderStepIInv ==
  ASSUME IInv, ReaderStep
  PROVE  IInv'
<1> USE Sizes
<1>1. ASSUME NEW n \in 1 .. MaxRead, ReadBytes(n) PROVE IInv'
  BY <1>1, ReadBytesIInv
<1>2. CASE FindAck
  <2>1. sem_command_count' \in Nat
    BY <1>2 DEF FindAck, IInv, TypeOK
  <2>2. TypeOK'
    BY <1>2, <2>1 DEF FindAck, IInv, TypeOK, buffer, writer, world
  <2> QED BY <1>2, <2>2 DEF FindAck, IInv, BufferBound, NoGhostBytes, ScanBound, RetryBound,
                            FrameThere, Scanning, buffer
<1>3. CASE NoHead
  <2>1. TypeOK'
    BY <1>3 DEF NoHead, IInv, TypeOK, writer, world
  <2> QED BY <1>3, <2>1 DEF NoHead, IInv, BufferBound, NoGhostBytes, ScanBound, RetryBound,
                            FrameThere, Scanning, TypeOK
<1>4. ASSUME NEW h \in Index, HoldPartial(h) PROVE IInv'
  BY <1>4, HoldPartialIInv
<1>5. ASSUME NEW h \in Index, TakeFrame(h) PROVE IInv'
  <2>1. PICK b : CallWrite(Reader, b)
    BY <1>5 DEF TakeFrame, verify_notification
  <2>2. wpc' \in [Threads -> WritePC] /\ command_mutex' \in Threads \cup {NoThread}
    BY <2>1, CallWriteType DEF IInv, Threads
  <2>3. TypeOK'
    BY <1>5, <2>2 DEF TakeFrame, IInv, TypeOK, buffer, world
  <2>4. FrameThere'
    <3>1. \A g \in Index : IsHead(g) => g = h
      BY <1>5 DEF TakeFrame, IsHead
    <3> QED BY <1>5, <3>1 DEF TakeFrame, FrameThere, IsHead, Found, Partial, LengthAt, LeftBytes,
                              buffer
  <2> QED BY <1>5, <2>3, <2>4 DEF TakeFrame, IInv, BufferBound, NoGhostBytes, ScanBound,
                                  RetryBound, Scanning, buffer
<1>6. ASSUME NEW h \in Index, Consume(h) PROVE IInv'
  BY <1>6, ConsumeIInv
<1> QED BY <1>1, <1>2, <1>3, <1>4, <1>5, <1>6 DEF ReaderStep

(* The box, and noise, only append bytes to the line. *)
LEMMA BoxIInv ==
  ASSUME IInv, \/ BoxStep \/ \E e \in Events : BoxReport(e)
               \/ \E bytes \in Seq(Byte) : LineNoise(bytes)
  PROVE  IInv'
<1> USE Sizes
<1>a. rx \in Seq(Byte) /\ sent \in Seq(Seq(Byte)) /\ noise \in BOOLEAN
  BY DEF IInv, TypeOK
<1>b. ASSUME UNCHANGED <<buffer, rpc, retry_times, sem_command_count, writer>>,
             rx' \in Seq(Byte), sent' \in Seq(Seq(Byte)), noise' \in BOOLEAN
      PROVE  IInv'
  <2>1. TypeOK'
    BY <1>b DEF IInv, TypeOK, buffer, writer
  <2> QED BY <1>b, <2>1, OwnUnchanged DEF IInv, own, buffer
<1>1. ASSUME NEW e \in Events, BoxReport(e) PROVE IInv'
  <2>1. FrameOf(e) \in Seq(Byte)
    BY FramesAssumption
  <2>2. rx' \in Seq(Byte) /\ sent' \in Seq(Seq(Byte))
    BY <1>1, <1>a, <2>1, AppendProperties, ConcatProperties DEF BoxReport
  <2> QED BY <1>1, <1>a, <1>b, <2>2 DEF BoxReport
<1>2. CASE BoxAnswered
  BY <1>2, <1>a, <1>b DEF BoxAnswered
<1>3. CASE BoxRefused
  BY <1>3, <1>a, <1>b DEF BoxRefused
<1>4. CASE BoxRepeats
  <2>1. Len(sent) \in 1 .. Len(sent)
    BY <1>4, <1>a DEF BoxRepeats
  <2>2. sent[Len(sent)] \in Seq(Byte)
    BY <1>a, <2>1, ElementOfSeq
  <2>3. rx' \in Seq(Byte)
    BY <1>4, <1>a, <2>2, ConcatProperties DEF BoxRepeats
  <2> QED BY <1>4, <1>a, <1>b, <2>3 DEF BoxRepeats
<1>5. ASSUME NEW reply \in {<<>>, <<AckByte>>}, BoxCommand(reply) PROVE IInv'
  <2>1. reply \in Seq(Byte)
    <3>1. AckByte \in Byte
      BY Sizes
    <3>2. <<AckByte>> \in Seq(Byte) /\ <<>> \in Seq(Byte)
      BY ONLY <3>1
    <3> QED BY <3>2
  <2>2. rx' \in Seq(Byte)
    BY <1>5, <1>a, <2>1, ConcatProperties DEF BoxCommand
  <2> QED BY <1>5, <1>a, <1>b, <2>2 DEF BoxCommand
<1>6. ASSUME NEW bytes \in Seq(Byte), LineNoise(bytes) PROVE IInv'
  <2>1. rx' \in Seq(Byte)
    BY <1>6, <1>a, ConcatProperties DEF LineNoise
  <2> QED BY <1>6, <1>a, <1>b, <2>1 DEF LineNoise
<1> QED BY <1>1, <1>2, <1>3, <1>4, <1>5, <1>6 DEF BoxStep
-----------------------------------------------------------------------------
(* The invariant holds throughout, for any sizes, senders, events and noise. *)
THEOREM Invariance == Spec => []IInv
<1>1. IInv /\ [Next]_vars => IInv'
  <2> SUFFICES ASSUME IInv, [Next]_vars PROVE IInv'
    OBVIOUS
  <2>1. ASSUME NEW t \in Senders, canbox_send_command(t) PROVE IInv'
    <3>1. wpc' \in [Threads -> WritePC] /\ command_mutex' \in Threads \cup {NoThread}
      BY <2>1, CallWriteType DEF canbox_send_command, IInv, Threads
    <3>2. TypeOK'
      BY <2>1, <3>1 DEF canbox_send_command, IInv, TypeOK, buffer, world
    <3> QED BY <2>1, <3>2, OwnUnchanged DEF canbox_send_command, IInv, own, buffer
  <2>2. CASE canbox_get_notification
    <3>1. TypeOK'
      BY <2>2 DEF canbox_get_notification, IInv, TypeOK, buffer, writer, world
    <3> QED BY <2>2, <3>1, OwnUnchanged DEF canbox_get_notification, IInv, own, buffer
  <2>3. ASSUME NEW t \in Threads, WriteStep(t) PROVE IInv'
    BY <2>3, WriteStepIInv
  <2>4. CASE ReaderStep
    BY <2>4, ReaderStepIInv
  <2>5. CASE ReadFails
    <3>1. TypeOK' /\ RetryBound'
      BY <2>5, Sizes DEF ReadFails, IInv, TypeOK, RetryBound, buffer, writer, world
    <3> QED BY <2>5, <3>1 DEF ReadFails, IInv, BufferBound, NoGhostBytes, ScanBound, FrameThere,
                              Scanning, buffer
  <2>6. CASE \/ BoxStep \/ \E e \in Events : BoxReport(e)
             \/ \E bytes \in Seq(Byte) : LineNoise(bytes)
    BY <2>6, BoxIInv
  <2>7. CASE UNCHANGED vars
    <3>1. TypeOK'
      BY <2>7 DEF vars, IInv, TypeOK, buffer, writer, world
    <3> QED BY <2>7, <3>1, OwnUnchanged DEF vars, IInv, own, buffer
  <2> QED BY <2>1, <2>2, <2>3, <2>4, <2>5, <2>6, <2>7 DEF Next
<1> QED BY InitIInv, <1>1, PTL DEF Spec

(* Every variable of the HAL stays within its type. *)
THEOREM TypeCorrect == Spec => []TypeOK
BY Invariance, PTL DEF IInv

(* "such kind of case won't be happen in fact" (tty_buffer_pos + read_bytes *)
(* > MAX_BUFFER_STRING): canbox never writes beyond MAX_BUFFER_STRING.      *)
THEOREM BufferBounded == Spec => []BufferBound
BY Invariance, PTL DEF IInv

(* check_full_command never takes a byte behind the valid ones for a HEAD   *)
(* or an ACK, although it does not shorten search_byte as it consumes.      *)
THEOREM GhostFree == Spec => []NoGhostBytes
BY Invariance, PTL DEF IInv
-----------------------------------------------------------------------------
(* Events once each and in order.  The box has at most one event under way, *)
(* so the bytes that are buffered or on the line, and that no answer is     *)
(* being written for, hold at most one frame among bytes that are no HEAD.  *)

(* Byte k of those buffered and on their way in, counted from 0. *)
Pending(k) == IF k < tty_buffer_pos THEN tty_buffer[k] ELSE rx[k - tty_buffer_pos + 1]
Total == tty_buffer_pos + Len(rx)

(* Where the bytes begin that are not looked at yet: while a frame is       *)
(* answered, behind it.                                                     *)
IsCut(c) == IF rpc = "answer"
              THEN \E h \in Index : IsHead(h) /\ c = tty_buffer_pos - Remainder(h)
              ELSE c = 0

HeadFree(a, b) == \A k \in a .. b - 1 : Pending(k) # HeadByte

Holds(c, f) ==
    \E a \in c .. Total : /\ a + Len(f) <= Total
                         /\ HeadFree(c, a) /\ HeadFree(a + Len(f), Total)
                         /\ \A k \in 1 .. Len(f) : Pending(a + k - 1) = f[k]

NothingUnderWay == \A c \in 0 .. Total : IsCut(c) => HeadFree(c, Total)
UnderWay(f) == \A c \in 0 .. Total : IsCut(c) => Holds(c, f)

(* No answer is on its way to the box, or exactly one is. *)
Mute(q) == \A j \in 1 .. Len(q) : Len(q[j]) # 1
OneAnswer(q, m) ==
    \E j \in 1 .. Len(q) : q[j] = m /\ \A i \in 1 .. Len(q) : i # j => Len(q[i]) # 1
Writing == wpc[Reader] \in {"lock", "drain", "write"}
Unanswered == ~Writing /\ Mute(tx)
Answering(m) == \/ Writing /\ out[Reader] = m /\ Mute(tx)
                \/ ~Writing /\ OneAnswer(tx, m)

Got == delivered \o queue
Missing == sent # <<>> /\ Got = SubSeq(sent, 1, Len(sent) - 1)

(* The states of the conversation about one event. *)
Quiet    == box = "quiet" /\ Unanswered /\ Got = sent /\ NothingUnderWay
Reported == box = "sent" /\ Unanswered /\ Missing /\ \E f \in {sent[Len(sent)]} : UnderWay(f)
Accepted == box = "sent" /\ Answering(<<AckByte>>) /\ Got = sent /\ NothingUnderWay
Rejected == box = "sent" /\ Answering(<<NakByte>>) /\ Missing /\ NothingUnderWay
Refused  == box = "refused" /\ Unanswered /\ Missing /\ NothingUnderWay
Conversation == Quiet \/ Reported \/ Accepted \/ Rejected \/ Refused

Answers == {<<AckByte>>, <<NakByte>>}
Commands == {<<t, "command">> : t \in Senders}

(* What each thread writes, and that the read thread writes only while it   *)
(* answers a frame.                                                         *)
Writers ==
    /\ out \in [Threads -> Answers \cup Commands \cup {<<>>}]
    /\ tx \in Seq(Answers \cup Commands)
    /\ \A t \in Senders : wpc[t] # "idle" => out[t] \in Commands
    /\ wpc[Reader] \in {"idle", "lock", "drain", "write", "end"}
    /\ wpc[Reader] # "idle" => rpc = "answer" /\ out[Reader] \in Answers

GoodFrame(f) ==
    /\ f \in Seq(Byte) /\ Len(f) >= 4
    /\ f[1] = HeadByte /\ f[3] = Len(f) - 4
    /\ ChecksumOK(f) /\ f[Len(f)] # HeadByte

Queued == queue \in Seq(Seq(Byte)) /\ delivered \in Seq(Seq(Byte))
SentFrames == \A k \in 1 .. Len(sent) : GoodFrame(sent[k])

EInv == Writers /\ Queued /\ SentFrames /\ Conversation

LEMMA MessageLengths ==
  /\ \A m \in Answers : Len(m) = 1
  /\ \A m \in Commands : Len(m) = 2
  /\ <<AckByte>> \in Answers /\ <<NakByte>> \in Answers
  /\ <<AckByte>> # <<NakByte>>
BY CanboxAssumption DEF Answers, Commands

(* How the writes on their way out grow and shrink. *)
LEMMA CommandSent ==
  ASSUME NEW S, NEW q \in Seq(S), NEW x \in S, Len(x) # 1
  PROVE  /\ Mute(q) => Mute(Append(q, x))
         /\ \A m : OneAnswer(q, m) => OneAnswer(Append(q, x), m)
<1>1. /\ Len(Append(q, x)) = Len(q) + 1 /\ Len(q) \in Nat
      /\ \A i \in 1 .. Len(q) : Append(q, x)[i] = q[i]
      /\ Append(q, x)[Len(q) + 1] = x
  BY AppendProperties, LenProperties
<1> DEFINE r == Append(q, x)
<1> HIDE DEF r
<1>2. Mute(q) => Mute(r)
  BY <1>1 DEF Mute, r
<1>3. ASSUME NEW m, OneAnswer(q, m) PROVE OneAnswer(r, m)
  <2>1. PICK j \in 1 .. Len(q) : q[j] = m /\ \A i \in 1 .. Len(q) : i # j => Len(q[i]) # 1
    BY <1>3 DEF OneAnswer
  <2>2. j \in 1 .. Len(r) /\ r[j] = m
    BY <1>1, <2>1 DEF r
  <2>3. ASSUME NEW i \in 1 .. Len(r), i # j PROVE Len(r[i]) # 1
    BY <1>1, <2>1, <2>3 DEF r
  <2> QED BY <2>2, <2>3 DEF OneAnswer
<1> QED BY <1>2, <1>3 DEF r

LEMMA AnswerSent ==
  ASSUME NEW S, NEW q \in Seq(S), NEW x \in S, Mute(q)
  PROVE  OneAnswer(Append(q, x), x)
<1>1. /\ Len(Append(q, x)) = Len(q) + 1 /\ Len(q) \in Nat
      /\ \A i \in 1 .. Len(q) : Append(q, x)[i] = q[i]
      /\ Append(q, x)[Len(q) + 1] = x
  BY AppendProperties, LenProperties
<1> DEFINE r == Append(q, x)
<1> HIDE DEF r
<1>2. Len(q) + 1 \in 1 .. Len(r) /\ r[Len(q) + 1] = x
  BY <1>1 DEF r
<1>3. ASSUME NEW i \in 1 .. Len(r), i # Len(q) + 1 PROVE Len(r[i]) # 1
  BY <1>1, <1>3 DEF r, Mute
<1>4. OneAnswer(r, x)
  BY <1>2, <1>3 DEF OneAnswer
<1> QED BY <1>4 DEF r

LEMMA BoxTakes ==
  ASSUME NEW S, NEW q \in Seq(S), q # <<>>
  PROVE  /\ Tail(q) \in Seq(S)
         /\ Mute(q) => Mute(Tail(q)) /\ Len(Head(q)) # 1
         /\ \A m : OneAnswer(q, m) /\ Len(Head(q)) # 1 /\ Head(q) # m => OneAnswer(Tail(q), m)
         /\ \A m : OneAnswer(q, m) /\ Len(Head(q)) = 1 => Head(q) = m /\ Mute(Tail(q))
<1>1. /\ Len(q) \in Nat /\ Len(q) >= 1
      /\ Tail(q) \in Seq(S) /\ Len(Tail(q)) = Len(q) - 1
      /\ \A i \in 1 .. Len(q) - 1 : Tail(q)[i] = q[i + 1]
      /\ Head(q) = q[1]
  BY HeadTailProperties, EmptySeq, LenProperties
<1> DEFINE r == Tail(q)
<1> HIDE DEF r
<1>2. Mute(q) => Mute(r) /\ Len(Head(q)) # 1
  BY <1>1 DEF Mute, r
<1>3. ASSUME NEW m, OneAnswer(q, m), Len(Head(q)) # 1, Head(q) # m PROVE OneAnswer(r, m)
  <2>1. PICK j \in 1 .. Len(q) : q[j] = m /\ \A i \in 1 .. Len(q) : i # j => Len(q[i]) # 1
    BY <1>3 DEF OneAnswer
  <2>2. j - 1 \in 1 .. Len(r) /\ r[j - 1] = m
    BY <1>1, <1>3, <2>1 DEF r
  <2>3. ASSUME NEW i \in 1 .. Len(r), i # j - 1 PROVE Len(r[i]) # 1
    BY <1>1, <2>1, <2>3 DEF r
  <2> QED BY <2>2, <2>3 DEF OneAnswer
<1>4. ASSUME NEW m, OneAnswer(q, m), Len(Head(q)) = 1 PROVE Head(q) = m /\ Mute(r)
  <2>1. PICK j \in 1 .. Len(q) : q[j] = m /\ \A i \in 1 .. Len(q) : i # j => Len(q[i]) # 1
    BY <1>4 DEF OneAnswer
  <2>2. j = 1
    BY <1>1, <1>4, <2>1
  <2> QED BY <1>1, <2>1, <2>2 DEF Mute, r
<1> QED BY <1>1, <1>2, <1>3, <1>4 DEF r

(* What the box sends for an event is a frame with the right checksum, and  *)
(* a good one if that does not look like a HEAD byte.                       *)
LEMMA FramesAreGood ==
  ASSUME NEW e \in Events, FrameOf(e)[Len(FrameOf(e))] # HeadByte
  PROVE  GoodFrame(FrameOf(e))
<1>1. e.data \in Seq(Byte) /\ FrameOf(e) \in Seq(Byte)
  BY FramesAssumption
<1> DEFINE d == e.data
           hd == <<e.type, Len(d)>>
           body == hd \o d
           sum == canbox_calc_checksum(body)
           f == FrameOf(e)
<1>2. f = <<HeadByte>> \o body \o <<sum>>
  BY DEF FrameOf
<1> HIDE DEF f, sum, body, d
<1>3. body = hd \o d
  BY DEF body
<1>4. d \in Seq(Byte) /\ Len(d) \in Nat
  BY <1>1, LenProperties DEF d
<1> DEFINE S == Byte \cup {e.type, Len(d), HeadByte, sum}
<1>5. d \in Seq(S) /\ hd \in Seq(S) /\ <<HeadByte>> \in Seq(S) /\ <<sum>> \in Seq(S)
  <2>1. d \in Seq(S)
    BY <1>4, SeqDef
  <2> QED BY <2>1
<1> HIDE DEF S
<1>6. /\ body \in Seq(S) /\ Len(body) = Len(d) + 2
      /\ body[2] = Len(d)
  <2>1. Len(hd) = 2 /\ hd[2] = Len(d)
    OBVIOUS
  <2> HIDE DEF hd
  <2>2. hd \in Seq(S) /\ d \in Seq(S)
    BY <1>5
  <2>3. /\ hd \o d \in Seq(S) /\ Len(hd \o d) = Len(hd) + Len(d)
        /\ \A i \in 1 .. Len(hd) + Len(d) :
              (hd \o d)[i] = IF i <= Len(hd) THEN hd[i] ELSE d[i - Len(hd)]
    BY <2>2, ConcatProperties
  <2> QED BY <1>3, <1>4, <2>1, <2>3
<1> DEFINE g == <<HeadByte>> \o body
<1>7. /\ g \in Seq(S) /\ Len(g) = Len(d) + 3
      /\ \A i \in 1 .. Len(d) + 2 : g[i + 1] = body[i]
      /\ g[1] = HeadByte
  <2> DEFINE u == <<HeadByte>>
  <2>1. Len(u) = 1 /\ u[1] = HeadByte /\ u \in Seq(S)
    BY <1>5
  <2> HIDE DEF u
  <2>2. /\ u \o body \in Seq(S) /\ Len(u \o body) = Len(u) + Len(body)
        /\ \A i \in 1 .. Len(u) + Len(body) :
              (u \o body)[i] = IF i <= Len(u) THEN u[i] ELSE body[i - Len(u)]
    <3>1. body \in Seq(S) /\ u \in Seq(S)
      BY <1>6, <2>1
    <3> QED BY <3>1, ConcatProperties
  <2>3. u \o body = g
    BY DEF u
  <2> QED BY <1>4, <1>6, <2>1, <2>2, <2>3
<1> HIDE DEF g
<1>8. /\ Len(f) = Len(d) + 4 /\ f[Len(d) + 4] = sum
      /\ \A i \in 1 .. Len(d) + 3 : f[i] = g[i]
  <2> DEFINE u == <<sum>>
  <2>1. Len(u) = 1 /\ u[1] = sum /\ u \in Seq(S)
    BY <1>5
  <2> HIDE DEF u
  <2>2. /\ Len(g \o u) = Len(g) + Len(u)
        /\ \A i \in 1 .. Len(g) + Len(u) :
              (g \o u)[i] = IF i <= Len(g) THEN g[i] ELSE u[i - Len(g)]
    BY <1>7, <2>1, ConcatProperties
  <2>3. g \o u = f
    BY <1>2 DEF u, g
  <2> QED BY <1>4, <1>7, <2>1, <2>2, <2>3
<1>9. f[1] = HeadByte /\ f[3] = Len(f) - 4
  BY <1>4, <1>6, <1>7, <1>8
<1>10. SubSeq(f, 2, Len(f) - 1) = body
  <2>1. f \in Seq(Byte) /\ 2 \in 1 .. Len(f) + 1 /\ Len(f) - 1 \in 2 - 1 .. Len(f)
    BY <1>1, <1>4, <1>8 DEF f
  <2> DEFINE n == Len(f) - 1
             v == SubSeq(f, 2, n)
  <2>a. n \in 2 - 1 .. Len(f)
    BY <2>1
  <2>2. /\ v \in Seq(Byte) /\ Len(v) = IF 2 <= n THEN n - 2 + 1 ELSE 0
        /\ \A i \in 1 .. n - 2 + 1 : v[i] = f[2 + i - 1]
    <3> HIDE DEF n
    <3> QED BY <2>1, <2>a, SubSeqProperties
  <2>3. Len(v) = Len(body)
    BY <1>4, <1>6, <1>8, <2>2
  <2>4. ASSUME NEW i \in 1 .. Len(body) PROVE v[i] = body[i]
    BY <1>4, <1>6, <1>7, <1>8, <2>2
  <2> HIDE DEF v
  <2>5. v \in Seq(S \cup Byte) /\ body \in Seq(S \cup Byte)
    BY <1>6, <2>2, SeqDef
  <2>6. v = body
    BY <2>3, <2>4, <2>5, SeqEqual
  <2> QED BY <2>6 DEF v
<1>11. ChecksumOK(f)
  BY <1>8, <1>10 DEF ChecksumOK, sum
<1>12. f[Len(f)] # HeadByte /\ f \in Seq(Byte) /\ Len(f) >= 4
  BY <1>1, <1>4, <1>8 DEF f
<1> QED BY <1>9, <1>11, <1>12 DEF GoodFrame, f
-----------------------------------------------------------------------------
(* The bytes buffered and on their way. *)
LEMMA Sight ==
  ASSUME IInv
  PROVE  /\ tty_buffer_pos \in Nat /\ rx \in Seq(Byte) /\ Len(rx) \in Nat
         /\ Total \in Nat /\ Total = tty_buffer_pos + Len(rx)
BY LenProperties DEF IInv, TypeOK, Total

LEMMA CutInside ==
  ASSUME IInv, NEW c, IsCut(c)
  PROVE  c \in 0 .. tty_buffer_pos
<1>0. tty_buffer_pos \in Nat
  BY Sight
<1>1. CASE rpc # "answer"
  BY <1>0, <1>1 DEF IsCut
<1>2. CASE rpc = "answer"
  <2>1. PICK h \in Index : IsHead(h) /\ c = tty_buffer_pos - Remainder(h)
    BY <1>2 DEF IsCut
  <2>2. ~Partial(h) /\ Scanning
    BY <1>2, <2>1 DEF IInv, FrameThere, Scanning
  <2>3. Remainder(h) \in Nat /\ Remainder(h) < tty_buffer_pos
    BY <2>1, <2>2, FrameBounds
  <2> QED BY <1>0, <2>1, <2>3
<1> QED BY <1>1, <1>2

LEMMA StreamKept ==
  ASSUME UNCHANGED <<buffer, rpc, rx>>
  PROVE  /\ NothingUnderWay => NothingUnderWay'
         /\ \A f : UnderWay(f) => UnderWay(f)'
<1>1. \A k : Pending(k)' = Pending(k)
  BY DEF Pending, buffer
<1>2. Total' = Total
  BY DEF Total, buffer
<1>3. \A c : IsCut(c)' <=> IsCut(c)
  BY DEF IsCut, IsHead, Found, Remainder, LeftBytes, LengthAt, buffer
<1>4. \A a, b : HeadFree(a, b)' <=> HeadFree(a, b)
  BY <1>1 DEF HeadFree
<1>5. ASSUME NEW f, NEW c PROVE Holds(c, f)' <=> Holds(c, f)
  BY <1>1, <1>2, <1>4 DEF Holds
<1>6. NothingUnderWay => NothingUnderWay'
  BY <1>2, <1>3, <1>4 DEF NothingUnderWay
<1> QED BY <1>2, <1>3, <1>5, <1>6 DEF UnderWay

(* d bytes that hold nothing leave at the front. *)
LEMMA Shifted ==
  ASSUME IInv, NEW d \in Nat, NEW c, IsCut(c), c <= d, HeadFree(c, d), rpc' # "answer",
         d <= Total, Total' = Total - d,
         \A k \in 0 .. Total - d - 1 : Pending(k)' = Pending(k + d)
  PROVE  /\ NothingUnderWay => NothingUnderWay'
         /\ \A f : GoodFrame(f) /\ UnderWay(f) => UnderWay(f)'
<1>0. c \in Nat /\ c \in 0 .. Total /\ Total \in Nat
  BY Sight, CutInside
<1>1. \A x : IsCut(x)' => x = 0
  BY DEF IsCut
<1>2. ASSUME NothingUnderWay PROVE NothingUnderWay'
  <2>1. HeadFree(c, Total)
    BY <1>0, <1>2 DEF NothingUnderWay
  <2>2. HeadFree(0, Total)'
    <3> SUFFICES ASSUME NEW k \in 0 .. Total - d - 1 PROVE Pending(k)' # HeadByte
      BY DEF HeadFree
    <3>1. k + d \in c .. Total - 1
      BY <1>0
    <3> QED BY <2>1, <3>1 DEF HeadFree
  <2> QED BY <1>1, <2>2 DEF NothingUnderWay
<1>3. ASSUME NEW f, GoodFrame(f), UnderWay(f) PROVE UnderWay(f)'
  <2>0. Len(f) \in Nat /\ Len(f) >= 4 /\ f[1] = HeadByte
    BY <1>3, LenProperties DEF GoodFrame
  <2>1. Holds(c, f)
    BY <1>0, <1>3 DEF UnderWay
  <2>2. PICK a \in c .. Total : /\ a + Len(f) <= Total
                              /\ HeadFree(c, a) /\ HeadFree(a + Len(f), Total)
                              /\ \A k \in 1 .. Len(f) : Pending(a + k - 1) = f[k]
    BY <2>1 DEF Holds
  <2>3. a \in Nat /\ Pending(a) = HeadByte
    <3>1. 1 \in 1 .. Len(f) /\ a \in Nat /\ a + 1 - 1 = a
      BY <1>0, <2>0
    <3> QED BY <2>0, <2>2, <3>1
  <2>4. a >= d
    <3>1. SUFFICES ASSUME ~(a >= d) PROVE FALSE
      OBVIOUS
    <3>2. a \in c .. d - 1
      BY <1>0, <2>3, <3>1
    <3> QED BY <2>3, <3>2 DEF HeadFree
  <2> DEFINE b == a - d
  <2>5. b \in Nat /\ b \in 0 .. Total - d /\ b + Len(f) <= Total - d
    BY <1>0, <2>0, <2>2, <2>3, <2>4
  <2>6. HeadFree(0, b)'
    <3> SUFFICES ASSUME NEW k \in 0 .. b - 1 PROVE Pending(k)' # HeadByte
      BY DEF HeadFree
    <3>1. k + d \in c .. a - 1 /\ k \in 0 .. Total - d - 1
      BY <1>0, <2>3, <2>4, <2>5, <2>0
    <3> QED BY <2>2, <3>1 DEF HeadFree
  <2>7. HeadFree(b + Len(f), Total)'
    <3> SUFFICES ASSUME NEW k \in b + Len(f) .. Total - d - 1 PROVE Pending(k)' # HeadByte
      BY DEF HeadFree
    <3>1. k + d \in a + Len(f) .. Total - 1 /\ k \in 0 .. Total - d - 1
      BY <1>0, <2>3, <2>4, <2>5, <2>0
    <3> QED BY <2>2, <3>1 DEF HeadFree
  <2>8. ASSUME NEW k \in 1 .. Len(f) PROVE Pending(b + k - 1)' = f[k]
    <3>1. b + k - 1 \in 0 .. Total - d - 1 /\ b + k - 1 + d = a + k - 1
      BY <1>0, <2>0, <2>2, <2>3, <2>5
    <3>2. Pending(b + k - 1)' = Pending(b + k - 1 + d)
      <4> HIDE DEF b
      <4> DEFINE n == b + k - 1
      <4> HIDE DEF n
      <4>1. n \in 0 .. Total - d - 1
        BY <3>1 DEF n
      <4>2. Pending(n)' = Pending(n + d)
        BY <4>1
      <4> QED BY <4>2 DEF n
    <3> QED BY <2>2, <3>1, <3>2
  <2>9. Holds(0, f)'
    <3> HIDE DEF b
    <3> QED BY <2>5, <2>6, <2>7, <2>8 DEF Holds
  <2> QED BY <1>1, <2>9 DEF UnderWay
<1> QED BY <1>2, <1>3

(* More bytes come on the line. *)
LEMMA Grown ==
  ASSUME IInv, NEW x \in Seq(Byte), rx' = rx \o x, UNCHANGED <<buffer, rpc>>
  PROVE  /\ Total' = Total + Len(x) /\ Len(x) \in Nat
         /\ \A k \in 0 .. Total - 1 : Pending(k)' = Pending(k)
         /\ \A k \in Total .. Total + Len(x) - 1 : Pending(k)' = x[k - Total + 1]
         /\ \A c : IsCut(c)' <=> IsCut(c)
<1>0. /\ tty_buffer_pos \in Nat /\ rx \in Seq(Byte) /\ Len(rx) \in Nat
      /\ Total \in Nat /\ Total = tty_buffer_pos + Len(rx)
  BY Sight
<1>1. /\ Len(rx') = Len(rx) + Len(x) /\ Len(x) \in Nat
      /\ \A i \in 1 .. Len(rx) + Len(x) : rx'[i] = IF i <= Len(rx) THEN rx[i] ELSE x[i - Len(rx)]
  BY <1>0, ConcatProperties, LenProperties
<1>2. Total' = Total + Len(x)
  BY <1>0, <1>1 DEF Total, buffer
<1>a. /\ tty_buffer' = tty_buffer /\ tty_buffer_pos' = tty_buffer_pos
      /\ search_byte' = search_byte /\ rpc' = rpc
  BY DEF buffer
<1>3. ASSUME NEW k \in 0 .. Total - 1 PROVE Pending(k)' = Pending(k)
  <2>1. CASE k < tty_buffer_pos
    BY <1>a, <2>1 DEF Pending
  <2>2. CASE ~(k < tty_buffer_pos)
    <3>1. k - tty_buffer_pos + 1 \in 1 .. Len(rx)
      BY <1>0, <2>2
    <3>2. rx'[k - tty_buffer_pos + 1] = rx[k - tty_buffer_pos + 1]
      BY <1>0, <1>1, <3>1
    <3> QED BY <1>a, <2>2, <3>2 DEF Pending
  <2> QED BY <2>1, <2>2
<1>4. ASSUME NEW k \in Total .. Total + Len(x) - 1 PROVE Pending(k)' = x[k - Total + 1]
  <2> DEFINE i == k - tty_buffer_pos + 1
  <2>1. /\ k \in Nat /\ ~(k < tty_buffer_pos)
        /\ i \in 1 .. Len(rx) + Len(x) /\ ~(i <= Len(rx)) /\ i - Len(rx) = k - Total + 1
    BY <1>0, <1>1
  <2>2. rx'[i] = x[k - Total + 1]
    <3> HIDE DEF i
    <3> QED BY <1>1, <2>1
  <2> QED BY <1>a, <2>1, <2>2 DEF Pending
<1>5. \A c : IsCut(c)' <=> IsCut(c)
  BY <1>a DEF IsCut, IsHead, Found, Remainder, LeftBytes, LengthAt
<1> QED BY <1>1, <1>2, <1>3, <1>4, <1>5

(* Bytes that are no HEAD change nothing; a frame is then under way. *)
LEMMA NoiseGrown ==
  ASSUME IInv, NEW x \in Seq(Byte), rx' = rx \o x, UNCHANGED <<buffer, rpc>>,
         \A k \in 1 .. Len(x) : x[k] # HeadByte
  PROVE  /\ NothingUnderWay => NothingUnderWay'
         /\ \A f : GoodFrame(f) /\ UnderWay(f) => UnderWay(f)'
<1>0. /\ Total' = Total + Len(x) /\ Len(x) \in Nat
      /\ \A k \in 0 .. Total - 1 : Pending(k)' = Pending(k)
      /\ \A k \in Total .. Total + Len(x) - 1 : Pending(k)' = x[k - Total + 1]
      /\ \A c : IsCut(c)' <=> IsCut(c)
  BY Grown
<1>1. Total \in Nat /\ tty_buffer_pos \in Nat /\ tty_buffer_pos <= Total
  BY Sight
<1>2. ASSUME NEW a \in Nat, HeadFree(a, Total) PROVE HeadFree(a, Total)'
  <2>a. Total' = Total + Len(x)
    BY <1>0
  <2> SUFFICES ASSUME NEW k \in a .. Total + Len(x) - 1 PROVE Pending(k)' # HeadByte
    BY <1>0, <1>1, <2>a DEF HeadFree
  <2>1. CASE k < Total
    BY <1>0, <1>1, <1>2, <2>1 DEF HeadFree
  <2>2. CASE k >= Total
    <3>1. k \in Total .. Total + Len(x) - 1 /\ k - Total + 1 \in 1 .. Len(x)
      BY <1>0, <1>1, <2>2
    <3> QED BY <1>0, <3>1
  <2> QED BY <1>1, <2>1, <2>2
<1>3. ASSUME NothingUnderWay PROVE NothingUnderWay'
  <2> SUFFICES ASSUME NEW c, IsCut(c)' PROVE HeadFree(c, Total)'
    BY DEF NothingUnderWay
  <2>1. IsCut(c) /\ c \in 0 .. Total /\ c \in Nat
    BY <1>0, <1>1, CutInside
  <2> QED BY <1>2, <1>3, <2>1 DEF NothingUnderWay
<1>4. ASSUME NEW f, GoodFrame(f), UnderWay(f) PROVE UnderWay(f)'
  <2> SUFFICES ASSUME NEW c, IsCut(c)' PROVE Holds(c, f)'
    BY DEF UnderWay
  <2>0. Len(f) \in Nat
    BY <1>4, LenProperties DEF GoodFrame
  <2>1. IsCut(c) /\ c \in 0 .. Total /\ c \in Nat
    BY <1>0, <1>1, CutInside
  <2>2. PICK a \in c .. Total : /\ a + Len(f) <= Total
                              /\ HeadFree(c, a) /\ HeadFree(a + Len(f), Total)
                              /\ \A k \in 1 .. Len(f) : Pending(a + k - 1) = f[k]
    BY <1>4, <2>1 DEF UnderWay, Holds
  <2>3. a \in Nat /\ a + Len(f) \in Nat
    BY <2>0, <2>1
  <2>4. HeadFree(c, a)'
    <3> SUFFICES ASSUME NEW k \in c .. a - 1 PROVE Pending(k)' # HeadByte
      BY DEF HeadFree
    <3>1. k \in 0 .. Total - 1
      BY <1>1, <2>1, <2>3
    <3> QED BY <1>0, <2>2, <3>1 DEF HeadFree
  <2>5. HeadFree(a + Len(f), Total)'
    <3> DEFINE n == a + Len(f)
    <3>1. n \in Nat /\ HeadFree(n, Total)
      BY <2>2, <2>3
    <3> HIDE DEF n
    <3>2. HeadFree(n, Total)'
      BY <1>2, <3>1
    <3> QED BY <3>2 DEF n
  <2>6. ASSUME NEW k \in 1 .. Len(f) PROVE Pending(a + k - 1)' = f[k]
    <3> DEFINE n == a + k - 1
    <3>1. n \in 0 .. Total - 1 /\ Pending(n) = f[k]
      BY <1>1, <2>0, <2>2, <2>3
    <3> HIDE DEF n
    <3>2. Pending(n)' = f[k]
      BY <1>0, <3>1
    <3> QED BY <3>2 DEF n
  <2>7. a \in c .. Total + Len(x) /\ a + Len(f) <= Total + Len(x)
    BY <1>0, <1>1, <2>0, <2>1, <2>2, <2>3
  <2> QED BY <1>0, <2>4, <2>5, <2>6, <2>7 DEF Holds
<1> QED BY <1>3, <1>4

LEMMA FrameGrown ==
  ASSUME IInv, NEW f, GoodFrame(f), rx' = rx \o f, UNCHANGED <<buffer, rpc>>, NothingUnderWay
  PROVE  UnderWay(f)'
<1>f. f \in Seq(Byte)
  BY DEF GoodFrame
<1>0. /\ Total' = Total + Len(f) /\ Len(f) \in Nat
      /\ \A k \in 0 .. Total - 1 : Pending(k)' = Pending(k)
      /\ \A k \in Total .. Total + Len(f) - 1 : Pending(k)' = f[k - Total + 1]
      /\ \A c : IsCut(c)' <=> IsCut(c)
  BY <1>f, Grown
<1>1. Total \in Nat /\ tty_buffer_pos \in Nat /\ tty_buffer_pos <= Total
  BY Sight
<1> SUFFICES ASSUME NEW c, IsCut(c)' PROVE Holds(c, f)'
  BY DEF UnderWay
<1>2. IsCut(c) /\ c \in 0 .. Total /\ c \in Nat
  BY <1>0, <1>1, CutInside
<1>3. HeadFree(c, Total)
  BY <1>2 DEF NothingUnderWay
<1>4. PICK a : a = Total
  OBVIOUS
<1>5. HeadFree(c, a)'
  <2> SUFFICES ASSUME NEW k \in c .. a - 1 PROVE Pending(k)' # HeadByte
    BY DEF HeadFree
  <2>1. k \in 0 .. Total - 1 /\ k \in c .. Total - 1
    BY <1>1, <1>2, <1>4
  <2> QED BY <1>0, <1>3, <2>1 DEF HeadFree
<1>6. HeadFree(a + Len(f), Total)'
  BY <1>0, <1>1, <1>4 DEF HeadFree
<1>7. ASSUME NEW k \in 1 .. Len(f) PROVE Pending(a + k - 1)' = f[k]
  <2> DEFINE n == a + k - 1
  <2>1. n \in Total .. Total + Len(f) - 1 /\ n - Total + 1 = k
    BY <1>0, <1>1, <1>4
  <2> HIDE DEF n
  <2>2. Pending(n)' = f[k]
    BY <1>0, <2>1
  <2> QED BY <2>2 DEF n
<1>8. a \in c .. Total + Len(f) /\ a + Len(f) <= Total + Len(f)
  BY <1>0, <1>1, <1>2, <1>4
<1> QED BY <1>0, <1>5, <1>6, <1>7, <1>8 DEF Holds
-----------------------------------------------------------------------------
(* What the steps of the read thread do to the bytes under way. *)
LEMMA ReaderStream ==
  ASSUME IInv,
         \/ \E n \in 1 .. MaxRead : ReadBytes(n)
         \/ FindAck \/ ReadFails \/ NoHead
         \/ \E h \in Index : HoldPartial(h) \/ Consume(h)
  PROVE  /\ NothingUnderWay => NothingUnderWay'
         /\ \A f : GoodFrame(f) /\ UnderWay(f) => UnderWay(f)'
<1> USE Sizes
<1> DEFINE Goal == /\ NothingUnderWay => NothingUnderWay'
                   /\ \A f : GoodFrame(f) /\ UnderWay(f) => UnderWay(f)'
<1>0. /\ tty_buffer_pos \in Nat /\ rx \in Seq(Byte) /\ Len(rx) \in Nat
      /\ Total \in Nat /\ Total = tty_buffer_pos + Len(rx)
  BY Sight
<1>a. HeadFree(0, 0) /\ 0 \in Nat /\ 0 <= 0 /\ 0 <= Total
  BY <1>0 DEF HeadFree
<1> HIDE DEF Goal
<1>1. ASSUME NEW n \in 1 .. MaxRead, ReadBytes(n) PROVE Goal
  <2>1. /\ tty_buffer_pos <= ByteMod + 1 /\ n \in Nat /\ n <= Len(rx) /\ n <= MaxRead
        /\ tty_buffer_pos' = tty_buffer_pos + n /\ rpc' = "ack" /\ rpc = "select"
    BY <1>1 DEF ReadBytes, IInv, BufferBound
  <2>2. /\ Len(rx') = Len(rx) - n
        /\ \A i \in 1 .. Len(rx) - n : rx'[i] = rx[n + i]
    <3>1. n + 1 \in 1 .. Len(rx) + 1 /\ Len(rx) \in n + 1 - 1 .. Len(rx)
      BY <1>0, <2>1
    <3> DEFINE m == n + 1
    <3>2. m \in 1 .. Len(rx) + 1 /\ Len(rx) \in m - 1 .. Len(rx)
      BY <3>1
    <3> HIDE DEF m
    <3>3. /\ Len(SubSeq(rx, m, Len(rx))) = IF m <= Len(rx) THEN Len(rx) - m + 1 ELSE 0
          /\ \A i \in 1 .. Len(rx) - m + 1 : SubSeq(rx, m, Len(rx))[i] = rx[m + i - 1]
      BY <1>0, <3>2, SubSeqProperties
    <3>4. rx' = SubSeq(rx, m, Len(rx))
      BY <1>1 DEF ReadBytes, m
    <3>5. m = n + 1
      BY DEF m
    <3>6. /\ (IF m <= Len(rx) THEN Len(rx) - m + 1 ELSE 0) = Len(rx) - n
          /\ Len(rx) - m + 1 = Len(rx) - n
          /\ \A i \in 1 .. Len(rx) - n : m + i - 1 = n + i
      BY <1>0, <2>1, <3>5
    <3> QED BY <3>3, <3>4, <3>6
  <2>3. Total' = Total - 0
    BY <1>0, <2>1, <2>2 DEF Total
  <2>4. ASSUME NEW k \in 0 .. Total - 0 - 1 PROVE Pending(k)' = Pending(k + 0)
    <3>0. k \in Nat /\ k + 0 = k
      OBVIOUS
    <3>1. CASE k < tty_buffer_pos + n
      <4>1. k \in Index
        BY <1>0, <2>1, <3>1
      <4>2. Pending(k)' = tty_buffer'[k]
        BY <2>1, <3>1 DEF Pending
      <4>3. tty_buffer'[k] = IF k \in tty_buffer_pos .. tty_buffer_pos + n - 1
                               THEN rx[k - tty_buffer_pos + 1] ELSE tty_buffer[k]
        BY <1>1, <4>1 DEF ReadBytes
      <4>4. k \in tty_buffer_pos .. tty_buffer_pos + n - 1 <=> ~(k < tty_buffer_pos)
        BY <1>0, <2>1, <3>0, <3>1
      <4> QED BY <3>0, <4>2, <4>3, <4>4 DEF Pending
    <3>2. CASE ~(k < tty_buffer_pos + n)
      <4> DEFINE i == k - (tty_buffer_pos + n) + 1
      <4>1. i \in 1 .. Len(rx) - n /\ n + i = k - tty_buffer_pos + 1 /\ ~(k < tty_buffer_pos)
        BY <1>0, <2>1, <3>0, <3>2
      <4>2. Pending(k)' = rx'[i]
        BY <2>1, <3>2 DEF Pending
      <4>3. rx'[i] = rx[k - tty_buffer_pos + 1]
        <5> HIDE DEF i
        <5> QED BY <2>2, <4>1
      <4> QED BY <3>0, <4>1, <4>2, <4>3 DEF Pending
    <3> QED BY <3>1, <3>2
  <2>5. IsCut(0) /\ rpc' # "answer"
    BY <2>1 DEF IsCut
  <2> QED BY <1>a, <2>3, <2>4, <2>5, Shifted DEF Goal
<1>2. CASE FindAck \/ ReadFails
  <2>1. /\ tty_buffer' = tty_buffer /\ tty_buffer_pos' = tty_buffer_pos /\ rx' = rx
        /\ rpc # "answer" /\ rpc' # "answer"
    BY <1>2 DEF FindAck, ReadFails, buffer, world
  <2>2. Total' = Total - 0
    BY <1>0, <2>1 DEF Total
  <2>3. \A k \in 0 .. Total - 0 - 1 : Pending(k)' = Pending(k + 0)
    BY <2>1 DEF Pending
  <2>4. IsCut(0)
    BY <2>1 DEF IsCut
  <2> QED BY <1>a, <2>1, <2>2, <2>3, <2>4, Shifted DEF Goal
<1>3. CASE NoHead
  <2>1. /\ tty_buffer_pos' = 0 /\ rx' = rx /\ rpc = "head" /\ rpc' = "select"
        /\ Found(HeadByte) = {}
    BY <1>3 DEF NoHead, world
  <2>2. tty_buffer_pos <= search_byte /\ search_byte \in Nat
    BY <2>1 DEF IInv, NoGhostBytes, TypeOK
  <2> DEFINE d == tty_buffer_pos
  <2>3. HeadFree(0, d)
    <3> SUFFICES ASSUME NEW k \in 0 .. d - 1 PROVE Pending(k) # HeadByte
      BY DEF HeadFree
    <3>1. k \in 0 .. search_byte - 1 /\ k < tty_buffer_pos
      BY <1>0, <2>2
    <3> QED BY <2>1, <3>1 DEF Found, Pending
  <2>4. Total' = Total - d
    BY <1>0, <2>1 DEF Total
  <2>5. ASSUME NEW k \in 0 .. Total - d - 1 PROVE Pending(k)' = Pending(k + d)
    <3>1. ~(k < 0) /\ ~(k + d < tty_buffer_pos) /\ k - 0 + 1 = k + d - tty_buffer_pos + 1
      BY <1>0
    <3>2. Pending(k)' = rx[k - 0 + 1]
      BY <2>1, <3>1 DEF Pending
    <3>3. Pending(k + d) = rx[k + d - tty_buffer_pos + 1]
      BY <1>0, <3>1 DEF Pending
    <3> HIDE DEF d
    <3> QED BY <3>1, <3>2, <3>3
  <2>6. IsCut(0) /\ rpc' # "answer" /\ d \in Nat /\ 0 <= d /\ d <= Total
    BY <1>0, <2>1 DEF IsCut
  <2> HIDE DEF d
  <2> QED BY <2>3, <2>4, <2>5, <2>6, Shifted DEF Goal
<1>4. ASSUME NEW h \in Index, HoldPartial(h) PROVE Goal
  <2>1. Scanning /\ IsHead(h) /\ KeepFrom(h) /\ rx' = rx /\ rpc = "head" /\ rpc' = "select"
    BY <1>4 DEF HoldPartial, Scanning, world
  <2>2. /\ h \in 0 .. tty_buffer_pos - 1 /\ tty_buffer_pos <= search_byte
        /\ search_byte \in Nat /\ search_byte <= MaxBuffer /\ h \in Nat
    BY <2>1, HeadInside
  <2>3. HeadFree(0, h)
    <3> SUFFICES ASSUME NEW k \in 0 .. h - 1 PROVE Pending(k) # HeadByte
      BY DEF HeadFree
    <3>1. k \in 0 .. search_byte - 1 /\ k < tty_buffer_pos /\ ~(h <= k)
      BY <1>0, <2>2
    <3> QED BY <2>1, <3>1 DEF IsHead, Found, Pending
  <2>4. tty_buffer_pos' = tty_buffer_pos - h
    BY <2>1 DEF KeepFrom
  <2>5. Total' = Total - h
    BY <1>0, <2>1, <2>2, <2>4 DEF Total
  <2>6. ASSUME NEW k \in 0 .. Total - h - 1 PROVE Pending(k)' = Pending(k + h)
    <3>1. CASE k < tty_buffer_pos - h
      <4>1. k \in Index /\ k + h < tty_buffer_pos /\ h + k = k + h
        BY <1>0, <2>2, <3>1
      <4>2. tty_buffer'[k] = tty_buffer[h + k]
        BY <2>1, <3>1, <4>1 DEF KeepFrom
      <4> QED BY <2>4, <3>1, <4>1, <4>2 DEF Pending
    <3>2. CASE ~(k < tty_buffer_pos - h)
      <4>1. ~(k + h < tty_buffer_pos)
            /\ k - (tty_buffer_pos - h) + 1 = k + h - tty_buffer_pos + 1
        BY <1>0, <2>2, <3>2
      <4>2. Pending(k)' = rx[k - (tty_buffer_pos - h) + 1]
        BY <2>1, <2>4, <3>2 DEF Pending
      <4>3. Pending(k + h) = rx[k + h - tty_buffer_pos + 1]
        BY <1>0, <2>2, <4>1 DEF Pending
      <4> QED BY <4>1, <4>2, <4>3
    <3> QED BY <3>1, <3>2
  <2>7. IsCut(0) /\ rpc' # "answer" /\ 0 <= h /\ h <= Total
    BY <1>0, <2>1, <2>2 DEF IsCut
  <2> QED BY <2>2, <2>3, <2>5, <2>6, <2>7, Shifted DEF Goal
<1>5. ASSUME NEW h \in Index, Consume(h) PROVE Goal
  <2> DEFINE R == Remainder(h)
             L == LengthAt(h)
             d == tty_buffer_pos - R
  <2>1. Scanning /\ IsHead(h) /\ ~Partial(h) /\ rx' = rx /\ rpc = "answer" /\ rpc' # "answer"
    BY <1>5 DEF Consume, Scanning, world, IInv, FrameThere
  <2>2. /\ h \in 0 .. tty_buffer_pos - 1 /\ h \in Nat
        /\ tty_buffer_pos <= search_byte /\ search_byte <= MaxBuffer /\ search_byte \in Nat
    BY <2>1, HeadInside
  <2>3. /\ L \in 0 .. ByteMod - 1 /\ h + L + 3 <= tty_buffer_pos
        /\ R \in Nat /\ R < tty_buffer_pos
        /\ tty_buffer_pos > h + L + 3 => h + L + 4 + R = tty_buffer_pos
        /\ tty_buffer_pos = h + L + 3 => R = 0
    BY <2>1, FrameBounds
  <2>4. /\ tty_buffer' = [i \in Index |-> IF i < R THEN tty_buffer[h + L + 4 + i] ELSE 0]
        /\ tty_buffer_pos' = R
    BY <1>5 DEF Consume
  <2>5. IsCut(d)
    BY <2>1 DEF IsCut
  <2> HIDE DEF R, L
  <2>6. d \in Nat /\ d <= d /\ d <= Total /\ (R > 0 => d = h + L + 4)
    BY <1>0, <2>2, <2>3
  <2>7. HeadFree(d, d)
    BY <2>6 DEF HeadFree
  <2>8. Total' = Total - d
    BY <1>0, <2>1, <2>3, <2>4 DEF Total
  <2>9. ASSUME NEW k \in 0 .. Total - d - 1 PROVE Pending(k)' = Pending(k + d)
    <3>1. CASE k < R
      <4>1. k \in Index /\ k + d < tty_buffer_pos /\ h + L + 4 + k = k + d
        BY <1>0, <2>2, <2>3, <2>6, <3>1, SMTT(30)
      <4>2. tty_buffer'[k] = tty_buffer[k + d]
        BY <2>4, <3>1, <4>1
      <4> QED BY <2>4, <3>1, <4>1, <4>2 DEF Pending
    <3>2. CASE ~(k < R)
      <4>1. ~(k + d < tty_buffer_pos) /\ k - R + 1 = k + d - tty_buffer_pos + 1
        BY <1>0, <2>3, <3>2, SMTT(30)
      <4>2. Pending(k)' = rx[k - R + 1]
        BY <2>1, <2>4, <3>2 DEF Pending
      <4> HIDE DEF d
      <4>3. Pending(k + d) = rx[k + d - tty_buffer_pos + 1]
        <5>1. d \in Nat /\ k \in Int /\ tty_buffer_pos \in Nat /\ ~(k + d < tty_buffer_pos)
          BY <1>0, <2>6, <4>1
        <5> QED BY ONLY <5>1, SMTT(30) DEF Pending
      <4> QED BY <4>1, <4>2, <4>3
    <3> QED BY <3>1, <3>2
  <2> HIDE DEF d
  <2> QED BY <2>1, <2>5, <2>6, <2>7, <2>8, <2>9, Shifted DEF Goal
<1> QED BY <1>1, <1>2, <1>3, <1>4, <1>5 DEF Goal

(* A command that agrees with a frame up to the checksum, and whose         *)
(* checksum is right, is that frame.                                        *)
LEMMA CheckedCommand ==
  ASSUME NEW f, GoodFrame(f), NEW cmd, cmd = [k \in 1 .. Len(f) |-> cmd[k]],
         \A k \in 1 .. Len(f) - 1 : cmd[k] = f[k], ChecksumOK(cmd)
  PROVE  cmd = f
<1> DEFINE n == Len(f)
           S == Byte \cup {cmd[n]}
<1>0. f \in Seq(Byte) /\ n \in Nat /\ n >= 4 /\ ChecksumOK(f)
  BY LenProperties DEF GoodFrame
<1>1. ASSUME NEW k \in 1 .. n PROVE cmd[k] \in S /\ f[k] \in S
  <2>1. f[k] \in Byte
    BY <1>0, ElementOfSeq
  <2>2. k = n \/ k \in 1 .. n - 1
    BY <1>0
  <2> QED BY <2>1, <2>2
<1> HIDE DEF S
<1>2. cmd \in Seq(S) /\ f \in Seq(S) /\ Len(cmd) = n
  <2>1. f = [k \in 1 .. n |-> f[k]]
    BY <1>0, LenProperties
  <2>2. cmd \in [1 .. n -> S] /\ f \in [1 .. n -> S]
    BY <1>1, <2>1
  <2>3. cmd \in Seq(S) /\ f \in Seq(S)
    BY <1>0, <2>2, SeqDef
  <2>4. DOMAIN cmd = 1 .. n /\ DOMAIN cmd = 1 .. Len(cmd) /\ Len(cmd) \in Nat
    BY <2>2, <2>3, LenProperties
  <2> QED BY <1>0, <2>3, <2>4
<1> HIDE DEF n
<1>3. /\ n - 1 \in 2 - 1 .. n
      /\ 2 \in 1 .. n + 1
  BY <1>0
<1> DEFINE m == n - 1
           u == SubSeq(cmd, 2, m)
           v == SubSeq(f, 2, m)
<1>4. m \in 2 - 1 .. Len(cmd) /\ m \in 2 - 1 .. Len(f) /\ m \in Nat /\ 2 <= m
      /\ 2 \in 1 .. Len(cmd) + 1 /\ 2 \in 1 .. Len(f) + 1
  BY <1>0, <1>2, <1>3 DEF n
<1>a. m = n - 1
  OBVIOUS
<1> HIDE DEF m
<1>5. /\ u \in Seq(S) /\ Len(u) = m - 2 + 1
      /\ \A i \in 1 .. m - 2 + 1 : u[i] = cmd[2 + i - 1]
  BY <1>2, <1>4, SubSeqProperties, SMTT(30)
<1>6. /\ v \in Seq(S) /\ Len(v) = m - 2 + 1
      /\ \A i \in 1 .. m - 2 + 1 : v[i] = f[2 + i - 1]
  BY <1>2, <1>4, SubSeqProperties, SMTT(30)
<1>7. u = v
  <2>1. ASSUME NEW i \in 1 .. Len(u) PROVE u[i] = v[i]
    <3>1. i \in 1 .. m - 2 + 1
      BY <1>5
    <3>2. 2 + i - 1 \in 1 .. n - 1
      BY <1>4, <1>a, <1>0, <3>1
    <3>3. cmd[2 + i - 1] = f[2 + i - 1]
      BY <3>2 DEF n
    <3> QED BY <1>5, <1>6, <3>1, <3>3
  <2> HIDE DEF u, v
  <2> QED BY <1>5, <1>6, <2>1, SeqEqual
<1>8. cmd[n] = f[n]
  BY <1>0, <1>2, <1>7, <1>a DEF ChecksumOK, n
<1>9. \A k \in 1 .. n : cmd[k] = f[k]
  <2> TAKE k \in 1 .. n
  <2>1. k = n \/ k \in 1 .. n - 1
    BY <1>0
  <2> QED BY <1>8, <2>1 DEF n
<1> QED BY <1>2, <1>9, SeqEqual DEF n

(* A frame the read thread takes is the one under way, whole or without its *)
(* checksum; behind it there is nothing.                                    *)
LEMMA FrameTaken ==
  ASSUME IInv, NEW h \in Index, TakeFrame(h)
  PROVE  /\ ~NothingUnderWay
         /\ \A f : GoodFrame(f) /\ UnderWay(f) =>
                 NothingUnderWay' /\ (ChecksumOK(CommandAt(h)) => CommandAt(h) = f)
<1> USE Sizes
<1>0. /\ tty_buffer_pos \in Nat /\ rx \in Seq(Byte) /\ Len(rx) \in Nat
      /\ Total \in Nat /\ Total = tty_buffer_pos + Len(rx)
  BY Sight
<1>1. Scanning /\ rpc = "head" /\ IsHead(h) /\ ~Partial(h)
  BY DEF TakeFrame, Scanning
<1>2. /\ h \in 0 .. tty_buffer_pos - 1 /\ h \in Nat /\ tty_buffer_pos <= search_byte
      /\ search_byte \in Nat
  BY <1>1, HeadInside
<1>3. Pending(h) = HeadByte /\ IsCut(0) /\ 0 \in 0 .. Total /\ h \in 0 .. Total - 1
  BY <1>0, <1>1, <1>2 DEF IsHead, Found, Pending, IsCut
<1>4. ~NothingUnderWay
  BY <1>3 DEF NothingUnderWay, HeadFree
<1>5. ASSUME NEW f, GoodFrame(f), UnderWay(f)
      PROVE  NothingUnderWay' /\ (ChecksumOK(CommandAt(h)) => CommandAt(h) = f)
  <2>0. Len(f) \in Nat /\ Len(f) >= 4 /\ f[1] = HeadByte /\ f[3] = Len(f) - 4
        /\ f[Len(f)] # HeadByte
    BY <1>5, LenProperties DEF GoodFrame
  <2>1. PICK a \in 0 .. Total : /\ a + Len(f) <= Total
                              /\ HeadFree(0, a) /\ HeadFree(a + Len(f), Total)
                              /\ \A k \in 1 .. Len(f) : Pending(a + k - 1) = f[k]
    BY <1>3, <1>5 DEF UnderWay, Holds
  <2>2. a = h
    <3>1. Pending(a) = HeadByte
      <4>1. 1 \in 1 .. Len(f) /\ a + 1 - 1 = a
        BY <2>0
      <4> QED BY <2>0, <2>1, <4>1
    <3>2. ~(h < a)
      BY <1>2, <1>3, <2>1 DEF HeadFree
    <3>3. ~(a < h)
      <4>1. SUFFICES ASSUME a < h PROVE FALSE
        OBVIOUS
      <4>2. a < tty_buffer_pos /\ a \in 0 .. search_byte - 1
        BY <1>0, <1>2, <4>1
      <4>3. a \in Found(HeadByte)
        BY <3>1, <4>2 DEF Pending, Found
      <4>4. h <= a
        BY <1>1, <4>3 DEF IsHead
      <4> QED BY <1>2, <4>1, <4>4
    <3> QED BY <1>2, <3>2, <3>3
  <2> DEFINE L == LengthAt(h)
             R == Remainder(h)
  <2>3. /\ L \in 0 .. ByteMod - 1 /\ h + L + 3 <= tty_buffer_pos
        /\ R \in Nat /\ R < tty_buffer_pos
        /\ tty_buffer_pos > h + L + 3 => h + L + 4 + R = tty_buffer_pos
        /\ tty_buffer_pos = h + L + 3 => R = 0
    BY <1>1, FrameBounds
  <2>4. L = Len(f) - 4
    <3> HIDE DEF L
    <3>1. h + 2 < tty_buffer_pos /\ h + 3 - 1 = h + 2 /\ 3 \in 1 .. Len(f)
      BY <1>0, <1>2, <2>0, <2>3
    <3>2. Pending(h + 3 - 1) = f[3]
      BY <2>1, <2>2, <3>1
    <3>3. Pending(h + 2) = tty_buffer[h + 2]
      BY <3>1 DEF Pending
    <3> QED BY <2>0, <3>1, <3>2, <3>3 DEF L, LengthAt
  <2> HIDE DEF L, R
  <2>n. /\ h + Len(f) - 1 <= tty_buffer_pos /\ R \in Nat
        /\ tty_buffer_pos - R >= h + Len(f) - 1
    <3>1. L \in Nat /\ Len(f) = L + 4
      BY <2>0, <2>3, <2>4
    <3> QED BY <1>0, <1>2, <2>3, <3>1
  <2>5. ChecksumOK(CommandAt(h)) => CommandAt(h) = f
    <3> DEFINE cmd == CommandAt(h)
    <3>1. cmd = [k \in 1 .. Len(f) |-> tty_buffer[h + k - 1]]
      <4>1. L + 4 = Len(f)
        BY <2>0, <2>4
      <4> QED BY <4>1 DEF CommandAt, L
    <3>2. ASSUME NEW k \in 1 .. Len(f) - 1 PROVE cmd[k] = f[k]
      <4>1. k \in 1 .. Len(f) /\ h + k - 1 < tty_buffer_pos
        BY <1>0, <1>2, <2>0, <2>n, SMTT(30)
      <4>2. Pending(h + k - 1) = f[k]
        BY <2>1, <2>2, <4>1
      <4>3. Pending(h + k - 1) = tty_buffer[h + k - 1]
        BY <4>1 DEF Pending
      <4>4. cmd[k] = tty_buffer[h + k - 1]
        <5> HIDE DEF cmd
        <5> QED BY <3>1, <4>1
      <4> QED BY <4>2, <4>3, <4>4
    <3> HIDE DEF cmd
    <3>3. cmd = [k \in 1 .. Len(f) |-> cmd[k]]
      BY <3>1
    <3>4. ChecksumOK(cmd) => cmd = f
      BY <1>5, <3>2, <3>3, CheckedCommand
    <3> QED BY <3>4 DEF cmd
  <2>6. NothingUnderWay'
    <3>a. /\ tty_buffer' = tty_buffer /\ tty_buffer_pos' = tty_buffer_pos
          /\ search_byte' = search_byte /\ rx' = rx /\ rpc' = "answer"
      BY DEF TakeFrame, buffer, world
    <3> SUFFICES ASSUME NEW c, IsCut(c)' PROVE HeadFree(c, Total)'
      BY DEF NothingUnderWay
    <3>1. c = tty_buffer_pos - R
      <4>1. PICK g \in Index : IsHead(g)' /\ (c = tty_buffer_pos - Remainder(g))'
        BY <3>a DEF IsCut
      <4>2. IsHead(g) /\ c = tty_buffer_pos - Remainder(g)
        BY <3>a, <4>1 DEF IsHead, Found, Remainder, LeftBytes, LengthAt
      <4>3. g = h
        BY <1>1, <1>2, <4>2 DEF IsHead, Found
      <4> QED BY <4>2, <4>3 DEF R
    <3>2. \A k : Pending(k)' = Pending(k)
      BY <3>a DEF Pending
    <3>3. Total' = Total
      BY <3>a DEF Total
    <3> SUFFICES ASSUME NEW k \in c .. Total - 1 PROVE Pending(k) # HeadByte
      BY <3>2, <3>3 DEF HeadFree
    <3>4. CASE k >= h + Len(f)
      <4>1. k \in h + Len(f) .. Total - 1
        BY <1>0, <1>2, <2>0, <2>3, <3>1, <3>4, SMTT(30)
      <4> QED BY <2>1, <2>2, <4>1 DEF HeadFree
    <3>5. CASE k < h + Len(f)
      <4>1. k = h + Len(f) - 1
        <5>1. k \in Int /\ k >= tty_buffer_pos - R
          BY <1>0, <2>n, <3>1, SMTT(30)
        <5>2. h + Len(f) \in Int /\ tty_buffer_pos - R \in Int
          BY <1>0, <1>2, <2>0, <2>n
        <5> QED BY <2>n, <3>5, <5>1, <5>2, <1>2, <2>0, SMTT(30)
      <4>2. Len(f) \in 1 .. Len(f)
        BY <2>0
      <4>3. Pending(h + Len(f) - 1) = f[Len(f)]
        BY <2>1, <2>2, <4>2
      <4> QED BY <2>0, <4>1, <4>3
    <3>6. k \in Int
      BY <1>0, <2>3, <3>1
    <3> QED BY <1>2, <2>0, <3>4, <3>5, <3>6
  <2> QED BY <2>5, <2>6
<1> QED BY <1>4, <1>5
-----------------------------------------------------------------------------
(* The conversation with the box. *)
LEMMA LastSent ==
  ASSUME IInv, SentFrames, sent # <<>>
  PROVE  /\ Len(sent) \in Nat /\ Len(sent) >= 1 /\ Len(sent) \in 1 .. Len(sent)
         /\ GoodFrame(sent[Len(sent)])
<1>1. sent \in Seq(Seq(Byte))
  BY DEF IInv, TypeOK
<1>2. Len(sent) \in Nat \ {0}
  BY <1>1, EmptySeq
<1> QED BY <1>2 DEF SentFrames

(* A step that leaves the box and the queue alone, and neither begins nor   *)
(* ends an answer, leaves the conversation where it is.                     *)
LEMMA Unspoken ==
  ASSUME IInv, SentFrames, Conversation,
         Writing' <=> Writing, Writing => out'[Reader] = out[Reader],
         Mute(tx) => Mute(tx)', \A m \in Answers : OneAnswer(tx, m) => OneAnswer(tx, m)',
         box' = box, sent' = sent, Got' = Got,
         NothingUnderWay => NothingUnderWay',
         \A f : GoodFrame(f) /\ UnderWay(f) => UnderWay(f)'
  PROVE  Conversation'
<1>1. Unanswered => Unanswered'
  BY DEF Unanswered
<1>2. Answering(<<AckByte>>) => Answering(<<AckByte>>)'
  BY MessageLengths DEF Answering
<1>2n. Answering(<<NakByte>>) => Answering(<<NakByte>>)'
  BY MessageLengths DEF Answering
<1>3. Missing => Missing'
  BY DEF Missing
<1>4. CASE Quiet
  BY <1>1, <1>4 DEF Quiet, Conversation
<1>5. CASE Reported
  <2>1. PICK f : f = sent[Len(sent)] /\ UnderWay(f)
    BY <1>5 DEF Reported
  <2>2. GoodFrame(f)
    BY <1>5, <2>1, LastSent DEF Reported, Missing
  <2>3. UnderWay(f)' /\ f = sent'[Len(sent')]
    BY <2>1, <2>2
  <2> QED BY <1>1, <1>3, <1>5, <2>3 DEF Reported, Conversation
<1>6. CASE Accepted
  BY <1>2, <1>6 DEF Accepted, Conversation
<1>7. CASE Rejected
  BY <1>2n, <1>3, <1>7 DEF Rejected, Conversation
<1>8. CASE Refused
  BY <1>1, <1>3, <1>8 DEF Refused, Conversation
<1> QED BY <1>4, <1>5, <1>6, <1>7, <1>8 DEF Conversation

(* The same with nothing changed on the line. *)
LEMMA Elsewhere ==
  ASSUME IInv, EInv, UNCHANGED <<buffer, rpc, sent, box, rx>>,
         Writing' <=> Writing, Writing => out'[Reader] = out[Reader],
         Mute(tx) => Mute(tx)', \A m : OneAnswer(tx, m) => OneAnswer(tx, m)',
         Got' = Got, Queued', Writers'
  PROVE  EInv'
<1>1. UNCHANGED <<buffer, rpc, rx>> /\ sent' = sent /\ box' = box
  OBVIOUS
<1>2. /\ NothingUnderWay => NothingUnderWay'
      /\ \A f : UnderWay(f) => UnderWay(f)'
  BY <1>1, StreamKept
<1>3. Conversation'
  BY <1>1, <1>2, Unspoken DEF EInv
<1>4. SentFrames'
  BY <1>1 DEF EInv, SentFrames
<1> QED BY <1>3, <1>4 DEF EInv

LEMMA SendCommandEInv ==
  ASSUME IInv, EInv, NEW t \in Senders, canbox_send_command(t)
  PROVE  EInv'
<1>1. /\ wpc' = [wpc EXCEPT ![t] = "lock"] /\ out' = [out EXCEPT ![t] = <<t, "command">>]
      /\ UNCHANGED <<buffer, rpc, sent, box, rx>> /\ tx' = tx
      /\ queue' = queue /\ delivered' = delivered
  BY DEF canbox_send_command, CallWrite, world, qvars
<1>2. /\ wpc \in [Threads -> WritePC] /\ t \in Threads /\ Reader \in Threads /\ t # Reader
      /\ <<t, "command">> \in Commands /\ Senders \subseteq Threads
  BY CanboxAssumption DEF IInv, TypeOK, Threads, Commands
<1>3. wpc'[Reader] = wpc[Reader] /\ out'[Reader] = out[Reader]
  BY <1>1, <1>2 DEF EInv, Writers
<1>4. Writers'
  BY <1>1, <1>2, <1>3 DEF EInv, Writers
<1>5. (Writing' <=> Writing) /\ Got' = Got /\ Queued'
  BY <1>1, <1>3 DEF Writing, Got, EInv, Queued
<1>6. (Mute(tx) => Mute(tx)') /\ \A m : OneAnswer(tx, m) => OneAnswer(tx, m)'
  BY <1>1 DEF Mute, OneAnswer
<1> QED BY <1>1, <1>3, <1>4, <1>5, <1>6, Elsewhere

(* The steps of canbox_write that write nothing and do not end it. *)
LEMMA WriteInside ==
  ASSUME IInv, EInv, NEW t \in Threads, NEW v, wpc' = [wpc EXCEPT ![t] = v],
         wpc[t] \notin {"idle", "end"} \/ t # Reader, wpc[t] # "idle", v # "idle",
         t = Reader => v \in {"lock", "drain", "write"},
         UNCHANGED <<buffer, rpc, sent, box, rx>>, tx' = tx, out' = out,
         queue' = queue, delivered' = delivered
  PROVE  EInv'
<1>1. wpc \in [Threads -> WritePC] /\ Reader \in Threads /\ Senders \subseteq Threads
  BY DEF IInv, TypeOK, Threads
<1>a. wpc[Reader] \in {"idle", "lock", "drain", "write", "end"}
  BY DEF EInv, Writers
<1>2. /\ wpc'[Reader] \in {"lock", "drain", "write"} <=> wpc[Reader] \in {"lock", "drain", "write"}
      /\ wpc'[Reader] \in {"idle", "lock", "drain", "write", "end"}
      /\ wpc'[Reader] # "idle" => wpc[Reader] # "idle"
      /\ \A u \in Senders : wpc'[u] # "idle" => wpc[u] # "idle"
  BY <1>1, <1>a
<1>3. Writers'
  BY <1>2 DEF EInv, Writers
<1>4. (Writing' <=> Writing) /\ Got' = Got /\ Queued'
  BY <1>2 DEF Writing, Got, EInv, Queued
<1>5. (Mute(tx) => Mute(tx)') /\ \A m : OneAnswer(tx, m) => OneAnswer(tx, m)'
  BY DEF Mute, OneAnswer
<1> QED BY <1>3, <1>4, <1>5, Elsewhere

LEMMA WriteEndEInv ==
  ASSUME IInv, EInv, NEW t \in Threads, WriteEnd(t)
  PROVE  EInv'
<1>1. /\ wpc[t] = "end" /\ wpc' = [wpc EXCEPT ![t] = "idle"] /\ out' = [out EXCEPT ![t] = <<>>]
      /\ UNCHANGED <<buffer, rpc, sent, box, rx>> /\ tx' = tx
      /\ queue' = queue /\ delivered' = delivered
  BY DEF WriteEnd, world, qvars
<1>2. wpc \in [Threads -> WritePC] /\ Reader \in Threads /\ Senders \subseteq Threads
  BY DEF IInv, TypeOK, Threads
<1>3. /\ out \in [Threads -> Answers \cup Commands \cup {<<>>}]
      /\ wpc[Reader] \in {"idle", "lock", "drain", "write", "end"}
  BY DEF EInv, Writers
<1>4. /\ wpc'[Reader] \in {"lock", "drain", "write"} <=> wpc[Reader] \in {"lock", "drain", "write"}
      /\ wpc'[Reader] \in {"idle", "lock", "drain", "write", "end"}
      /\ wpc'[Reader] # "idle" => wpc[Reader] # "idle" /\ Reader # t
      /\ \A u \in Senders : wpc'[u] # "idle" => wpc[u] # "idle" /\ u # t
  BY <1>1, <1>2, <1>3
<1>5. out' \in [Threads -> Answers \cup Commands \cup {<<>>}]
      /\ \A u \in Threads : u # t => out'[u] = out[u]
  BY <1>1, <1>3
<1>6. Writers'
  BY <1>1, <1>2, <1>4, <1>5 DEF EInv, Writers
<1>7. (Writing' <=> Writing) /\ Got' = Got /\ Queued' /\ (Writing => out'[Reader] = out[Reader])
  BY <1>1, <1>2, <1>4, <1>5 DEF Writing, Got, EInv, Queued
<1>8. (Mute(tx) => Mute(tx)') /\ \A m : OneAnswer(tx, m) => OneAnswer(tx, m)'
  BY <1>1 DEF Mute, OneAnswer
<1> QED BY <1>1, <1>6, <1>7, <1>8, Elsewhere

(* A sender writes its command. *)
LEMMA WriteCommandEInv ==
  ASSUME IInv, EInv, NEW t \in Senders, WriteBytes(t)
  PROVE  EInv'
<1>1. /\ wpc[t] = "write" /\ tx' = Append(tx, out[t]) /\ out' = out
      /\ wpc' = [wpc EXCEPT ![t] = IF Len(out[t]) = 1 THEN "end" ELSE "wait"]
      /\ UNCHANGED <<buffer, rpc, sent, box, rx>>
      /\ queue' = queue /\ delivered' = delivered
  BY DEF WriteBytes, qvars
<1>2. /\ wpc \in [Threads -> WritePC] /\ t \in Threads /\ Reader \in Threads /\ t # Reader
      /\ Senders \subseteq Threads
  BY CanboxAssumption DEF IInv, TypeOK, Threads
<1> DEFINE S == Answers \cup Commands
<1>3. tx \in Seq(S) /\ out[t] \in S /\ Len(out[t]) # 1
  <2>1. tx \in Seq(S) /\ out[t] \in Commands
    BY <1>1 DEF EInv, Writers
  <2>2. Len(out[t]) = 2
    BY <2>1, MessageLengths
  <2> QED BY <2>1, <2>2
<1>4. tx' \in Seq(S)
  <2> HIDE DEF S
  <2> QED BY <1>1, <1>3, AppendProperties
<1>5. /\ wpc'[Reader] = wpc[Reader]
      /\ \A u \in Senders : wpc'[u] # "idle" => wpc[u] # "idle"
  BY <1>1, <1>2
<1>6. Writers'
  BY <1>1, <1>4, <1>5 DEF EInv, Writers
<1>7. (Mute(tx) => Mute(tx)') /\ \A m : OneAnswer(tx, m) => OneAnswer(tx, m)'
  <2> HIDE DEF S
  <2>1. /\ Mute(tx) => Mute(Append(tx, out[t]))
        /\ \A m : OneAnswer(tx, m) => OneAnswer(Append(tx, out[t]), m)
    BY <1>3, CommandSent
  <2>2. (Mute(tx)' <=> Mute(Append(tx, out[t])))
        /\ \A m : OneAnswer(tx, m)' <=> OneAnswer(Append(tx, out[t]), m)
    BY <1>1 DEF Mute, OneAnswer
  <2> QED BY <2>1, <2>2
<1>8. (Writing' <=> Writing) /\ Got' = Got /\ Queued'
  BY <1>1, <1>5 DEF Writing, Got, EInv, Queued
<1> QED BY <1>1, <1>6, <1>7, <1>8, Elsewhere

(* The read thread writes its answer, the only one on its way. *)
LEMMA WriteAnswerEInv ==
  ASSUME IInv, EInv, WriteBytes(Reader)
  PROVE  EInv'
<1>1. /\ wpc[Reader] = "write" /\ tx' = Append(tx, out[Reader]) /\ out' = out
      /\ wpc' = [wpc EXCEPT ![Reader] = IF Len(out[Reader]) = 1 THEN "end" ELSE "wait"]
      /\ UNCHANGED <<buffer, rpc, rx>> /\ sent' = sent /\ box' = box
      /\ queue' = queue /\ delivered' = delivered
  BY DEF WriteBytes, qvars
<1>2. /\ wpc \in [Threads -> WritePC] /\ Reader \in Threads
      /\ Senders \subseteq Threads /\ Reader \notin Senders
  BY CanboxAssumption DEF IInv, TypeOK, Threads
<1> DEFINE S == Answers \cup Commands
<1>3. tx \in Seq(S) /\ out[Reader] \in Answers /\ Len(out[Reader]) = 1 /\ out[Reader] \in S
  BY <1>1, MessageLengths DEF EInv, Writers
<1>4. tx' \in Seq(S)
  <2> HIDE DEF S
  <2> QED BY <1>1, <1>3, AppendProperties
<1>5. /\ wpc'[Reader] = "end"
      /\ \A u \in Senders : wpc'[u] = wpc[u]
  BY <1>1, <1>2, <1>3
<1>6. Writers'
  BY <1>1, <1>4, <1>5 DEF EInv, Writers
<1>7. ASSUME Mute(tx) PROVE OneAnswer(tx, out[Reader])'
  <2> HIDE DEF S
  <2>1. OneAnswer(Append(tx, out[Reader]), out[Reader])
    BY <1>3, <1>7, AnswerSent
  <2> QED BY <1>1, <2>1 DEF OneAnswer
<1>8. Writing /\ ~Writing'
  BY <1>1, <1>5 DEF Writing
<1>9. \A m : Answering(m) => Answering(m)'
  <2> SUFFICES ASSUME NEW m, Answering(m) PROVE OneAnswer(tx, m)'
    BY <1>8 DEF Answering
  <2>1. out[Reader] = m /\ out'[Reader] = m /\ Mute(tx)
    BY <1>1, <1>8 DEF Answering
  <2> QED BY <1>7, <2>1 DEF OneAnswer
<1>10. Got' = Got /\ Queued' /\ SentFrames' /\ (Missing => Missing')
  BY <1>1 DEF Got, EInv, Queued, SentFrames, Missing
<1>11. NothingUnderWay => NothingUnderWay'
  BY <1>1, StreamKept
<1>12. Accepted \/ Rejected
  BY <1>8 DEF EInv, Conversation, Quiet, Reported, Refused, Unanswered
<1>13. Accepted' \/ Rejected'
  BY <1>1, <1>9, <1>10, <1>11, <1>12 DEF Accepted, Rejected
<1> QED BY <1>6, <1>10, <1>13 DEF EInv, Conversation

LEMMA WriteStepEInv ==
  ASSUME IInv, EInv, NEW t \in Threads, WriteStep(t)
  PROVE  EInv'
<1>a. t = Reader => wpc[t] \in {"idle", "lock", "drain", "write", "end"}
  BY DEF EInv, Writers
<1>b. wpc[t] # "idle" /\ (t = Reader => ~(WaitAcked(t) \/ WaitInvalid(t) \/ WaitBlocks(t) \/ WaitFails(t)))
  BY <1>a DEF WriteStep, WriteLock, Drain, WriteBytes, WaitAcked, WaitInvalid, WaitBlocks,
              WaitFails, WriteEnd
<1>c. wpc \in [Threads -> WritePC]
  BY DEF IInv, TypeOK
<1>1. CASE WriteLock(t)
  <2>1. /\ wpc[t] = "lock" /\ wpc' = [wpc EXCEPT ![t] = "drain"] /\ tx' = tx /\ out' = out
        /\ UNCHANGED <<buffer, rpc, sent, box, rx>> /\ queue' = queue /\ delivered' = delivered
    BY <1>1 DEF WriteLock, world, qvars
  <2> QED BY <2>1, WriteInside
<1>2. CASE Drain(t)
  <2>1. /\ wpc[t] = "drain" /\ tx' = tx /\ out' = out
        /\ wpc' = [wpc EXCEPT ![t] = "write"] \/ wpc' = wpc
        /\ UNCHANGED <<buffer, rpc, sent, box, rx>> /\ queue' = queue /\ delivered' = delivered
    BY <1>2 DEF Drain, world, qvars
  <2>2. wpc = [wpc EXCEPT ![t] = "drain"]
    BY <1>c, <2>1
  <2>3. PICK v \in {"drain", "write"} : wpc' = [wpc EXCEPT ![t] = v]
    BY <2>1, <2>2
  <2>4. v # "idle" /\ v \in {"lock", "drain", "write"}
    OBVIOUS
  <2> QED BY <2>1, <2>3, <2>4, WriteInside
<1>3. CASE WriteBytes(t)
  BY <1>3, WriteCommandEInv, WriteAnswerEInv DEF Threads
<1>4. CASE WaitAcked(t) \/ WaitInvalid(t) \/ WaitFails(t)
  <2>1. PICK r, err : WaitReturns(t, r, err)
    BY <1>4 DEF WaitAcked, WaitInvalid, WaitFails
  <2> DEFINE v == IF WriteAgain(t, r, err) THEN "write" ELSE "end"
  <2>2. /\ wpc' = [wpc EXCEPT ![t] = v] /\ tx' = tx /\ out' = out
        /\ UNCHANGED <<buffer, rpc, sent, box, rx>> /\ queue' = queue /\ delivered' = delivered
    BY <2>1 DEF WaitReturns, world, qvars
  <2>3. v # "idle" /\ t # Reader
    BY <1>b, <1>4
  <2> HIDE DEF v
  <2> QED BY <1>b, <2>2, <2>3, WriteInside
<1>5. CASE WaitBlocks(t)
  <2>1. /\ wpc' = [wpc EXCEPT ![t] = "blocked"] /\ tx' = tx /\ out' = out
        /\ UNCHANGED <<buffer, rpc, sent, box, rx>> /\ queue' = queue /\ delivered' = delivered
    BY <1>5 DEF WaitBlocks, world, qvars
  <2> QED BY <1>b, <1>5, <2>1, WriteInside
<1>6. CASE WriteEnd(t)
  BY <1>6, WriteEndEInv
<1> QED BY <1>1, <1>2, <1>3, <1>4, <1>5, <1>6 DEF WriteStep

(* The read thread reads, searches and cuts out. *)
LEMMA SearchEInv ==
  ASSUME IInv, EInv,
         \/ \E n \in 1 .. MaxRead : ReadBytes(n)
         \/ FindAck \/ ReadFails \/ NoHead
         \/ \E h \in Index : HoldPartial(h) \/ Consume(h)
  PROVE  EInv'
<1>1. /\ wpc' = wpc /\ out' = out /\ tx' = tx /\ sent' = sent /\ box' = box
      /\ queue' = queue /\ delivered' = delivered
      /\ rpc # "answer" \/ wpc[Reader] = "idle"
  BY DEF ReadBytes, FindAck, ReadFails, NoHead, HoldPartial, Consume, writer, qvars, world
<1>2. /\ NothingUnderWay => NothingUnderWay'
      /\ \A f : GoodFrame(f) /\ UnderWay(f) => UnderWay(f)'
  BY ReaderStream
<1>3. Writers' /\ Queued' /\ SentFrames' /\ Got' = Got /\ (Writing' <=> Writing)
  BY <1>1 DEF EInv, Writers, Queued, SentFrames, Got, Writing
<1>4. (Mute(tx) => Mute(tx)') /\ \A m : OneAnswer(tx, m) => OneAnswer(tx, m)'
  BY <1>1 DEF Mute, OneAnswer
<1>5. Conversation'
  BY <1>1, <1>2, <1>3, <1>4, Unspoken DEF EInv
<1> QED BY <1>3, <1>5 DEF EInv

LEMMA MoveHead ==
  ASSUME NEW S, NEW u \in Seq(S), NEW v \in Seq(S), v # <<>>
  PROVE  Append(u, Head(v)) \o Tail(v) = u \o v
OBVIOUS

LEMMA AppendConcat ==
  ASSUME NEW S, NEW u \in Seq(S), NEW v \in Seq(S), NEW e \in S
  PROVE  u \o Append(v, e) = Append(u \o v, e)
OBVIOUS

(* All but the last, and the last. *)
LEMMA FrontAndLast ==
  ASSUME NEW S, NEW q \in Seq(S), q # <<>>
  PROVE  Append(SubSeq(q, 1, Len(q) - 1), q[Len(q)]) = q
OBVIOUS

LEMMA GetNotificationEInv ==
  ASSUME IInv, EInv, canbox_get_notification
  PROVE  EInv'
<1>1. /\ queue # <<>> /\ delivered' = Append(delivered, Head(queue)) /\ queue' = Tail(queue)
      /\ wpc' = wpc /\ out' = out /\ tx' = tx /\ UNCHANGED <<buffer, rpc, sent, box, rx>>
  BY DEF canbox_get_notification, Q!Pop, writer, world
<1>2. queue \in Seq(Seq(Byte)) /\ delivered \in Seq(Seq(Byte))
  BY DEF EInv, Queued
<1>3. Queued'
  BY <1>1, <1>2, HeadTailProperties, AppendProperties DEF Queued
<1>4. Got' = Got
  BY <1>1, <1>2, MoveHead DEF Got
<1>5. Writers' /\ (Writing' <=> Writing)
  BY <1>1 DEF EInv, Writers, Writing
<1>6. (Mute(tx) => Mute(tx)') /\ \A m : OneAnswer(tx, m) => OneAnswer(tx, m)'
  BY <1>1 DEF Mute, OneAnswer
<1> QED BY <1>1, <1>3, <1>4, <1>5, <1>6, Elsewhere

(* A frame is taken only while one is reported, and is that one unless it   *)
(* is refused.                                                              *)
LEMMA TakeFrameEInv ==
  ASSUME IInv, EInv, NEW h \in Index, TakeFrame(h)
  PROVE  EInv'
<1> DEFINE cmd == CommandAt(h)
<1>1. /\ rpc = "head" /\ rpc' = "answer"
      /\ tx' = tx /\ sent' = sent /\ box' = box
      /\ \/ /\ ChecksumOK(cmd) /\ queue' = Append(queue, cmd) /\ delivered' = delivered
            /\ out' = [out EXCEPT ![Reader] = <<AckByte>>]
         \/ /\ ~ChecksumOK(cmd) /\ queue' = queue /\ delivered' = delivered
            /\ out' = [out EXCEPT ![Reader] = <<NakByte>>]
      /\ wpc' = [wpc EXCEPT ![Reader] = "lock"]
  BY DEF TakeFrame, verify_notification, CallWrite, Q!Push, world, qvars
<1>2. /\ ~NothingUnderWay
      /\ \A f : GoodFrame(f) /\ UnderWay(f) =>
              NothingUnderWay' /\ (ChecksumOK(cmd) => cmd = f)
  BY FrameTaken
<1> HIDE DEF cmd
<1>3. Reported
  BY <1>2 DEF EInv, Conversation, Quiet, Accepted, Rejected, Refused
<1>4. PICK f : f = sent[Len(sent)] /\ UnderWay(f)
  BY <1>3 DEF Reported
<1>5. /\ GoodFrame(f) /\ sent # <<>> /\ sent \in Seq(Seq(Byte))
      /\ f \in Seq(Byte) /\ Got = SubSeq(sent, 1, Len(sent) - 1)
  BY <1>3, <1>4, LastSent DEF Reported, Missing, EInv, GoodFrame, IInv, TypeOK
<1>6. NothingUnderWay' /\ (ChecksumOK(cmd) => cmd = f)
  BY <1>2, <1>4, <1>5
<1>7. /\ wpc \in [Threads -> WritePC] /\ Reader \in Threads
      /\ Senders \subseteq Threads /\ Reader \notin Senders
      /\ out \in [Threads -> Answers \cup Commands \cup {<<>>}]
  BY CanboxAssumption DEF IInv, TypeOK, Threads, EInv, Writers
<1>8. queue \in Seq(Seq(Byte)) /\ delivered \in Seq(Seq(Byte))
  BY DEF EInv, Queued
<1>9. PICK m \in Answers : out' = [out EXCEPT ![Reader] = m]
  BY <1>1, MessageLengths
<1>10. Writers'
  <2>1. /\ wpc'[Reader] = "lock" /\ out'[Reader] = m
        /\ \A u \in Senders : wpc'[u] = wpc[u] /\ out'[u] = out[u]
        /\ out' \in [Threads -> Answers \cup Commands \cup {<<>>}]
    BY <1>1, <1>7, <1>9
  <2> QED BY <1>1, <2>1 DEF EInv, Writers
<1>11. SentFrames'
  BY <1>1 DEF EInv, SentFrames
<1>12. Writing' /\ Mute(tx)' /\ box' = "sent"
  BY <1>1, <1>3, <1>7 DEF Writing, Reported, Unanswered, Mute
<1>13. CASE ChecksumOK(cmd)
  <2>1. queue' = Append(queue, f) /\ delivered' = delivered
    BY <1>1, <1>6, <1>13
  <2>2. Queued'
    BY <1>5, <1>8, <2>1, AppendProperties DEF Queued
  <2>3. Got' = Append(Got, f)
    <3> DEFINE T == Seq(Byte)
    <3>1. delivered \in Seq(T) /\ queue \in Seq(T) /\ f \in T
      BY <1>5, <1>8
    <3> HIDE DEF T
    <3>2. delivered \o Append(queue, f) = Append(delivered \o queue, f)
      BY <3>1, AppendConcat
    <3> QED BY <2>1, <3>2 DEF Got
  <2>4. Got' = sent'
    BY <1>1, <1>4, <1>5, <2>3, FrontAndLast
  <2>5. Answering(<<AckByte>>)'
    BY <1>1, <1>7, <1>12, <1>13 DEF Answering
  <2>6. Accepted'
    BY <1>6, <1>12, <2>4, <2>5 DEF Accepted
  <2> QED BY <1>10, <1>11, <2>2, <2>6 DEF EInv, Conversation
<1>14. CASE ~ChecksumOK(cmd)
  <2>1. Queued' /\ Got' = Got
    BY <1>1, <1>8, <1>14 DEF Queued, Got
  <2>2. Missing'
    BY <1>1, <1>5, <2>1 DEF Missing
  <2>3. Answering(<<NakByte>>)'
    BY <1>1, <1>7, <1>12, <1>14 DEF Answering
  <2>4. Rejected'
    BY <1>6, <1>12, <2>2, <2>3 DEF Rejected
  <2> QED BY <1>10, <1>11, <2>1, <2>4 DEF EInv, Conversation
<1> QED BY <1>13, <1>14

(* The box reports, hears an answer, repeats, and takes a command. *)
LEMMA BoxReportEInv ==
  ASSUME IInv, EInv, NEW e \in Events, BoxReport(e), CleanLine'
  PROVE  EInv'
<1> DEFINE f == FrameOf(e)
<1>1. /\ box = "quiet" /\ box' = "sent" /\ sent' = Append(sent, f) /\ rx' = rx \o f
      /\ UNCHANGED <<buffer, rpc>> /\ wpc' = wpc /\ out' = out /\ tx' = tx
      /\ queue' = queue /\ delivered' = delivered /\ rpc' = rpc
  BY DEF BoxReport, writer, qvars
<1>a. f \in Seq(Byte)
  BY FramesAssumption
<1>3. sent \in Seq(Seq(Byte)) /\ Len(sent) \in Nat
  BY LenProperties DEF IInv, TypeOK
<1>4. /\ sent' \in Seq(Seq(Byte)) /\ Len(sent') = Len(sent) + 1 /\ sent' # <<>>
      /\ \A i \in 1 .. Len(sent) : sent'[i] = sent[i]
      /\ sent'[Len(sent) + 1] = f
  <2> DEFINE T == Seq(Byte)
  <2>1. sent \in Seq(T) /\ f \in T
    BY <1>a, <1>3
  <2> HIDE DEF T, f
  <2>2. /\ Append(sent, f) \in Seq(T) /\ Len(Append(sent, f)) = Len(sent) + 1
        /\ \A i \in 1 .. Len(sent) : Append(sent, f)[i] = sent[i]
        /\ Append(sent, f)[Len(sent) + 1] = f
    BY <2>1, AppendProperties
  <2>3. sent' # <<>>
    BY <1>1, <1>3, <2>2, EmptySeq
  <2> QED BY <1>1, <2>2, <2>3 DEF T
<1>2. GoodFrame(f) /\ f \in Seq(Byte)
  <2>1. Len(sent') \in 1 .. Len(sent') /\ sent'[Len(sent')] = f
    BY <1>3, <1>4
  <2>2. f[Len(f)] # HeadByte
    BY <2>1 DEF CleanLine
  <2> QED BY <1>a, <2>2, FramesAreGood
<1> HIDE DEF f
<1>5. Quiet
  BY <1>1 DEF EInv, Conversation, Reported, Accepted, Rejected, Refused
<1>6. UnderWay(f)'
  BY <1>1, <1>2, <1>5, FrameGrown DEF Quiet
<1>7. SentFrames'
  <2> SUFFICES ASSUME NEW k \in 1 .. Len(sent) + 1 PROVE GoodFrame(sent'[k])
    BY <1>3, <1>4 DEF SentFrames, GoodFrame, ChecksumOK
  <2>1. k \in 1 .. Len(sent) \/ k = Len(sent) + 1
    BY <1>3
  <2> QED BY <1>2, <1>4, <2>1 DEF EInv, SentFrames
<1>8. Writers' /\ Queued' /\ Got' = Got /\ Unanswered'
  BY <1>1, <1>5 DEF EInv, Writers, Queued, Got, Quiet, Unanswered, Writing, Mute
<1>9. Missing'
  <2>1. SubSeq(sent', 1, Len(sent') - 1) = sent
    BY <1>1, <1>2, <1>3
  <2> QED BY <1>4, <1>5, <1>8, <2>1 DEF Missing, Quiet
<1>10. Reported'
  <2>1. f = sent'[Len(sent')]
    BY <1>4
  <2> QED BY <1>1, <1>6, <1>8, <1>9, <2>1 DEF Reported
<1> QED BY <1>7, <1>8, <1>10 DEF EInv, Conversation

LEMMA BoxHearsEInv ==
  ASSUME IInv, EInv, BoxAnswered \/ BoxRefused
  PROVE  EInv'
<1>1. /\ tx # <<>> /\ tx' = Tail(tx) /\ UNCHANGED <<buffer, rpc, rx>> /\ sent' = sent
      /\ wpc' = wpc /\ out' = out /\ rpc' = rpc /\ queue' = queue /\ delivered' = delivered
      /\ \/ Head(tx) = <<AckByte>> /\ box' = "quiet"
         \/ Head(tx) = <<NakByte>> /\ box' = "refused"
  BY DEF BoxAnswered, BoxRefused, writer, qvars
<1> DEFINE S == Answers \cup Commands
<1>2. tx \in Seq(S)
  BY DEF EInv, Writers
<1>3. Len(Head(tx)) = 1 /\ Head(tx) \in Answers
  BY <1>1, MessageLengths
<1> HIDE DEF S
<1>4. /\ Tail(tx) \in Seq(S)
      /\ Mute(tx) => Len(Head(tx)) # 1
      /\ \A m : OneAnswer(tx, m) => Head(tx) = m /\ Mute(Tail(tx))
  BY <1>1, <1>2, <1>3, BoxTakes
<1>5. ~Mute(tx)
  BY <1>3, <1>4
<1>6. Accepted \/ Rejected
  BY <1>5 DEF EInv, Conversation, Quiet, Reported, Refused, Unanswered
<1>7. /\ ~Writing
      /\ \A m : Answering(m) => Head(tx) = m /\ Mute(Tail(tx))
  BY <1>4, <1>5, <1>6 DEF Accepted, Rejected, Answering
<1>8. Writers' /\ Queued' /\ SentFrames' /\ Got' = Got /\ ~Writing' /\ (Missing => Missing')
  BY <1>1, <1>4, <1>7 DEF EInv, Writers, Queued, SentFrames, Got, Writing, Missing, S
<1>9. NothingUnderWay'
  BY <1>1, <1>6, StreamKept DEF Accepted, Rejected
<1>10. Unanswered'
  BY <1>1, <1>6, <1>7, <1>8 DEF Accepted, Rejected, Unanswered, Mute
<1>11. CASE Accepted
  <2>1. box' = "quiet"
    BY <1>1, <1>7, <1>11, MessageLengths DEF Accepted
  <2>2. Quiet'
    BY <1>1, <1>8, <1>9, <1>10, <1>11, <2>1 DEF Quiet, Accepted
  <2> QED BY <1>8, <2>2 DEF EInv, Conversation
<1>12. CASE Rejected
  <2>1. box' = "refused"
    BY <1>1, <1>7, <1>12, MessageLengths DEF Rejected
  <2>2. Refused'
    BY <1>8, <1>9, <1>10, <1>12, <2>1 DEF Refused, Rejected
  <2> QED BY <1>8, <2>2 DEF EInv, Conversation
<1> QED BY <1>6, <1>11, <1>12

LEMMA BoxRepeatsEInv ==
  ASSUME IInv, EInv, BoxRepeats
  PROVE  EInv'
<1>1. /\ box = "refused" /\ sent # <<>> /\ box' = "sent" /\ rx' = rx \o sent[Len(sent)]
      /\ UNCHANGED <<buffer, rpc>> /\ wpc' = wpc /\ out' = out /\ tx' = tx /\ sent' = sent
      /\ queue' = queue /\ delivered' = delivered /\ rpc' = rpc
  BY DEF BoxRepeats, writer, qvars
<1>2. PICK f : f = sent[Len(sent)]
  OBVIOUS
<1>3. GoodFrame(f) /\ rx' = rx \o f
  BY <1>1, <1>2, LastSent DEF EInv
<1>4. Refused
  BY <1>1 DEF EInv, Conversation, Quiet, Reported, Accepted, Rejected
<1>5. UnderWay(f)'
  BY <1>1, <1>3, <1>4, FrameGrown DEF Refused
<1>6. Writers' /\ Queued' /\ SentFrames' /\ Got' = Got /\ Unanswered' /\ Missing'
  BY <1>1, <1>4 DEF EInv, Writers, Queued, SentFrames, Got, Refused, Unanswered, Writing, Mute,
                    Missing
<1>7. Reported'
  BY <1>1, <1>2, <1>5, <1>6 DEF Reported
<1> QED BY <1>6, <1>7 DEF EInv, Conversation

LEMMA BoxCommandEInv ==
  ASSUME IInv, EInv, NEW reply \in {<<>>, <<AckByte>>}, BoxCommand(reply)
  PROVE  EInv'
<1>1. /\ tx # <<>> /\ Len(Head(tx)) > 1 /\ tx' = Tail(tx) /\ rx' = rx \o reply
      /\ UNCHANGED <<buffer, rpc>> /\ wpc' = wpc /\ out' = out /\ sent' = sent /\ box' = box
      /\ queue' = queue /\ delivered' = delivered /\ rpc' = rpc
  BY DEF BoxCommand, writer, qvars
<1>2. reply \in Seq(Byte) /\ \A k \in 1 .. Len(reply) : reply[k] # HeadByte
  <2>1. AckByte \in Byte /\ AckByte # HeadByte
    BY CanboxAssumption
  <2>2. CASE reply = <<>>
    BY <2>2
  <2>3. CASE reply = <<AckByte>>
    BY <2>1, <2>3
  <2> QED BY <2>2, <2>3
<1>3. /\ NothingUnderWay => NothingUnderWay'
      /\ \A f : GoodFrame(f) /\ UnderWay(f) => UnderWay(f)'
  BY <1>1, <1>2, NoiseGrown
<1> DEFINE S == Answers \cup Commands
<1>4. tx \in Seq(S) /\ Head(tx) \in S /\ Len(Head(tx)) # 1 /\ Head(tx) \notin Answers
  <2>1. tx \in Seq(S)
    BY DEF EInv, Writers
  <2>2. Head(tx) \in S
    <3> HIDE DEF S
    <3> QED BY <1>1, <2>1, HeadTailProperties
  <2>a. Len(Head(tx)) > 1
    BY <1>1
  <2>3. Head(tx) \notin Answers
    <3>1. Head(tx) \in Answers => Len(Head(tx)) = 1
      BY MessageLengths
    <3>2. Len(Head(tx)) \in {1, 2}
      BY <2>2, MessageLengths
    <3>3. Len(Head(tx)) # 1
      <4> DEFINE n == Len(Head(tx))
      <4>1. n > 1 /\ n \in {1, 2}
        BY <2>a, <3>2
      <4> HIDE DEF n
      <4>2. n # 1
        BY <4>1
      <4> QED BY <4>2 DEF n
    <3> QED BY <3>1, <3>3
  <2>4. Head(tx) \in Commands
    BY <2>2, <2>3
  <2>5. Len(Head(tx)) = 2
    BY <2>4, MessageLengths
  <2>6. Len(Head(tx)) # 1
    BY <2>5
  <2> QED BY <2>1, <2>2, <2>3, <2>6
<1> HIDE DEF S
<1>5. /\ Tail(tx) \in Seq(S)
      /\ Mute(tx) => Mute(Tail(tx))
      /\ \A m : OneAnswer(tx, m) /\ Head(tx) # m => OneAnswer(Tail(tx), m)
  BY <1>1, <1>4, BoxTakes
<1>6. Writers' /\ Queued' /\ SentFrames' /\ Got' = Got /\ (Writing' <=> Writing)
  BY <1>1, <1>5 DEF EInv, Writers, Queued, SentFrames, Got, Writing, S
<1>7. /\ Mute(tx) => Mute(tx)'
      /\ \A m : OneAnswer(tx, m) /\ m \in Answers => OneAnswer(tx, m)'
  BY <1>1, <1>4, <1>5 DEF Mute, OneAnswer
<1>8. Conversation'
  BY <1>1, <1>3, <1>6, <1>7, Unspoken, MessageLengths DEF EInv
<1> QED BY <1>6, <1>8 DEF EInv
-----------------------------------------------------------------------------
(* A line that is clean after a step was clean before it. *)
LEMMA CleanBefore ==
  ASSUME IInv, [Next]_vars, CleanLine'
  PROVE  CleanLine /\ ~\E bytes \in Seq(Byte) : LineNoise(bytes)
<1>1. ~noise'
  BY DEF CleanLine
<1>2. ~\E bytes \in Seq(Byte) : LineNoise(bytes)
  BY <1>1 DEF LineNoise
<1>3. CASE UNCHANGED <<sent, noise>>
  BY <1>2, <1>3 DEF CleanLine
<1>4. ASSUME NEW e \in Events, BoxReport(e) PROVE CleanLine
  <2>1. sent' = Append(sent, FrameOf(e)) /\ noise' = noise /\ sent \in Seq(Seq(Byte))
    BY <1>4 DEF BoxReport, IInv, TypeOK
  <2>2. FrameOf(e) \in Seq(Byte) /\ Len(sent) \in Nat
    BY <2>1, FramesAssumption, LenProperties
  <2>3. Len(sent') = Len(sent) + 1 /\ \A i \in 1 .. Len(sent) : sent'[i] = sent[i]
    <3> DEFINE T == Seq(Byte)
    <3>1. sent \in Seq(T) /\ FrameOf(e) \in T
      BY <2>1, <2>2
    <3> HIDE DEF T
    <3> QED BY <2>1, <3>1, AppendProperties
  <2>4. \A i \in 1 .. Len(sent) : i \in 1 .. Len(sent') /\ sent'[i] = sent[i]
    BY <2>2, <2>3
  <2> QED BY <1>1, <2>1, <2>4 DEF CleanLine
<1>5. \/ UNCHANGED <<sent, noise>> \/ \E e \in Events : BoxReport(e)
  <2> USE DEF world
  <2>1. CASE \E t \in Senders : canbox_send_command(t)
    BY <2>1 DEF canbox_send_command
  <2>2. CASE canbox_get_notification
    BY <2>2 DEF canbox_get_notification
  <2>3. ASSUME NEW t \in Threads, WriteStep(t) PROVE UNCHANGED <<sent, noise>>
    BY <2>3 DEF WriteStep, WriteLock, Drain, WriteBytes, WaitAcked, WaitInvalid, WaitBlocks,
                WaitFails, WaitReturns, WriteEnd
  <2>4. CASE ReaderStep \/ ReadFails
    BY <2>4 DEF ReaderStep, ReadFails, ReadBytes, FindAck, NoHead, HoldPartial, TakeFrame, Consume
  <2>5. CASE BoxStep
    BY <2>5 DEF BoxStep, BoxAnswered, BoxRefused, BoxRepeats, BoxCommand
  <2>6. CASE UNCHANGED vars
    BY <2>6 DEF vars
  <2> QED BY <1>2, <2>1, <2>2, <2>3, <2>4, <2>5, <2>6 DEF Next
<1> QED BY <1>2, <1>3, <1>4, <1>5

(* While the line is clean, the conversation stays in one of its states. *)
THEOREM ConversationKept == Spec => [](CleanLine => EInv)
<1>1. Init => EInv
  <2> SUFFICES ASSUME Init PROVE EInv
    OBVIOUS
  <2>1. queue = <<>> /\ delivered = <<>>
    BY DEF Init, Q!QInit
  <2>2. /\ rx = <<>> /\ tx = <<>> /\ sent = <<>> /\ box = "quiet" /\ tty_buffer_pos = 0
        /\ wpc = [t \in Threads |-> "idle"] /\ out = [t \in Threads |-> <<>>] /\ rpc = "select"
        /\ Reader \in Threads /\ Senders \subseteq Threads
    BY DEF Init, Threads
  <2>3. Writers /\ Queued /\ SentFrames
    <3>1. \A S : <<>> \in Seq(S)
      BY EmptySeq
    <3> QED BY <2>1, <2>2, <3>1 DEF Writers, Queued, SentFrames
  <2>4. NothingUnderWay
    BY <2>2 DEF NothingUnderWay, Total, IsCut, HeadFree
  <2>5. Quiet
    BY <2>1, <2>2, <2>4 DEF Quiet, Unanswered, Writing, Mute, Got
  <2> QED BY <2>3, <2>5 DEF EInv, Conversation
<1>2. IInv /\ (CleanLine => EInv) /\ [Next]_vars => (CleanLine => EInv)'
  <2> SUFFICES ASSUME IInv, CleanLine => EInv, [Next]_vars, CleanLine' PROVE EInv'
    OBVIOUS
  <2>a. EInv /\ ~\E bytes \in Seq(Byte) : LineNoise(bytes)
    BY CleanBefore
  <2>1. ASSUME NEW t \in Senders, canbox_send_command(t) PROVE EInv'
    BY <2>a, <2>1, SendCommandEInv
  <2>2. CASE canbox_get_notification
    BY <2>a, <2>2, GetNotificationEInv
  <2>3. ASSUME NEW t \in Threads, WriteStep(t) PROVE EInv'
    BY <2>a, <2>3, WriteStepEInv
  <2>4. CASE ReaderStep \/ ReadFails
    BY <2>a, <2>4, SearchEInv, TakeFrameEInv DEF ReaderStep
  <2>5. ASSUME NEW e \in Events, BoxReport(e) PROVE EInv'
    BY <2>a, <2>5, BoxReportEInv
  <2>6. CASE BoxStep
    BY <2>a, <2>6, BoxHearsEInv, BoxRepeatsEInv, BoxCommandEInv DEF BoxStep
  <2>7. CASE UNCHANGED vars
    <3>1. /\ UNCHANGED <<buffer, rpc, sent, box, rx>> /\ wpc' = wpc /\ out' = out /\ tx' = tx
          /\ queue' = queue /\ delivered' = delivered
      BY <2>7 DEF vars, buffer, writer, qvars, world
    <3>2. Writers' /\ Queued' /\ Got' = Got /\ (Writing' <=> Writing)
      BY <2>a, <3>1 DEF EInv, Writers, Queued, Got, Writing
    <3>3. (Mute(tx) => Mute(tx)') /\ \A m : OneAnswer(tx, m) => OneAnswer(tx, m)'
      BY <3>1 DEF Mute, OneAnswer
    <3> QED BY <2>a, <3>1, <3>2, <3>3, Elsewhere
  <2> QED BY <2>a, <2>1, <2>2, <2>3, <2>4, <2>5, <2>6, <2>7 DEF Next
<1> QED BY Invariance, <1>1, <1>2, PTL DEF Spec

(* Whatever way read cuts the frames, whatever the senders and the box do   *)
(* meanwhile, and however often a frame is refused for want of its          *)
(* checksum, the notifications of canbox_get_notification are the events    *)
(* the box reported, once each and in order, as long as the line carries    *)
(* the box's frames only and no checksum that looks like a HEAD byte.       *)
THEOREM EventsAreOnce == Spec => []EventsOnce
<1>1. IInv /\ (CleanLine => EInv) => EventsOnce
  <2> SUFFICES ASSUME IInv, EInv, CleanLine PROVE EventsOnce
    BY DEF EventsOnce
  <2>1. sent \in Seq(Seq(Byte)) /\ Len(sent) \in Nat
    BY LenProperties DEF IInv, TypeOK
  <2>2. CASE Got = sent
    <3>1. SubSeq(sent, 1, Len(sent)) = sent
      BY <2>1
    <3> QED BY <2>1, <2>2, <3>1 DEF EventsOnce, Got
  <2>3. CASE Missing /\ box # "quiet"
    <3>1. Len(sent) >= 1 /\ Got = SubSeq(sent, 1, Len(sent) - 1)
      BY <2>1, <2>3, EmptySeq DEF Missing
    <3>2. Len(Got) = Len(sent) - 1
      <4>1. 1 \in 1 .. Len(sent) + 1 /\ Len(sent) - 1 \in 1 - 1 .. Len(sent)
        BY <2>1, <3>1
      <4> DEFINE n == Len(sent) - 1
                 T == Seq(Byte)
      <4>2. n \in 1 - 1 .. Len(sent) /\ n \in Nat /\ sent \in Seq(T)
        BY <2>1, <4>1
      <4> HIDE DEF n, T
      <4>3. Len(SubSeq(sent, 1, n)) = IF 1 <= n THEN n - 1 + 1 ELSE 0
        BY <4>1, <4>2, SubSeqProperties
      <4>4. Len(SubSeq(sent, 1, n)) = n
        BY <4>2, <4>3
      <4> QED BY <3>1, <4>4 DEF n
    <3> QED BY <2>3, <3>1, <3>2 DEF EventsOnce, Got
  <2> QED BY <2>2, <2>3 DEF EInv, Conversation, Quiet, Reported, Accepted, Rejected, Refused
<1> QED BY Invariance, ConversationKept, <1>1, PTL
=============================================================================
