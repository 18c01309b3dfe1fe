------------------------- MODULE SerialReaderProofs -------------------------
(* What the steps that libmpeg and libipod share preserve, for every size   *)
(* of byte, buffer and read that satisfies SerialAssumption, any frames and *)
(* any number of stray bytes: the buffer and what is still on the line are  *)
(* the end of what the line carried.                                        *)
EXTENDS SerialReader, SequenceTheorems, TLAPS

(* A search looks at all valid bytes from p_start on, stays inside the      *)
(* buffer, and finds zeros behind the valid bytes.                          *)
SearchBound ==
    rpc = "head" =>
        /\ tty_buffer_pos >= 1
        /\ tty_buffer_pos <= p_start + search_byte
        /\ p_start + search_byte <= MaxBuffer + Slack
        /\ \A i \in tty_buffer_pos .. p_start + search_byte - 1 : tty_buffer[i] = 0

RetryBound == rpc # "exit" => retry_times <= MaxRetryTimes

(* the p bytes at the front of buffer b are those of c behind its first o *)
Buffered(b, p, c, o) == \A i \in 0 .. p - 1 : b[i] = c[o + i + 1]

(* r is the end of c *)
EndOf(r, c) == \A i \in 1 .. Len(r) : r[i] = c[Len(c) - Len(r) + i]

InLine ==
    /\ Consumed >= 0
    /\ Buffered(tty_buffer, tty_buffer_pos, carried, Consumed)
    /\ EndOf(rx, carried)

(* record s of sent says where its frame is in c *)
LiesIn(s, c) ==
    /\ s.frame \in Frames /\ s.at \in Nat /\ s.at + Len(s.frame) <= Len(c)
    /\ \A i \in 1 .. Len(s.frame) : c[s.at + i] = s.frame[i]

(* Where frame j of s begins in c; behind the last one, where c ends. *)
StartIn(j, s, c) == IF j <= Len(s) THEN s[j].at ELSE Len(c)
Start(j) == StartIn(j, sent, carried)

SentInLine ==
    /\ \A j \in 1 .. Len(sent) : LiesIn(sent[j], carried)
    /\ noise = 0 => /\ Start(1) = 0
                    /\ \A j \in 1 .. Len(sent) : Start(j + 1) = Start(j) + Len(sent[j].frame)

RInv == TypeOK /\ BufferBound /\ SearchBound /\ RetryBound /\ InLine /\ SentInLine

LEMMA Sizes ==
  /\ ByteMod \in Nat /\ MaxRead \in Nat /\ MaxBuffer \in Nat /\ Slack \in Nat
  /\ MaxRetryTimes \in Nat /\ MaxNoise \in Nat
  /\ ByteMod >= 2 /\ 0 \in Byte /\ HeadOne \in Byte /\ HeadTwo \in Byte
  /\ HeadOne # 0 /\ HeadOne # HeadTwo
  /\ MaxRead + ByteMod + 2 <= MaxBuffer + Slack
  /\ Byte = 0 .. ByteMod - 1 /\ Index = 0 .. MaxBuffer + Slack - 1
BY SerialAssumption DEF Byte, Index

LEMMA FramesAreBytes == Frames \subseteq Seq(Byte)
BY SerialAssumption

LEMMA InitRInv == Init => RInv
<1> SUFFICES ASSUME Init PROVE RInv
  OBVIOUS
<1> USE Sizes DEF Init
<1>1. queue = <<>> /\ delivered = <<>>
  BY DEF Q!QInit
<1>2. TypeOK
  BY <1>1 DEF TypeOK
<1>3. BufferBound /\ SearchBound /\ RetryBound
  BY DEF BufferBound, SearchBound, RetryBound
<1>4. InLine
  BY DEF InLine, Consumed, Buffered, EndOf
<1>5. SentInLine
  BY DEF SentInLine, Start, StartIn, LiesIn
<1> QED BY <1>2, <1>3, <1>4, <1>5 DEF RInv

(* The facts of the invariant that the steps of the parser use. *)
Facts ==
    /\ tty_buffer \in [Index -> Byte]
    /\ tty_buffer_pos \in Nat /\ tty_buffer_pos <= MaxBuffer + Slack
    /\ p_start \in Nat /\ search_byte \in Nat
    /\ rx \in Seq(Byte) /\ carried \in Seq(Byte)
    /\ Len(rx) \in Nat /\ Len(carried) \in Nat
    /\ sent \in Seq([frame : Seq(Byte), at : Nat]) /\ Len(sent) \in Nat
    /\ Consumed \in Nat
    /\ Consumed + tty_buffer_pos + Len(rx) = Len(carried)

Counts ==
    /\ tty_buffer_pos \in Nat /\ Len(rx) \in Nat /\ Len(carried) \in Nat /\ Consumed \in Nat
    /\ Consumed + tty_buffer_pos + Len(rx) = Len(carried)

LEMMA Reading ==
  ASSUME RInv
  PROVE  Facts /\ Counts
<1>1. /\ tty_buffer_pos \in Nat /\ Len(rx) \in Nat /\ Len(carried) \in Nat /\ Len(sent) \in Nat
  BY LenProperties DEF RInv, TypeOK
<1>2. Consumed \in Nat /\ Consumed + tty_buffer_pos + Len(rx) = Len(carried)
  BY <1>1 DEF RInv, InLine, Consumed
<1> QED BY <1>1, <1>2 DEF RInv, TypeOK, BufferBound, Facts, Counts

(* A step that leaves the line alone leaves what lies where on it alone. *)
LEMMA LineKept ==
  ASSUME SentInLine, UNCHANGED <<carried, sent, noise>>
  PROVE  SentInLine'
BY DEF SentInLine, LiesIn, Start, StartIn

(* The part of the invariant that is about the bytes. *)
LEMMA Moved ==
  ASSUME RInv, UNCHANGED line, NEW p, tty_buffer_pos' = p, p \in 0 .. tty_buffer_pos,
         NEW b, tty_buffer' = b,
         \A i \in 0 .. p - 1 : b[i] = tty_buffer[tty_buffer_pos - p + i]
  PROVE  /\ InLine' /\ SentInLine'
         /\ Consumed' = Consumed + (tty_buffer_pos - p)
<1>0. Facts /\ Counts
  BY Reading
<1>1. rx' = rx /\ carried' = carried /\ sent' = sent /\ noise' = noise
  BY DEF line
<1>2. Consumed' = Consumed + (tty_buffer_pos - p) /\ Consumed' \in Nat
  BY <1>1, <1>0 DEF Consumed, Facts
<1>3. Buffered(tty_buffer', tty_buffer_pos', carried', Consumed')
  <2> SUFFICES ASSUME NEW i \in 0 .. p - 1
               PROVE  b[i] = carried[Consumed' + i + 1]
    BY <1>1 DEF Buffered
  <2>1. tty_buffer_pos - p + i \in 0 .. tty_buffer_pos - 1
    BY <1>0 DEF Facts
  <2>2. tty_buffer[tty_buffer_pos - p + i] = carried[Consumed + (tty_buffer_pos - p + i) + 1]
    BY <2>1 DEF RInv, InLine, Buffered
  <2>3. Consumed + (tty_buffer_pos - p + i) + 1 = Consumed' + i + 1
    BY <1>2, <1>0 DEF Facts
  <2> QED BY <2>2, <2>3
<1>4. EndOf(rx', carried')
  BY <1>1 DEF RInv, InLine
<1> QED BY <1>1, <1>2, <1>3, <1>4, LineKept DEF RInv, InLine
-----------------------------------------------------------------------------
(* read appends at most MaxRead bytes to less than one frame. *)
LEMMA ReadBytesRInv ==
  ASSUME RInv, NEW n \in 1 .. MaxRead, ReadBytes(n)
  PROVE  RInv' /\ Consumed' = Consumed
<1>0. Facts /\ Counts
  BY Reading
<1>1. /\ tty_buffer_pos \in Nat /\ tty_buffer_pos <= ByteMod + 2
      /\ n \in Nat /\ n >= 1 /\ n <= Len(rx) /\ n <= MaxRead
      /\ tty_buffer_pos + n \in Nat /\ tty_buffer_pos + n <= MaxBuffer + Slack
  BY Sizes DEF ReadBytes, RInv, TypeOK, BufferBound
<1>2. /\ tty_buffer_pos' = tty_buffer_pos + n
      /\ p_start' = 0 /\ search_byte' = tty_buffer_pos + n /\ rpc' = "head"
      /\ carried' = carried /\ sent' = sent /\ noise' = noise /\ retry_times' = retry_times
      /\ queue' = queue /\ delivered' = delivered /\ rpc = "select"
  BY DEF ReadBytes, qvars
<1>3. /\ rx' \in Seq(Byte) /\ Len(rx') = Len(rx) - n
      /\ \A i \in 1 .. Len(rx) - n : rx'[i] = rx[n + i]
  <2>1. rx' = SubSeq(rx, n + 1, Len(rx))
    BY DEF ReadBytes
  <2>2. \A i \in n + 1 .. Len(rx) : rx[i] \in Byte
    <3> SUFFICES ASSUME NEW i \in n + 1 .. Len(rx) PROVE rx[i] \in Byte
      OBVIOUS
    <3>1. i \in 1 .. Len(rx)
      BY <1>0, <1>1 DEF Facts
    <3> QED BY <1>0, <3>1, ElementOfSeq DEF Facts
  <2>3. n + 1 \in Int /\ Len(rx) \in Int
    BY <1>0, <1>1 DEF Facts
  <2>4. /\ SubSeq(rx, n + 1, Len(rx)) \in Seq(Byte)
        /\ Len(SubSeq(rx, n + 1, Len(rx)))
              = IF n + 1 <= Len(rx) THEN Len(rx) - (n + 1) + 1 ELSE 0
        /\ \A i \in 1 .. Len(rx) - (n + 1) + 1 :
              SubSeq(rx, n + 1, Len(rx))[i] = rx[(n + 1) + i - 1]
    BY <2>2, <2>3, SubSeqProperties
  <2> QED BY <1>0, <1>1, <2>1, <2>4 DEF Facts
<1>4. \A i \in Index : tty_buffer'[i] = IF i \in tty_buffer_pos .. tty_buffer_pos + n - 1
                                          THEN rx[i - tty_buffer_pos + 1] ELSE tty_buffer[i]
  BY DEF ReadBytes
<1>5. tty_buffer' \in [Index -> Byte]
  <2> SUFFICES ASSUME NEW i \in Index, i \in tty_buffer_pos .. tty_buffer_pos + n - 1
               PROVE  rx[i - tty_buffer_pos + 1] \in Byte
    BY <1>0, <1>1 DEF ReadBytes, Facts
  <2>1. i - tty_buffer_pos + 1 \in 1 .. Len(rx)
    BY <1>0, <1>1 DEF Facts
  <2> QED BY <1>0, <2>1, ElementOfSeq DEF Facts
<1>6. TypeOK'
  BY <1>1, <1>2, <1>3, <1>5 DEF RInv, TypeOK
<1>7. Consumed' = Consumed
  BY <1>0, <1>1, <1>2, <1>3 DEF Consumed, Facts
<1>8. Buffered(tty_buffer', tty_buffer_pos', carried', Consumed')
  <2>1. ASSUME NEW i \in 0 .. tty_buffer_pos + n - 1
        PROVE  tty_buffer'[i] = carried[Consumed + i + 1]
    <3>1. i \in Index /\ i \in Nat
      BY <1>1, Sizes
    <3>2. CASE i < tty_buffer_pos
      <4>1. tty_buffer'[i] = tty_buffer[i] /\ i \in 0 .. tty_buffer_pos - 1
        BY <1>1, <1>4, <3>1, <3>2
      <4> QED BY <4>1 DEF RInv, InLine, Buffered
    <3>3. CASE i >= tty_buffer_pos
      <4>1. tty_buffer'[i] = rx[i - tty_buffer_pos + 1]
        BY <1>1, <1>4, <3>1, <3>3
      <4>2. i - tty_buffer_pos + 1 \in 1 .. Len(rx)
        BY <1>0, <1>1, <3>3 DEF Facts
      <4>3. rx[i - tty_buffer_pos + 1]
              = carried[Len(carried) - Len(rx) + (i - tty_buffer_pos + 1)]
        BY <4>2 DEF RInv, InLine, EndOf
      <4>4. Len(carried) - Len(rx) + (i - tty_buffer_pos + 1) = Consumed + i + 1
        BY <1>0, <1>1, <3>1 DEF Counts
      <4> QED BY <4>1, <4>3, <4>4
    <3> QED BY <1>1, <3>1, <3>2, <3>3
  <2>2. \A i \in 0 .. tty_buffer_pos' - 1 : tty_buffer'[i] = carried'[Consumed' + i + 1]
    BY <1>0, <1>1, <1>2, <1>7, <2>1 DEF Counts
  <2> QED BY <2>2 DEF Buffered
<1>9. EndOf(rx', carried')
  <2>1. ASSUME NEW i \in 1 .. Len(rx) - n
        PROVE  rx[n + i] = carried[Len(carried) - (Len(rx) - n) + i]
    <3>1. n + i \in 1 .. Len(rx)
      BY <1>0, <1>1 DEF Facts
    <3>2. rx[n + i] = carried[Len(carried) - Len(rx) + (n + i)]
      BY <3>1 DEF RInv, InLine, EndOf
    <3>3. Len(carried) - Len(rx) + (n + i) = Len(carried) - (Len(rx) - n) + i
      BY <1>0, <1>1 DEF Facts
    <3> QED BY <3>2, <3>3
  <2> QED BY <1>2, <1>3, <2>1 DEF EndOf
<1>10. SentInLine' /\ RetryBound'
  BY <1>2, LineKept DEF RInv, RetryBound
<1>11. BufferBound' /\ SearchBound'
  BY <1>1, <1>2, Sizes DEF BufferBound, SearchBound
<1>12. Consumed' >= 0
  BY <1>0, <1>7 DEF Facts
<1> QED BY <1>6, <1>7, <1>8, <1>9, <1>10, <1>11, <1>12 DEF RInv, InLine

LEMMA ReadFailsRInv ==
  ASSUME RInv, ReadFails
  PROVE  RInv' /\ Consumed' = Consumed
<1> USE Sizes
<1>1. TypeOK' /\ RetryBound'
  BY DEF ReadFails, RInv, TypeOK, RetryBound, qvars, line
<1>2. BufferBound' /\ SearchBound'
  BY DEF ReadFails, RInv, BufferBound, SearchBound
<1>3. InLine' /\ SentInLine' /\ Consumed' = Consumed
  BY LineKept DEF ReadFails, RInv, InLine, Consumed, line
<1> QED BY <1>1, <1>2, <1>3 DEF RInv

(* The HEAD byte found lies among the valid bytes: those behind are zero. *)
LEMMA HeadInside ==
  ASSUME RInv, rpc = "head", NEW h, IsHead(h)
  PROVE  /\ h \in 0 .. tty_buffer_pos - 1 /\ h \in Index /\ h \in Nat /\ p_start <= h
         /\ tty_buffer[h] = HeadOne
<1>0. Facts /\ Counts
  BY Reading
<1>1. /\ h \in p_start .. p_start + search_byte - 1 /\ tty_buffer[h] = HeadOne
  BY DEF IsHead, Found
<1>2. h \in Nat /\ p_start <= h /\ h < p_start + search_byte
  BY <1>0, <1>1 DEF Facts
<1>3. /\ p_start + search_byte <= MaxBuffer + Slack
      /\ \A i \in tty_buffer_pos .. p_start + search_byte - 1 : tty_buffer[i] = 0
  BY DEF RInv, SearchBound
<1>4. ~(h >= tty_buffer_pos)
  BY <1>0, <1>1, <1>2, <1>3, Sizes DEF Facts
<1> QED BY <1>0, <1>1, <1>2, <1>3, <1>4, Sizes DEF Facts

LEMMA NoHeadRInv ==
  ASSUME RInv, NoHead
  PROVE  RInv' /\ Consumed' = Consumed + tty_buffer_pos
<1>0. Facts /\ Counts
  BY Reading
<1> USE Sizes
<1>1. InLine' /\ SentInLine' /\ Consumed' = Consumed + tty_buffer_pos
  <2>1. /\ tty_buffer_pos' = 0 /\ UNCHANGED line
        /\ 0 \in Nat /\ tty_buffer_pos \in Nat
    BY <1>0 DEF NoHead, Facts
  <2>2. tty_buffer_pos \in 0 .. tty_buffer_pos /\ tty_buffer_pos - tty_buffer_pos = 0
    BY <2>1
  <2> QED BY Moved, <1>0, <2>1, <2>2, SMTT(30) DEF NoHead, Facts
<1>2. TypeOK'
  BY DEF NoHead, RInv, TypeOK, qvars, line
<1>3. BufferBound' /\ SearchBound' /\ RetryBound'
  BY DEF NoHead, RInv, BufferBound, SearchBound, RetryBound
<1> QED BY <1>1, <1>2, <1>3 DEF RInv

(* What is held back from the HEAD byte on is less than one frame. *)
LEMMA KeepFromRInv ==
  ASSUME RInv, rpc = "head", NEW h, IsHead(h), KeepFrom(h), tty_buffer_pos - h <= ByteMod + 2
  PROVE  RInv' /\ Consumed' = Consumed + h
<1>0. Facts /\ Counts
  BY Reading
<1> USE Sizes
<1>1. h \in 0 .. tty_buffer_pos - 1 /\ h \in Nat
  BY HeadInside
<1>2. \A i \in Index : i < tty_buffer_pos - h => h + i \in Index
  BY <1>1, <1>0 DEF Facts
<1>3. tty_buffer' \in [Index -> Byte]
  BY <1>2, <1>0 DEF KeepFrom, Facts
<1>4. \A i \in 0 .. tty_buffer_pos - h - 1 : tty_buffer'[i] = tty_buffer[h + i]
  BY <1>1, <1>0 DEF KeepFrom, Facts
<1>5. /\ tty_buffer_pos' = tty_buffer_pos - h /\ tty_buffer_pos' \in Nat
      /\ tty_buffer_pos' \in 0 .. tty_buffer_pos
      /\ tty_buffer_pos - tty_buffer_pos' = h
  BY <1>1, <1>0 DEF KeepFrom, Facts
<1>6. InLine' /\ SentInLine' /\ Consumed' = Consumed + h
  <2> DEFINE p == tty_buffer_pos'
             b == tty_buffer'
  <2>1. \A i \in 0 .. p - 1 : b[i] = tty_buffer[tty_buffer_pos - p + i]
    BY <1>4, <1>5
  <2>2. UNCHANGED line
    BY DEF KeepFrom
  <2> QED BY <1>5, <2>1, <2>2, Moved
<1>7. TypeOK'
  BY <1>3, <1>5 DEF KeepFrom, RInv, TypeOK, qvars, line
<1>8. BufferBound' /\ SearchBound' /\ RetryBound'
  BY <1>5, <1>0 DEF KeepFrom, RInv, BufferBound, SearchBound, RetryBound, Facts
<1> QED BY <1>6, <1>7, <1>8 DEF RInv

LEMMA HeadLastRInv ==
  ASSUME RInv, NEW h, HeadLast(h)
  PROVE  RInv' /\ Consumed' = Consumed + h
<1>0. Facts /\ Counts
  BY Reading
<1>1. rpc = "head" /\ IsHead(h) /\ KeepFrom(h) /\ h + 1 = tty_buffer_pos
  BY DEF HeadLast
<1>2. h \in Nat
  BY <1>1, HeadInside
<1>3. tty_buffer_pos - h <= ByteMod + 2
  <2>1. tty_buffer_pos - h = 1 /\ ByteMod \in Nat
    BY <1>1, <1>2, Sizes
  <2> QED BY <2>1
<1> QED BY <1>1, <1>3, KeepFromRInv

LEMMA SearchNextRInv ==
  ASSUME RInv, NEW h, SearchNext(h)
  PROVE  RInv' /\ Consumed' = Consumed
<1>0. Facts /\ Counts
  BY Reading
<1>1. h \in 0 .. tty_buffer_pos - 1 /\ h \in Nat
  BY HeadInside DEF SearchNext
<1>2. /\ p_start' = h + 1 /\ search_byte' = tty_buffer_pos - (h + 1)
      /\ p_start' \in Nat /\ search_byte' \in Nat
      /\ p_start' + search_byte' = tty_buffer_pos
  BY <1>0, <1>1 DEF SearchNext, Facts
<1>3. TypeOK'
  BY <1>2 DEF SearchNext, RInv, TypeOK, qvars, line
<1>4. BufferBound' /\ SearchBound' /\ RetryBound'
  <2>1. UNCHANGED <<tty_buffer, tty_buffer_pos, rpc, retry_times>> /\ rpc = "head"
    BY DEF SearchNext
  <2>2. BufferBound' /\ RetryBound'
    BY <2>1 DEF RInv, BufferBound, RetryBound
  <2>3. tty_buffer_pos >= 1 /\ tty_buffer_pos <= MaxBuffer + Slack
    BY <1>0, <2>1 DEF RInv, SearchBound, Facts
  <2>4. p_start' + search_byte' = tty_buffer_pos /\ tty_buffer_pos' = tty_buffer_pos
    BY <1>2, <2>1
  <2>5. ASSUME NEW i \in tty_buffer_pos' .. p_start' + search_byte' - 1 PROVE FALSE
    BY <1>0, <1>2, <2>4 DEF Counts
  <2>6. tty_buffer_pos' <= p_start' + search_byte'
    BY <1>0, <2>4 DEF Counts
  <2> QED BY <2>2, <2>3, <2>4, <2>5, <2>6 DEF SearchBound
<1>5. InLine' /\ SentInLine' /\ Consumed' = Consumed
  BY LineKept DEF SearchNext, RInv, InLine, Consumed, line
<1> QED BY <1>3, <1>4, <1>5 DEF RInv

(* Cutting out a frame that is all there. *)
LEMMA CutFrameRInv ==
  ASSUME RInv, NEW h, FrameAt(h), LengthAt(h) <= LeftBytes(h), tty_buffer_pos - h >= 4,
         CutFrame(h), queue' \in Seq(Seq(Nat)), delivered' \in Seq(Seq(Nat))
  PROVE  RInv' /\ Consumed' = Consumed + h + 3 + LengthAt(h)
<1>0. Facts /\ Counts
  BY Reading
<1>1. h \in 0 .. tty_buffer_pos - 1 /\ h \in Nat /\ rpc = "head"
  BY HeadInside DEF FrameAt
<1>2. LengthAt(h) \in Nat
  <2>1. h + 2 \in Index
    BY <1>0, <1>1, Sizes DEF Facts
  <2>2. tty_buffer[h + 2] \in Byte
    BY <1>0, <2>1 DEF Facts
  <2> QED BY <2>2, Sizes DEF LengthAt
<1> DEFINE L == LengthAt(h)
           rest == LeftBytes(h) - L
<1>3. /\ tty_buffer' = [i \in Index |-> IF i < rest THEN tty_buffer[h + 3 + L + i] ELSE 0]
      /\ tty_buffer_pos' = rest
      /\ rpc' = IF rest = 0 THEN "select" ELSE "head"
      /\ UNCHANGED <<p_start, search_byte, retry_times, line>>
  BY DEF CutFrame
<1>4. rest = tty_buffer_pos - (h + 3) - L /\ L <= tty_buffer_pos - (h + 3) /\ L \in Nat
  BY <1>2 DEF LeftBytes
<1> HIDE DEF L, rest
<1>5. rest \in Nat /\ tty_buffer_pos - rest = h + 3 + L /\ rest < tty_buffer_pos
  BY <1>0, <1>1, <1>4 DEF Counts
<1>6. \A i \in Index : i < rest => h + 3 + L + i \in Index
  BY <1>0, <1>1, <1>4, <1>5, Sizes DEF Facts
<1>7. tty_buffer' \in [Index -> Byte]
  BY <1>0, <1>3, <1>6, Sizes DEF Facts
<1>8. TypeOK'
  BY <1>3, <1>5, <1>7 DEF RInv, TypeOK, line
<1>9. BufferBound' /\ RetryBound'
  BY <1>0, <1>1, <1>3, <1>5, Sizes DEF RInv, BufferBound, RetryBound, Facts
<1>10. SearchBound'
  <2>1. /\ tty_buffer_pos <= p_start + search_byte
        /\ p_start + search_byte <= MaxBuffer + Slack
    BY <1>1 DEF RInv, SearchBound
  <2>2. \A i \in rest .. p_start + search_byte - 1 : i \in Index /\ ~(i < rest)
    BY <1>0, <1>5, <2>1, Sizes DEF Facts
  <2>3. \A i \in rest .. p_start + search_byte - 1 : tty_buffer'[i] = 0
    BY <1>3, <2>2
  <2>4. rest <= p_start + search_byte /\ (rest # 0 => rest >= 1)
    BY <1>0, <1>5, <2>1 DEF Facts
  <2> QED BY <1>3, <2>1, <2>3, <2>4 DEF SearchBound
<1>11. InLine' /\ SentInLine' /\ Consumed' = Consumed + (tty_buffer_pos - rest)
  <2>1. \A i \in 0 .. rest - 1 : i \in Index /\ i < rest
    BY <1>0, <1>5, Sizes DEF Facts
  <2>2. \A i \in 0 .. rest - 1 : tty_buffer'[i] = tty_buffer[tty_buffer_pos - rest + i]
    BY <1>3, <1>5, <2>1
  <2>3. rest \in 0 .. tty_buffer_pos
    BY <1>0, <1>5 DEF Counts
  <2> QED BY <1>3, <2>2, <2>3, Moved
<1>12. Consumed' = Consumed + h + 3 + L
  BY <1>0, <1>1, <1>4, <1>5, <1>11 DEF Counts
<1> QED BY <1>8, <1>9, <1>10, <1>11, <1>12 DEF RInv, L
-----------------------------------------------------------------------------
(* What comes behind the line does not change what lies on it. *)
LEMMA LineGrows ==
  ASSUME RInv, NEW f \in Seq(Byte), carried' = carried \o f, rx' = rx \o f,
         UNCHANGED <<tty_buffer, tty_buffer_pos>>
  PROVE  /\ InLine' /\ Consumed' = Consumed
         /\ carried' \in Seq(Byte) /\ rx' \in Seq(Byte)
         /\ Len(carried') = Len(carried) + Len(f) /\ Len(f) \in Nat
         /\ \A i \in 1 .. Len(carried) : carried'[i] = carried[i]
         /\ \A i \in 1 .. Len(f) : carried'[Len(carried) + i] = f[i]
<1>0. Facts /\ Counts
  BY Reading
<1>1. rx \in Seq(Byte) /\ carried \in Seq(Byte)
  BY <1>0 DEF Facts
<1>2. Len(f) \in Nat
  BY LenProperties
<1>3. /\ carried' \in Seq(Byte) /\ Len(carried') = Len(carried) + Len(f)
      /\ \A i \in 1 .. Len(carried) + Len(f) :
            carried'[i] = IF i <= Len(carried) THEN carried[i] ELSE f[i - Len(carried)]
  BY <1>1, ConcatProperties
<1>4. /\ rx' \in Seq(Byte) /\ Len(rx') = Len(rx) + Len(f)
      /\ \A i \in 1 .. Len(rx) + Len(f) :
            rx'[i] = IF i <= Len(rx) THEN rx[i] ELSE f[i - Len(rx)]
  BY <1>1, ConcatProperties
<1>5. Consumed' = Consumed
  BY <1>0, <1>2, <1>3, <1>4 DEF Consumed, Counts
<1>6. \A i \in 1 .. Len(carried) : carried'[i] = carried[i]
  BY <1>0, <1>2, <1>3 DEF Counts
<1>7. \A i \in 1 .. Len(f) : carried'[Len(carried) + i] = f[i]
  <2> SUFFICES ASSUME NEW i \in 1 .. Len(f)
               PROVE  carried'[Len(carried) + i] = f[i]
    OBVIOUS
  <2>1. /\ Len(carried) + i \in 1 .. Len(carried) + Len(f)
        /\ ~(Len(carried) + i <= Len(carried)) /\ (Len(carried) + i) - Len(carried) = i
    BY <1>0, <1>2 DEF Counts
  <2> QED BY <1>3, <2>1
<1>8. Buffered(tty_buffer', tty_buffer_pos', carried', Consumed')
  <2>1. ASSUME NEW i \in 0 .. tty_buffer_pos - 1
        PROVE  tty_buffer[i] = carried'[Consumed + i + 1]
    <3>1. Consumed + i + 1 \in 1 .. Len(carried)
      BY <1>0 DEF Counts
    <3>2. tty_buffer[i] = carried[Consumed + i + 1]
      BY DEF RInv, InLine, Buffered
    <3> QED BY <1>6, <3>1, <3>2
  <2> QED BY <1>5, <2>1 DEF Buffered
<1>9. EndOf(rx', carried')
  <2>1. ASSUME NEW i \in 1 .. Len(rx) + Len(f)
        PROVE  rx'[i] = carried'[Len(carried') - Len(rx') + i]
    <3>1. Len(carried') - Len(rx') + i = Len(carried) - Len(rx) + i
      BY <1>0, <1>2, <1>3, <1>4 DEF Counts
    <3>2. CASE i <= Len(rx)
      <4>1. i \in 1 .. Len(rx) /\ Len(carried) - Len(rx) + i \in 1 .. Len(carried)
        BY <1>0, <1>2, <3>2 DEF Counts
      <4>2. rx[i] = carried[Len(carried) - Len(rx) + i]
        BY <4>1 DEF RInv, InLine, EndOf
      <4> QED BY <1>4, <1>6, <3>1, <3>2, <4>1, <4>2
    <3>3. CASE i > Len(rx)
      <4>1. /\ i - Len(rx) \in 1 .. Len(f)
            /\ Len(carried) + (i - Len(rx)) = Len(carried) - Len(rx) + i
            /\ ~(i <= Len(rx))
        BY <1>0, <1>2, <3>3 DEF Counts
      <4>2. carried'[Len(carried) + (i - Len(rx))] = f[i - Len(rx)]
        BY <1>7, <4>1
      <4> QED BY <1>4, <3>1, <4>1, <4>2
    <3> QED BY <1>0, <1>2, <3>2, <3>3 DEF Counts
  <2> QED BY <1>4, <2>1 DEF EndOf
<1>10. Consumed' >= 0
  BY <1>0, <1>5 DEF Counts
<1> QED BY <1>2, <1>3, <1>4, <1>5, <1>6, <1>7, <1>8, <1>9, <1>10 DEF InLine

LEMMA DeviceSendsRInv ==
  ASSUME RInv, NEW f \in Frames, DeviceSends(f)
  PROVE  /\ RInv' /\ Consumed' = Consumed /\ Len(sent') = Len(sent) + 1
         /\ \A j \in 1 .. Len(sent) : sent'[j] = sent[j]
         /\ \A j \in 1 .. Len(sent) + 1 : Start(j)' = Start(j)
<1>0. Facts /\ Counts
  BY Reading
<1>1. f \in Seq(Byte)
  BY FramesAreBytes
<1>2. /\ carried' = carried \o f /\ rx' = rx \o f
      /\ UNCHANGED <<tty_buffer, tty_buffer_pos, p_start, search_byte, rpc, retry_times,
                     queue, delivered, noise>>
  BY DEF DeviceSends, qvars
<1>3. /\ InLine' /\ Consumed' = Consumed
      /\ carried' \in Seq(Byte) /\ rx' \in Seq(Byte)
      /\ Len(carried') = Len(carried) + Len(f) /\ Len(f) \in Nat
      /\ \A i \in 1 .. Len(carried) : carried'[i] = carried[i]
      /\ \A i \in 1 .. Len(f) : carried'[Len(carried) + i] = f[i]
  BY <1>1, <1>2, LineGrows
<1> DEFINE r == [frame |-> f, at |-> Len(carried)]
<1>4. r \in [frame : Seq(Byte), at : Nat]
  BY <1>0, <1>1 DEF Counts
<1>5. /\ sent' \in Seq([frame : Seq(Byte), at : Nat]) /\ Len(sent') = Len(sent) + 1
      /\ sent'[Len(sent) + 1] = r
      /\ \A j \in 1 .. Len(sent) : sent'[j] = sent[j]
  <2>1. sent' = Append(sent, r)
    BY DEF DeviceSends
  <2>2. sent \in Seq([frame : Seq(Byte), at : Nat])
    BY <1>0 DEF Facts
  <2> HIDE DEF r
  <2> QED BY <1>4, <2>1, <2>2, AppendProperties
<1>6. TypeOK'
  BY <1>2, <1>3, <1>5 DEF RInv, TypeOK
<1>7. BufferBound' /\ SearchBound' /\ RetryBound'
  BY <1>2 DEF RInv, BufferBound, SearchBound, RetryBound
<1>8. ASSUME NEW j \in 1 .. Len(sent) + 1 PROVE Start(j)' = Start(j)
  <2>1. Len(sent) \in Nat
    BY <1>0 DEF Facts
  <2>2. CASE j <= Len(sent)
    <3>1. /\ j \in 1 .. Len(sent) /\ j <= Len(sent')
          /\ sent'[j] = sent[j]
      BY <1>5, <2>1, <2>2
    <3> QED BY <2>2, <3>1 DEF Start, StartIn
  <2>3. CASE j = Len(sent) + 1
    BY <1>5, <2>1, <2>3 DEF Start, StartIn
  <2> QED BY <2>1, <2>2, <2>3
<1>9. ASSUME NEW j \in 1 .. Len(sent') PROVE LiesIn(sent'[j], carried')
  <2>1. Len(sent) \in Nat
    BY <1>0 DEF Facts
  <2>2. CASE j <= Len(sent)
    <3>1. LiesIn(sent[j], carried) /\ sent'[j] = sent[j]
      BY <1>5, <2>1, <2>2, SMTT(30) DEF RInv, SentInLine
    <3>2. sent[j].frame \in Seq(Byte)
      BY <3>1, FramesAreBytes DEF LiesIn
    <3>3. Len(sent[j].frame) \in Nat /\ sent[j].at \in Nat
      BY <3>1, <3>2, LenProperties DEF LiesIn
    <3>4. ASSUME NEW i \in 1 .. Len(sent[j].frame)
          PROVE  carried'[sent[j].at + i] = sent[j].frame[i]
      <4>1. sent[j].at + i \in 1 .. Len(carried)
        <5>1. sent[j].at + Len(sent[j].frame) <= Len(carried) /\ Len(carried) \in Nat
          BY <1>0, <3>1, SMTT(30) DEF LiesIn, Counts
        <5> QED BY <3>3, <5>1, SMTT(30)
      <4>2. carried[sent[j].at + i] = sent[j].frame[i]
        BY <3>1 DEF LiesIn
      <4> QED BY <1>3, <4>1, <4>2
    <3>5. sent[j].at + Len(sent[j].frame) <= Len(carried')
      <4>1. sent[j].at + Len(sent[j].frame) <= Len(carried) /\ Len(carried) \in Nat
        BY <1>0, <3>1 DEF LiesIn, Counts
      <4>2. Len(carried') = Len(carried) + Len(f) /\ Len(f) \in Nat
        BY <1>3
      <4> QED BY <3>3, <4>1, <4>2, SMTT(30)
    <3>6. LiesIn(sent[j], carried')
      BY <3>1, <3>4, <3>5, SMTT(30) DEF LiesIn
    <3> QED BY <3>1, <3>6
  <2>3. CASE j = Len(sent) + 1
    <3>1. sent'[j] = r /\ r.frame = f /\ r.at = Len(carried)
      BY <1>5, <2>3
    <3>2. LiesIn(r, carried')
      BY <1>0, <1>3, <3>1, SMTT(30) DEF LiesIn, Counts
    <3> QED BY <3>1, <3>2
  <2> QED BY <1>5, <2>1, <2>2, <2>3
<1>10. ASSUME noise' = 0
       PROVE  /\ Start(1)' = 0
              /\ \A j \in 1 .. Len(sent') : Start(j + 1)' = Start(j)' + Len(sent'[j].frame)
  <2>1. Len(sent) \in Nat
    BY <1>0 DEF Facts
  <2>2. /\ Start(1) = 0
        /\ \A j \in 1 .. Len(sent) : Start(j + 1) = Start(j) + Len(sent[j].frame)
    BY <1>2, <1>10 DEF RInv, SentInLine
  <2>3. ASSUME NEW j \in 1 .. Len(sent')
        PROVE  Start(j + 1)' = Start(j)' + Len(sent'[j].frame)
    <3>1. CASE j <= Len(sent)
      <4>1. j \in 1 .. Len(sent) /\ j \in 1 .. Len(sent) + 1 /\ j + 1 \in 1 .. Len(sent) + 1
        BY <1>5, <2>1, <3>1
      <4>2. Start(j)' = Start(j) /\ Start(j + 1)' = Start(j + 1)
        BY <1>8, <4>1
      <4>3. Start(j + 1) = Start(j) + Len(sent[j].frame) /\ sent'[j] = sent[j]
        BY <1>5, <2>2, <4>1
      <4> QED BY <4>2, <4>3
    <3>2. CASE j = Len(sent) + 1
      <4>1. Start(j)' = Len(carried) /\ sent'[j].frame = f
        BY <1>5, <2>1, <3>2 DEF Start, StartIn
      <4>2. Start(j + 1)' = Len(carried')
        BY <1>5, <2>1, <3>2 DEF Start, StartIn
      <4> QED BY <1>3, <4>1, <4>2
    <3> QED BY <1>5, <2>1, <3>1, <3>2
  <2>4. Start(1)' = 0
    BY <1>8, <2>1, <2>2
  <2> QED BY <2>3, <2>4
<1>11. SentInLine'
  BY <1>9, <1>10 DEF SentInLine
<1> QED BY <1>3, <1>5, <1>6, <1>7, <1>8, <1>11 DEF RInv

LEMMA LineNoiseRInv ==
  ASSUME RInv, NEW b \in {0, HeadOne}, LineNoise(b)
  PROVE  RInv' /\ Consumed' = Consumed /\ noise' # 0
<1>0. Facts /\ Counts
  BY Reading
<1>1. <<b>> \in Seq(Byte)
  BY Sizes
<1>2. /\ carried' = carried \o <<b>> /\ rx' = rx \o <<b>>
      /\ UNCHANGED <<tty_buffer, tty_buffer_pos, p_start, search_byte, rpc, retry_times,
                     queue, delivered, sent>>
  <2>1. carried' = carried \o <<b>> /\ rx' = rx \o <<b>>
    BY DEF LineNoise
  <2>2. UNCHANGED <<tty_buffer, tty_buffer_pos, p_start, search_byte, rpc, retry_times,
                    queue, delivered, sent>>
    BY DEF LineNoise, qvars
  <2> QED BY <2>1, <2>2
<1>3. /\ InLine' /\ Consumed' = Consumed
      /\ carried' \in Seq(Byte) /\ rx' \in Seq(Byte)
      /\ Len(carried') = Len(carried) + Len(<<b>>) /\ Len(<<b>>) \in Nat
      /\ \A i \in 1 .. Len(carried) : carried'[i] = carried[i]
  <2> DEFINE f == <<b>>
  <2> HIDE DEF f
  <2>1. f \in Seq(Byte) /\ carried' = carried \o f /\ rx' = rx \o f
    BY <1>1, <1>2 DEF f
  <2>2. /\ InLine' /\ Consumed' = Consumed
        /\ carried' \in Seq(Byte) /\ rx' \in Seq(Byte)
        /\ Len(carried') = Len(carried) + Len(f) /\ Len(f) \in Nat
        /\ \A i \in 1 .. Len(carried) : carried'[i] = carried[i]
    BY <1>2, <2>1, LineGrows
  <2> QED BY <2>2 DEF f
<1>4. noise' \in 0 .. MaxNoise /\ noise' # 0
  BY Sizes DEF LineNoise, RInv, TypeOK
<1>5. TypeOK'
  BY <1>2, <1>3, <1>4 DEF RInv, TypeOK
<1>6. BufferBound' /\ SearchBound' /\ RetryBound'
  BY <1>2 DEF RInv, BufferBound, SearchBound, RetryBound
<1>7. ASSUME NEW j \in 1 .. Len(sent) PROVE LiesIn(sent[j], carried')
  <2>1. LiesIn(sent[j], carried)
    BY DEF RInv, SentInLine
  <2>2. sent[j].frame \in Seq(Byte)
    BY <2>1, FramesAreBytes DEF LiesIn
  <2>3. Len(sent[j].frame) \in Nat /\ sent[j].at \in Nat
    BY <2>1, <2>2, LenProperties DEF LiesIn
  <2>4. ASSUME NEW i \in 1 .. Len(sent[j].frame)
        PROVE  carried'[sent[j].at + i] = sent[j].frame[i]
    <3>1. sent[j].at + i \in 1 .. Len(carried)
      BY <1>0, <2>1, <2>3 DEF LiesIn, Counts
    <3> QED BY <1>3, <2>1, <3>1 DEF LiesIn
  <2> QED BY <1>0, <1>3, <2>1, <2>3, <2>4 DEF LiesIn, Counts
<1>8. SentInLine'
  BY <1>2, <1>4, <1>7 DEF SentInLine
<1> QED BY <1>3, <1>4, <1>5, <1>6, <1>8 DEF RInv
-----------------------------------------------------------------------------
(* Moving the oldest notification out of the queue. *)
LEMMA MoveHead ==
  ASSUME NEW S, NEW s \in Seq(S), NEW t \in Seq(S), t # <<>>
  PROVE  Append(s, Head(t)) \o Tail(t) = s \o t
OBVIOUS

LEMMA AppendConcat ==
  ASSUME NEW S, NEW s \in Seq(S), NEW t \in Seq(S), NEW e \in S
  PROVE  s \o Append(t, e) = Append(s \o t, e)
OBVIOUS

LEMMA GetNotificationRInv ==
  ASSUME RInv, GetNotification
  PROVE  RInv' /\ Consumed' = Consumed /\ got' = got
<1>1. queue \in Seq(Seq(Nat)) /\ delivered \in Seq(Seq(Nat))
  BY DEF RInv, TypeOK
<1>2. /\ queue # <<>> /\ delivered' = Append(delivered, Head(queue)) /\ queue' = Tail(queue)
      /\ UNCHANGED <<tty_buffer, tty_buffer_pos, p_start, search_byte, rpc, retry_times, line>>
  BY DEF GetNotification, Q!Pop
<1>3. queue' \in Seq(Seq(Nat)) /\ delivered' \in Seq(Seq(Nat))
  BY <1>1, <1>2, HeadTailProperties, AppendProperties
<1>4. got' = got
  BY <1>1, <1>2, MoveHead DEF got
<1>5. TypeOK'
  BY <1>2, <1>3 DEF RInv, TypeOK, line
<1>6. BufferBound' /\ SearchBound' /\ RetryBound'
  BY <1>2 DEF RInv, BufferBound, SearchBound, RetryBound
<1>7. InLine' /\ SentInLine' /\ Consumed' = Consumed
  BY <1>2, LineKept DEF RInv, InLine, Consumed, line
<1> QED BY <1>4, <1>5, <1>6, <1>7 DEF RInv

LEMMA StutterRInv ==
  ASSUME RInv, UNCHANGED vars
  PROVE  RInv' /\ Consumed' = Consumed /\ got' = got
<1>1. UNCHANGED <<tty_buffer, tty_buffer_pos, p_start, search_byte, rpc, retry_times,
                 queue, delivered, rx, carried, sent, noise>>
  BY DEF vars, qvars, line
<1>2. TypeOK' /\ BufferBound' /\ SearchBound' /\ RetryBound'
  BY <1>1 DEF RInv, TypeOK, BufferBound, SearchBound, RetryBound
<1>3. InLine' /\ SentInLine' /\ Consumed' = Consumed /\ got' = got
  BY <1>1, LineKept DEF RInv, InLine, Consumed, got
<1> QED BY <1>2, <1>3 DEF RInv
-----------------------------------------------------------------------------
(* pick goes on with v *)
OneMore(pick, n, v) == [i \in 1 .. n + 1 |-> IF i = n + 1 THEN v ELSE pick[i]]

(* Picking a later frame for one more notification. *)
LEMMA ExtendPick ==
  ASSUME NEW n \in Nat, NEW k \in Nat, NEW m \in Nat, k <= m,
         NEW pick \in [1 .. n -> 1 .. k], InOrder(pick),
         NEW v \in 1 .. m, \A i \in 1 .. n : pick[i] < v
  PROVE  /\ OneMore(pick, n, v) \in [1 .. n + 1 -> 1 .. m]
         /\ InOrder(OneMore(pick, n, v))
         /\ OneMore(pick, n, v)[n + 1] = v
         /\ \A i \in 1 .. n : OneMore(pick, n, v)[i] = pick[i]
         /\ \A i \in 1 .. n + 1 : i = n + 1 \/ i \in 1 .. n
<1> DEFINE p == OneMore(pick, n, v)
<1>1. \A i \in 1 .. n + 1 : i = n + 1 \/ i \in 1 .. n
  OBVIOUS
<1>2. ASSUME NEW i \in 1 .. n PROVE pick[i] \in 1 .. m
  <2>1. pick[i] \in 1 .. k
    OBVIOUS
  <2> QED BY <2>1
<1>3. p \in [1 .. n + 1 -> 1 .. m]
  BY <1>1, <1>2 DEF OneMore
<1>4. p[n + 1] = v /\ \A i \in 1 .. n : p[i] = pick[i]
  BY DEF OneMore
<1> HIDE DEF p
<1>5. InOrder(p)
  <2> SUFFICES ASSUME NEW i \in 1 .. n + 1, NEW j \in 1 .. n + 1, i < j
               PROVE  p[i] < p[j]
    BY <1>3 DEF InOrder
  <2>1. i \in 1 .. n
    OBVIOUS
  <2>2. CASE j = n + 1
    BY <1>4, <2>1, <2>2
  <2>3. CASE j \in 1 .. n
    <3>1. pick[i] < pick[j]
      BY <2>1, <2>3 DEF InOrder
    <3> QED BY <1>4, <2>1, <2>3, <3>1
  <2> QED BY <1>1, <2>2, <2>3
<1> QED BY <1>1, <1>3, <1>4, <1>5 DEF p

LEMMA ExtendPickNext ==
  ASSUME NEW n \in Nat, NEW k \in Nat, NEW pick \in [1 .. n -> 1 .. k], InOrder(pick)
  PROVE  /\ OneMore(pick, n, k + 1) \in [1 .. n + 1 -> 1 .. k + 1]
         /\ InOrder(OneMore(pick, n, k + 1))
         /\ OneMore(pick, n, k + 1)[n + 1] = k + 1
         /\ \A i \in 1 .. n : OneMore(pick, n, k + 1)[i] = pick[i]
         /\ \A i \in 1 .. n + 1 : i = n + 1 \/ i \in 1 .. n
<1> DEFINE v == k + 1
<1>1. v \in Nat /\ k <= v /\ v \in 1 .. v
  OBVIOUS
<1>2. ASSUME NEW i \in 1 .. n PROVE pick[i] < v
  <2>1. pick[i] \in 1 .. k
    OBVIOUS
  <2> QED BY <2>1
<1> HIDE DEF v
<1>3. /\ OneMore(pick, n, v) \in [1 .. n + 1 -> 1 .. v]
      /\ InOrder(OneMore(pick, n, v))
      /\ OneMore(pick, n, v)[n + 1] = v
      /\ \A i \in 1 .. n : OneMore(pick, n, v)[i] = pick[i]
      /\ \A i \in 1 .. n + 1 : i = n + 1 \/ i \in 1 .. n
  BY <1>1, <1>2, ExtendPick
<1> QED BY <1>3 DEF v
-----------------------------------------------------------------------------
(* The buffer from h on holds what has arrived of the frame that lies there *)
(* on the line.                                                             *)
LEMMA BufferIsFrame ==
  ASSUME RInv, NEW h \in Nat, NEW j \in 1 .. Len(sent), sent[j].at = Consumed + h
  PROVE  /\ sent[j].frame \in Frames
         /\ \A i \in 1 .. Len(sent[j].frame) :
               h + i <= tty_buffer_pos => tty_buffer[h + i - 1] = sent[j].frame[i]
<1>0. Facts /\ Counts
  BY Reading
<1> DEFINE f == sent[j].frame
           a == sent[j].at
<1>1. f \in Frames /\ a + Len(f) <= Len(carried)
      /\ \A i \in 1 .. Len(f) : carried[a + i] = f[i]
  BY DEF RInv, SentInLine, LiesIn
<1>2. a = Consumed + h
  OBVIOUS
<1> HIDE DEF f, a
<1>3. Len(f) \in Nat
  BY <1>1, FramesAreBytes, LenProperties
<1>4. ASSUME NEW i \in 1 .. Len(f), h + i <= tty_buffer_pos
      PROVE  tty_buffer[h + i - 1] = f[i]
  <2>1. h + i - 1 \in 0 .. tty_buffer_pos - 1 /\ Consumed + (h + i - 1) + 1 = a + i
    BY <1>0, <1>2, <1>3, <1>4 DEF Counts
  <2>2. tty_buffer[h + i - 1] = carried[Consumed + (h + i - 1) + 1]
    BY <2>1 DEF RInv, InLine, Buffered
  <2> QED BY <1>1, <2>1, <2>2
<1> QED BY <1>1, <1>4 DEF f

(* Every frame begins with the HEAD bytes. *)
Headed == \A f \in Frames : Len(f) >= 3 /\ f[1] = HeadOne /\ f[2] = HeadTwo

(* Later frames begin further behind. *)
SentOrder == \A i, j \in 1 .. Len(sent) : i < j => sent[i].at < sent[j].at

(* A line whose HEAD bytes are apart after a step had them apart before. *)
LEMMA DeviceSendsOrder ==
  ASSUME RInv, Headed, SentOrder, NEW f \in Frames, DeviceSends(f)
  PROVE  SentOrder' /\ (HeadsApart' => HeadsApart)
<1>0. Facts /\ Counts
  BY Reading
<1>n. Len(sent) \in Nat
  BY <1>0 DEF Facts
<1>1. f \in Seq(Byte)
  BY FramesAreBytes
<1>2. /\ Len(carried') = Len(carried) + Len(f) /\ Len(f) \in Nat
      /\ \A i \in 1 .. Len(carried) : carried'[i] = carried[i]
      /\ \A i \in 1 .. Len(f) : carried'[Len(carried) + i] = f[i]
  BY <1>1, LineGrows DEF DeviceSends
<1> DEFINE r == [frame |-> f, at |-> Len(carried)]
<1>3. /\ Len(sent') = Len(sent) + 1 /\ sent'[Len(sent) + 1] = r
      /\ \A j \in 1 .. Len(sent) : sent'[j] = sent[j]
  <2>1. sent' = Append(sent, r)
    BY DEF DeviceSends
  <2>2. sent \in Seq([frame : Seq(Byte), at : Nat]) /\ r \in [frame : Seq(Byte), at : Nat]
    BY <1>0, <1>1 DEF Facts
  <2> HIDE DEF r
  <2> QED BY <2>1, <2>2, AppendProperties
<1>4. r.at = Len(carried)
  OBVIOUS
<1> HIDE DEF r
<1>5. ASSUME HeadsApart', NEW i \in 1 .. Len(carried) - 1,
             carried[i] = HeadOne, carried[i + 1] = HeadTwo
      PROVE  \E j \in 1 .. Len(sent) : sent[j].at + 1 = i
  <2>1. /\ i \in 1 .. Len(carried') - 1 /\ i \in 1 .. Len(carried)
        /\ i + 1 \in 1 .. Len(carried) /\ i < Len(carried)
    BY <1>0, <1>2 DEF Counts
  <2>2. carried'[i] = HeadOne /\ carried'[i + 1] = HeadTwo
    BY <1>2, <1>5, <2>1
  <2>3. PICK j \in 1 .. Len(sent') : sent'[j].at + 1 = i
    BY <1>5, <2>1, <2>2 DEF HeadsApart
  <2>4. CASE j = Len(sent) + 1
    <3>1. Len(carried) + 1 = i
      BY <1>3, <1>4, <2>3, <2>4
    <3>2. Len(carried) \in Nat
      BY <1>0 DEF Counts
    <3> QED BY <2>1, <3>1, <3>2
  <2>5. CASE j \in 1 .. Len(sent)
    BY <1>3, <2>3, <2>5
  <2> QED BY <1>n, <1>3, <2>4, <2>5
<1>6. ASSUME NEW i \in 1 .. Len(sent'), NEW j \in 1 .. Len(sent'), i < j
      PROVE  sent'[i].at < sent'[j].at
  <2>1. i \in 1 .. Len(sent) /\ (j \in 1 .. Len(sent) \/ j = Len(sent) + 1)
    BY <1>n, <1>3, <1>6
  <2>2. CASE j \in 1 .. Len(sent)
    BY <1>3, <1>6, <2>1, <2>2 DEF SentOrder
  <2>3. CASE j = Len(sent) + 1
    <3>1. LiesIn(sent[i], carried)
      BY <2>1 DEF RInv, SentInLine
    <3>2. /\ sent[i].at \in Nat /\ sent[i].at + Len(sent[i].frame) <= Len(carried)
          /\ sent[i].frame \in Frames
      BY <3>1 DEF LiesIn
    <3>3. Len(sent[i].frame) \in Nat /\ Len(sent[i].frame) >= 3
      BY <3>2, FramesAreBytes, LenProperties DEF Headed
    <3>4. sent[i].at < Len(carried)
      BY <1>0, <3>2, <3>3 DEF Counts
    <3> QED BY <1>3, <1>4, <2>1, <2>3, <3>4
  <2> QED BY <2>1, <2>2, <2>3
<1> QED BY <1>5, <1>6 DEF SentOrder, HeadsApart

LEMMA LineNoiseApart ==
  ASSUME RInv, NEW b \in {0, HeadOne}, LineNoise(b), HeadsApart'
  PROVE  HeadsApart
<1>0. Facts /\ Counts
  BY Reading
<1>1. sent' = sent
  BY DEF LineNoise
<1>2. /\ Len(carried') = Len(carried) + 1
      /\ \A i \in 1 .. Len(carried) : carried'[i] = carried[i]
  <2>1. carried' = Append(carried, b) /\ carried \in Seq(Byte) /\ b \in Byte
    BY <1>0, Sizes DEF LineNoise, Facts
  <2> QED BY <2>1, AppendProperties
<1>3. ASSUME NEW i \in 1 .. Len(carried) - 1, carried[i] = HeadOne, carried[i + 1] = HeadTwo
      PROVE  \E j \in 1 .. Len(sent) : sent[j].at + 1 = i
  <2>1. i \in 1 .. Len(carried') - 1 /\ i \in 1 .. Len(carried) /\ i + 1 \in 1 .. Len(carried)
    BY <1>0, <1>2 DEF Counts
  <2>2. carried'[i] = HeadOne /\ carried'[i + 1] = HeadTwo
    BY <1>2, <1>3, <2>1
  <2> QED BY <1>1, <2>1, <2>2 DEF HeadsApart
<1> QED BY <1>3 DEF HeadsApart

(* What a frame's HEAD bytes in the buffer say about where it lies. *)
LEMMA FrameIsSent ==
  ASSUME RInv, HeadsApart, NEW h, FrameAt(h)
  PROVE  \E j \in 1 .. Len(sent) : sent[j].at = Consumed + h
<1>0. Facts /\ Counts
  BY Reading
<1>1. /\ h \in 0 .. tty_buffer_pos - 1 /\ h \in Nat /\ h + 1 # tty_buffer_pos
      /\ tty_buffer[h] = HeadOne /\ tty_buffer[h + 1] = HeadTwo
  BY HeadInside DEF FrameAt
<1>2. h + 1 \in 0 .. tty_buffer_pos - 1
  BY <1>0, <1>1 DEF Counts
<1>3. /\ tty_buffer[h] = carried[Consumed + h + 1]
      /\ tty_buffer[h + 1] = carried[Consumed + (h + 1) + 1]
  BY <1>1, <1>2 DEF RInv, InLine, Buffered
<1> DEFINE i == Consumed + h + 1
<1>4. i \in 1 .. Len(carried) - 1 /\ Consumed + (h + 1) + 1 = i + 1
  BY <1>0, <1>1, <1>2 DEF Counts
<1>5. carried[i] = HeadOne /\ carried[i + 1] = HeadTwo
  BY <1>1, <1>3, <1>4
<1> HIDE DEF i
<1>6. PICK j \in 1 .. Len(sent) : sent[j].at + 1 = i
  BY <1>4, <1>5 DEF HeadsApart
<1>7. sent[j].at \in Nat
  BY DEF RInv, SentInLine, LiesIn
<1>8. sent[j].at = Consumed + h
  BY <1>0, <1>1, <1>6, <1>7, SMTT(30) DEF i, Counts
<1> QED BY <1>8
-----------------------------------------------------------------------------
(* The steps of both HALs that report nothing, but for holding back part of *)
(* a frame.                                                                 *)
SharedStep ==
    \/ \E n \in 1 .. MaxRead : ReadBytes(n)
    \/ NoHead \/ ReadFails \/ GetNotification \/ UNCHANGED vars
    \/ \E h \in Index : HeadLast(h) \/ SearchNext(h)
    \/ \E f \in Frames : DeviceSends(f)
    \/ \E b \in {0, HeadOne} : LineNoise(b)

LEMMA SharedRInv ==
  ASSUME RInv, SharedStep
  PROVE  RInv' /\ Consumed' >= Consumed /\ got' = got
<1>0. Facts /\ Counts
  BY Reading
<1>1. ASSUME NEW n \in 1 .. MaxRead, ReadBytes(n)
      PROVE  RInv' /\ Consumed' >= Consumed /\ got' = got
  <2>1. got' = got
    BY <1>1 DEF ReadBytes, qvars, got
  <2> QED BY <1>0, <1>1, <2>1, ReadBytesRInv DEF Counts
<1>2. CASE NoHead
  <2>1. got' = got
    BY <1>2 DEF NoHead, qvars, got
  <2>2. RInv' /\ Consumed' = Consumed + tty_buffer_pos
    BY <1>2, NoHeadRInv
  <2> QED BY <1>0, <2>1, <2>2 DEF Counts
<1>3. CASE ReadFails
  <2>1. got' = got
    BY <1>3 DEF ReadFails, qvars, got
  <2> QED BY <1>0, <1>3, <2>1, ReadFailsRInv DEF Counts
<1>4. CASE GetNotification
  BY <1>0, <1>4, GetNotificationRInv DEF Counts
<1>5. CASE UNCHANGED vars
  BY <1>0, <1>5, StutterRInv DEF Counts
<1>6. ASSUME NEW h \in Index, HeadLast(h)
      PROVE  RInv' /\ Consumed' >= Consumed /\ got' = got
  <2>1. got' = got
    BY <1>6 DEF HeadLast, KeepFrom, qvars, got
  <2>2. RInv' /\ Consumed' = Consumed + h /\ h \in Nat
    BY <1>6, HeadLastRInv, Sizes
  <2> QED BY <1>0, <2>1, <2>2 DEF Counts
<1>7. ASSUME NEW h \in Index, SearchNext(h)
      PROVE  RInv' /\ Consumed' >= Consumed /\ got' = got
  <2>1. got' = got
    BY <1>7 DEF SearchNext, qvars, got
  <2> QED BY <1>0, <1>7, <2>1, SearchNextRInv DEF Counts
<1>8. ASSUME NEW f \in Frames, DeviceSends(f)
      PROVE  RInv' /\ Consumed' >= Consumed /\ got' = got
  <2>1. got' = got
    BY <1>8 DEF DeviceSends, qvars, got
  <2> QED BY <1>0, <1>8, <2>1, DeviceSendsRInv DEF Counts
<1>9. ASSUME NEW b \in {0, HeadOne}, LineNoise(b)
       PROVE  RInv' /\ Consumed' >= Consumed /\ got' = got
  <2>1. got' = got
    BY <1>9 DEF LineNoise, qvars, got
  <2> QED BY <1>0, <1>9, <2>1, LineNoiseRInv DEF Counts
<1> QED BY <1>1, <1>2, <1>3, <1>4, <1>5, <1>6, <1>7, <1>8, <1>9 DEF SharedStep

(* Nothing but the unit changes what was sent, and it only adds to it. *)
LEMMA SharedSent ==
  ASSUME RInv, SharedStep
  PROVE  /\ Len(sent) \in Nat /\ Len(sent') \in Nat /\ Len(sent) <= Len(sent')
         /\ \A j \in 1 .. Len(sent) : sent'[j] = sent[j]
<1>0. Facts /\ Counts
  BY Reading
<1>n. Len(sent) \in Nat
  BY <1>0 DEF Facts
<1>1. ASSUME NEW f \in Frames, DeviceSends(f)
      PROVE  Len(sent') = Len(sent) + 1 /\ \A j \in 1 .. Len(sent) : sent'[j] = sent[j]
  BY <1>1, DeviceSendsRInv
<1>2. ASSUME ~\E f \in Frames : DeviceSends(f) PROVE sent' = sent
  BY <1>2 DEF SharedStep, ReadBytes, NoHead, ReadFails, GetNotification, HeadLast, SearchNext,
              KeepFrom, LineNoise, line, vars
<1>3. CASE \E f \in Frames : DeviceSends(f)
  BY <1>n, <1>1, <1>3
<1> QED BY <1>n, <1>2, <1>3

LEMMA SharedOrder ==
  ASSUME Headed, RInv, SentOrder, SharedStep
  PROVE  SentOrder' /\ (HeadsApart' => HeadsApart)
<1>1. CASE \E f \in Frames : DeviceSends(f)
  BY <1>1, DeviceSendsOrder
<1>2. CASE \E b \in {0, HeadOne} : LineNoise(b)
  <2>1. sent' = sent
    BY <1>2 DEF LineNoise
  <2> QED BY <1>2, <2>1, LineNoiseApart DEF SentOrder
<1>3. ASSUME ~\E f \in Frames : DeviceSends(f), ~\E b \in {0, HeadOne} : LineNoise(b)
      PROVE  sent' = sent /\ carried' = carried
  BY <1>3 DEF SharedStep, ReadBytes, NoHead, ReadFails, GetNotification, HeadLast, SearchNext,
              KeepFrom, line, vars
<1>4. sent' = sent /\ carried' = carried => SentOrder' /\ (HeadsApart' => HeadsApart)
  BY DEF SentOrder, HeadsApart
<1> QED BY <1>1, <1>2, <1>3, <1>4
=============================================================================
