----------------------------- MODULE MpegProofs -----------------------------
(* The read thread of libmpeg, for every size of byte, buffer and read that *)
(* satisfies SerialAssumption, any set of well-formed frames, whatever      *)
(* their data looks like, any number of them and of stray bytes, and reads  *)
(* that cut the stream anywhere.                                            *)
EXTENDS Mpeg, SerialReaderProofs

(* A frame is held back only if it is shorter than the longest one. *)
LEMMA HoldPartialRInv ==
  ASSUME RInv, NEW h, HoldPartial(h)
  PROVE  RInv' /\ Consumed' = Consumed + h /\ got' = got
<1>0. Facts /\ Counts
  BY Reading
<1>1. rpc = "head" /\ IsHead(h) /\ KeepFrom(h) /\ Partial(h) /\ h + 1 # tty_buffer_pos
  BY DEF HoldPartial, FrameAt
<1>2. h \in 0 .. tty_buffer_pos - 1 /\ h \in Nat
  BY <1>1, HeadInside
<1>3. tty_buffer_pos - h <= ByteMod + 2
  <2>1. CASE tty_buffer_pos - h \in {2, 3}
    BY <1>0, <1>2, <2>1, Sizes DEF Counts
  <2>2. CASE tty_buffer_pos - h \notin {2, 3}
    <3>1. h + 2 \in Index
      BY <1>0, <1>1, <1>2, <2>2, Sizes DEF Facts
    <3>2. tty_buffer[h + 2] \in 0 .. ByteMod - 1
      BY <1>0, <3>1, Sizes DEF Facts
    <3>3. tty_buffer[h + 2] > tty_buffer_pos - (h + 3)
      BY <1>1, <2>2 DEF Partial, LengthAt, LeftBytes
    <3> QED BY <1>0, <1>2, <3>2, <3>3, Sizes DEF Counts
  <2> QED BY <2>1, <2>2
<1>4. got' = got
  BY <1>1 DEF KeepFrom, got, qvars
<1> QED BY <1>1, <1>3, <1>4, KeepFromRInv

(* What TakeFrame hands to parse_command is the stretch of the line that    *)
(* lies behind the HEAD bytes.                                              *)
LEMMA TakeFrameRInv ==
  ASSUME RInv, NEW h, TakeFrame(h)
  PROVE  /\ RInv' /\ Consumed' = Consumed + h + 3 + LengthAt(h)
         /\ h \in Nat /\ LengthAt(h) \in Nat
         /\ h + 3 + LengthAt(h) <= tty_buffer_pos
         /\ CommandAt(h) \in Seq(Nat) /\ Len(CommandAt(h)) = LengthAt(h) + 1
         /\ got \in Seq(Seq(Nat))
         /\ got' = IF CommandId(CommandAt(h)) \in ReportTypes THEN Append(got, CommandAt(h)) ELSE got
<1>0. Facts /\ Counts
  BY Reading
<1>1. rpc = "head" /\ IsHead(h) /\ FrameAt(h) /\ ~Partial(h) /\ CutFrame(h)
      /\ h + 1 # tty_buffer_pos
  BY DEF TakeFrame, FrameAt
<1>2. h \in 0 .. tty_buffer_pos - 1 /\ h \in Nat
  BY <1>1, HeadInside
<1>3. tty_buffer_pos - h >= 4
  <2>1. tty_buffer_pos - h \in Nat /\ tty_buffer_pos - h \notin {0, 1}
    BY <1>0, <1>1, <1>2 DEF Counts
  <2>2. tty_buffer_pos - h \notin {2, 3}
    BY <1>1 DEF Partial
  <2> QED BY <2>1, <2>2
<1>4. LengthAt(h) \in Nat
  <2>1. h + 2 \in Index
    BY <1>0, <1>2, <1>3, Sizes DEF Facts
  <2> QED BY <1>0, <2>1, Sizes DEF LengthAt, Facts
<1>5. LengthAt(h) <= LeftBytes(h)
  <2>1. LeftBytes(h) \in Int
    BY <1>0, <1>2 DEF LeftBytes, Counts
  <2> QED BY <1>1, <1>4, <2>1 DEF Partial
<1>6. h + 3 + LengthAt(h) <= tty_buffer_pos
  BY <1>0, <1>2, <1>4, <1>5 DEF LeftBytes, Counts
<1> DEFINE c == CommandAt(h)
           L == LengthAt(h)
<1>7. c \in Seq(Nat) /\ Len(c) = L + 1
  <2>1. c = [k \in 1 .. L + 1 |-> tty_buffer[h + 1 + k]]
    BY DEF CommandAt
  <2> HIDE DEF L, c
  <2>2. L \in Nat /\ h + 3 + L <= tty_buffer_pos
    BY <1>4, <1>6 DEF L
  <2>3. ASSUME NEW k \in 1 .. L + 1 PROVE tty_buffer[h + 1 + k] \in Nat
    <3>1. h + 1 + k \in Index
      BY <1>0, <1>2, <2>2, Sizes DEF Facts
    <3> QED BY <1>0, <3>1, Sizes DEF Facts
  <2>4. L + 1 \in Nat /\ c \in [1 .. L + 1 -> Nat]
    BY <2>1, <2>2, <2>3
  <2> QED BY <2>4
<1>8. queue \in Seq(Seq(Nat)) /\ delivered \in Seq(Seq(Nat))
  BY DEF RInv, TypeOK
<1>9. got \in Seq(Seq(Nat))
  BY <1>8, ConcatProperties DEF got
<1> HIDE DEF c, L
<1>10. /\ queue' \in Seq(Seq(Nat)) /\ delivered' \in Seq(Seq(Nat))
       /\ got' = IF CommandId(c) \in ReportTypes THEN Append(got, c) ELSE got
  <2>1. parse_command(c)
    BY DEF TakeFrame, c
  <2>2. CASE CommandId(c) \in ReportTypes
    <3>1. queue' = Append(queue, c) /\ delivered' = delivered
      BY <2>1, <2>2 DEF parse_command, Q!Push
    <3>2. queue' \in Seq(Seq(Nat))
      BY <1>7, <1>8, <3>1, AppendProperties
    <3>3. got' = Append(got, c)
      BY <1>7, <1>8, <3>1, AppendConcat DEF got
    <3> QED BY <1>8, <2>2, <3>1, <3>2, <3>3
  <2>3. CASE CommandId(c) \notin ReportTypes
    BY <1>8, <2>1, <2>3 DEF parse_command, got, qvars
  <2> QED BY <2>2, <2>3
<1>11. RInv' /\ Consumed' = Consumed + h + 3 + LengthAt(h)
  BY <1>1, <1>3, <1>5, <1>10, CutFrameRInv
<1> QED BY <1>2, <1>4, <1>6, <1>7, <1>9, <1>10, <1>11 DEF c, L

(* The steps that report nothing. *)
Silent == SharedStep \/ \E h \in Index : HoldPartial(h)

LEMMA Steps ==
  ASSUME [Next]_vars
  PROVE  Silent \/ \E h \in Index : TakeFrame(h)
BY DEF Next, ReaderStep, Silent, SharedStep

LEMMA SilentRInv ==
  ASSUME RInv, Silent
  PROVE  RInv' /\ Consumed' >= Consumed /\ got' = got
<1>0. Facts /\ Counts
  BY Reading
<1>1. CASE SharedStep
  BY <1>1, SharedRInv
<1>2. ASSUME NEW h \in Index, HoldPartial(h)
      PROVE  RInv' /\ Consumed' >= Consumed /\ got' = got
  <2>1. RInv' /\ Consumed' = Consumed + h /\ h \in Nat /\ got' = got
    BY <1>2, HoldPartialRInv, Sizes
  <2> QED BY <1>0, <2>1 DEF Counts
<1> QED BY <1>1, <1>2 DEF Silent

LEMMA StepRInv ==
  ASSUME RInv, [Next]_vars
  PROVE  RInv'
BY Steps, SilentRInv, TakeFrameRInv

LEMMA AlwaysRInv == Spec => []RInv
<1>1. RInv /\ [Next]_vars => RInv'
  BY StepRInv
<1> QED BY InitRInv, <1>1, PTL DEF Spec
-----------------------------------------------------------------------------
(* the step that NothingMadeUp allows *)
Genuine ==
    /\ Consumed' >= Consumed
    /\ Len(got') > Len(got) =>
         LET n == got'[Len(got')]
         IN  /\ n[1] = Len(n) - 1
             /\ \E o \in Consumed .. Consumed' :
                   /\ o + 2 + Len(n) = Consumed'
                   /\ SubSeq(carried, o + 1, Consumed') = <<HeadOne, HeadTwo>> \o n

(* Two HEAD bytes and the command are what the line carried there. *)
LEMMA Stretch ==
  ASSUME RInv, NEW h, TakeFrame(h)
  PROVE  SubSeq(carried, Consumed + h + 1, Consumed')
           = <<HeadOne, HeadTwo>> \o CommandAt(h)
<1>0. Facts /\ Counts
  BY Reading
<1>1. /\ Consumed' = Consumed + h + 3 + LengthAt(h)
      /\ h \in Nat /\ LengthAt(h) \in Nat
      /\ h + 3 + LengthAt(h) <= tty_buffer_pos
      /\ CommandAt(h) \in Seq(Nat) /\ Len(CommandAt(h)) = LengthAt(h) + 1
  BY TakeFrameRInv
<1>2. tty_buffer[h] = HeadOne /\ tty_buffer[h + 1] = HeadTwo
  BY HeadInside DEF TakeFrame, FrameAt
<1> DEFINE L == LengthAt(h)
           m == Consumed + h + 1
           e == Consumed'
           s == SubSeq(carried, m, e)
           c == CommandAt(h)
           t == <<HeadOne, HeadTwo>> \o c
<1>3. c = [k \in 1 .. L + 1 |-> tty_buffer[h + 1 + k]]
  BY DEF CommandAt
<1>4. HeadOne \in Nat /\ HeadTwo \in Nat
  BY Sizes
<1> HIDE DEF L, c
<1>5. /\ m = Consumed + h + 1 /\ e = Consumed + h + 3 + L /\ L \in Nat
      /\ h + 3 + L <= tty_buffer_pos /\ h \in Nat /\ c \in Seq(Nat) /\ Len(c) = L + 1
  BY <1>1 DEF L, c
<1> HIDE DEF m, e
<1>6. m \in Int /\ e \in Int /\ e - m + 1 = L + 3 /\ m <= e
  BY <1>0, <1>5 DEF Counts
<1>7. ASSUME NEW i \in 1 .. L + 3
      PROVE  carried[m + i - 1] = tty_buffer[h + i - 1] /\ carried[m + i - 1] \in Nat
  <2>1. /\ h + i - 1 \in 0 .. tty_buffer_pos - 1
        /\ Consumed + (h + i - 1) + 1 = m + i - 1
        /\ m + i - 1 \in 1 .. Len(carried)
    BY <1>0, <1>5 DEF Counts
  <2>2. tty_buffer[h + i - 1] = carried[Consumed + (h + i - 1) + 1]
    BY <2>1 DEF RInv, InLine, Buffered
  <2>3. carried[m + i - 1] \in Byte
    BY <1>0, <2>1, ElementOfSeq DEF Facts
  <2> QED BY <2>1, <2>2, <2>3, Sizes
<1>8. \A j \in m .. e : carried[j] \in Nat
  <2> SUFFICES ASSUME NEW j \in m .. e PROVE carried[j] \in Nat
    OBVIOUS
  <2>1. j - m + 1 \in 1 .. L + 3 /\ m + (j - m + 1) - 1 = j
    <3>1. Consumed \in Nat /\ h \in Nat /\ L \in Nat
      BY <1>0, <1>5 DEF Counts
    <3>2. m = Consumed + h + 1 /\ e = Consumed + h + 3 + L
      BY <1>5
    <3> QED BY <3>1, <3>2
  <2>2. carried[m + (j - m + 1) - 1] \in Nat
    BY <1>7, <2>1
  <2> QED BY <2>1, <2>2
<1>9. /\ s \in Seq(Nat) /\ Len(s) = L + 3
      /\ \A i \in 1 .. L + 3 : s[i] = carried[m + i - 1]
  <2>1. /\ s \in Seq(Nat)
        /\ Len(s) = IF m <= e THEN e - m + 1 ELSE 0
        /\ \A i \in 1 .. e - m + 1 : s[i] = carried[m + i - 1]
    BY <1>6, <1>8, SubSeqProperties
  <2> QED BY <1>6, <2>1
<1>10. /\ t \in Seq(Nat) /\ Len(t) = L + 3
       /\ t[1] = HeadOne /\ t[2] = HeadTwo
       /\ \A i \in 3 .. L + 3 : t[i] = c[i - 2]
  BY <1>4, <1>5
<1>11. ASSUME NEW i \in 1 .. L + 3 PROVE s[i] = t[i]
  <2>1. s[i] = tty_buffer[h + i - 1]
    BY <1>7, <1>9
  <2>2. CASE i \in {1, 2}
    <3>1. (i = 1 => h + i - 1 = h) /\ (i = 2 => h + i - 1 = h + 1)
      BY <1>5
    <3> QED BY <1>2, <1>10, <2>1, <2>2, <3>1
  <2>3. CASE i \in 3 .. L + 3
    <3>1. i - 2 \in 1 .. L + 1 /\ h + 1 + (i - 2) = h + i - 1
      BY <1>5, <2>3
    <3>2. t[i] = tty_buffer[h + 1 + (i - 2)]
      BY <1>3, <1>10, <2>3, <3>1
    <3> QED BY <2>1, <3>1, <3>2
  <2>4. i \in {1, 2} \/ i \in 3 .. L + 3
    BY <1>5
  <2> QED BY <2>2, <2>3, <2>4
<1> HIDE DEF s, t
<1>12. s = t
  BY <1>9, <1>10, <1>11, SeqEqual
<1> QED BY <1>12 DEF s, t, m, e, c

LEMMA TakeFrameGenuine ==
  ASSUME RInv, NEW h, TakeFrame(h)
  PROVE  Genuine
<1>0. Facts /\ Counts
  BY Reading
<1> DEFINE c == CommandAt(h)
           L == LengthAt(h)
           o == Consumed + h
<1>1. /\ Consumed' = Consumed + h + 3 + L
      /\ h \in Nat /\ L \in Nat /\ h + 3 + L <= tty_buffer_pos
      /\ c \in Seq(Nat) /\ Len(c) = L + 1 /\ got \in Seq(Seq(Nat))
      /\ got' = IF CommandId(c) \in ReportTypes THEN Append(got, c) ELSE got
  BY TakeFrameRInv
<1>2. SubSeq(carried, o + 1, Consumed') = <<HeadOne, HeadTwo>> \o c
  BY Stretch
<1>3. c[1] = L
  <2>1. 1 \in 1 .. L + 1
    BY <1>1
  <2>2. c[1] = tty_buffer[h + 1 + 1] /\ h + 1 + 1 = h + 2
    BY <1>1, <2>1 DEF CommandAt
  <2> QED BY <2>2 DEF LengthAt
<1> HIDE DEF c, L
<1>4. o \in Consumed .. Consumed' /\ o + 2 + Len(c) = Consumed' /\ Consumed' >= Consumed
      /\ c[1] = Len(c) - 1
  BY <1>0, <1>1, <1>3 DEF Counts
<1>5. CASE CommandId(c) \in ReportTypes
  <2>1. got' = Append(got, c)
    BY <1>1, <1>5
  <2>2. Len(got') = Len(got) + 1 /\ got'[Len(got')] = c
    BY <1>1, <2>1, AppendProperties, LenProperties
  <2> HIDE DEF o
  <2> QED BY <1>2, <1>4, <2>2 DEF Genuine
<1>6. CASE CommandId(c) \notin ReportTypes
  <2>1. got' = got /\ Len(got) \in Nat
    BY <1>1, <1>6, LenProperties
  <2>2. ~(Len(got') > Len(got))
    BY <2>1
  <2> QED BY <1>4, <2>2 DEF Genuine
<1> QED BY <1>5, <1>6

(* Whatever the line carries, libmpeg never makes a notification up: each   *)
(* one it pushes is a stretch of the line behind two HEAD bytes, behind all *)
(* that was consumed before.                                                *)
THEOREM MadeOfTheLine == Spec => NothingMadeUp
<1>1. RInv /\ [Next]_vars => [Genuine]_vars
  <2> SUFFICES ASSUME RInv, [Next]_vars PROVE Genuine
    OBVIOUS
  <2>1. CASE Silent
    <3>1. Consumed' >= Consumed /\ got' = got
      BY <2>1, SilentRInv
    <3>2. got \in Seq(Seq(Nat)) 
      BY ConcatProperties DEF RInv, TypeOK, got
    <3>3. ~(Len(got') > Len(got))
      BY <3>1, <3>2, LenProperties
    <3> QED BY <3>1, <3>3 DEF Genuine
  <2>2. CASE \E h \in Index : TakeFrame(h)
    BY <2>2, TakeFrameGenuine
  <2> QED BY <2>1, <2>2, Steps
<1> QED BY AlwaysRInv, <1>1, PTL DEF Spec, NothingMadeUp, Genuine

(* Every variable of the read thread stays within its type. *)
THEOREM TypeCorrect == Spec => []TypeOK
BY AlwaysRInv, PTL DEF RInv

(* What libmpeg reads always fits tty_buffer with its slack, and between    *)
(* reads no more than one frame is held.                                    *)
THEOREM BufferBounded == Spec => []BufferBound
BY AlwaysRInv, PTL DEF RInv
-----------------------------------------------------------------------------
(* Without stray bytes the thread stays in step with the unit.              *)

(* pick accounts for the notifications g by the first k frames of s: each   *)
(* is that of a frame, in order, and no frame to be reported is left out    *)
Accounts(pick, g, s, k) ==
    /\ pick \in [1 .. Len(g) -> 1 .. k] /\ InOrder(pick)
    /\ \A i \in 1 .. Len(g) : LET f == s[pick[i]].frame
                              IN  Reported(f) /\ g[i] = CommandOf(f)
    /\ \A j \in 1 .. k : Reported(s[j].frame) => \E i \in 1 .. Len(g) : pick[i] = j

(* the first k frames are done with: the buffer begins with the next one,   *)
(* and between reads it is not all there                                    *)
AlignedAt(k) ==
    /\ Consumed = Start(k + 1)
    /\ rpc = "head" => p_start = 0
    /\ rpc # "head" => \/ tty_buffer_pos = 0
                       \/ k < Len(sent) /\ tty_buffer_pos < Len(sent[k + 1].frame)

Synced ==
    noise = 0 => \E k \in 0 .. Len(sent) :
                    AlignedAt(k) /\ \E pick : Accounts(pick, got, sent, k)

LEMMA FrameFacts ==
  ASSUME NEW f \in Frames
  PROVE  /\ f \in Seq(Byte) /\ Len(f) \in Nat /\ Len(f) >= 4
         /\ f[1] = HeadOne /\ f[2] = HeadTwo /\ f[3] \in Nat /\ Len(f) = f[3] + 3
<1>1. f \in Seq(Byte) /\ Len(f) \in Nat /\ Len(f) >= 4
  BY FramesAreBytes, FrameAssumption, LenProperties
<1>2. f[3] \in Byte
  BY <1>1, ElementOfSeq
<1> QED BY <1>1, <1>2, FrameAssumption, Sizes

(* While it parses, a frame begins at the front of the buffer. *)
LEMMA FrameInFront ==
  ASSUME RInv, noise = 0, rpc = "head", NEW k \in 0 .. Len(sent), AlignedAt(k)
  PROVE  /\ k + 1 \in 1 .. Len(sent) /\ sent[k + 1].frame \in Frames
         /\ \A i \in 1 .. Len(sent[k + 1].frame) :
               i <= tty_buffer_pos => tty_buffer[i - 1] = sent[k + 1].frame[i]
         /\ \A h : IsHead(h) => h = 0
         /\ Found # {} /\ tty_buffer_pos >= 1
         /\ tty_buffer_pos >= 2 => tty_buffer[0 + 1] = HeadTwo
<1>0. Facts /\ Counts
  BY Reading
<1>1. tty_buffer_pos >= 1 /\ p_start = 0 /\ tty_buffer_pos <= p_start + search_byte
  BY DEF RInv, SearchBound, AlignedAt
<1>2. Len(sent) \in Nat
  BY <1>0 DEF Facts
<1>3. k + 1 \in 1 .. Len(sent)
  <2> SUFFICES ASSUME k = Len(sent) PROVE FALSE
    BY <1>2
  <2>1. Consumed = Len(carried)
    BY <1>2 DEF AlignedAt, Start, StartIn
  <2> QED BY <1>0, <1>1, <2>1 DEF Counts
<1> DEFINE f == sent[k + 1].frame
           a == sent[k + 1].at
<1>4. a = Consumed + 0
  BY <1>0, <1>2, <1>3 DEF AlignedAt, Start, StartIn, Counts
<1>5. f \in Frames /\ \A i \in 1 .. Len(f) : 0 + i <= tty_buffer_pos => tty_buffer[0 + i - 1] = f[i]
  BY <1>3, <1>4, BufferIsFrame
<1> HIDE DEF f, a
<1>6. /\ f \in Seq(Byte) /\ Len(f) \in Nat /\ Len(f) >= 4
      /\ f[1] = HeadOne /\ f[2] = HeadTwo
  BY <1>5, FrameFacts
<1>7. ASSUME NEW i \in 1 .. Len(f), i <= tty_buffer_pos
      PROVE  tty_buffer[i - 1] = f[i]
  <2>1. 0 + i = i
    BY <1>6
  <2> QED BY <1>5, <1>7, <2>1
<1>8. tty_buffer[0] = HeadOne
  <2>1. 1 \in 1 .. Len(f) /\ 1 <= tty_buffer_pos /\ 1 - 1 = 0
    BY <1>1, <1>6
  <2>2. tty_buffer[1 - 1] = f[1]
    BY <1>7, <2>1
  <2> QED BY <1>6, <2>1, <2>2
<1>9. 0 \in Found
  BY <1>0, <1>1, <1>8 DEF Found, Facts
<1>10. ASSUME NEW h, IsHead(h) PROVE h = 0
  <2>1. h \in Nat
    BY <1>10, HeadInside
  <2>2. h <= 0
    BY <1>9, <1>10 DEF IsHead
  <2> QED BY <2>1, <2>2
<1>11. tty_buffer_pos >= 2 => tty_buffer[0 + 1] = HeadTwo
  <2> SUFFICES ASSUME tty_buffer_pos >= 2 PROVE tty_buffer[0 + 1] = HeadTwo
    OBVIOUS
  <2>1. 2 \in 1 .. Len(f) /\ 2 <= tty_buffer_pos /\ 2 - 1 = 0 + 1
    BY <1>6
  <2>2. tty_buffer[2 - 1] = f[2]
    BY <1>7, <2>1
  <2> QED BY <1>6, <2>1, <2>2
<1> QED BY <1>1, <1>3, <1>5, <1>7, <1>9, <1>10, <1>11 DEF f

(* The frame k + 1 is reported, or is not to be. *)
LEMMA AccountsNext ==
  ASSUME NEW k \in Nat, NEW s, NEW g \in Seq(Seq(Nat)), NEW pick, Accounts(pick, g, s, k),
         NEW c \in Seq(Nat), c = CommandOf(s[k + 1].frame)
  PROVE  \E p : Accounts(p, IF CommandId(c) \in ReportTypes THEN Append(g, c) ELSE g, s, k + 1)
<1>0. Len(g) \in Nat
  BY LenProperties
<1>1. /\ pick \in [1 .. Len(g) -> 1 .. k] /\ InOrder(pick)
      /\ \A i \in 1 .. Len(g) :
            Reported(s[pick[i]].frame) /\ g[i] = CommandOf(s[pick[i]].frame)
      /\ \A j \in 1 .. k : Reported(s[j].frame) => \E i \in 1 .. Len(g) : pick[i] = j
  BY DEF Accounts
<1>2. Reported(s[k + 1].frame) <=> CommandId(c) \in ReportTypes
  BY DEF Reported
<1>3. CASE CommandId(c) \in ReportTypes
  <2> DEFINE e == Append(g, c)
             p == OneMore(pick, Len(g), k + 1)
  <2>1. /\ Len(e) = Len(g) + 1 /\ e[Len(g) + 1] = c
        /\ \A i \in 1 .. Len(g) : e[i] = g[i]
    BY AppendProperties
  <2> HIDE DEF e
  <2>2. /\ p \in [1 .. Len(e) -> 1 .. k + 1] /\ InOrder(p)
        /\ p[Len(g) + 1] = k + 1 /\ \A i \in 1 .. Len(g) : p[i] = pick[i]
        /\ \A i \in 1 .. Len(e) : i = Len(g) + 1 \/ i \in 1 .. Len(g)
    <3>1. /\ p \in [1 .. Len(g) + 1 -> 1 .. k + 1] /\ InOrder(p)
          /\ p[Len(g) + 1] = k + 1 /\ \A i \in 1 .. Len(g) : p[i] = pick[i]
          /\ \A i \in 1 .. Len(g) + 1 : i = Len(g) + 1 \/ i \in 1 .. Len(g)
      <4> DEFINE n == Len(g)
      <4>1. n \in Nat /\ pick \in [1 .. n -> 1 .. k] /\ InOrder(pick)
        BY <1>0, <1>1
      <4> HIDE DEF n
      <4>2. /\ OneMore(pick, n, k + 1) \in [1 .. n + 1 -> 1 .. k + 1]
            /\ InOrder(OneMore(pick, n, k + 1))
            /\ OneMore(pick, n, k + 1)[n + 1] = k + 1
            /\ \A i \in 1 .. n : OneMore(pick, n, k + 1)[i] = pick[i]
            /\ \A i \in 1 .. n + 1 : i = n + 1 \/ i \in 1 .. n
        BY <4>1, ExtendPickNext
      <4> QED BY <4>2 DEF n
    <3> HIDE DEF p
    <3> QED BY <2>1, <3>1
  <2> HIDE DEF p
  <2>3. ASSUME NEW i \in 1 .. Len(e)
        PROVE  Reported(s[p[i]].frame) /\ e[i] = CommandOf(s[p[i]].frame)
    <3>1. CASE i = Len(g) + 1
      BY <1>2, <1>3, <2>1, <2>2, <3>1
    <3>2. CASE i \in 1 .. Len(g)
      BY <1>1, <2>1, <2>2, <3>2
    <3> QED BY <2>2, <3>1, <3>2
  <2>4. ASSUME NEW j \in 1 .. k + 1, Reported(s[j].frame)
        PROVE  \E i \in 1 .. Len(e) : p[i] = j
    <3>1. CASE j = k + 1
      <4>1. Len(g) + 1 \in 1 .. Len(e)
        BY <1>0, <2>1
      <4> QED BY <2>2, <3>1, <4>1
    <3>2. CASE j \in 1 .. k
      <4>1. PICK i \in 1 .. Len(g) : pick[i] = j
        BY <1>1, <2>4, <3>2
      <4>2. i \in 1 .. Len(e) /\ p[i] = j
        BY <1>0, <2>1, <2>2, <4>1
      <4> QED BY <4>2
    <3> QED BY <3>1, <3>2
  <2>5. Accounts(p, e, s, k + 1)
    BY <2>2, <2>3, <2>4 DEF Accounts
  <2> QED BY <1>3, <2>5 DEF e
<1>4. CASE CommandId(c) \notin ReportTypes
  <2>1. pick \in [1 .. Len(g) -> 1 .. k + 1]
    BY <1>1
  <2>2. \A j \in 1 .. k + 1 : Reported(s[j].frame) => j \in 1 .. k
    BY <1>2, <1>4
  <2>3. Accounts(pick, g, s, k + 1)
    BY <1>1, <2>1, <2>2 DEF Accounts
  <2> QED BY <1>4, <2>3
<1> QED BY <1>3, <1>4

(* More frames behind the first k do not matter. *)
LEMMA AccountsMore ==
  ASSUME NEW k \in Nat, NEW s, NEW t, NEW g, NEW pick, Accounts(pick, g, s, k),
         \A j \in 1 .. k : t[j] = s[j]
  PROVE  Accounts(pick, g, t, k)
<1>1. \A i \in 1 .. Len(g) : pick[i] \in 1 .. k
  BY DEF Accounts
<1> QED BY <1>1 DEF Accounts

(* A step that reports nothing stays where it is in the stream. *)
LEMMA SilentAligned ==
  ASSUME RInv, Silent, noise' = 0, NEW k \in 0 .. Len(sent), noise = 0 => AlignedAt(k)
  PROVE  /\ noise = 0 /\ AlignedAt(k)' /\ k \in 0 .. Len(sent')
         /\ \A j \in 1 .. k : sent'[j] = sent[j]
<1>0. Facts /\ Counts
  BY Reading
<1>n. Len(sent) \in Nat
  BY <1>0 DEF Facts
<1> DEFINE Goal == /\ noise = 0 /\ AlignedAt(k)' /\ k \in 0 .. Len(sent')
                   /\ \A j \in 1 .. k : sent'[j] = sent[j]
<1>a. ASSUME UNCHANGED <<carried, sent, noise>>, Consumed' = Consumed,
             rpc' = "head" => p_start' = 0,
             rpc' # "head" => \/ tty_buffer_pos' = 0
                              \/ k < Len(sent) /\ tty_buffer_pos' < Len(sent[k + 1].frame)
      PROVE  Goal
  <2>1. noise = 0 /\ AlignedAt(k)
    BY <1>a
  <2>2. Consumed' = Start(k + 1)'
    BY <1>a, <2>1 DEF AlignedAt, Start
  <2>3. AlignedAt(k)'
    BY <1>a, <2>2 DEF AlignedAt
  <2> QED BY <1>a, <2>1, <2>3
<1>b. ASSUME UNCHANGED <<carried, sent, noise, tty_buffer_pos>>, Consumed' = Consumed,
             rpc' = "head" => rpc = "head" /\ p_start' = p_start,
             rpc' # "head" => rpc # "head"
      PROVE  Goal
  <2>1. AlignedAt(k)
    BY <1>b
  <2>2. rpc' = "head" => p_start' = 0
    BY <1>b, <2>1 DEF AlignedAt
  <2>3. rpc' # "head" => \/ tty_buffer_pos' = 0
                         \/ k < Len(sent) /\ tty_buffer_pos' < Len(sent[k + 1].frame)
    BY <1>b, <2>1 DEF AlignedAt
  <2> QED BY <1>a, <1>b, <2>2, <2>3
<1>f. ASSUME rpc = "head", noise = 0
      PROVE  /\ k + 1 \in 1 .. Len(sent) /\ sent[k + 1].frame \in Frames
             /\ \A i \in 1 .. Len(sent[k + 1].frame) :
                   i <= tty_buffer_pos => tty_buffer[i - 1] = sent[k + 1].frame[i]
             /\ \A h : IsHead(h) => h = 0
             /\ Found # {} /\ tty_buffer_pos >= 1
             /\ tty_buffer_pos >= 2 => tty_buffer[0 + 1] = HeadTwo
  BY <1>f, FrameInFront
<1>k. ASSUME NEW h, rpc = "head", noise = 0, IsHead(h), KeepFrom(h), Consumed' = Consumed + h,
             tty_buffer_pos < Len(sent[k + 1].frame)
      PROVE  Goal
  <2>1. h = 0 /\ k < Len(sent)
    BY <1>f, <1>k, <1>n
  <2>2. /\ UNCHANGED <<carried, sent, noise>> /\ rpc' = "select"
        /\ tty_buffer_pos' = tty_buffer_pos /\ Consumed' = Consumed
    BY <1>0, <1>k, <2>1 DEF KeepFrom, line, Counts
  <2> QED BY <1>a, <1>k, <2>1, <2>2
<1> HIDE DEF Goal
<1>1. ASSUME NEW n \in 1 .. MaxRead, ReadBytes(n) PROVE Goal
  <2>1. Consumed' = Consumed
    BY <1>1, ReadBytesRInv
  <2> QED BY <1>1, <1>a, <2>1 DEF ReadBytes
<1>2. CASE NoHead
  <2>1. rpc = "head" /\ noise = 0 /\ Found = {}
    BY <1>2 DEF NoHead, line
  <2> QED BY <1>f, <2>1
<1>3. CASE ReadFails
  <2>1. /\ Consumed' = Consumed /\ UNCHANGED <<tty_buffer_pos, carried, sent, noise>>
        /\ rpc = "select" /\ rpc' # "head"
    BY <1>3, ReadFailsRInv DEF ReadFails, line
  <2> QED BY <1>b, <2>1 DEF Goal
<1>4. CASE GetNotification
  <2>1. Consumed' = Consumed /\ UNCHANGED <<tty_buffer_pos, p_start, rpc, carried, sent, noise>>
    BY <1>4, GetNotificationRInv DEF GetNotification, line
  <2> QED BY <1>b, <2>1 DEF Goal
<1>5. CASE UNCHANGED vars
  <2>1. Consumed' = Consumed /\ UNCHANGED <<tty_buffer_pos, p_start, rpc, carried, sent, noise>>
    BY <1>5, StutterRInv DEF vars, line
  <2> QED BY <1>b, <2>1 DEF Goal
<1>6. ASSUME NEW h \in Index, HeadLast(h) PROVE Goal
  <2>1. rpc = "head" /\ IsHead(h) /\ KeepFrom(h) /\ h + 1 = tty_buffer_pos /\ noise = 0
    BY <1>6 DEF HeadLast, KeepFrom, line
  <2>2. Consumed' = Consumed + h
    BY <1>6, HeadLastRInv
  <2>3. h = 0 /\ sent[k + 1].frame \in Frames
    BY <1>f, <2>1
  <2>4. Len(sent[k + 1].frame) \in Nat /\ Len(sent[k + 1].frame) >= 4
    BY <2>3, FrameFacts
  <2> QED BY <1>k, <2>1, <2>2, <2>3, <2>4
<1>7. ASSUME NEW h \in Index, SearchNext(h) PROVE Goal
  <2>1. /\ rpc = "head" /\ noise = 0 /\ IsHead(h)
        /\ h + 1 # tty_buffer_pos /\ tty_buffer[h + 1] # HeadTwo
    BY <1>7 DEF SearchNext, line
  <2>2. h = 0 /\ tty_buffer_pos >= 1 /\ (tty_buffer_pos >= 2 => tty_buffer[0 + 1] = HeadTwo)
    BY <1>f, <2>1
  <2>3. tty_buffer_pos >= 2
    BY <1>0, <2>1, <2>2 DEF Counts
  <2> QED BY <2>1, <2>2, <2>3
<1>8. ASSUME NEW h \in Index, HoldPartial(h) PROVE Goal
  <2>1. /\ rpc = "head" /\ IsHead(h) /\ KeepFrom(h) /\ Partial(h) /\ h + 1 # tty_buffer_pos
        /\ noise = 0
    BY <1>8 DEF HoldPartial, FrameAt, KeepFrom, line
  <2>2. Consumed' = Consumed + h
    BY <1>8, HoldPartialRInv
  <2> DEFINE f == sent[k + 1].frame
  <2>3. /\ h = 0 /\ f \in Frames /\ tty_buffer_pos >= 1
        /\ \A i \in 1 .. Len(f) : i <= tty_buffer_pos => tty_buffer[i - 1] = f[i]
    BY <1>f, <2>1
  <2> HIDE DEF f
  <2>4. /\ Len(f) \in Nat /\ Len(f) >= 4 /\ f[3] \in Nat /\ Len(f) = f[3] + 3
    BY <2>3, FrameFacts
  <2>5. tty_buffer_pos < Len(f)
    <3>1. CASE tty_buffer_pos - h \in {2, 3}
      BY <1>0, <2>3, <2>4, <3>1 DEF Counts
    <3>2. CASE tty_buffer_pos - h \notin {2, 3}
      <4>1. tty_buffer[h + 2] > tty_buffer_pos - (h + 3)
        BY <2>1, <3>2 DEF Partial, LengthAt, LeftBytes
      <4>2. 3 <= tty_buffer_pos /\ 3 \in 1 .. Len(f) /\ h + 2 = 3 - 1
        BY <1>0, <2>1, <2>3, <2>4, <3>2 DEF Counts
      <4>3. tty_buffer[h + 2] = f[3]
        BY <2>3, <4>2
      <4> QED BY <1>0, <2>3, <2>4, <4>1, <4>3 DEF Counts
    <3> QED BY <3>1, <3>2
  <2> QED BY <1>k, <2>1, <2>2, <2>5 DEF f
<1>9. ASSUME NEW f \in Frames, DeviceSends(f) PROVE Goal
  <2>1. /\ Consumed' = Consumed /\ Len(sent') = Len(sent) + 1
        /\ \A j \in 1 .. Len(sent) : sent'[j] = sent[j]
        /\ \A j \in 1 .. Len(sent) + 1 : Start(j)' = Start(j)
    BY <1>9, DeviceSendsRInv
  <2>2. UNCHANGED <<tty_buffer_pos, p_start, rpc, noise>>
    BY <1>9 DEF DeviceSends
  <2>3. k + 1 \in 1 .. Len(sent) + 1 /\ k \in 0 .. Len(sent')
        /\ \A j \in 1 .. k : j \in 1 .. Len(sent)
    BY <1>n, <2>1
  <2>4. Start(k + 1)' = Start(k + 1)
    BY <2>1, <2>3
  <2>5. k < Len(sent) => k < Len(sent') /\ sent'[k + 1] = sent[k + 1]
    BY <1>n, <2>1
  <2>6. AlignedAt(k)'
    <3>1. AlignedAt(k)
      BY <2>2
    <3>2. Consumed' = Start(k + 1)'
      BY <2>1, <2>4, <3>1 DEF AlignedAt
    <3>3. rpc' # "head" => \/ tty_buffer_pos' = 0
                           \/ k < Len(sent') /\ tty_buffer_pos' < Len(sent'[k + 1].frame)
      BY <2>2, <2>5, <3>1 DEF AlignedAt
    <3> QED BY <2>2, <3>1, <3>2, <3>3 DEF AlignedAt
  <2> QED BY <2>1, <2>2, <2>3, <2>6 DEF Goal
<1>10. ASSUME NEW b \in {0, HeadOne}, LineNoise(b) PROVE Goal
  BY <1>10, LineNoiseRInv
<1> QED BY <1>1, <1>2, <1>3, <1>4, <1>5, <1>6, <1>7, <1>8, <1>9, <1>10
       DEF Silent, SharedStep, Goal

(* What TakeFrame cuts out is the frame that begins there, and it alone. *)
LEMMA FrameTaken ==
  ASSUME RInv, NEW h, TakeFrame(h), NEW j \in 1 .. Len(sent), sent[j].at = Consumed + h
  PROVE  /\ CommandAt(h) = CommandOf(sent[j].frame)
         /\ Consumed' = sent[j].at + Len(sent[j].frame)
<1>0. Facts /\ Counts
  BY Reading
<1> DEFINE f == sent[j].frame
           L == LengthAt(h)
<1>1. /\ Consumed' = Consumed + h + 3 + L /\ h \in Nat /\ L \in Nat
      /\ h + 3 + L <= tty_buffer_pos
      /\ CommandAt(h) \in Seq(Nat) /\ Len(CommandAt(h)) = L + 1
  BY TakeFrameRInv
<1>2. /\ f \in Frames
      /\ \A i \in 1 .. Len(f) : h + i <= tty_buffer_pos => tty_buffer[h + i - 1] = f[i]
  BY <1>1, BufferIsFrame
<1>3. /\ f \in Seq(Byte) /\ Len(f) \in Nat /\ Len(f) >= 4 /\ f[3] \in Nat /\ Len(f) = f[3] + 3
  BY <1>2, FrameFacts
<1> HIDE DEF f, L
<1>4. L = f[3]
  <2>1. 3 \in 1 .. Len(f) /\ h + 3 <= tty_buffer_pos /\ h + 2 = h + 3 - 1
    <3>1. h \in Nat /\ L \in Nat /\ h + 3 + L <= tty_buffer_pos /\ tty_buffer_pos \in Nat
      BY <1>0, <1>1 DEF Counts
    <3> QED BY <1>3, <3>1
  <2> QED BY <1>2, <2>1 DEF L, LengthAt
<1>5. Len(f) = L + 3
  BY <1>3, <1>4
<1>6. CommandAt(h) = CommandOf(f)
  <2> DEFINE c == CommandAt(h)
             d == SubSeq(f, 3, Len(f))
  <2>1. c = [i \in 1 .. L + 1 |-> tty_buffer[h + 1 + i]]
    BY DEF CommandAt, L
  <2>2. \A i \in 3 .. Len(f) : f[i] \in Nat
    <3> SUFFICES ASSUME NEW i \in 3 .. Len(f) PROVE f[i] \in Nat
      OBVIOUS
    <3>1. i \in 1 .. Len(f)
      BY <1>3
    <3>2. f[i] \in Byte
      BY <1>3, <3>1, ElementOfSeq
    <3> QED BY <3>2, Sizes
  <2>3. /\ d \in Seq(Nat) /\ Len(d) = IF 3 <= Len(f) THEN Len(f) - 3 + 1 ELSE 0
        /\ \A i \in 1 .. Len(f) - 3 + 1 : d[i] = f[3 + i - 1]
    BY <1>3, <2>2, SubSeqProperties
  <2> HIDE DEF c, d
  <2>4. ASSUME NEW i \in 1 .. L + 1 PROVE c[i] = d[i]
    <3>1. /\ i \in 1 .. Len(f) - 3 + 1 /\ i + 2 \in 1 .. Len(f) /\ h + (i + 2) <= tty_buffer_pos
          /\ 3 + i - 1 = i + 2 /\ h + 1 + i = h + (i + 2) - 1
      BY <1>0, <1>1, <1>5 DEF Counts
    <3>2. tty_buffer[h + (i + 2) - 1] = f[i + 2]
      BY <1>2, <3>1
    <3> QED BY <2>1, <2>3, <3>1, <3>2
  <2>5. Len(d) = L + 1
    BY <1>1, <1>5, <2>3
  <2>6. c \in Seq(Nat) /\ Len(c) = L + 1
    BY <1>1 DEF c
  <2>7. c = d
    BY <2>3, <2>4, <2>5, <2>6, SeqEqual
  <2> QED BY <2>7 DEF c, d, CommandOf
<1>7. Consumed' = sent[j].at + Len(f)
  BY <1>0, <1>1, <1>5 DEF Counts
<1> QED BY <1>6, <1>7 DEF f

LEMMA TakeFrameAligned ==
  ASSUME RInv, NEW h, TakeFrame(h), noise = 0, NEW k \in 0 .. Len(sent), AlignedAt(k)
  PROVE  /\ AlignedAt(k + 1)' /\ k + 1 \in 0 .. Len(sent) /\ sent' = sent
         /\ CommandAt(h) = CommandOf(sent[k + 1].frame)
<1>0. Facts /\ Counts
  BY Reading
<1>n. Len(sent) \in Nat
  BY <1>0 DEF Facts
<1>1. rpc = "head" /\ IsHead(h) /\ CutFrame(h)
  BY DEF TakeFrame, FrameAt
<1>2. k + 1 \in 1 .. Len(sent) /\ h = 0
  BY <1>1, FrameInFront
<1>3. Start(k + 1) = Consumed /\ sent[k + 1].at = Consumed
  BY <1>n, <1>2 DEF AlignedAt, Start, StartIn
<1>4. sent[k + 1].at = Consumed + h
  BY <1>0, <1>2, <1>3 DEF Counts
<1>5. /\ CommandAt(h) = CommandOf(sent[k + 1].frame)
      /\ Consumed' = sent[k + 1].at + Len(sent[k + 1].frame)
  BY <1>2, <1>4, FrameTaken
<1>6. sent' = sent /\ carried' = carried /\ p_start' = p_start
  BY <1>1 DEF CutFrame, line
<1>7. Consumed' = Start((k + 1) + 1)'
  <2>1. Start((k + 1) + 1) = Start(k + 1) + Len(sent[k + 1].frame)
    BY <1>2 DEF RInv, SentInLine
  <2> QED BY <1>3, <1>5, <1>6, <2>1 DEF Start
<1>8. p_start' = 0
  BY <1>1, <1>6 DEF AlignedAt
<1>9. rpc' # "head" => tty_buffer_pos' = 0
  BY <1>1 DEF CutFrame
<1>10. AlignedAt(k + 1)'
  BY <1>7, <1>8, <1>9 DEF AlignedAt
<1>11. k + 1 \in 0 .. Len(sent)
  BY <1>n, <1>2
<1> QED BY <1>5, <1>6, <1>10, <1>11

LEMMA StepSynced ==
  ASSUME RInv, Synced, [Next]_vars
  PROVE  Synced'
<1> SUFFICES ASSUME noise' = 0
             PROVE  \E k \in 0 .. Len(sent') :
                       AlignedAt(k)' /\ \E pick : Accounts(pick, got', sent', k)
  BY DEF Synced
<1>1. CASE Silent
  <2>0. Len(sent) \in Nat
    BY Reading DEF Facts
  <2>1. PICK k \in 0 .. Len(sent) :
           noise = 0 => AlignedAt(k) /\ \E pick : Accounts(pick, got, sent, k)
    <3>1. 0 \in 0 .. Len(sent)
      BY <2>0
    <3> QED BY <3>1 DEF Synced
  <2>2. /\ noise = 0 /\ AlignedAt(k)' /\ k \in 0 .. Len(sent')
        /\ \A j \in 1 .. k : sent'[j] = sent[j]
    BY <1>1, <2>1, SilentAligned
  <2>3. got' = got
    BY <1>1, SilentRInv
  <2>4. PICK pick : Accounts(pick, got, sent, k)
    BY <2>1, <2>2
  <2>5. k \in Nat
    BY <2>0
  <2>6. Accounts(pick, got', sent', k)
    BY <2>2, <2>3, <2>4, <2>5, AccountsMore
  <2> QED BY <2>2, <2>6
<1>2. ASSUME NEW h \in Index, TakeFrame(h)
      PROVE  \E k \in 0 .. Len(sent') :
                AlignedAt(k)' /\ \E pick : Accounts(pick, got', sent', k)
  <2>1. noise = 0
    BY <1>2 DEF TakeFrame, CutFrame, line
  <2>2. PICK k \in 0 .. Len(sent) : AlignedAt(k) /\ \E pick : Accounts(pick, got, sent, k)
    BY <2>1 DEF Synced
  <2>3. /\ AlignedAt(k + 1)' /\ k + 1 \in 0 .. Len(sent) /\ sent' = sent
        /\ CommandAt(h) = CommandOf(sent[k + 1].frame)
    BY <1>2, <2>1, <2>2, TakeFrameAligned
  <2>4. /\ CommandAt(h) \in Seq(Nat) /\ got \in Seq(Seq(Nat))
        /\ got' = IF CommandId(CommandAt(h)) \in ReportTypes
                    THEN Append(got, CommandAt(h)) ELSE got
    BY <1>2, TakeFrameRInv
  <2>5. PICK pick : Accounts(pick, got, sent, k)
    BY <2>2
  <2>6. k \in Nat
    BY Reading DEF Facts
  <2>7. \E p : Accounts(p, got', sent, k + 1)
    BY <2>3, <2>4, <2>5, <2>6, AccountsNext
  <2> QED BY <2>3, <2>7
<1> QED BY <1>1, <1>2, Steps

LEMMA InitSynced == Init => Synced
<1> SUFFICES ASSUME Init PROVE \E k \in 0 .. Len(sent) :
                                  AlignedAt(k) /\ \E pick : Accounts(pick, got, sent, k)
  BY DEF Synced
<1>1. sent = <<>> /\ carried = <<>> /\ rx = <<>> /\ tty_buffer_pos = 0 /\ rpc = "select"
      /\ queue = <<>> /\ delivered = <<>>
  BY DEF Init, Q!QInit
<1>2. got = <<>> /\ Len(got) = 0
  BY <1>1 DEF got
<1>3. AlignedAt(0)
  <2>1. Consumed = 0 /\ Start(0 + 1) = 0
    BY <1>1 DEF Consumed, Start, StartIn
  <2> QED BY <1>1, <2>1 DEF AlignedAt
<1>4. Accounts([i \in 1 .. 0 |-> 1], got, sent, 0)
  BY <1>2 DEF Accounts, InOrder
<1>5. 0 \in 0 .. Len(sent)
  BY <1>1
<1> QED BY <1>3, <1>4, <1>5

LEMMA AlwaysSynced == Spec => [](RInv /\ Synced)
<1>1. RInv /\ Synced /\ [Next]_vars => RInv' /\ Synced'
  BY StepRInv, StepSynced
<1> QED BY InitRInv, InitSynced, <1>1, PTL DEF Spec

(* Once every byte has been read, all frames are done with. *)
LEMMA SyncedNoneMissed ==
  ASSUME RInv, Synced
  PROVE  NoneMissed
<1> SUFFICES ASSUME noise = 0
             PROVE  \E pick \in Picks :
                       rx = <<>> /\ rpc = "select" =>
                          /\ tty_buffer_pos = 0
                          /\ \A j \in 1 .. Len(sent) : Reported(sent[j].frame) =>
                                \E i \in 1 .. Len(got) : pick[i] = j
  BY DEF NoneMissed
<1>0. Facts /\ Counts
  BY Reading
<1>n. Len(sent) \in Nat
  BY <1>0 DEF Facts
<1>1. PICK k \in 0 .. Len(sent) : AlignedAt(k) /\ \E pick : Accounts(pick, got, sent, k)
  BY DEF Synced
<1>2. PICK pick : Accounts(pick, got, sent, k)
  BY <1>1
<1>3. pick \in Picks
  <2>1. pick \in [1 .. Len(got) -> 1 .. Len(sent)]
    <3>1. pick \in [1 .. Len(got) -> 1 .. k] /\ 1 .. k \subseteq 1 .. Len(sent)
      BY <1>n, <1>2 DEF Accounts
    <3> QED BY <3>1
  <2> QED BY <1>2, <2>1 DEF Picks, Accounts
<1>4. ASSUME rx = <<>>, rpc = "select"
      PROVE  tty_buffer_pos = 0 /\ k = Len(sent)
  <2>1. Consumed + tty_buffer_pos = Len(carried)
    BY <1>0, <1>4 DEF Counts
  <2>2. ASSUME k < Len(sent) PROVE FALSE
    <3> DEFINE f == sent[k + 1].frame
               a == sent[k + 1].at
    <3>1. k + 1 \in 1 .. Len(sent)
      BY <1>n, <2>2
    <3>2. LiesIn(sent[k + 1], carried)
      BY <3>1 DEF RInv, SentInLine
    <3>3. f \in Frames /\ a + Len(f) <= Len(carried) /\ a \in Nat
      BY <3>2 DEF LiesIn
    <3>4. Consumed = a
      BY <1>n, <1>1, <2>2, <3>1 DEF AlignedAt, Start, StartIn
    <3>5. tty_buffer_pos = 0 \/ tty_buffer_pos < Len(f)
      BY <1>1, <1>4 DEF AlignedAt
    <3> HIDE DEF f, a
    <3>6. Len(f) \in Nat /\ Len(f) >= 4
      BY <3>3, FrameFacts
    <3> QED BY <1>0, <2>1, <3>3, <3>4, <3>5, <3>6 DEF Counts
  <2>3. k = Len(sent)
    BY <1>n, <2>2
  <2>4. tty_buffer_pos = 0 \/ k < Len(sent)
    BY <1>1, <1>4 DEF AlignedAt
  <2> QED BY <2>2, <2>3, <2>4
<1>5. rx = <<>> /\ rpc = "select" =>
        \A j \in 1 .. Len(sent) : Reported(sent[j].frame) =>
           \E i \in 1 .. Len(got) : pick[i] = j
  BY <1>2, <1>4 DEF Accounts
<1> QED BY <1>3, <1>4, <1>5

(* Without stray bytes libmpeg reports every frame that is to be reported,  *)
(* once and in the order they were sent, wherever read cuts the stream and  *)
(* whatever the data of the frames looks like.                              *)
THEOREM NoneIsMissed == Spec => []NoneMissed
BY AlwaysSynced, SyncedNoneMissed, PTL
-----------------------------------------------------------------------------
(* With stray bytes frames may be lost, but as long as the HEAD bytes stand *)
(* together only where a frame begins, nothing else is taken for a frame.   *)

LEMMA FramesHeaded == Headed
BY FrameAssumption, FrameFacts DEF Headed

(* Every notification is that of a frame that begins before what is in the  *)
(* buffer, in order.                                                        *)
Traced ==
    \E pick \in Picks : \A i \in 1 .. Len(got) : sent[pick[i]].at < Consumed

PInv == RInv /\ SentOrder /\ (HeadsApart => Traced)

LEMMA InitTraced == Init => Traced
<1> SUFFICES ASSUME Init PROVE Traced
  OBVIOUS
<1>1. queue = <<>> /\ delivered = <<>> /\ sent = <<>>
  BY DEF Init, Q!QInit
<1>2. got = <<>> /\ Len(got) = 0 /\ Len(sent) = 0
  BY <1>1 DEF got
<1>3. [i \in 1 .. 0 |-> 1] \in Picks
  BY <1>2 DEF Picks, InOrder
<1> QED BY <1>2, <1>3 DEF Traced

LEMMA SilentSent ==
  ASSUME RInv, Silent
  PROVE  /\ Len(sent) \in Nat /\ Len(sent') \in Nat /\ Len(sent) <= Len(sent')
         /\ \A j \in 1 .. Len(sent) : sent'[j] = sent[j]
<1>1. CASE SharedStep
  BY <1>1, SharedSent
<1>2. CASE \E h \in Index : HoldPartial(h)
  <2>1. sent' = sent
    BY <1>2 DEF HoldPartial, KeepFrom, line
  <2>2. Len(sent) \in Nat
    BY Reading DEF Facts
  <2> QED BY <2>1, <2>2
<1> QED BY <1>1, <1>2 DEF Silent

LEMMA InitOrder == Init => SentOrder
BY DEF Init, SentOrder

LEMMA SilentOrder ==
  ASSUME RInv, SentOrder, Silent
  PROVE  SentOrder' /\ (HeadsApart' => HeadsApart)
<1>1. CASE SharedStep
  BY <1>1, FramesHeaded, SharedOrder
<1>2. CASE \E h \in Index : HoldPartial(h)
  <2>1. sent' = sent /\ carried' = carried
    BY <1>2 DEF HoldPartial, KeepFrom, line
  <2> QED BY <2>1 DEF SentOrder, HeadsApart
<1> QED BY <1>1, <1>2 DEF Silent

LEMMA SilentPInv ==
  ASSUME PInv, Silent
  PROVE  PInv'
<1>a. RInv /\ SentOrder /\ (HeadsApart => Traced)
  BY DEF PInv
<1>0. Facts /\ Counts
  BY <1>a, Reading
<1>1. RInv' /\ Consumed' >= Consumed /\ got' = got
  BY <1>a, SilentRInv
<1>2. Consumed' \in Int
  <2>1. rx' \in Seq(Byte) /\ carried' \in Seq(Byte) /\ tty_buffer_pos' \in Nat
    BY <1>1 DEF RInv, TypeOK
  <2>2. Len(rx') \in Nat /\ Len(carried') \in Nat
    BY <2>1, LenProperties
  <2> QED BY <2>1, <2>2 DEF Consumed
<1>3. SentOrder' /\ (HeadsApart' => HeadsApart)
  BY <1>a, SilentOrder
<1>4. /\ Len(sent) \in Nat /\ Len(sent') \in Nat /\ Len(sent) <= Len(sent')
      /\ \A j \in 1 .. Len(sent) : sent'[j] = sent[j]
  BY <1>a, SilentSent
<1> SUFFICES ASSUME HeadsApart' PROVE Traced'
  BY <1>1, <1>3 DEF PInv
<1>5. PICK pick \in Picks : \A i \in 1 .. Len(got) : sent[pick[i]].at < Consumed
  BY <1>a, <1>3 DEF Traced
<1>6. /\ pick \in [1 .. Len(got) -> 1 .. Len(sent)] /\ InOrder(pick)
      /\ \A i \in 1 .. Len(got) : Reported(sent[pick[i]].frame)
                                 /\ got[i] = CommandOf(sent[pick[i]].frame)
  BY <1>5 DEF Picks
<1>7. ASSUME NEW i \in 1 .. Len(got)
      PROVE  /\ sent'[pick[i]] = sent[pick[i]] /\ sent[pick[i]].at < Consumed'
             /\ pick[i] \in 1 .. Len(sent')
  <2>1. pick[i] \in 1 .. Len(sent)
    BY <1>6
  <2>2. sent[pick[i]].at \in Nat
    BY <1>a, <2>1 DEF RInv, SentInLine, LiesIn
  <2>3. sent[pick[i]].at < Consumed
    BY <1>5
  <2>4. sent[pick[i]].at < Consumed'
    BY <1>0, <1>1, <1>2, <2>2, <2>3 DEF Counts
  <2> QED BY <1>4, <2>1, <2>4
<1>8. pick \in [1 .. Len(got) -> 1 .. Len(sent')]
  BY <1>6, <1>7
<1>9. pick \in Picks'
  BY <1>1, <1>6, <1>7, <1>8 DEF Picks
<1> QED BY <1>1, <1>7, <1>9 DEF Traced

LEMMA TakeFramePInv ==
  ASSUME PInv, NEW h, TakeFrame(h)
  PROVE  PInv'
<1>a. RInv /\ SentOrder /\ (HeadsApart => Traced)
  BY DEF PInv
<1>0. Facts /\ Counts
  BY <1>a, Reading
<1>n. Len(sent) \in Nat
  BY <1>0 DEF Facts
<1>1. sent' = sent /\ carried' = carried
  BY DEF TakeFrame, CutFrame, line
<1>2. SentOrder' /\ (HeadsApart' => HeadsApart)
  BY <1>a, <1>1 DEF SentOrder, HeadsApart
<1> DEFINE c == CommandAt(h)
<1>3. /\ RInv' /\ Consumed' = Consumed + h + 3 + LengthAt(h)
      /\ h \in Nat /\ LengthAt(h) \in Nat
      /\ c \in Seq(Nat) /\ got \in Seq(Seq(Nat))
      /\ got' = IF CommandId(c) \in ReportTypes THEN Append(got, c) ELSE got
  BY <1>a, TakeFrameRInv
<1>b. h \in Nat /\ Consumed' \in Nat /\ Consumed' > Consumed + h
  BY <1>0, <1>3 DEF Counts
<1> SUFFICES ASSUME HeadsApart PROVE Traced'
  BY <1>2, <1>3 DEF PInv
<1>4. PICK j \in 1 .. Len(sent) : sent[j].at = Consumed + h
  BY <1>a, FrameIsSent DEF TakeFrame
<1>5. c = CommandOf(sent[j].frame)
  BY <1>a, <1>4, FrameTaken
<1> HIDE DEF c
<1>6. Len(got) \in Nat
  BY <1>3, LenProperties
<1>7. PICK pick \in Picks : \A i \in 1 .. Len(got) : sent[pick[i]].at < Consumed
  BY <1>a DEF Traced
<1>8. /\ pick \in [1 .. Len(got) -> 1 .. Len(sent)] /\ InOrder(pick)
      /\ \A i \in 1 .. Len(got) : Reported(sent[pick[i]].frame)
                                 /\ got[i] = CommandOf(sent[pick[i]].frame)
  BY <1>7 DEF Picks
<1>9. ASSUME NEW i \in 1 .. Len(got)
      PROVE  pick[i] < j /\ pick[i] \in 1 .. Len(sent) /\ sent[pick[i]].at < Consumed'
  <2>1. pick[i] \in 1 .. Len(sent)
    BY <1>8
  <2>2. sent[pick[i]].at \in Nat /\ sent[pick[i]].at < Consumed
    BY <1>a, <1>7, <2>1 DEF RInv, SentInLine, LiesIn
  <2>3. sent[pick[i]].at < sent[j].at /\ sent[pick[i]].at < Consumed'
    <3> DEFINE a == sent[pick[i]].at
    <3>1. a \in Nat /\ a < Consumed
      BY <2>2
    <3>2. Consumed \in Nat
      BY <1>0 DEF Counts
    <3> HIDE DEF a
    <3>3. a < Consumed + h /\ a < Consumed'
      BY <1>b, <3>1, <3>2
    <3>4. a < sent[j].at
      BY <1>4, <3>3
    <3> QED BY <3>3, <3>4 DEF a
  <2>4. sent[j].at \in Nat
    BY <1>0, <1>4, <1>b DEF Counts
  <2>5. j < pick[i] => sent[j].at < sent[pick[i]].at
    BY <1>a, <2>1 DEF SentOrder
  <2>6. ~(j < pick[i]) /\ j # pick[i]
    BY <2>2, <2>3, <2>4, <2>5
  <2> QED BY <1>n, <2>1, <2>3, <2>6
<1>10. CASE CommandId(c) \in ReportTypes
  <2> DEFINE n == Len(got)
             m == Len(sent)
             p == OneMore(pick, n, j)
  <2>1. /\ n \in Nat /\ m \in Nat /\ m <= m /\ j \in 1 .. m
        /\ pick \in [1 .. n -> 1 .. m] /\ InOrder(pick) /\ \A i \in 1 .. n : pick[i] < j
    BY <1>n, <1>6, <1>8, <1>9
  <2>2. Len(got') = n + 1 /\ got'[n + 1] = c /\ \A i \in 1 .. n : got'[i] = got[i]
    BY <1>3, <1>10, AppendProperties
  <2> HIDE DEF n, m
  <2>3. /\ p \in [1 .. n + 1 -> 1 .. m] /\ InOrder(p)
        /\ p[n + 1] = j /\ \A i \in 1 .. n : p[i] = pick[i]
        /\ \A i \in 1 .. n + 1 : i = n + 1 \/ i \in 1 .. n
    <3>1. /\ OneMore(pick, n, j) \in [1 .. n + 1 -> 1 .. m]
          /\ InOrder(OneMore(pick, n, j))
          /\ OneMore(pick, n, j)[n + 1] = j
          /\ \A i \in 1 .. n : OneMore(pick, n, j)[i] = pick[i]
          /\ \A i \in 1 .. n + 1 : i = n + 1 \/ i \in 1 .. n
      BY <2>1, ExtendPick
    <3> QED BY <3>1
  <2> HIDE DEF p
  <2>4. ASSUME NEW i \in 1 .. n + 1
        PROVE  /\ Reported(sent[p[i]].frame) /\ got'[i] = CommandOf(sent[p[i]].frame)
               /\ sent[p[i]].at < Consumed'
    <3>1. CASE i = n + 1
      <4>1. Reported(sent[j].frame)
        BY <1>5, <1>10 DEF Reported
      <4>2. sent[j].at < Consumed'
        BY <1>0, <1>3, <1>4 DEF Counts
      <4> QED BY <1>5, <2>2, <2>3, <3>1, <4>1, <4>2
    <3>2. CASE i \in 1 .. n
      BY <1>8, <1>9, <2>2, <2>3, <3>2 DEF n
    <3> QED BY <2>3, <3>1, <3>2
  <2>5. p \in Picks'
    BY <1>1, <2>2, <2>3, <2>4 DEF Picks, m
  <2> QED BY <1>1, <2>2, <2>4, <2>5 DEF Traced
<1>11. CASE CommandId(c) \notin ReportTypes
  <2>1. got' = got
    BY <1>3, <1>11
  <2>2. pick \in Picks'
    BY <1>1, <1>8, <2>1 DEF Picks
  <2> QED BY <1>1, <1>9, <2>1, <2>2 DEF Traced
<1> QED BY <1>10, <1>11

(* However read cuts the stream, libmpeg reports only frames that were      *)
(* sent, none twice and none before an earlier one: without stray bytes     *)
(* whatever the frames hold, with them as long as no frame has the HEAD     *)
(* bytes in its data.                                                       *)
THEOREM FramesAreOnce == Spec => []FramesOnce
<1>1. Init => PInv
  BY InitRInv, InitOrder, InitTraced DEF PInv
<1>2. PInv /\ [Next]_vars => PInv'
  BY Steps, SilentPInv, TakeFramePInv
<1>3. PInv /\ NoneMissed => FramesOnce
  BY DEF PInv, Traced, FramesOnce, NoneMissed
<1> QED BY NoneIsMissed, <1>1, <1>2, <1>3, PTL DEF Spec
=============================================================================
