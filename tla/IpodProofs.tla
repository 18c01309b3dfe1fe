----------------------------- MODULE IpodProofs -----------------------------
(* The read thread of libipod, which leaves the checksum of every frame it  *)
(* takes in front of the next one: for every size of byte, buffer and read  *)
(* that satisfies SerialAssumption, any set of well-formed frames, whatever *)
(* their data and checksums look like, any number of them and of stray      *)
(* bytes, and reads that cut the stream anywhere, as long as nothing was    *)
(* sent that the parser could take for a large packet.                      *)
EXTENDS Ipod, SerialReaderProofs

(* A frame is held back only if it is shorter than the longest one. *)
LEMMA HoldPartialRInv ==
  ASSUME RInv, NEW h, HoldPartial(h)
  PROVE  RInv' /\ Consumed' = Consumed + h /\ got' = got
<1>0. Facts /\ Counts
  BY Reading
<1>1. rpc = "head" /\ IsHead(h) /\ KeepFrom(h) /\ Partial(h) /\ h + 1 # tty_buffer_pos
  BY DEF HoldPartial, FrameAt
<1>2. h \in 0 .. tty_buffer_pos - 1 /\ h \in Nat
  BY <1>1, HeadInside
<1>3. tty_buffer_pos - h <= ByteMod + 2
  <2>1. CASE tty_buffer_pos - h \in {2, 3}
    BY <1>0, <1>2, <2>1, Sizes DEF Counts
  <2>2. CASE tty_buffer_pos - h \notin {2, 3}
    <3>1. h + 2 \in Index
      BY <1>0, <1>1, <1>2, <2>2, Sizes DEF Facts
    <3>2. tty_buffer[h + 2] \in 0 .. ByteMod - 1
      BY <1>0, <3>1, Sizes DEF Facts
    <3>3. tty_buffer[h + 2] + 1 > tty_buffer_pos - (h + 3)
      BY <1>1, <2>2 DEF Partial, LengthAt, LeftBytes
    <3> QED BY <1>0, <1>2, <3>2, <3>3, Sizes DEF Counts
  <2> QED BY <2>1, <2>2
<1>4. got' = got
  BY <1>1 DEF KeepFrom, got, qvars
<1> QED BY <1>1, <1>3, <1>4, KeepFromRInv

LEMMA TypesAreNat ==
  ASSUME NEW c
  PROVE  ReportedTypes(c) \subseteq Nat
<1>1. NoType \in Nat
  BY Sizes DEF NoType
<1> QED BY <1>1, TypesAssumption DEF ReportedTypes

(* a notification of type t, and the command in it *)
LEMMA Notification ==
  ASSUME NEW t \in Nat, NEW c \in Seq(Nat)
  PROVE  /\ <<t>> \o c \in Seq(Nat) /\ Head(<<t>> \o c) = t /\ Tail(<<t>> \o c) = c
OBVIOUS

(* What TakeFrame hands to parse_command is the stretch of the line that    *)
(* lies behind the HEAD bytes.                                              *)
LEMMA TakeFrameRInv ==
  ASSUME RInv, NEW h, TakeFrame(h)
  PROVE  /\ RInv' /\ Consumed' = Consumed + h + 3 + LengthAt(h)
         /\ h \in Nat /\ LengthAt(h) \in Nat /\ rpc' = "head"
         /\ h + 4 + LengthAt(h) <= tty_buffer_pos
         /\ CommandAt(h) \in Seq(Nat) /\ Len(CommandAt(h)) = LengthAt(h) + 2
         /\ got \in Seq(Seq(Nat))
         /\ \/ \E t \in ReportedTypes(CommandAt(h)) : got' = Append(got, <<t>> \o CommandAt(h))
            \/ ReportedTypes(CommandAt(h)) = {} /\ got' = got
<1>0. Facts /\ Counts
  BY Reading
<1>1. /\ rpc = "head" /\ IsHead(h) /\ FrameAt(h) /\ ~Partial(h) /\ CutFrame(h)
      /\ h + 1 # tty_buffer_pos /\ LengthAt(h) # 0
  BY DEF TakeFrame, FrameAt
<1>2. h \in 0 .. tty_buffer_pos - 1 /\ h \in Nat
  BY <1>1, HeadInside
<1>3. tty_buffer_pos - h >= 4
  <2>1. tty_buffer_pos - h \in Nat /\ tty_buffer_pos - h \notin {0, 1}
    BY <1>0, <1>1, <1>2 DEF Counts
  <2>2. tty_buffer_pos - h \notin {2, 3}
    BY <1>1 DEF Partial
  <2> QED BY <2>1, <2>2
<1>4. LengthAt(h) \in Nat
  <2>1. h + 2 \in Index
    BY <1>0, <1>2, <1>3, Sizes DEF Facts
  <2> QED BY <1>0, <2>1, Sizes DEF LengthAt, Facts
<1>5. LengthAt(h) + 1 <= LeftBytes(h) /\ LeftBytes(h) \in Int
  <2>1. LeftBytes(h) \in Int
    BY <1>0, <1>2 DEF LeftBytes, Counts
  <2> QED BY <1>1, <1>4, <2>1 DEF Partial
<1>6. h + 4 + LengthAt(h) <= tty_buffer_pos /\ LengthAt(h) <= LeftBytes(h)
      /\ LeftBytes(h) - LengthAt(h) # 0
  BY <1>0, <1>2, <1>4, <1>5 DEF LeftBytes, Counts
<1>r. rpc' = "head"
  BY <1>1, <1>6 DEF CutFrame
<1> DEFINE c == CommandAt(h)
           L == LengthAt(h)
<1>7. c \in Seq(Nat) /\ Len(c) = L + 2
  <2>1. c = [k \in 1 .. L + 2 |-> tty_buffer[h + 1 + k]]
    BY DEF CommandAt
  <2> HIDE DEF L, c
  <2>2. L \in Nat /\ h + 4 + L <= tty_buffer_pos
    BY <1>4, <1>6 DEF L
  <2>3. ASSUME NEW k \in 1 .. L + 2 PROVE tty_buffer[h + 1 + k] \in Nat
    <3>1. h + 1 + k \in Index
      BY <1>0, <1>2, <2>2, Sizes DEF Facts
    <3> QED BY <1>0, <3>1, Sizes DEF Facts
  <2>4. L + 2 \in Nat /\ c \in [1 .. L + 2 -> Nat]
    BY <2>1, <2>2, <2>3
  <2> QED BY <2>4
<1>8. queue \in Seq(Seq(Nat)) /\ delivered \in Seq(Seq(Nat))
  BY DEF RInv, TypeOK
<1>9. got \in Seq(Seq(Nat))
  BY <1>8, ConcatProperties DEF got
<1> HIDE DEF c, L
<1>10. /\ queue' \in Seq(Seq(Nat)) /\ delivered' \in Seq(Seq(Nat))
       /\ \/ \E t \in ReportedTypes(c) : got' = Append(got, <<t>> \o c)
          \/ ReportedTypes(c) = {} /\ got' = got
  <2>1. parse_command(c)
    BY DEF TakeFrame, c
  <2>2. ASSUME NEW t \in ReportedTypes(c), Q!Push(<<t>> \o c)
        PROVE  /\ queue' \in Seq(Seq(Nat)) /\ delivered' \in Seq(Seq(Nat))
               /\ got' = Append(got, <<t>> \o c)
    <3> DEFINE n == <<t>> \o c
    <3>1. n \in Seq(Nat)
      BY <1>7, TypesAreNat, Notification
    <3>2. queue' = Append(queue, n) /\ delivered' = delivered
      BY <2>2 DEF Q!Push
    <3> HIDE DEF n
    <3>3. queue' \in Seq(Seq(Nat))
      BY <1>8, <3>1, <3>2, AppendProperties
    <3>4. got' = Append(got, n)
      BY <1>8, <3>1, <3>2, AppendConcat DEF got
    <3> QED BY <1>8, <3>2, <3>3, <3>4 DEF n
  <2>3. CASE ReportedTypes(c) = {} /\ UNCHANGED qvars
    BY <1>8, <2>3 DEF got, qvars
  <2> QED BY <2>1, <2>2, <2>3 DEF parse_command
<1>11. RInv' /\ Consumed' = Consumed + h + 3 + LengthAt(h)
  BY <1>1, <1>3, <1>6, <1>10, CutFrameRInv
<1> QED BY <1>2, <1>4, <1>6, <1>7, <1>9, <1>10, <1>11, <1>r DEF c, L

(* The steps that report nothing. *)
Silent == SharedStep \/ \E h \in Index : HoldPartial(h)

LEMMA Steps ==
  ASSUME [Next]_vars
  PROVE  Silent \/ (\E h \in Index : TakeFrame(h)) \/ (\E h \in Index : LargePacket(h))
BY DEF Next, ReaderStep, Silent, SharedStep

LEMMA SilentRInv ==
  ASSUME RInv, Silent
  PROVE  RInv' /\ Consumed' >= Consumed /\ got' = got
<1>0. Facts /\ Counts
  BY Reading
<1>1. CASE SharedStep
  BY <1>1, SharedRInv
<1>2. ASSUME NEW h \in Index, HoldPartial(h)
      PROVE  RInv' /\ Consumed' >= Consumed /\ got' = got
  <2>1. RInv' /\ Consumed' = Consumed + h /\ h \in Nat /\ got' = got
    BY <1>2, HoldPartialRInv, Sizes
  <2> QED BY <1>0, <2>1 DEF Counts
<1> QED BY <1>1, <1>2 DEF Silent

LEMMA SilentSent ==
  ASSUME RInv, Silent
  PROVE  /\ Len(sent) \in Nat /\ Len(sent') \in Nat /\ Len(sent) <= Len(sent')
         /\ \A j \in 1 .. Len(sent) : sent'[j] = sent[j]
<1>1. CASE SharedStep
  BY <1>1, SharedSent
<1>2. CASE \E h \in Index : HoldPartial(h)
  <2>1. sent' = sent
    BY <1>2 DEF HoldPartial, KeepFrom, line
  <2>2. Len(sent) \in Nat
    BY Reading DEF Facts
  <2> QED BY <2>1, <2>2
<1> QED BY <1>1, <1>2 DEF Silent
-----------------------------------------------------------------------------
(* When the parser takes a large packet, the line carried the head of one. *)
LEMMA LargePacketCarried ==
  ASSUME RInv, NEW h, LargePacket(h)
  PROVE  LargeCarried
<1>0. Facts /\ Counts
  BY Reading
<1>1. /\ rpc = "head" /\ IsHead(h) /\ ~Partial(h) /\ h + 1 # tty_buffer_pos
      /\ tty_buffer[h + 1] = HeadTwo /\ tty_buffer[h + 2] = 0
  BY DEF LargePacket, FrameAt, LengthAt
<1>2. h \in 0 .. tty_buffer_pos - 1 /\ h \in Nat /\ tty_buffer[h] = HeadOne
  BY <1>1, HeadInside
<1>3. h + 2 < tty_buffer_pos
  <2>1. tty_buffer_pos - h \notin {2, 3}
    BY <1>1 DEF Partial
  <2> QED BY <1>0, <1>1, <1>2, <2>1 DEF Counts
<1> DEFINE i == Consumed + h + 1
<1>4. /\ i \in 1 .. Len(carried) - 2
      /\ Consumed + (h + 1) + 1 = i + 1 /\ Consumed + (h + 2) + 1 = i + 2
      /\ h + 1 \in 0 .. tty_buffer_pos - 1 /\ h + 2 \in 0 .. tty_buffer_pos - 1
  BY <1>0, <1>2, <1>3 DEF Counts
<1>5. /\ tty_buffer[h] = carried[i]
      /\ tty_buffer[h + 1] = carried[Consumed + (h + 1) + 1]
      /\ tty_buffer[h + 2] = carried[Consumed + (h + 2) + 1]
  BY <1>2, <1>4 DEF RInv, InLine, Buffered
<1>6. carried[i] = HeadOne /\ carried[i + 1] = HeadTwo /\ carried[i + 2] = 0
  BY <1>1, <1>2, <1>4, <1>5
<1> HIDE DEF i
<1> QED BY <1>4, <1>6 DEF LargeCarried
-----------------------------------------------------------------------------
(* What the line carried only grows: what was not there before the step may *)
(* be there after it, never the other way round.                            *)
LInv == carried \in Seq(Byte) /\ sent \in Seq([frame : Seq(Byte), at : Nat]) /\ noise \in Nat

LEMMA LineSteps ==
  ASSUME [Next]_vars
  PROVE  \/ UNCHANGED <<carried, sent, noise>>
         \/ \E f \in Frames : DeviceSends(f)
         \/ \E b \in {0, HeadOne} : LineNoise(b)
BY DEF Next, ReaderStep, ReadBytes, NoHead, ReadFails, GetNotification, HeadLast, SearchNext,
       HoldPartial, LargePacket, TakeFrame, CutFrame, KeepFrom, line, vars

LEMMA LineOnlyGrows ==
  ASSUME LInv, [Next]_vars
  PROVE  /\ LInv' /\ Len(carried) \in Nat /\ Len(carried') \in Nat /\ Len(carried) <= Len(carried')
         /\ \A i \in 1 .. Len(carried) : carried'[i] = carried[i]
         /\ Len(sent) \in Nat /\ Len(sent') \in Nat /\ Len(sent) <= Len(sent')
         /\ \A j \in 1 .. Len(sent) : sent'[j] = sent[j]
         /\ noise' = 0 => noise = 0
<1>0. /\ carried \in Seq(Byte) /\ sent \in Seq([frame : Seq(Byte), at : Nat]) /\ noise \in Nat
      /\ Len(carried) \in Nat /\ Len(sent) \in Nat
  BY LenProperties DEF LInv
<1>1. CASE UNCHANGED <<carried, sent, noise>>
  BY <1>0, <1>1 DEF LInv
<1>2. ASSUME NEW f \in Frames, DeviceSends(f)
      PROVE  /\ LInv' /\ Len(carried') \in Nat /\ Len(carried) <= Len(carried')
             /\ \A i \in 1 .. Len(carried) : carried'[i] = carried[i]
             /\ Len(sent') = Len(sent) + 1 /\ \A j \in 1 .. Len(sent) : sent'[j] = sent[j]
             /\ noise' = noise
  <2> DEFINE r == [frame |-> f, at |-> Len(carried)]
  <2>1. f \in Seq(Byte) /\ Len(f) \in Nat
    BY FramesAreBytes, LenProperties
  <2>2. r \in [frame : Seq(Byte), at : Nat]
    BY <1>0, <2>1
  <2>3. carried' = carried \o f /\ sent' = Append(sent, r) /\ noise' = noise
    BY <1>2 DEF DeviceSends
  <2> HIDE DEF r
  <2>4. /\ carried' \in Seq(Byte) /\ Len(carried') = Len(carried) + Len(f)
        /\ \A i \in 1 .. Len(carried) + Len(f) :
              carried'[i] = IF i <= Len(carried) THEN carried[i] ELSE f[i - Len(carried)]
    BY <1>0, <2>1, <2>3, ConcatProperties
  <2>5. \A i \in 1 .. Len(carried) : carried'[i] = carried[i]
    BY <1>0, <2>1, <2>4
  <2>6. /\ sent' \in Seq([frame : Seq(Byte), at : Nat]) /\ Len(sent') = Len(sent) + 1
        /\ \A j \in 1 .. Len(sent) : sent'[j] = sent[j]
    BY <1>0, <2>2, <2>3, AppendProperties
  <2> QED BY <1>0, <2>1, <2>3, <2>4, <2>5, <2>6 DEF LInv
<1>3. ASSUME NEW b \in {0, HeadOne}, LineNoise(b)
      PROVE  /\ LInv' /\ Len(carried') \in Nat /\ Len(carried) <= Len(carried')
             /\ \A i \in 1 .. Len(carried) : carried'[i] = carried[i]
             /\ sent' = sent /\ noise' # 0
  <2>1. carried' = Append(carried, b) /\ sent' = sent /\ noise' = noise + 1 /\ b \in Byte
    BY <1>3, Sizes DEF LineNoise
  <2>2. /\ carried' \in Seq(Byte) /\ Len(carried') = Len(carried) + 1
        /\ \A i \in 1 .. Len(carried) : carried'[i] = carried[i]
    BY <1>0, <2>1, AppendProperties
  <2> QED BY <1>0, <2>1, <2>2 DEF LInv
<1>4. CASE \E f \in Frames : DeviceSends(f)
  BY <1>0, <1>2, <1>4
<1>5. CASE \E b \in {0, HeadOne} : LineNoise(b)
  BY <1>0, <1>3, <1>5
<1> QED BY <1>1, <1>4, <1>5, LineSteps

(* Small packets and nothing else. *)
Small == noise = 0 /\ ~LargeSent

LEMMA NoLargeBefore ==
  ASSUME LInv, [Next]_vars
  PROVE  (Small' => Small) /\ (NoLarge' => NoLarge)
<1>1. /\ Len(carried) \in Nat /\ Len(carried') \in Nat /\ Len(carried) <= Len(carried')
      /\ \A i \in 1 .. Len(carried) : carried'[i] = carried[i]
      /\ Len(sent) \in Nat /\ Len(sent') \in Nat /\ Len(sent) <= Len(sent')
      /\ \A j \in 1 .. Len(sent) : sent'[j] = sent[j]
      /\ noise' = 0 => noise = 0
  BY LineOnlyGrows
<1>2. LargeSent => LargeSent'
  BY <1>1 DEF LargeSent, Large
<1>3. LargeCarried => LargeCarried'
  <2> SUFFICES ASSUME NEW i \in 1 .. Len(carried) - 2, carried[i] = HeadOne,
                      carried[i + 1] = HeadTwo, carried[i + 2] = 0
               PROVE  LargeCarried'
    BY DEF LargeCarried
  <2>1. /\ i \in 1 .. Len(carried') - 2 /\ i \in 1 .. Len(carried)
        /\ i + 1 \in 1 .. Len(carried) /\ i + 2 \in 1 .. Len(carried)
    BY <1>1
  <2>2. carried'[i] = HeadOne /\ carried'[i + 1] = HeadTwo /\ carried'[i + 2] = 0
    BY <1>1, <2>1
  <2> QED BY <2>1, <2>2 DEF LargeCarried
<1>4. Small' => Small
  BY <1>1, <1>2 DEF Small
<1> QED BY <1>3, <1>4 DEF NoLarge, Small
-----------------------------------------------------------------------------
(* Without stray bytes and large packets the thread stays in step with the  *)
(* iPod.                                                                    *)

(* pick accounts for the notifications g by the first k frames of s: each   *)
(* is that of a frame, in order, and no frame to be reported is left out    *)
Accounts(pick, g, s, k) ==
    /\ pick \in [1 .. Len(g) -> 1 .. k] /\ InOrder(pick)
    /\ \A i \in 1 .. Len(g) : Reports(g[i], s[pick[i]].frame)
    /\ \A j \in 1 .. k : Reported(s[j].frame) => \E i \in 1 .. Len(g) : pick[i] = j

(* the first k frames are done with but for c bytes, 1 if the checksum of   *)
(* the last one is still in front: behind it the next one begins            *)
AlignedAt(k, c) ==
    /\ Consumed + c = Start(k + 1)
    /\ rpc = "head" => p_start <= c
    /\ rpc # "head" => \/ tty_buffer_pos = c
                       \/ c = 0 /\ k < Len(sent) /\ tty_buffer_pos < Len(sent[k + 1].frame)

Synced ==
    Small => \E k \in 0 .. Len(sent) :
                /\ \E c \in {0, 1} : AlignedAt(k, c)
                /\ \E pick : Accounts(pick, got, sent, k)

LEMMA FrameFacts ==
  ASSUME NEW f \in Frames
  PROVE  /\ f \in Seq(Byte) /\ Len(f) \in Nat /\ Len(f) >= 3
         /\ f[1] = HeadOne /\ f[2] = HeadTwo /\ f[3] \in Nat
         /\ f[3] # 0 => Len(f) = f[3] + 4
<1>1. f \in Seq(Byte) /\ Len(f) \in Nat /\ Len(f) >= 3
  BY FramesAreBytes, FrameAssumption, LenProperties
<1>2. f[3] \in Byte
  BY <1>1, ElementOfSeq
<1> QED BY <1>1, <1>2, FrameAssumption, Sizes

(* While it parses, there is a checksum in front or none, and a frame       *)
(* behind it if there is more.                                              *)
LEMMA FrameInFront ==
  ASSUME RInv, Small, rpc = "head", NEW k \in 0 .. Len(sent), NEW c \in {0, 1}, AlignedAt(k, c)
  PROVE  /\ tty_buffer_pos <= c => c = 1 /\ tty_buffer_pos = 1
         /\ \A h : IsHead(h) => h \in Nat /\ h < tty_buffer_pos
                                /\ (tty_buffer_pos > c => h <= c)
         /\ tty_buffer_pos > c =>
              /\ k + 1 \in 1 .. Len(sent) /\ sent[k + 1].at = Consumed + c
              /\ sent[k + 1].frame \in Frames /\ sent[k + 1].frame[3] # 0
              /\ \A i \in 1 .. Len(sent[k + 1].frame) :
                    c + i <= tty_buffer_pos => tty_buffer[c + i - 1] = sent[k + 1].frame[i]
              /\ Found # {} /\ tty_buffer[c] = HeadOne
              /\ tty_buffer_pos > c + 1 => tty_buffer[c + 1] = HeadTwo
<1>0. Facts /\ Counts
  BY Reading
<1>1. /\ tty_buffer_pos >= 1 /\ p_start <= c /\ tty_buffer_pos <= p_start + search_byte
      /\ Consumed + c = Start(k + 1)
  BY DEF RInv, SearchBound, AlignedAt
<1>2. tty_buffer_pos <= c => c = 1 /\ tty_buffer_pos = 1
  BY <1>0, <1>1 DEF Counts
<1>3. ASSUME NEW h, IsHead(h) PROVE h \in Nat /\ h < tty_buffer_pos
  BY <1>0, <1>3, HeadInside DEF Counts
<1>4. ASSUME tty_buffer_pos > c
      PROVE  /\ k + 1 \in 1 .. Len(sent) /\ sent[k + 1].at = Consumed + c
             /\ sent[k + 1].frame \in Frames /\ sent[k + 1].frame[3] # 0
             /\ \A i \in 1 .. Len(sent[k + 1].frame) :
                   c + i <= tty_buffer_pos => tty_buffer[c + i - 1] = sent[k + 1].frame[i]
             /\ c \in Found /\ tty_buffer[c] = HeadOne
             /\ tty_buffer_pos > c + 1 => tty_buffer[c + 1] = HeadTwo
  <2>n. Len(sent) \in Nat
    BY <1>0 DEF Facts
  <2>1. k + 1 \in 1 .. Len(sent)
    <3> SUFFICES ASSUME k = Len(sent) PROVE FALSE
      BY <2>n
    <3>1. Consumed + c = Len(carried)
      BY <1>1, <2>n DEF Start, StartIn
    <3> QED BY <1>0, <1>4, <3>1 DEF Counts
  <2> DEFINE f == sent[k + 1].frame
  <2>2. sent[k + 1].at = Consumed + c /\ c \in Nat
    BY <1>1, <2>n, <2>1 DEF Start, StartIn
  <2>3. /\ f \in Frames
        /\ \A i \in 1 .. Len(f) : c + i <= tty_buffer_pos => tty_buffer[c + i - 1] = f[i]
    BY <2>1, <2>2, BufferIsFrame
  <2>4. f[3] # 0
    BY <2>1 DEF Small, LargeSent, Large
  <2> HIDE DEF f
  <2>5. Len(f) \in Nat /\ Len(f) >= 3 /\ f[1] = HeadOne /\ f[2] = HeadTwo
    BY <2>3, FrameFacts
  <2>6. tty_buffer[c] = HeadOne
    <3>1. 1 \in 1 .. Len(f) /\ c + 1 <= tty_buffer_pos /\ c + 1 - 1 = c
      BY <1>0, <1>4, <2>5 DEF Counts
    <3> QED BY <2>3, <2>5, <3>1
  <2>7. c \in Found
    <3>1. c \in p_start .. p_start + search_byte - 1
      BY <1>0, <1>1, <1>4 DEF Facts
    <3> QED BY <2>6, <3>1 DEF Found
  <2>8. tty_buffer_pos > c + 1 => tty_buffer[c + 1] = HeadTwo
    <3> SUFFICES ASSUME tty_buffer_pos > c + 1 PROVE tty_buffer[c + 1] = HeadTwo
      OBVIOUS
    <3>1. 2 \in 1 .. Len(f) /\ c + 2 <= tty_buffer_pos /\ c + 2 - 1 = c + 1
      BY <1>0, <2>5 DEF Counts
    <3> QED BY <2>3, <2>5, <3>1
  <2> QED BY <2>1, <2>2, <2>3, <2>4, <2>6, <2>7, <2>8 DEF f
<1>5. ASSUME NEW h, IsHead(h), tty_buffer_pos > c PROVE h <= c
  BY <1>4, <1>5 DEF IsHead
<1> QED BY <1>2, <1>3, <1>4, <1>5

(* The HEAD bytes are always those of the next frame. *)
LEMMA HeadIsNext ==
  ASSUME RInv, Small, NEW k \in 0 .. Len(sent), NEW c \in {0, 1}, AlignedAt(k, c),
         NEW h, FrameAt(h)
  PROVE  /\ h = c /\ tty_buffer_pos > c + 1 /\ rpc = "head"
         /\ k + 1 \in 1 .. Len(sent) /\ sent[k + 1].at = Consumed + c
         /\ sent[k + 1].frame \in Frames /\ sent[k + 1].frame[3] # 0
         /\ \A i \in 1 .. Len(sent[k + 1].frame) :
               c + i <= tty_buffer_pos => tty_buffer[c + i - 1] = sent[k + 1].frame[i]
<1>0. Facts /\ Counts
  BY Reading
<1>1. rpc = "head" /\ IsHead(h) /\ h + 1 # tty_buffer_pos /\ tty_buffer[h + 1] = HeadTwo
  BY DEF FrameAt
<1>2. /\ tty_buffer_pos <= c => c = 1 /\ tty_buffer_pos = 1
      /\ h \in Nat /\ h < tty_buffer_pos /\ (tty_buffer_pos > c => h <= c)
      /\ tty_buffer_pos > c =>
              /\ k + 1 \in 1 .. Len(sent) /\ sent[k + 1].at = Consumed + c
              /\ sent[k + 1].frame \in Frames /\ sent[k + 1].frame[3] # 0
              /\ \A i \in 1 .. Len(sent[k + 1].frame) :
                    c + i <= tty_buffer_pos => tty_buffer[c + i - 1] = sent[k + 1].frame[i]
              /\ tty_buffer[c] = HeadOne
  BY <1>1, FrameInFront
<1>3. tty_buffer_pos > c
  BY <1>0, <1>1, <1>2 DEF Counts
<1>4. h = c
  <2>1. h = c \/ (h = 0 /\ c = 1)
    BY <1>2, <1>3
  <2>2. ~(h = 0 /\ c = 1)
    <3> SUFFICES ASSUME h = 0, c = 1 PROVE FALSE
      OBVIOUS
    <3>1. tty_buffer[1] = HeadTwo /\ tty_buffer[1] = HeadOne
      BY <1>1, <1>2, <1>3
    <3> QED BY <3>1, Sizes
  <2> QED BY <2>1, <2>2
<1>5. tty_buffer_pos > c + 1
  BY <1>0, <1>1, <1>3, <1>4 DEF Counts
<1> QED BY <1>1, <1>2, <1>3, <1>4, <1>5

(* A step that reports nothing stays where it is in the stream, or passes   *)
(* the checksum.                                                            *)
LEMMA SilentAligned ==
  ASSUME RInv, Silent, Small, Small', NEW k \in 0 .. Len(sent), NEW c \in {0, 1}, AlignedAt(k, c)
  PROVE  \E d \in {0, 1} : AlignedAt(k, d)'
<1>0. Facts /\ Counts
  BY Reading
<1>n. Len(sent) \in Nat /\ k \in Nat
  BY <1>0 DEF Facts
<1> DEFINE Goal == \E d \in {0, 1} : AlignedAt(k, d)'
<1>a. ASSUME NEW d \in {0, 1}, UNCHANGED <<carried, sent>>, Consumed' + d = Consumed + c,
             rpc' = "head" => p_start' <= d,
             rpc' # "head" =>
                \/ tty_buffer_pos' = d
                \/ d = 0 /\ k < Len(sent) /\ tty_buffer_pos' < Len(sent[k + 1].frame)
      PROVE  Goal
  <2>1. Consumed' + d = Start(k + 1)'
    BY <1>a DEF AlignedAt, Start
  <2>2. AlignedAt(k, d)'
    BY <1>a, <2>1 DEF AlignedAt
  <2> QED BY <2>2
<1>b. ASSUME UNCHANGED <<carried, sent, tty_buffer_pos>>, Consumed' = Consumed,
             rpc' = "head" => rpc = "head" /\ p_start' = p_start,
             rpc' # "head" => rpc # "head"
      PROVE  Goal
  <2>1. rpc' = "head" => p_start' <= c
    BY <1>b DEF AlignedAt
  <2>2. rpc' # "head" =>
           \/ tty_buffer_pos' = c
           \/ c = 0 /\ k < Len(sent) /\ tty_buffer_pos' < Len(sent[k + 1].frame)
    BY <1>b DEF AlignedAt
  <2>3. Consumed' + c = Consumed + c
    BY <1>b
  <2> QED BY <1>a, <1>b, <2>1, <2>2, <2>3
<1>f. ASSUME rpc = "head"
      PROVE  /\ tty_buffer_pos <= c => c = 1 /\ tty_buffer_pos = 1
             /\ \A h : IsHead(h) => h \in Nat /\ h < tty_buffer_pos
                                    /\ (tty_buffer_pos > c => h <= c)
             /\ tty_buffer_pos > c =>
                  /\ k + 1 \in 1 .. Len(sent) /\ sent[k + 1].frame \in Frames
                  /\ sent[k + 1].frame[3] # 0 /\ Found # {}
                  /\ tty_buffer_pos > c + 1 => tty_buffer[c + 1] = HeadTwo
  BY <1>f, FrameInFront
<1>k. ASSUME KeepFrom(c), Consumed' = Consumed + c, k < Len(sent),
             tty_buffer_pos - c < Len(sent[k + 1].frame)
      PROVE  Goal
  <2>1. /\ UNCHANGED <<carried, sent>> /\ rpc' = "select" /\ tty_buffer_pos' = tty_buffer_pos - c
    BY <1>k DEF KeepFrom, line
  <2>2. Consumed' + 0 = Consumed + c
    BY <1>0, <1>k DEF Counts
  <2> QED BY <1>a, <1>k, <2>1, <2>2
<1> HIDE DEF Goal
<1>1. ASSUME NEW n \in 1 .. MaxRead, ReadBytes(n) PROVE Goal
  <2>1. Consumed' = Consumed /\ UNCHANGED <<carried, sent>> /\ p_start' = 0 /\ rpc' = "head"
    BY <1>1, ReadBytesRInv DEF ReadBytes
  <2>2. Consumed' + c = Consumed + c /\ p_start' <= c
    BY <2>1
  <2> QED BY <1>a, <2>1, <2>2
<1>2. CASE NoHead
  <2>1. /\ rpc = "head" /\ Found = {} /\ UNCHANGED <<carried, sent>>
        /\ tty_buffer_pos' = 0 /\ rpc' = "select"
    BY <1>2 DEF NoHead, line
  <2>2. ~(tty_buffer_pos > c)
    BY <1>f, <2>1
  <2>3. c = 1 /\ tty_buffer_pos = 1
    BY <1>0, <1>f, <2>1, <2>2 DEF Counts
  <2>4. Consumed' = Consumed + tty_buffer_pos
    BY <1>2, NoHeadRInv
  <2>5. Consumed' + 0 = Consumed + c
    BY <1>0, <2>3, <2>4 DEF Counts
  <2> QED BY <1>a, <2>1, <2>5 DEF Goal
<1>3. CASE ReadFails
  <2>1. /\ Consumed' = Consumed /\ UNCHANGED <<tty_buffer_pos, carried, sent>>
        /\ rpc = "select" /\ rpc' # "head"
    BY <1>3, ReadFailsRInv DEF ReadFails, line
  <2> QED BY <1>b, <2>1 DEF Goal
<1>4. CASE GetNotification
  <2>1. Consumed' = Consumed /\ UNCHANGED <<tty_buffer_pos, p_start, rpc, carried, sent>>
    BY <1>4, GetNotificationRInv DEF GetNotification, line
  <2> QED BY <1>b, <2>1 DEF Goal
<1>5. CASE UNCHANGED vars
  <2>1. Consumed' = Consumed /\ UNCHANGED <<tty_buffer_pos, p_start, rpc, carried, sent>>
    BY <1>5, StutterRInv DEF vars, line
  <2> QED BY <1>b, <2>1 DEF Goal
<1>6. ASSUME NEW h \in Index, HeadLast(h) PROVE Goal
  <2>1. /\ rpc = "head" /\ IsHead(h) /\ KeepFrom(h) /\ h + 1 = tty_buffer_pos
    BY <1>6 DEF HeadLast
  <2>2. Consumed' = Consumed + h /\ h \in Nat
    BY <1>6, HeadLastRInv, Sizes
  <2>3. CASE tty_buffer_pos > c
    <3>1. h = c /\ k + 1 \in 1 .. Len(sent) /\ sent[k + 1].frame \in Frames
      BY <1>0, <1>f, <2>1, <2>2, <2>3 DEF Counts
    <3>2. Len(sent[k + 1].frame) \in Nat /\ Len(sent[k + 1].frame) >= 3
      BY <3>1, FrameFacts
    <3>3. k < Len(sent) /\ tty_buffer_pos - c < Len(sent[k + 1].frame)
      BY <1>0, <1>n, <2>1, <2>2, <3>1, <3>2 DEF Counts
    <3> QED BY <1>k, <2>1, <2>2, <3>1, <3>3
  <2>4. CASE ~(tty_buffer_pos > c)
    <3>1. c = 1 /\ tty_buffer_pos = 1 /\ h = 0
      BY <1>0, <1>f, <2>1, <2>2, <2>4 DEF Counts
    <3>2. /\ UNCHANGED <<carried, sent>> /\ rpc' = "select" /\ tty_buffer_pos' = c
      BY <2>1, <3>1 DEF KeepFrom, line
    <3>3. Consumed' + c = Consumed + c
      BY <1>0, <2>2, <3>1 DEF Counts
    <3> QED BY <1>a, <3>2, <3>3
  <2> QED BY <2>3, <2>4
<1>7. ASSUME NEW h \in Index, SearchNext(h) PROVE Goal
  <2>1. /\ rpc = "head" /\ IsHead(h) /\ h + 1 # tty_buffer_pos /\ tty_buffer[h + 1] # HeadTwo
        /\ p_start' = h + 1 /\ rpc' = rpc /\ UNCHANGED <<carried, sent>>
    BY <1>7 DEF SearchNext, line
  <2>2. h \in Nat /\ h < tty_buffer_pos
    BY <1>f, <2>1
  <2>3. tty_buffer_pos > c
    BY <1>0, <1>f, <2>1, <2>2 DEF Counts
  <2>4. h <= c /\ (tty_buffer_pos > c + 1 => tty_buffer[c + 1] = HeadTwo)
    BY <1>f, <2>1, <2>3
  <2>5. h # c
    BY <1>0, <2>1, <2>2, <2>4 DEF Counts
  <2>6. p_start' <= c
    BY <2>1, <2>2, <2>4, <2>5
  <2>7. Consumed' = Consumed
    BY <1>7, SearchNextRInv
  <2>8. Consumed' + c = Consumed + c
    BY <2>7
  <2> QED BY <1>a, <2>1, <2>6, <2>8
<1>8. ASSUME NEW h \in Index, HoldPartial(h) PROVE Goal
  <2>1. FrameAt(h) /\ Partial(h) /\ KeepFrom(h)
    BY <1>8 DEF HoldPartial
  <2>2. Consumed' = Consumed + h
    BY <1>8, HoldPartialRInv
  <2> DEFINE f == sent[k + 1].frame
  <2>3. /\ h = c /\ tty_buffer_pos > c + 1 /\ k + 1 \in 1 .. Len(sent)
        /\ f \in Frames /\ f[3] # 0
        /\ \A i \in 1 .. Len(f) : c + i <= tty_buffer_pos => tty_buffer[c + i - 1] = f[i]
    BY <2>1, HeadIsNext
  <2> HIDE DEF f
  <2>4. /\ Len(f) \in Nat /\ f[3] \in Nat /\ Len(f) = f[3] + 4
    BY <2>3, FrameFacts
  <2>5. tty_buffer_pos - c < Len(f)
    <3>1. CASE tty_buffer_pos - h \in {2, 3}
      BY <1>0, <2>3, <2>4, <3>1 DEF Counts
    <3>2. CASE tty_buffer_pos - h \notin {2, 3}
      <4>1. tty_buffer[h + 2] + 1 > tty_buffer_pos - (h + 3)
        BY <2>1, <3>2 DEF Partial, LengthAt, LeftBytes
      <4>2. c + 3 <= tty_buffer_pos /\ 3 \in 1 .. Len(f) /\ h + 2 = c + 3 - 1
        BY <1>0, <2>3, <2>4, <3>2 DEF Counts
      <4>3. tty_buffer[h + 2] = f[3]
        BY <2>3, <4>2
      <4>4. f[3] + 1 > tty_buffer_pos - (c + 3)
        BY <2>3, <4>1, <4>3
      <4> QED BY <1>0, <2>4, <4>4 DEF Counts
    <3> QED BY <3>1, <3>2
  <2>6. k < Len(sent)
    BY <1>n, <2>3
  <2> QED BY <1>k, <2>1, <2>2, <2>3, <2>5, <2>6 DEF f
<1>9. ASSUME NEW f \in Frames, DeviceSends(f) PROVE Goal
  <2>1. /\ Consumed' = Consumed /\ Len(sent') = Len(sent) + 1
        /\ \A j \in 1 .. Len(sent) : sent'[j] = sent[j]
        /\ \A j \in 1 .. Len(sent) + 1 : Start(j)' = Start(j)
    BY <1>9, DeviceSendsRInv
  <2>2. UNCHANGED <<tty_buffer_pos, p_start, rpc>>
    BY <1>9 DEF DeviceSends
  <2>3. k + 1 \in 1 .. Len(sent) + 1
    BY <1>n
  <2>4. Consumed' + c = Start(k + 1)'
    BY <2>1, <2>3 DEF AlignedAt
  <2>5. k < Len(sent) => k < Len(sent') /\ sent'[k + 1] = sent[k + 1]
    BY <1>n, <2>1
  <2>6. rpc' # "head" => \/ tty_buffer_pos' = c
                         \/ c = 0 /\ k < Len(sent') /\ tty_buffer_pos' < Len(sent'[k + 1].frame)
    BY <2>2, <2>5 DEF AlignedAt
  <2>7. rpc' = "head" => p_start' <= c
    BY <2>2 DEF AlignedAt
  <2>8. AlignedAt(k, c)'
    BY <2>4, <2>6, <2>7 DEF AlignedAt
  <2> QED BY <2>8 DEF Goal
<1>10. ASSUME NEW b \in {0, HeadOne}, LineNoise(b) PROVE Goal
  BY <1>10, LineNoiseRInv DEF Small
<1> QED BY <1>1, <1>2, <1>3, <1>4, <1>5, <1>6, <1>7, <1>8, <1>9, <1>10
       DEF Silent, SharedStep, Goal

(* Without large packets none is taken. *)
LEMMA NoLargePacket ==
  ASSUME RInv, Synced, NoLarge, NEW h, LargePacket(h)
  PROVE  FALSE
<1>0. Facts /\ Counts
  BY Reading
<1>1. Small
  BY LargePacketCarried DEF NoLarge, Small
<1>2. PICK k \in 0 .. Len(sent) : \E c \in {0, 1} : AlignedAt(k, c)
  BY <1>1 DEF Synced
<1>3. PICK c \in {0, 1} : AlignedAt(k, c)
  BY <1>2
<1>4. FrameAt(h) /\ ~Partial(h) /\ tty_buffer[h + 2] = 0
  BY DEF LargePacket, LengthAt
<1> DEFINE f == sent[k + 1].frame
<1>5. /\ h = c /\ tty_buffer_pos > c + 1 /\ f \in Frames /\ f[3] # 0
      /\ \A i \in 1 .. Len(f) : c + i <= tty_buffer_pos => tty_buffer[c + i - 1] = f[i]
  BY <1>1, <1>3, <1>4, HeadIsNext
<1> HIDE DEF f
<1>6. tty_buffer_pos - h \notin {2, 3}
  BY <1>4 DEF Partial
<1>7. Len(f) \in Nat /\ Len(f) >= 3
  BY <1>5, FrameFacts
<1>8. c + 3 <= tty_buffer_pos /\ 3 \in 1 .. Len(f) /\ c + 3 - 1 = h + 2
  BY <1>0, <1>5, <1>6, <1>7 DEF Counts
<1> QED BY <1>4, <1>5, <1>8

(* What TakeFrame cuts out is the frame that begins there, but for the      *)
(* checksum.                                                                *)
LEMMA FrameTaken ==
  ASSUME RInv, NEW h, TakeFrame(h), NEW j \in 1 .. Len(sent), sent[j].at = Consumed + h
  PROVE  /\ CommandAt(h) = CommandOf(sent[j].frame)
         /\ Consumed' + 1 = sent[j].at + Len(sent[j].frame)
<1>0. Facts /\ Counts
  BY Reading
<1> DEFINE f == sent[j].frame
           L == LengthAt(h)
<1>1. /\ Consumed' = Consumed + h + 3 + L /\ h \in Nat /\ L \in Nat /\ L # 0
      /\ h + 4 + L <= tty_buffer_pos
      /\ CommandAt(h) \in Seq(Nat) /\ Len(CommandAt(h)) = L + 2
  BY TakeFrameRInv DEF TakeFrame
<1>2. /\ f \in Frames
      /\ \A i \in 1 .. Len(f) : h + i <= tty_buffer_pos => tty_buffer[h + i - 1] = f[i]
  BY <1>1, BufferIsFrame
<1>3. /\ f \in Seq(Byte) /\ Len(f) \in Nat /\ Len(f) >= 3 /\ f[3] \in Nat
      /\ f[3] # 0 => Len(f) = f[3] + 4
  BY <1>2, FrameFacts
<1> HIDE DEF f, L
<1>4. L = f[3]
  <2>1. 3 \in 1 .. Len(f) /\ h + 3 <= tty_buffer_pos /\ h + 2 = h + 3 - 1
    BY <1>0, <1>1, <1>3 DEF Counts
  <2> QED BY <1>2, <2>1 DEF L, LengthAt
<1>5. Len(f) = L + 4
  BY <1>1, <1>3, <1>4
<1>6. CommandAt(h) = CommandOf(f)
  <2> DEFINE c == CommandAt(h)
             d == SubSeq(f, 3, Len(f))
  <2>1. c = [i \in 1 .. L + 2 |-> tty_buffer[h + 1 + i]]
    BY DEF CommandAt, L
  <2>2. \A i \in 3 .. Len(f) : f[i] \in Nat
    <3> SUFFICES ASSUME NEW i \in 3 .. Len(f) PROVE f[i] \in Nat
      OBVIOUS
    <3>1. i \in 1 .. Len(f)
      BY <1>3
    <3>2. f[i] \in Byte
      BY <1>3, <3>1, ElementOfSeq
    <3> QED BY <3>2, Sizes
  <2>3. /\ d \in Seq(Nat) /\ Len(d) = IF 3 <= Len(f) THEN Len(f) - 3 + 1 ELSE 0
        /\ \A i \in 1 .. Len(f) - 3 + 1 : d[i] = f[3 + i - 1]
    BY <1>3, <2>2, SubSeqProperties
  <2> HIDE DEF c, d
  <2>4. ASSUME NEW i \in 1 .. L + 2 PROVE c[i] = d[i]
    <3>1. /\ i \in 1 .. Len(f) - 3 + 1 /\ i + 2 \in 1 .. Len(f) /\ h + (i + 2) <= tty_buffer_pos
          /\ 3 + i - 1 = i + 2 /\ h + 1 + i = h + (i + 2) - 1
      BY <1>0, <1>1, <1>5 DEF Counts
    <3>2. tty_buffer[h + (i + 2) - 1] = f[i + 2]
      BY <1>2, <3>1
    <3> QED BY <2>1, <2>3, <3>1, <3>2
  <2>5. Len(d) = L + 2
    BY <1>1, <1>5, <2>3
  <2>6. c \in Seq(Nat) /\ Len(c) = L + 2
    BY <1>1 DEF c
  <2>7. c = d
    BY <2>3, <2>4, <2>5, <2>6, SeqEqual
  <2> QED BY <2>7 DEF c, d, CommandOf
<1>7. Consumed' + 1 = sent[j].at + Len(f)
  <2>1. /\ Consumed' = Consumed + h + 3 + L /\ h \in Nat /\ L \in Nat /\ Consumed \in Int
        /\ sent[j].at = Consumed + h
    BY <1>0, <1>1 DEF Counts
  <2> QED BY <1>5, <2>1
<1> QED BY <1>6, <1>7 DEF f

LEMMA TakeFrameAligned ==
  ASSUME RInv, Small, NEW h, TakeFrame(h), NEW k \in 0 .. Len(sent), NEW c \in {0, 1},
         AlignedAt(k, c)
  PROVE  /\ AlignedAt(k + 1, 1)' /\ k + 1 \in 0 .. Len(sent) /\ sent' = sent
         /\ CommandAt(h) = CommandOf(sent[k + 1].frame)
<1>0. Facts /\ Counts
  BY Reading
<1>n. Len(sent) \in Nat
  BY <1>0 DEF Facts
<1>1. FrameAt(h) /\ CutFrame(h)
  BY DEF TakeFrame
<1>2. /\ h = c /\ rpc = "head" /\ k + 1 \in 1 .. Len(sent) /\ sent[k + 1].at = Consumed + c
  BY <1>1, HeadIsNext
<1>3. Start(k + 1) = sent[k + 1].at
  BY <1>n, <1>2 DEF Start, StartIn
<1>4. /\ CommandAt(h) = CommandOf(sent[k + 1].frame)
      /\ Consumed' + 1 = sent[k + 1].at + Len(sent[k + 1].frame)
  BY <1>2, FrameTaken
<1>5. sent' = sent /\ carried' = carried /\ p_start' = p_start
  BY <1>1 DEF CutFrame, line
<1>6. Consumed' + 1 = Start((k + 1) + 1)'
  <2>1. Start((k + 1) + 1) = Start(k + 1) + Len(sent[k + 1].frame)
    BY <1>2 DEF RInv, SentInLine, Small
  <2> QED BY <1>3, <1>4, <1>5, <2>1 DEF Start
<1>7. p_start' <= 1
  <2>1. p_start <= c
    BY <1>2 DEF AlignedAt
  <2> QED BY <1>0, <1>5, <2>1 DEF Facts
<1>8. rpc' = "head"
  BY TakeFrameRInv
<1>9. AlignedAt(k + 1, 1)'
  BY <1>6, <1>7, <1>8 DEF AlignedAt
<1>10. k + 1 \in 0 .. Len(sent)
  BY <1>n, <1>2
<1> QED BY <1>4, <1>5, <1>9, <1>10

(* One more frame is accounted for, reported or not. *)
LEMMA AccountsNext ==
  ASSUME NEW k \in Nat, NEW s, NEW g \in Seq(Seq(Nat)), NEW pick, Accounts(pick, g, s, k),
         NEW c \in Seq(Nat), c = CommandOf(s[k + 1].frame), NEW e,
         \/ \E t \in ReportedTypes(c) : e = Append(g, <<t>> \o c)
         \/ ReportedTypes(c) = {} /\ e = g
  PROVE  \E p : Accounts(p, e, s, k + 1)
<1>0. Len(g) \in Nat
  BY LenProperties
<1>1. /\ pick \in [1 .. Len(g) -> 1 .. k] /\ InOrder(pick)
      /\ \A i \in 1 .. Len(g) : Reports(g[i], s[pick[i]].frame)
      /\ \A j \in 1 .. k : Reported(s[j].frame) => \E i \in 1 .. Len(g) : pick[i] = j
  BY DEF Accounts
<1>3. ASSUME NEW t \in ReportedTypes(c), e = Append(g, <<t>> \o c)
      PROVE  \E p : Accounts(p, e, s, k + 1)
  <2> DEFINE r == <<t>> \o c
             p == OneMore(pick, Len(g), k + 1)
  <2>r. r \in Seq(Nat) /\ Reports(r, s[k + 1].frame)
    <3>1. t \in Nat
      BY TypesAreNat
    <3>2. r \in Seq(Nat) /\ Head(r) = t /\ Tail(r) = c
      BY <3>1, Notification
    <3> HIDE DEF r
    <3> QED BY <3>2 DEF Reports
  <2>e. e = Append(g, r)
    BY <1>3
  <2> HIDE DEF r
  <2>1. /\ Len(e) = Len(g) + 1 /\ e[Len(g) + 1] = r
        /\ \A i \in 1 .. Len(g) : e[i] = g[i]
    BY <2>e, <2>r, AppendProperties
  <2>2. /\ p \in [1 .. Len(e) -> 1 .. k + 1] /\ InOrder(p)
        /\ p[Len(g) + 1] = k + 1 /\ \A i \in 1 .. Len(g) : p[i] = pick[i]
        /\ \A i \in 1 .. Len(e) : i = Len(g) + 1 \/ i \in 1 .. Len(g)
    <3>1. /\ p \in [1 .. Len(g) + 1 -> 1 .. k + 1] /\ InOrder(p)
          /\ p[Len(g) + 1] = k + 1 /\ \A i \in 1 .. Len(g) : p[i] = pick[i]
          /\ \A i \in 1 .. Len(g) + 1 : i = Len(g) + 1 \/ i \in 1 .. Len(g)
      <4> DEFINE n == Len(g)
      <4>1. n \in Nat /\ pick \in [1 .. n -> 1 .. k] /\ InOrder(pick)
        BY <1>0, <1>1
      <4> HIDE DEF n
      <4>2. /\ OneMore(pick, n, k + 1) \in [1 .. n + 1 -> 1 .. k + 1]
            /\ InOrder(OneMore(pick, n, k + 1))
            /\ OneMore(pick, n, k + 1)[n + 1] = k + 1
            /\ \A i \in 1 .. n : OneMore(pick, n, k + 1)[i] = pick[i]
            /\ \A i \in 1 .. n + 1 : i = n + 1 \/ i \in 1 .. n
        BY <4>1, ExtendPickNext
      <4> QED BY <4>2 DEF n
    <3> HIDE DEF p
    <3> QED BY <2>1, <3>1
  <2> HIDE DEF p
  <2>3. ASSUME NEW i \in 1 .. Len(e)
        PROVE  Reports(e[i], s[p[i]].frame)
    <3>1. CASE i = Len(g) + 1
      BY <2>1, <2>2, <2>r, <3>1
    <3>2. CASE i \in 1 .. Len(g)
      BY <1>1, <2>1, <2>2, <3>2
    <3> QED BY <2>2, <3>1, <3>2
  <2>4. ASSUME NEW j \in 1 .. k + 1, Reported(s[j].frame)
        PROVE  \E i \in 1 .. Len(e) : p[i] = j
    <3>1. CASE j = k + 1
      <4>1. Len(g) + 1 \in 1 .. Len(e)
        BY <1>0, <2>1
      <4> QED BY <2>2, <3>1, <4>1
    <3>2. CASE j \in 1 .. k
      <4>1. PICK i \in 1 .. Len(g) : pick[i] = j
        BY <1>1, <2>4, <3>2
      <4>2. i \in 1 .. Len(e) /\ p[i] = j
        BY <1>0, <2>1, <2>2, <4>1
      <4> QED BY <4>2
    <3> QED BY <3>1, <3>2
  <2>5. Accounts(p, e, s, k + 1)
    BY <2>2, <2>3, <2>4 DEF Accounts
  <2> QED BY <2>5
<1>4. CASE ReportedTypes(c) = {} /\ e = g
  <2>1. ~Reported(s[k + 1].frame)
    BY <1>4 DEF Reported
  <2>2. pick \in [1 .. Len(g) -> 1 .. k + 1]
    <3>1. 1 .. k \subseteq 1 .. k + 1
      OBVIOUS
    <3> QED BY <1>1, <3>1
  <2>3. ASSUME NEW j \in 1 .. k + 1, Reported(s[j].frame)
        PROVE  \E i \in 1 .. Len(g) : pick[i] = j
    <3>1. j \in 1 .. k
      BY <2>1, <2>3
    <3> QED BY <1>1, <2>3, <3>1
  <2>4. Accounts(pick, e, s, k + 1)
    BY <1>1, <1>4, <2>2, <2>3 DEF Accounts
  <2> QED BY <2>4
<1> QED BY <1>3, <1>4

LEMMA AccountsMore ==
  ASSUME NEW k \in Nat, NEW s, NEW t, NEW g, NEW pick, Accounts(pick, g, s, k),
         \A j \in 1 .. k : t[j] = s[j]
  PROVE  Accounts(pick, g, t, k)
<1>1. \A i \in 1 .. Len(g) : pick[i] \in 1 .. k
  BY DEF Accounts
<1> QED BY <1>1 DEF Accounts

LEMMA StepSynced ==
  ASSUME RInv, LInv, Synced, NoLarge', [Next]_vars
  PROVE  RInv' /\ Synced' /\ ~\E h \in Index : LargePacket(h)
<1>l. NoLarge /\ (Small' => Small)
  BY NoLargeBefore
<1>0. Len(sent) \in Nat
  BY Reading DEF Facts
<1>n. ~\E h \in Index : LargePacket(h)
  BY <1>l, NoLargePacket
<1> DEFINE Ahead(k) == (\E c \in {0, 1} : AlignedAt(k, c)') /\ \E pick : Accounts(pick, got', sent', k)
<1>1. CASE Silent
  <2>1. RInv' /\ got' = got
    BY <1>1, SilentRInv
  <2>2. ASSUME Small' PROVE \E k \in 0 .. Len(sent') : Ahead(k)
    <3>0. Small
      BY <1>l, <2>2
    <3>1. PICK k \in 0 .. Len(sent) :
             (\E c \in {0, 1} : AlignedAt(k, c)) /\ \E pick : Accounts(pick, got, sent, k)
      BY <3>0 DEF Synced
    <3>2. PICK c \in {0, 1} : AlignedAt(k, c)
      BY <3>1
    <3>3. \E d \in {0, 1} : AlignedAt(k, d)'
      BY <1>1, <2>2, <3>0, <3>2, SilentAligned
    <3>4. /\ Len(sent) \in Nat /\ Len(sent') \in Nat /\ Len(sent) <= Len(sent')
          /\ \A j \in 1 .. Len(sent) : sent'[j] = sent[j]
      BY <1>1, SilentSent
    <3>5. k \in Nat /\ k \in 0 .. Len(sent') /\ \A j \in 1 .. k : sent'[j] = sent[j]
      BY <3>4
    <3>6. PICK pick : Accounts(pick, got, sent, k)
      BY <3>1
    <3>7. Accounts(pick, got, sent', k)
      BY <3>5, <3>6, AccountsMore
    <3> QED BY <2>1, <3>3, <3>5, <3>7
  <2> QED BY <1>n, <2>1, <2>2 DEF Synced
<1>2. ASSUME NEW h \in Index, TakeFrame(h)
      PROVE  RInv' /\ Synced'
  <2>1. RInv'
    BY <1>2, TakeFrameRInv
  <2>2. ASSUME Small' PROVE \E k \in 0 .. Len(sent') : Ahead(k)
    <3>0. Small
      BY <1>l, <2>2
    <3>1. PICK k \in 0 .. Len(sent) :
             (\E c \in {0, 1} : AlignedAt(k, c)) /\ \E pick : Accounts(pick, got, sent, k)
      BY <3>0 DEF Synced
    <3>2. PICK c \in {0, 1} : AlignedAt(k, c)
      BY <3>1
    <3>3. /\ AlignedAt(k + 1, 1)' /\ k + 1 \in 0 .. Len(sent) /\ sent' = sent
          /\ CommandAt(h) = CommandOf(sent[k + 1].frame)
      BY <1>2, <3>0, <3>2, TakeFrameAligned
    <3>4. /\ CommandAt(h) \in Seq(Nat) /\ got \in Seq(Seq(Nat))
          /\ \/ \E t \in ReportedTypes(CommandAt(h)) : got' = Append(got, <<t>> \o CommandAt(h))
             \/ ReportedTypes(CommandAt(h)) = {} /\ got' = got
      BY <1>2, TakeFrameRInv
    <3>5. PICK pick : Accounts(pick, got, sent, k)
      BY <3>1
    <3>6. k \in Nat
      BY <1>0
    <3>7. \E p : Accounts(p, got', sent, k + 1)
      BY <3>3, <3>4, <3>5, <3>6, AccountsNext
    <3> QED BY <3>3, <3>7
  <2> QED BY <2>1, <2>2 DEF Synced
<1> QED BY <1>1, <1>2, <1>n, Steps

LEMMA InitSynced == Init => Synced
<1> SUFFICES ASSUME Init
             PROVE  \E k \in 0 .. Len(sent) :
                       /\ \E c \in {0, 1} : AlignedAt(k, c)
                       /\ \E pick : Accounts(pick, got, sent, k)
  BY DEF Synced
<1>1. sent = <<>> /\ carried = <<>> /\ rx = <<>> /\ tty_buffer_pos = 0 /\ rpc = "select"
      /\ queue = <<>> /\ delivered = <<>>
  BY DEF Init, Q!QInit
<1>2. got = <<>> /\ Len(got) = 0
  BY <1>1 DEF got
<1>3. AlignedAt(0, 0)
  <2>1. Consumed = 0 /\ Start(0 + 1) = 0
    BY <1>1 DEF Consumed, Start, StartIn
  <2> QED BY <1>1, <2>1 DEF AlignedAt
<1>4. Accounts([i \in 1 .. 0 |-> 1], got, sent, 0)
  BY <1>2 DEF Accounts, InOrder
<1>5. 0 \in 0 .. Len(sent)
  BY <1>1
<1> QED BY <1>3, <1>4, <1>5

(* The invariant: the rest depends on there being no large packet, what the *)
(* line carried does not.                                                   *)
JInv == LInv /\ (NoLarge => RInv /\ Synced)

LEMMA InitJInv == Init => JInv
<1>1. Init => LInv
  BY DEF Init, LInv
<1> QED BY <1>1, InitRInv, InitSynced DEF JInv

LEMMA StepJInv ==
  ASSUME JInv, [Next]_vars
  PROVE  JInv'
<1>1. LInv'
  BY LineOnlyGrows DEF JInv
<1>2. NoLarge' => NoLarge
  BY NoLargeBefore DEF JInv
<1>3. ASSUME NoLarge' PROVE RInv' /\ Synced'
  BY <1>2, <1>3, StepSynced DEF JInv
<1> QED BY <1>1, <1>3 DEF JInv

LEMMA AlwaysJInv == Spec => []JInv
<1>1. JInv /\ [Next]_vars => JInv'
  BY StepJInv
<1> QED BY InitJInv, <1>1, PTL DEF Spec

(* Without large packets every variable of the read thread stays within its *)
(* type.                                                                    *)
THEOREM TypeCorrect == Spec => [](NoLarge => TypeOK)
BY AlwaysJInv, PTL DEF JInv, RInv

(* As long as nothing was sent that could be taken for a large packet, what *)
(* libipod reads fits tty_buffer with its slack, and between reads no more  *)
(* than one frame is held, although every frame leaves its checksum.        *)
THEOREM BufferBounded == Spec => []BoundedBuffer
BY AlwaysJInv, PTL DEF JInv, RInv, BoundedBuffer

(* Once every byte has been read, all frames are done with. *)
LEMMA SyncedNoneMissed ==
  ASSUME JInv
  PROVE  NoneMissed
<1> SUFFICES ASSUME Small
             PROVE  \E pick \in Picks :
                       rx = <<>> /\ rpc = "select" =>
                          /\ tty_buffer_pos <= 1
                          /\ \A j \in 1 .. Len(sent) : Reported(sent[j].frame) =>
                                \E i \in 1 .. Len(got) : pick[i] = j
  BY DEF NoneMissed, Small
<1>a. RInv /\ Synced
  BY DEF JInv, NoLarge, Small
<1>0. Facts /\ Counts
  BY <1>a, Reading
<1>n. Len(sent) \in Nat
  BY <1>0 DEF Facts
<1>1. PICK k \in 0 .. Len(sent) :
         (\E c \in {0, 1} : AlignedAt(k, c)) /\ \E pick : Accounts(pick, got, sent, k)
  BY <1>a DEF Synced
<1>c. PICK c \in {0, 1} : AlignedAt(k, c)
  BY <1>1
<1>2. PICK pick : Accounts(pick, got, sent, k)
  BY <1>1
<1>3. pick \in Picks
  <2>1. pick \in [1 .. Len(got) -> 1 .. Len(sent)]
    <3>1. pick \in [1 .. Len(got) -> 1 .. k] /\ 1 .. k \subseteq 1 .. Len(sent)
      BY <1>n, <1>2 DEF Accounts
    <3> QED BY <3>1
  <2> QED BY <1>2, <2>1 DEF Picks, Accounts
<1>4. ASSUME rx = <<>>, rpc = "select"
      PROVE  tty_buffer_pos <= 1 /\ k = Len(sent)
  <2>1. Consumed + tty_buffer_pos = Len(carried)
    BY <1>0, <1>4 DEF Counts
  <2>2. ASSUME k < Len(sent) PROVE FALSE
    <3> DEFINE f == sent[k + 1].frame
               a == sent[k + 1].at
    <3>1. k + 1 \in 1 .. Len(sent)
      BY <1>n, <2>2
    <3>2. LiesIn(sent[k + 1], carried)
      BY <1>a, <3>1 DEF RInv, SentInLine
    <3>3. f \in Frames /\ a + Len(f) <= Len(carried) /\ a \in Nat
      BY <3>2 DEF LiesIn
    <3>4. Consumed + c = a
      BY <1>n, <1>c, <2>2, <3>1 DEF AlignedAt, Start, StartIn
    <3>5. tty_buffer_pos = c \/ (c = 0 /\ tty_buffer_pos < Len(f))
      BY <1>c, <1>4 DEF AlignedAt
    <3> HIDE DEF f, a
    <3>6. Len(f) \in Nat /\ Len(f) >= 3
      BY <3>3, FrameFacts
    <3>7. Consumed \in Int /\ tty_buffer_pos \in Nat /\ Len(carried) \in Nat /\ c \in {0, 1}
      BY <1>0 DEF Counts
    <3> QED BY <2>1, <3>3, <3>4, <3>5, <3>6, <3>7
  <2>3. k = Len(sent)
    BY <1>n, <2>2
  <2>4. tty_buffer_pos = c
    BY <1>c, <1>4, <1>n, <2>3 DEF AlignedAt
  <2> QED BY <2>3, <2>4
<1>5. rx = <<>> /\ rpc = "select" =>
        \A j \in 1 .. Len(sent) : Reported(sent[j].frame) =>
           \E i \in 1 .. Len(got) : pick[i] = j
  BY <1>2, <1>4 DEF Accounts
<1> QED BY <1>3, <1>4, <1>5

(* Without stray bytes and large packets libipod reports every frame that   *)
(* is to be reported, once and in the order they were sent, wherever read   *)
(* cuts the stream, whatever their data and the checksums left in front of  *)
(* the next frame look like.                                                *)
THEOREM NoneIsMissed == Spec => []NoneMissed
BY AlwaysJInv, SyncedNoneMissed, PTL
-----------------------------------------------------------------------------
(* the step that NothingMadeUp allows *)
Genuine ==
    NoLarge' =>
       /\ Consumed' >= Consumed
       /\ Len(got') > Len(got) =>
            LET n == Tail(got'[Len(got')])
            IN  /\ n[1] = Len(n) - 2
                /\ \E o \in Consumed .. Consumed' :
                      /\ o + 1 + Len(n) = Consumed'
                      /\ SubSeq(carried, o + 1, Consumed' + 1) = <<HeadOne, HeadTwo>> \o n

(* Two HEAD bytes and the command are what the line carried there, and the  *)
(* last byte of the command is still in the buffer afterwards.              *)
LEMMA Stretch ==
  ASSUME RInv, NEW h, TakeFrame(h)
  PROVE  SubSeq(carried, Consumed + h + 1, Consumed' + 1)
           = <<HeadOne, HeadTwo>> \o CommandAt(h)
<1>0. Facts /\ Counts
  BY Reading
<1>1. /\ Consumed' = Consumed + h + 3 + LengthAt(h)
      /\ h \in Nat /\ LengthAt(h) \in Nat
      /\ h + 4 + LengthAt(h) <= tty_buffer_pos
      /\ CommandAt(h) \in Seq(Nat) /\ Len(CommandAt(h)) = LengthAt(h) + 2
  BY TakeFrameRInv
<1>2. tty_buffer[h] = HeadOne /\ tty_buffer[h + 1] = HeadTwo
  BY HeadInside DEF TakeFrame, FrameAt
<1> DEFINE L == LengthAt(h)
           m == Consumed + h + 1
           e == Consumed' + 1
           s == SubSeq(carried, m, e)
           c == CommandAt(h)
           t == <<HeadOne, HeadTwo>> \o c
<1>3. c = [k \in 1 .. L + 2 |-> tty_buffer[h + 1 + k]]
  BY DEF CommandAt
<1>4. HeadOne \in Nat /\ HeadTwo \in Nat
  BY Sizes
<1> HIDE DEF L, c
<1>5. /\ m = Consumed + h + 1 /\ e = Consumed + h + 4 + L /\ L \in Nat
      /\ h + 4 + L <= tty_buffer_pos /\ h \in Nat /\ c \in Seq(Nat) /\ Len(c) = L + 2
  <2>1. Consumed' = Consumed + h + 3 + L /\ L \in Nat /\ h \in Nat /\ Consumed \in Int
    BY <1>0, <1>1 DEF L, Counts
  <2>2. e = Consumed + h + 4 + L
    BY <2>1
  <2> QED BY <1>1, <2>2 DEF L, c
<1> HIDE DEF e
<1>6. m \in Int /\ e \in Int /\ e - m + 1 = L + 4 /\ m <= e
  BY <1>0, <1>5 DEF Counts
<1>7. ASSUME NEW i \in 1 .. L + 4
      PROVE  carried[m + i - 1] = tty_buffer[h + i - 1] /\ carried[m + i - 1] \in Nat
  <2>1. /\ h + i - 1 \in 0 .. tty_buffer_pos - 1
        /\ Consumed + (h + i - 1) + 1 = m + i - 1
        /\ m + i - 1 \in 1 .. Len(carried)
    BY <1>0, <1>5 DEF Counts
  <2>2. tty_buffer[h + i - 1] = carried[Consumed + (h + i - 1) + 1]
    BY <2>1 DEF RInv, InLine, Buffered
  <2>3. carried[m + i - 1] \in Byte
    BY <1>0, <2>1, ElementOfSeq DEF Facts
  <2> QED BY <2>1, <2>2, <2>3, Sizes
<1>8. \A j \in m .. e : carried[j] \in Nat
  <2> SUFFICES ASSUME NEW j \in m .. e PROVE carried[j] \in Nat
    OBVIOUS
  <2>1. j - m + 1 \in 1 .. L + 4 /\ m + (j - m + 1) - 1 = j
    <3>1. m \in Int /\ L \in Int /\ e = m + L + 3
      BY <1>5, <1>6, SMTT(30)
    <3> HIDE DEF m, e
    <3> QED BY <3>1
  <2>2. carried[m + (j - m + 1) - 1] \in Nat
    BY <1>7, <2>1
  <2> QED BY <2>1, <2>2
<1> HIDE DEF m
<1>9. /\ s \in Seq(Nat) /\ Len(s) = L + 4
      /\ \A i \in 1 .. L + 4 : s[i] = carried[m + i - 1]
  <2>1. /\ s \in Seq(Nat)
        /\ Len(s) = IF m <= e THEN e - m + 1 ELSE 0
        /\ \A i \in 1 .. e - m + 1 : s[i] = carried[m + i - 1]
    BY <1>6, <1>8, SubSeqProperties
  <2> QED BY <1>6, <2>1
<1>10. /\ t \in Seq(Nat) /\ Len(t) = L + 4
       /\ t[1] = HeadOne /\ t[2] = HeadTwo
       /\ \A i \in 3 .. L + 4 : t[i] = c[i - 2]
  BY <1>4, <1>5
<1>11. ASSUME NEW i \in 1 .. L + 4 PROVE s[i] = t[i]
  <2>1. s[i] = tty_buffer[h + i - 1]
    BY <1>7, <1>9
  <2>2. CASE i \in {1, 2}
    <3>1. (i = 1 => h + i - 1 = h) /\ (i = 2 => h + i - 1 = h + 1)
      BY <1>5
    <3> QED BY <1>2, <1>10, <2>1, <2>2, <3>1
  <2>3. CASE i \in 3 .. L + 4
    <3>1. i - 2 \in 1 .. L + 2 /\ h + 1 + (i - 2) = h + i - 1
      BY <1>5, <2>3
    <3>2. t[i] = tty_buffer[h + 1 + (i - 2)]
      BY <1>3, <1>10, <2>3, <3>1
    <3> QED BY <2>1, <3>1, <3>2
  <2>4. i \in {1, 2} \/ i \in 3 .. L + 4
    BY <1>5
  <2> QED BY <2>2, <2>3, <2>4
<1> HIDE DEF s, t
<1>12. s = t
  BY <1>9, <1>10, <1>11, SeqEqual
<1> QED BY <1>12 DEF s, t, m, e, c

LEMMA TakeFrameGenuine ==
  ASSUME RInv, NEW h, TakeFrame(h)
  PROVE  Genuine
<1>0. Facts /\ Counts
  BY Reading
<1> DEFINE c == CommandAt(h)
           L == LengthAt(h)
           o == Consumed + h
<1>1. /\ Consumed' = Consumed + h + 3 + L
      /\ h \in Nat /\ L \in Nat /\ h + 4 + L <= tty_buffer_pos
      /\ c \in Seq(Nat) /\ Len(c) = L + 2 /\ got \in Seq(Seq(Nat))
      /\ \/ \E t \in ReportedTypes(c) : got' = Append(got, <<t>> \o c)
         \/ ReportedTypes(c) = {} /\ got' = got
  BY TakeFrameRInv
<1>2. SubSeq(carried, o + 1, Consumed' + 1) = <<HeadOne, HeadTwo>> \o c
  BY Stretch
<1>3. c[1] = L
  <2>1. 1 \in 1 .. L + 2
    BY <1>1
  <2>2. c[1] = tty_buffer[h + 1 + 1] /\ h + 1 + 1 = h + 2
    BY <1>1, <2>1 DEF CommandAt
  <2> QED BY <2>2 DEF LengthAt
<1> HIDE DEF c, L
<1>4. /\ o \in Consumed .. Consumed' /\ o + 1 + Len(c) = Consumed' /\ Consumed' >= Consumed
      /\ c[1] = Len(c) - 2
  <2>1. /\ Consumed' = Consumed + h + 3 + L /\ h \in Nat /\ L \in Nat /\ Consumed \in Int
        /\ Len(c) = L + 2 /\ c[1] = L
    BY <1>0, <1>1, <1>3 DEF Counts
  <2> QED BY <2>1
<1>5. ASSUME NEW t \in ReportedTypes(c), got' = Append(got, <<t>> \o c)
      PROVE  Genuine
  <2> DEFINE r == <<t>> \o c
  <2>1. r \in Seq(Nat) /\ Tail(r) = c
    BY <1>1, TypesAreNat, Notification
  <2>2. got' = Append(got, r)
    BY <1>5
  <2> HIDE DEF r, o
  <2>3. Tail(got'[Len(got')]) = c
    <3>1. Len(got') = Len(got) + 1 /\ got'[Len(got) + 1] = r
      BY <1>1, <2>1, <2>2, AppendProperties, LenProperties
    <3> QED BY <2>1, <3>1
  <2> QED BY <1>2, <1>4, <2>3 DEF Genuine
<1>6. CASE got' = got
  <2>1. Len(got) \in Nat
    BY <1>1, LenProperties
  <2>2. ~(Len(got') > Len(got))
    BY <1>6, <2>1
  <2> QED BY <1>4, <2>2 DEF Genuine
<1> QED BY <1>1, <1>5, <1>6

(* Whatever the line carries short of a large packet, libipod never makes a *)
(* notification up: each one it pushes is a stretch of the line behind two  *)
(* HEAD bytes, behind all that was consumed before.                         *)
THEOREM MadeOfTheLine == Spec => NothingMadeUp
<1>1. JInv /\ [Next]_vars => [Genuine]_vars
  <2> SUFFICES ASSUME JInv, [Next]_vars, NoLarge' PROVE Genuine
    BY DEF Genuine
  <2>0. RInv /\ Synced /\ LInv
    BY NoLargeBefore DEF JInv
  <2>1. CASE Silent
    <3>1. Consumed' >= Consumed /\ got' = got
      BY <2>0, <2>1, SilentRInv
    <3>2. got \in Seq(Seq(Nat))
      BY <2>0, ConcatProperties DEF RInv, TypeOK, got
    <3>3. ~(Len(got') > Len(got))
      BY <3>1, <3>2, LenProperties
    <3> QED BY <3>1, <3>3 DEF Genuine
  <2>2. CASE \E h \in Index : TakeFrame(h)
    BY <2>0, <2>2, TakeFrameGenuine
  <2>3. ~\E h \in Index : LargePacket(h)
    BY <2>0, StepSynced
  <2> QED BY <2>1, <2>2, <2>3, Steps
<1> QED BY AlwaysJInv, <1>1, PTL DEF Spec, NothingMadeUp, Genuine
-----------------------------------------------------------------------------
(* With stray bytes frames may be lost, but as long as the HEAD bytes stand *)
(* together only where a frame begins, nothing else is taken for a frame.   *)

LEMMA FramesHeaded == Headed
BY FrameAssumption, FrameFacts DEF Headed

(* Every notification is that of a frame that begins before what is in the  *)
(* buffer, in order.                                                        *)
Traced ==
    \E pick \in Picks : \A i \in 1 .. Len(got) : sent[pick[i]].at < Consumed

(* what holds as long as there is no large packet *)
Orderly == RInv /\ SentOrder /\ (HeadsApart => Traced)

LEMMA InitTraced == Init => Traced
<1> SUFFICES ASSUME Init PROVE Traced
  OBVIOUS
<1>1. queue = <<>> /\ delivered = <<>> /\ sent = <<>>
  BY DEF Init, Q!QInit
<1>2. got = <<>> /\ Len(got) = 0 /\ Len(sent) = 0
  BY <1>1 DEF got
<1>3. [i \in 1 .. 0 |-> 1] \in Picks
  BY <1>2 DEF Picks, InOrder
<1> QED BY <1>2, <1>3 DEF Traced

LEMMA InitOrder == Init => SentOrder
BY DEF Init, SentOrder

LEMMA SilentOrder ==
  ASSUME RInv, SentOrder, Silent
  PROVE  SentOrder' /\ (HeadsApart' => HeadsApart)
<1>1. CASE SharedStep
  BY <1>1, FramesHeaded, SharedOrder
<1>2. CASE \E h \in Index : HoldPartial(h)
  <2>1. sent' = sent /\ carried' = carried
    BY <1>2 DEF HoldPartial, KeepFrom, line
  <2> QED BY <2>1 DEF SentOrder, HeadsApart
<1> QED BY <1>1, <1>2 DEF Silent

LEMMA SilentOrderly ==
  ASSUME Orderly, Silent
  PROVE  Orderly'
<1>a. RInv /\ SentOrder /\ (HeadsApart => Traced)
  BY DEF Orderly
<1>0. Facts /\ Counts
  BY <1>a, Reading
<1>1. RInv' /\ Consumed' >= Consumed /\ got' = got
  BY <1>a, SilentRInv
<1>2. Consumed' \in Int
  <2>1. rx' \in Seq(Byte) /\ carried' \in Seq(Byte) /\ tty_buffer_pos' \in Nat
    BY <1>1 DEF RInv, TypeOK
  <2>2. Len(rx') \in Nat /\ Len(carried') \in Nat
    BY <2>1, LenProperties
  <2> QED BY <2>1, <2>2 DEF Consumed
<1>3. SentOrder' /\ (HeadsApart' => HeadsApart)
  BY <1>a, SilentOrder
<1>4. /\ Len(sent) \in Nat /\ Len(sent') \in Nat /\ Len(sent) <= Len(sent')
      /\ \A j \in 1 .. Len(sent) : sent'[j] = sent[j]
  BY <1>a, SilentSent
<1> SUFFICES ASSUME HeadsApart' PROVE Traced'
  BY <1>1, <1>3 DEF Orderly
<1>5. PICK pick \in Picks : \A i \in 1 .. Len(got) : sent[pick[i]].at < Consumed
  BY <1>a, <1>3 DEF Traced
<1>6. /\ pick \in [1 .. Len(got) -> 1 .. Len(sent)] /\ InOrder(pick)
      /\ \A i \in 1 .. Len(got) : Reports(got[i], sent[pick[i]].frame)
  BY <1>5 DEF Picks
<1>7. ASSUME NEW i \in 1 .. Len(got)
      PROVE  /\ sent'[pick[i]] = sent[pick[i]] /\ sent[pick[i]].at < Consumed'
             /\ pick[i] \in 1 .. Len(sent')
  <2>1. pick[i] \in 1 .. Len(sent)
    BY <1>6
  <2>2. sent[pick[i]].at \in Nat
    BY <1>a, <2>1 DEF RInv, SentInLine, LiesIn
  <2>3. sent[pick[i]].at < Consumed
    BY <1>5
  <2>4. sent[pick[i]].at < Consumed'
    BY <1>0, <1>1, <1>2, <2>2, <2>3 DEF Counts
  <2> QED BY <1>4, <2>1, <2>4
<1>8. pick \in [1 .. Len(got) -> 1 .. Len(sent')]
  BY <1>6, <1>7
<1>9. pick \in Picks'
  BY <1>1, <1>6, <1>7, <1>8 DEF Picks
<1> QED BY <1>1, <1>7, <1>9 DEF Traced

LEMMA TakeFrameOrderly ==
  ASSUME Orderly, NEW h, TakeFrame(h)
  PROVE  Orderly'
<1>a. RInv /\ SentOrder /\ (HeadsApart => Traced)
  BY DEF Orderly
<1>0. Facts /\ Counts
  BY <1>a, Reading
<1>n. Len(sent) \in Nat
  BY <1>0 DEF Facts
<1>1. sent' = sent /\ carried' = carried
  BY DEF TakeFrame, CutFrame, line
<1>2. SentOrder' /\ (HeadsApart' => HeadsApart)
  BY <1>a, <1>1 DEF SentOrder, HeadsApart
<1> DEFINE c == CommandAt(h)
<1>3. /\ RInv' /\ Consumed' = Consumed + h + 3 + LengthAt(h)
      /\ h \in Nat /\ LengthAt(h) \in Nat
      /\ c \in Seq(Nat) /\ got \in Seq(Seq(Nat))
      /\ \/ \E t \in ReportedTypes(c) : got' = Append(got, <<t>> \o c)
         \/ ReportedTypes(c) = {} /\ got' = got
  BY <1>a, TakeFrameRInv
<1>b. h \in Nat /\ Consumed' \in Nat /\ Consumed' > Consumed + h
  <2>1. /\ Consumed' = Consumed + h + 3 + LengthAt(h) /\ h \in Nat /\ LengthAt(h) \in Nat
        /\ Consumed \in Nat
    BY <1>0, <1>3 DEF Counts
  <2> QED BY <2>1
<1> SUFFICES ASSUME HeadsApart PROVE Traced'
  BY <1>2, <1>3 DEF Orderly
<1>4. PICK j \in 1 .. Len(sent) : sent[j].at = Consumed + h
  BY <1>a, FrameIsSent DEF TakeFrame
<1>5. c = CommandOf(sent[j].frame)
  BY <1>a, <1>4, FrameTaken
<1> HIDE DEF c
<1>6. Len(got) \in Nat
  BY <1>3, LenProperties
<1>7. PICK pick \in Picks : \A i \in 1 .. Len(got) : sent[pick[i]].at < Consumed
  BY <1>a DEF Traced
<1>8. /\ pick \in [1 .. Len(got) -> 1 .. Len(sent)] /\ InOrder(pick)
      /\ \A i \in 1 .. Len(got) : Reports(got[i], sent[pick[i]].frame)
  BY <1>7 DEF Picks
<1>9. ASSUME NEW i \in 1 .. Len(got)
      PROVE  pick[i] < j /\ pick[i] \in 1 .. Len(sent) /\ sent[pick[i]].at < Consumed'
  <2>1. pick[i] \in 1 .. Len(sent)
    BY <1>8
  <2>2. sent[pick[i]].at \in Nat /\ sent[pick[i]].at < Consumed
    BY <1>a, <1>7, <2>1 DEF RInv, SentInLine, LiesIn
  <2>3. sent[pick[i]].at < sent[j].at /\ sent[pick[i]].at < Consumed'
    <3> DEFINE a == sent[pick[i]].at
    <3>1. a \in Nat /\ a < Consumed
      BY <2>2
    <3>2. Consumed \in Nat
      BY <1>0 DEF Counts
    <3> HIDE DEF a
    <3>3. a < Consumed + h /\ a < Consumed'
      BY <1>b, <3>1, <3>2
    <3>4. a < sent[j].at
      BY <1>4, <3>3
    <3> QED BY <3>3, <3>4 DEF a
  <2>4. sent[j].at \in Nat
    BY <1>0, <1>4, <1>b DEF Counts
  <2>5. j < pick[i] => sent[j].at < sent[pick[i]].at
    BY <1>a, <2>1 DEF SentOrder
  <2>6. ~(j < pick[i]) /\ j # pick[i]
    BY <2>2, <2>3, <2>4, <2>5
  <2> QED BY <1>n, <2>1, <2>3, <2>6
<1>10. ASSUME NEW t \in ReportedTypes(c), got' = Append(got, <<t>> \o c)
       PROVE  Traced'
  <2> DEFINE n == Len(got)
             m == Len(sent)
             p == OneMore(pick, n, j)
             r == <<t>> \o c
  <2>r. r \in Seq(Nat) /\ Reports(r, sent[j].frame)
    <3>1. r \in Seq(Nat) /\ Head(r) = t /\ Tail(r) = c
      BY <1>3, TypesAreNat, Notification
    <3> HIDE DEF r
    <3> QED BY <1>5, <3>1 DEF Reports
  <2>e. got' = Append(got, r)
    BY <1>10
  <2> HIDE DEF r
  <2>1. /\ n \in Nat /\ m \in Nat /\ m <= m /\ j \in 1 .. m
        /\ pick \in [1 .. n -> 1 .. m] /\ InOrder(pick) /\ \A i \in 1 .. n : pick[i] < j
    BY <1>n, <1>6, <1>8, <1>9
  <2>2. Len(got') = n + 1 /\ got'[n + 1] = r /\ \A i \in 1 .. n : got'[i] = got[i]
    BY <1>3, <2>e, <2>r, AppendProperties
  <2> HIDE DEF n, m
  <2>3. /\ p \in [1 .. n + 1 -> 1 .. m] /\ InOrder(p)
        /\ p[n + 1] = j /\ \A i \in 1 .. n : p[i] = pick[i]
        /\ \A i \in 1 .. n + 1 : i = n + 1 \/ i \in 1 .. n
    <3>1. /\ OneMore(pick, n, j) \in [1 .. n + 1 -> 1 .. m]
          /\ InOrder(OneMore(pick, n, j))
          /\ OneMore(pick, n, j)[n + 1] = j
          /\ \A i \in 1 .. n : OneMore(pick, n, j)[i] = pick[i]
          /\ \A i \in 1 .. n + 1 : i = n + 1 \/ i \in 1 .. n
      BY <2>1, ExtendPick
    <3> QED BY <3>1
  <2> HIDE DEF p
  <2>4. ASSUME NEW i \in 1 .. n + 1
        PROVE  Reports(got'[i], sent[p[i]].frame) /\ sent[p[i]].at < Consumed'
    <3>1. CASE i = n + 1
      <4>1. sent[j].at < Consumed'
        BY <1>4, <1>b
      <4> QED BY <2>2, <2>3, <2>r, <3>1, <4>1
    <3>2. CASE i \in 1 .. n
      BY <1>8, <1>9, <2>2, <2>3, <3>2 DEF n
    <3> QED BY <2>3, <3>1, <3>2
  <2>5. p \in Picks'
    BY <1>1, <2>2, <2>3, <2>4 DEF Picks, m
  <2> QED BY <1>1, <2>2, <2>4, <2>5 DEF Traced
<1>11. CASE got' = got
  <2>2. pick \in Picks'
    BY <1>1, <1>8, <1>11 DEF Picks
  <2> QED BY <1>1, <1>9, <1>11, <2>2 DEF Traced
<1> QED BY <1>3, <1>10, <1>11

(* A large packet that was sent is on the line, head and all. *)
LEMMA LargeIsCarried ==
  ASSUME RInv, LargeSent
  PROVE  LargeCarried
<1>0. Counts
  BY Reading
<1>1. PICK j \in 1 .. Len(sent) : sent[j].frame[3] = 0
  BY DEF LargeSent, Large
<1>2. LiesIn(sent[j], carried)
  BY DEF RInv, SentInLine
<1> DEFINE f == sent[j].frame
           i == sent[j].at + 1
<1>3. /\ sent[j].at \in Nat /\ f \in Frames /\ sent[j].at + Len(f) <= Len(carried)
      /\ \A k \in 1 .. Len(f) : carried[sent[j].at + k] = f[k]
  BY <1>2 DEF LiesIn
<1>4. Len(f) >= 3 /\ f[1] = HeadOne /\ f[2] = HeadTwo /\ Len(f) \in Nat
  BY <1>3, FramesHeaded, FramesAreBytes, LenProperties DEF Headed
<1>5. 1 \in 1 .. Len(f) /\ 2 \in 1 .. Len(f) /\ 3 \in 1 .. Len(f)
  BY <1>4
<1>6. /\ carried[sent[j].at + 1] = HeadOne /\ carried[sent[j].at + 2] = HeadTwo
      /\ carried[sent[j].at + 3] = 0
  BY <1>1, <1>3, <1>4, <1>5
<1>7. i \in 1 .. Len(carried) - 2 /\ i + 1 = sent[j].at + 2 /\ i + 2 = sent[j].at + 3
  BY <1>0, <1>3, <1>4 DEF Counts
<1> QED BY <1>6, <1>7 DEF LargeCarried

(* Without stray bytes the notifications are accounted for in any case. *)
LEMMA SyncedPicks ==
  ASSUME JInv, NoLarge, noise = 0
  PROVE  Picks # {}
<1>1. RInv
  BY DEF JInv
<1>2. ~LargeSent
  BY <1>1, LargeIsCarried DEF NoLarge
<1>3. NoneMissed
  BY SyncedNoneMissed
<1> QED BY <1>2, <1>3 DEF NoneMissed

(* However read cuts the stream, libipod reports only frames that were      *)
(* sent, none twice and none before an earlier one, as long as nothing was  *)
(* sent that could be taken for a large packet: without stray bytes         *)
(* whatever the frames hold, with them as long as no frame has the HEAD     *)
(* bytes in its data.                                                       *)
THEOREM FramesAreOnce == Spec => []FramesOnce
<1> DEFINE PInv == JInv /\ (NoLarge => Orderly)
<1>1. Init => PInv
  BY InitJInv, InitRInv, InitOrder, InitTraced DEF Orderly
<1>2. PInv /\ [Next]_vars => PInv'
  <2> SUFFICES ASSUME PInv, [Next]_vars PROVE PInv'
    OBVIOUS
  <2>1. JInv'
    BY StepJInv
  <2>2. ASSUME NoLarge' PROVE Orderly'
    <3>1. LInv /\ RInv /\ Synced /\ Orderly
      BY <2>2, NoLargeBefore DEF JInv
    <3>2. Silent \/ \E h \in Index : TakeFrame(h)
      BY <2>2, <3>1, Steps, StepSynced
    <3> QED BY <3>1, <3>2, SilentOrderly, TakeFrameOrderly
  <2> QED BY <2>1, <2>2
<1>3. PInv => FramesOnce
  <2> SUFFICES ASSUME JInv, NoLarge, Orderly, noise = 0 \/ HeadsApart PROVE Picks # {}
    BY DEF FramesOnce
  <2>1. CASE HeadsApart
    BY <2>1 DEF Orderly, Traced
  <2>2. CASE noise = 0
    BY <2>2, SyncedPicks
  <2> QED BY <2>1, <2>2
<1> QED BY <1>1, <1>2, <1>3, PTL DEF Spec
=============================================================================
