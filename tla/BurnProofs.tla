----------------------------- MODULE BurnProofs -----------------------------
(* Proofs about what the two burning programs leave in the flash of the     *)
(* decoder and of the MCU when they report success, about what the          *)
(* read-back of the loader shows, and, from the same invariants, that the   *)
(* recovery program keeps to its types: for images of any size and any      *)
(* number of faults and losses of power.                                    *)
EXTENDS Recovery, SequenceTheorems, TLAPS

(* The frames 0 .. n - 1, once and in order. *)
FirstFrames(s, n) ==
    s \in Seq(Nat) /\ Len(s) = n /\ \A k \in 1 .. n : s[k] = k - 1

BeforeTransfer == {"off", "confirm", "sdram", "loader", "write", "readback",
                   "reboot", "ready", "error", "done"}

(* While transfer runs the decoder holds the frames before frameid; before  *)
(* it runs, and after mpeg_update returned, nothing is recorded.            *)
FramesInOrder ==
    /\ mpeg_pc \in BeforeTransfer => mpeg_flash = <<>> /\ transferred = "none"
    /\ mpeg_pc \in {"frame", "answer", "killed"} => transferred = "none"
    /\ mpeg_pc \in {"frame", "answer"} /\ ~silent =>
          /\ frameid \in Nat /\ romsize \in Nat
          /\ frameid + romsize = RomFrames - 1
          /\ FirstFrames(mpeg_flash, frameid)
    /\ transferred = "yes" => FirstFrames(mpeg_flash, RomFrames)
    /\ mpeg_pc \in BeforeTransfer \cup {"frame", "answer", "killed", "return"}
    /\ mpeg_pc = "frame" => ~silent

LEMMA FrameTaken ==
  ASSUME NEW s, NEW n \in Nat, FirstFrames(s, n)
  PROVE  FirstFrames(Append(s, n), n + 1)
BY DEF FirstFrames

LEMMA FramesInit == Init => FramesInOrder
BY DEF Init, MpegInit, FramesInOrder, BeforeTransfer

LEMMA FramesStart == MpegStart => FramesInOrder'
BY DEF MpegStart, MpegClear, FramesInOrder, BeforeTransfer

LEMMA TakeFrameKeeps == FramesInOrder /\ TakeFrame => FramesInOrder'
<1> SUFFICES ASSUME FramesInOrder, TakeFrame PROVE FramesInOrder'
  OBVIOUS
<1>1. /\ mpeg_pc = "answer" /\ ~silent /\ transferred = "none"
      /\ frameid \in Nat /\ romsize \in Nat
      /\ frameid + romsize = RomFrames - 1
      /\ FirstFrames(mpeg_flash, frameid)
  BY DEF FramesInOrder, TakeFrame
<1>2. FirstFrames(Append(mpeg_flash, frameid), frameid + 1)
  BY <1>1, FrameTaken
<1>3. mpeg_flash' = Append(mpeg_flash, frameid) /\ ~silent'
  BY <1>1 DEF TakeFrame
<1>4. CASE Answer("O") /\ romsize > 0
  BY <1>1, <1>2, <1>3, <1>4 DEF Answer, FramesInOrder, BeforeTransfer, MpegGoto
<1>5. CASE Answer("O") /\ romsize = 0
  <2>1. transferred' = "yes" /\ mpeg_pc' = "return"
    BY <1>1, <1>5 DEF Answer, MpegDone
  <2>2. frameid + 1 = RomFrames
    BY <1>1, <1>5, MpegAssumption
  <2> QED BY <1>2, <1>3, <2>1, <2>2 DEF FramesInOrder, BeforeTransfer
<1>6. CASE Len(mpeg_flash') = RomFrames /\ Answer("E")
  <2>1. transferred' = "yes" /\ mpeg_pc' = "return"
    BY <1>6 DEF Answer, MpegDone
  <2>2. frameid + 1 = RomFrames
    BY <1>2, <1>3, <1>6 DEF FirstFrames
  <2> QED BY <1>2, <1>3, <2>1, <2>2 DEF FramesInOrder, BeforeTransfer
<1> QED BY <1>1, <1>4, <1>5, <1>6 DEF TakeFrame

LEMMA MpegKeepsFrames ==
  ASSUME FramesInOrder, MpegBegin \/ MpegStep
  PROVE  FramesInOrder'
<1> USE DEF FramesInOrder, BeforeTransfer
<1>1. CASE MpegBegin
  BY <1>1 DEF MpegBegin, MpegDone, MpegGoto, burn_vars
<1>2. CASE ConfirmDevice \/ InitSdram \/ SendSloader
  BY <1>2 DEF ConfirmDevice, InitSdram, SendSloader, MpegGoto, burn_vars
<1>3. CASE WriteWord \/ WriteLate \/ WriteLost
  BY <1>3 DEF WriteWord, WriteLate, WriteLost, MpegGoto, burn_vars
<1>4. CASE ReadBack \/ ReadShort \/ ReadLost
  BY <1>4 DEF ReadBack, ReadShort, ReadLost, Compare, MpegGoto, burn_vars
<1>5. CASE RebootIntoSloader
  BY <1>5 DEF RebootIntoSloader, MpegGoto, burn_vars
<1>6. CASE StartTransfer
  BY <1>6, MpegAssumption DEF StartTransfer, MpegGoto, MpegDone, FirstFrames
<1>7. CASE SendFrame \/ FallSilent
  BY <1>7 DEF SendFrame, FallSilent, MpegGoto, burn_vars
<1>8. CASE TakeFrame
  BY <1>8, TakeFrameKeeps
<1>9. CASE RefuseFrame
  BY <1>9 DEF RefuseFrame, Answer, MpegGoto, MpegDone
<1>10. CASE LoseFrame
  BY <1>10 DEF LoseFrame
<1>11. CASE MpegError
  BY <1>11 DEF MpegError, MpegGoto, MpegDone, burn_vars
<1>12. CASE MpegReturn
  BY <1>12 DEF MpegReturn, MpegClear
<1> QED BY <1>1, <1>2, <1>3, <1>4, <1>5, <1>6, <1>7, <1>8, <1>9, <1>10, <1>11,
           <1>12
        DEF MpegStep, MpegFails
-----------------------------------------------------------------------------
(* What each step of the recovery program does to the burning programs: it  *)
(* leaves them alone, starts them afresh, or is a step of one of them.      *)
LEMMA StepsOfBurning ==
  ASSUME [Next]_vars
  PROVE  \/ UNCHANGED <<mcu_vars, mpeg_vars>>
         \/ McuPowerUp /\ MpegStart
         \/ McuRespawn /\ MpegStart
         \/ (MpegBegin \/ MpegStep) /\ UNCHANGED mcu_vars
         \/ (McuBegin \/ McuStep) /\ UNCHANGED mpeg_vars
<1>1. CASE GetArgs \/ Command \/ FsErase \/ FsEraseCache \/ FsRestore
           \/ OtaBegin \/ OtaEnd \/ Dispatch \/ CleanData \/ CleanCache
  BY <1>1 DEF GetArgs, Command, FsErase, FsEraseCache, FsRestore, OtaBegin,
     OtaEnd, Dispatch, CleanData, CleanCache, MainOnly
<1>2. CASE RecBegin \/ RecEnd \/ RecFlag \/ CardPackage \/ CardErase
           \/ CardBegin \/ CardEnd \/ UpdateEnd \/ Verdict
  BY <1>2 DEF RecBegin, RecEnd, RecFlag, CardPackage, CardErase, CardBegin,
     CardEnd, UpdateEnd, Verdict, MainOnly
<1>3. CASE Mpeg \/ Mcu
  BY <1>3 DEF Mpeg, Mcu
<1>4. CASE Again \/ Crash \/ MainSystem \/ Respawn
  BY <1>4 DEF Again, Crash, MainSystem, Respawn, PowerUp
<1>5. CASE UNCHANGED vars
  BY <1>5 DEF vars
<1> QED BY <1>1, <1>2, <1>3, <1>4, <1>5 DEF Next, Run

LEMMA FramesStep == FramesInOrder /\ [Next]_vars => FramesInOrder'
<1> SUFFICES ASSUME FramesInOrder, [Next]_vars PROVE FramesInOrder'
  OBVIOUS
<1>1. CASE UNCHANGED mpeg_vars
  BY <1>1 DEF mpeg_vars, FramesInOrder
<1> QED BY <1>1, StepsOfBurning, FramesStart, MpegKeepsFrames

(* When transfer reports success the decoder has taken each frame of the    *)
(* rom image once and in order.                                             *)
THEOREM DecoderFlashed == Spec => []MpegFlashed
<1>1. FramesInOrder => MpegFlashed
  BY MpegAssumption DEF FramesInOrder, MpegFlashed, FirstFrames
<1> QED BY <1>1, FramesStep, FramesInit, PTL DEF Spec
-----------------------------------------------------------------------------
Taken == [id : Nat, how : {"same", "collides", "differs"}]

(* The last n chunks of s are those of the image from the first on, none    *)
(* but perhaps the last k of them with another sum.                         *)
EndsWith(s, n, k) ==
    /\ Len(s) >= n
    /\ \A i \in 1 .. n : /\ s[Len(s) - n + i].id = i - 1
                         /\ i <= n - k => s[Len(s) - n + i].how # "differs"

Exact(n) == ~restart_lost => Len(mcu_flash) = n

(* Before chunk i is sent the MCU ends on the chunks before it, and before  *)
(* its sum is compared, on those up to it.                                  *)
ChunksInOrder ==
    /\ file_len \in Nat /\ mcu_i \in Nat /\ mcu_flash \in Seq(Taken)
    /\ mcu_pc \in {"off", "open"} =>
          mcu_flash = <<>> /\ mcu_i = 0
    /\ mcu_pc \in {"open", "failed"} => file_len > 0
    /\ mcu_pc = "write" =>
          /\ mcu_i * NUM_ONCE < file_len
          /\ EndsWith(mcu_flash, mcu_i, 0) /\ Exact(mcu_i)
    /\ mcu_pc = "sum" =>
          /\ mcu_i * NUM_ONCE < file_len
          /\ EndsWith(mcu_flash, mcu_i + 1, 1) /\ Exact(mcu_i + 1)
    /\ mcu_pc = "return" /\ mcu_ret = "SUCCESS" =>
          EndsWith(mcu_flash, transfer_times, 0) /\ Exact(transfer_times)

(* the number of chunks, from where the loop of mcu_data_transfer stops *)
LEMMA LoopEnds ==
  ASSUME NEW n \in Nat \ {0}, NEW m \in Nat, NEW f \in Nat,
         m * n < f, f <= (m + 1) * n
  PROVE  (f + n - 1) \div n = m + 1
<1> DEFINE q == (f + n - 1) \div n
<1>1. q \in Nat /\ q * n <= f + n - 1 /\ f + n - 1 < (q + 1) * n
  OBVIOUS
<1>2. (m + 1) * n = m * n + n /\ (q + 1) * n = q * n + n
      /\ (m + 2) * n = m * n + n + n
  OBVIOUS
<1> HIDE DEF q
<1>3. ASSUME q <= m PROVE FALSE
  <2>1. q * n <= m * n
    BY <1>1, <1>3
  <2> QED BY <1>1, <1>2, <2>1
<1>4. ASSUME q >= m + 2 PROVE FALSE
  <2>1. q * n >= (m + 2) * n
    BY <1>1, <1>4
  <2> QED BY <1>1, <1>2, <2>1
<1>5. q = m + 1
  BY <1>1, <1>3, <1>4
<1> QED BY <1>5 DEF q

LEMMA PaddedNat ==
  ASSUME NEW len \in Nat \ {0}
  PROVE  Padded(len) \in Nat /\ Padded(len) > 0
<1> DEFINE n == IF len < FILE_MAX_SIZE THEN len ELSE FILE_MAX_SIZE
<1>1. n \in Nat /\ n > 0
  BY McuAssumption
<1>2. n % NUM_ONCE \in Nat /\ n % NUM_ONCE < NUM_ONCE
  BY <1>1, McuAssumption
<1> QED BY <1>1, <1>2, McuAssumption DEF Padded

LEMMA ChunkTaken ==
  ASSUME NEW s \in Seq(Taken), NEW n \in Nat, EndsWith(s, n, 0),
         NEW how \in {"same", "collides", "differs"}
  PROVE  /\ Append(s, Chunk(n, how)) \in Seq(Taken)
         /\ EndsWith(Append(s, Chunk(n, how)), n + 1, 1)
         /\ Len(Append(s, Chunk(n, how))) = Len(s) + 1
<1> DEFINE c == Chunk(n, how)
           t == Append(s, c)
<1>1. c \in Taken /\ c.id = n
  BY DEF Chunk, Taken
<1> HIDE DEF c
<1>2. t \in Seq(Taken) /\ Len(t) = Len(s) + 1 /\ t[Len(s) + 1] = c
      /\ \A j \in 1 .. Len(s) : t[j] = s[j]
  BY <1>1
<1> HIDE DEF t
<1>3. ASSUME NEW i \in 1 .. n + 1
      PROVE  /\ t[Len(t) - (n + 1) + i].id = i - 1
             /\ i <= n => t[Len(t) - (n + 1) + i].how # "differs"
  <2>1. CASE i = n + 1
    <3>1. Len(t) - (n + 1) + i = Len(s) + 1
      BY <1>2, <2>1
    <3>2. t[Len(t) - (n + 1) + i] = c
      BY <1>2, <3>1
    <3>3. i - 1 = n /\ ~(i <= n)
      BY <2>1
    <3> QED BY <1>1, <3>2, <3>3
  <2>2. CASE i \in 1 .. n
    <3>1. Len(t) - (n + 1) + i = Len(s) - n + i /\ Len(s) - n + i \in 1 .. Len(s)
      BY <1>2, <2>2 DEF EndsWith
    <3>2. t[Len(t) - (n + 1) + i] = s[Len(s) - n + i]
      BY <1>2, <3>1
    <3>3. /\ s[Len(s) - n + i].id = i - 1
          /\ s[Len(s) - n + i].how # "differs"
      <4>1. i <= n - 0
        BY <2>2
      <4> QED BY <2>2, <4>1 DEF EndsWith
    <3> QED BY <3>2, <3>3
  <2> QED BY <1>3, <2>1, <2>2
<1>4. EndsWith(t, n + 1, 1)
  <2>1. Len(t) >= n + 1 /\ (n + 1) - 1 = n
    BY <1>2 DEF EndsWith
  <2> QED BY <1>3, <2>1 DEF EndsWith
<1> QED BY <1>2, <1>4 DEF c, t

LEMMA ChunksInit == Init => ChunksInOrder
BY DEF Init, McuInit, ChunksInOrder

LEMMA ChunksPowerUp ==
  ASSUME McuPowerUp \/ McuRespawn
  PROVE  ChunksInOrder'
<1>1. file_len' = 0 /\ mcu_pc' = "off" /\ mcu_i' = 0 /\ mcu_flash' = <<>>
  BY DEF McuPowerUp, McuRespawn
<1>2. file_len' \in Nat /\ mcu_i' \in Nat /\ mcu_flash' \in Seq(Taken)
  BY <1>1
<1>3. /\ mcu_pc' \in {"off", "open"}
      /\ mcu_pc' \notin {"open", "failed"} /\ mcu_pc' # "write"
      /\ mcu_pc' # "sum" /\ mcu_pc' # "return"
  BY <1>1
<1> QED BY <1>1, <1>2, <1>3 DEF ChunksInOrder

(* a chunk on its way: taken, sound or damaged, or not taken *)
McuWrites == McuWrite \/ McuWriteDamaged \/ McuWriteFails

LEMMA McuWriteKeeps == ChunksInOrder /\ McuWrites => ChunksInOrder'
<1> SUFFICES ASSUME ChunksInOrder, McuWrites PROVE ChunksInOrder'
  OBVIOUS
<1> USE DEF McuWrites, McuWrite, McuWriteDamaged, McuWriteFails
<1>1. /\ file_len \in Nat /\ mcu_i \in Nat /\ mcu_flash \in Seq(Taken)
      /\ mcu_i * NUM_ONCE < file_len
      /\ EndsWith(mcu_flash, mcu_i, 0) /\ Exact(mcu_i)
      /\ UNCHANGED <<file_len, mcu_i, mcu_ret, restart_lost>>
      /\ mcu_pc' \in {"sum", "failed"}
  BY DEF ChunksInOrder
<1>2. file_len > 0
  BY <1>1, McuAssumption
<1>3. CASE \E how \in {"same", "collides", "differs"} :
             mcu_flash' = Append(mcu_flash, Chunk(mcu_i, how))
  <2>1. /\ mcu_flash' \in Seq(Taken) /\ EndsWith(mcu_flash', mcu_i + 1, 1)
        /\ Len(mcu_flash') = Len(mcu_flash) + 1
    BY <1>1, <1>3, ChunkTaken
  <2>2. Exact(mcu_i + 1)'
    BY <1>1, <2>1 DEF Exact
  <2> QED BY <1>1, <1>2, <2>1, <2>2 DEF ChunksInOrder
<1>4. CASE mcu_flash' = mcu_flash /\ mcu_pc' = "failed"
  BY <1>1, <1>2, <1>4 DEF ChunksInOrder
<1> QED BY <1>3, <1>4 DEF Take, Damage

LEMMA McuSumKeeps == ChunksInOrder /\ McuSum => ChunksInOrder'
<1> SUFFICES ASSUME ChunksInOrder, McuSum PROVE ChunksInOrder'
  OBVIOUS
<1>1. /\ file_len \in Nat /\ mcu_i \in Nat /\ mcu_flash \in Seq(Taken)
      /\ mcu_i * NUM_ONCE < file_len
      /\ EndsWith(mcu_flash, mcu_i + 1, 1) /\ Exact(mcu_i + 1)
      /\ UNCHANGED <<file_len, mcu_flash, restart_lost>>
  BY DEF ChunksInOrder, McuSum
<1>2. file_len > 0
  BY <1>1, McuAssumption
<1>3. CASE mcu_flash[Len(mcu_flash)].how # "differs" /\ NextChunk
  <2>1. EndsWith(mcu_flash, mcu_i + 1, 0)
    <3>1. ASSUME NEW i \in 1 .. mcu_i + 1
          PROVE  /\ mcu_flash[Len(mcu_flash) - (mcu_i + 1) + i].id = i - 1
                 /\ mcu_flash[Len(mcu_flash) - (mcu_i + 1) + i].how # "differs"
      <4>1. CASE i = mcu_i + 1
        <5>1. Len(mcu_flash) - (mcu_i + 1) + i = Len(mcu_flash)
          BY <1>1, <4>1
        <5> QED BY <1>1, <1>3, <4>1, <5>1 DEF EndsWith
      <4>2. CASE i <= (mcu_i + 1) - 1
        BY <1>1, <3>1, <4>2 DEF EndsWith
      <4> QED BY <1>1, <3>1, <4>1, <4>2
    <3> QED BY <1>1, <3>1 DEF EndsWith
  <2>2. CASE (mcu_i + 1) * NUM_ONCE < file_len
    BY <1>1, <1>3, <2>1, <2>2 DEF NextChunk, ChunksInOrder, Exact
  <2>3. CASE ~((mcu_i + 1) * NUM_ONCE < file_len)
    <3>1. /\ mcu_i' = mcu_i + 1 /\ mcu_pc' = "return"
      BY <1>3, <2>3 DEF NextChunk, McuDone
    <3>2. file_len <= (mcu_i + 1) * NUM_ONCE
      BY <1>1, <2>3, McuAssumption
    <3>3. transfer_times = mcu_i + 1 /\ transfer_times' = transfer_times
      BY <1>1, <3>2, LoopEnds, McuAssumption DEF transfer_times
    <3> QED BY <1>1, <2>1, <3>1, <3>3 DEF ChunksInOrder, Exact
  <2> QED BY <2>2, <2>3
<1>4. CASE mcu_pc' \in {"killed", "failed"} /\ UNCHANGED mcu_i
  BY <1>1, <1>2, <1>4 DEF ChunksInOrder
<1> QED BY <1>3, <1>4 DEF McuSum

LEMMA McuKeepsChunks ==
  ASSUME ChunksInOrder, McuBegin \/ McuStep
  PROVE  ChunksInOrder'
<1>1. CASE McuBegin
  <2> PICK len \in McuFiles :
        IF len = 0 THEN McuDone("NOT_EXISTED") /\ UNCHANGED file_len
        ELSE mcu_pc' = "open" /\ file_len' = Padded(len) /\ UNCHANGED mcu_ret
    BY <1>1 DEF McuBegin
  <2>1. CASE len = 0
    BY <1>1, <2>1 DEF McuBegin, McuDone, ChunksInOrder
  <2>2. CASE len # 0
    <3>1. Padded(len) \in Nat /\ Padded(len) > 0
      BY <2>2, PaddedNat, McuAssumption
    <3> QED BY <1>1, <2>2, <3>1 DEF McuBegin, ChunksInOrder
  <2> QED BY <2>1, <2>2
<1>2. CASE McuOpen
  BY <1>2, McuAssumption DEF McuOpen, McuDone, ChunksInOrder, EndsWith, Exact
<1>3. CASE McuWrites
  BY <1>3, McuWriteKeeps
<1>4. CASE McuSum
  BY <1>4, McuSumKeeps
<1>7. CASE McuSumFails
  <2>1. /\ mcu_pc = "sum" /\ mcu_pc' = "failed" /\ file_len > 0
        /\ UNCHANGED <<file_len, mcu_i, mcu_flash>>
    BY <1>7, McuAssumption DEF McuSumFails, ChunksInOrder
  <2> QED BY <2>1 DEF ChunksInOrder
<1>5. CASE McuRestart
  <2>0. mcu_flash' = <<>> \/ mcu_flash' = mcu_flash
    BY <1>5 DEF McuRestart
  <2>1. /\ file_len' = file_len /\ file_len \in Nat /\ file_len > 0
        /\ mcu_i' = 0 /\ mcu_pc' = "write" /\ mcu_flash' \in Seq(Taken)
    <3>1. /\ mcu_pc = "failed" /\ file_len' = file_len
          /\ mcu_i' = 0 /\ mcu_pc' = "write"
      BY <1>5 DEF McuRestart
    <3>2. <<>> \in Seq(Taken)
      OBVIOUS
    <3> QED BY <2>0, <3>1, <3>2 DEF ChunksInOrder
  <2>2. 0 * NUM_ONCE < file_len
    BY <2>1, McuAssumption
  <2>3. EndsWith(mcu_flash', 0, 0)
    <3>1. Len(mcu_flash') \in Nat /\ 1 .. 0 = {}
      BY <2>1
    <3> QED BY <3>1 DEF EndsWith
  <2>4. Exact(0)'
    <3>1. restart_lost' = TRUE \/ mcu_flash' = <<>>
      BY <1>5 DEF McuRestart
    <3>2. Len(<<>>) = 0
      OBVIOUS
    <3> QED BY <3>1, <3>2, Zenon DEF Exact
  <2> QED BY <2>1, <2>2, <2>3, <2>4 DEF ChunksInOrder
<1>6. CASE McuReturn
  BY <1>6 DEF McuReturn, ChunksInOrder
<1> QED BY <1>1, <1>2, <1>3, <1>4, <1>5, <1>6, <1>7
        DEF McuStep, McuFails, McuWrites

LEMMA ChunksStep == ChunksInOrder /\ [Next]_vars => ChunksInOrder'
<1> SUFFICES ASSUME ChunksInOrder, [Next]_vars PROVE ChunksInOrder'
  OBVIOUS
<1>1. CASE UNCHANGED mcu_vars
  BY <1>1 DEF mcu_vars, ChunksInOrder, Exact, transfer_times
<1> QED BY <1>1, StepsOfBurning, ChunksPowerUp, McuKeepsChunks

(* When mcu_update reports success the MCU ends on the chunks of the padded *)
(* image, each once and in order and with the sum that was sent, and holds  *)
(* nothing else unless a restart was lost or an earlier run interrupted.    *)
THEOREM McuIsBurnt == Spec => []McuBurnt
<1>1. ChunksInOrder => McuBurnt
  <2> SUFFICES ASSUME ChunksInOrder, mcu_pc = "return", mcu_ret = "SUCCESS"
               PROVE  McuBurnt
    BY DEF McuBurnt
  <2>1. transfer_times \in Nat
    BY McuAssumption DEF ChunksInOrder, transfer_times
  <2> QED BY <2>1 DEF ChunksInOrder, McuBurnt, EndsWith, Exact
<1> QED BY <1>1, ChunksStep, ChunksInit, PTL DEF Spec
-----------------------------------------------------------------------------
(* What the read-back of send_sloader shows, for loaders of any length and  *)
(* content and any number of lost commands, late answers, short reads and   *)
(* timeouts.                                                                *)
(* The operators below take the words w of the loader file and the memory r *)
(* of the decoder, so that they can be used of two states at once.          *)

(* the decoder's memory holds the loader's words or what was there before *)
Written(w, r) ==
    /\ r \in [1 .. Len(w) -> Int]
    /\ \A i \in 1 .. Len(w) : r[i] = Junk \/ r[i] = w[i]

(* a value read from the decoder was there before, is one the probes read,  *)
(* or stands for one of the words 1 .. m, which the decoder had then and    *)
(* has still                                                                *)
Stands(v, w, r, m) ==
    \/ v = Junk \/ v \in ProbeValues
    \/ \E j \in 1 .. m : v = w[j] /\ r[j] = w[j]

(* so does every value still on the line *)
LineStands(l, w, r, m) ==
    /\ l \in Seq([cmd : {"R", "W"}, val : Int])
    /\ \A k \in 1 .. Len(l) : l[k].cmd = "R" => Stands(l[k].val, w, r, m)

(* the first n words are verified, but for zeros, probed values and         *)
(* repeated words                                                           *)
Verified(w, r, n) ==
    \A i \in 1 .. n :
        /\ w[i] \notin ProbeValues \cup {0}
        /\ \A j \in 1 .. i - 1 : w[j] # w[i]
        => r[i] = w[i]

Loading == {"write", "readback"}
Loaded == {"reboot", "ready", "frame", "answer"}

LoaderInv ==
    /\ mpeg_pc \in {"confirm", "sdram", "loader", "error"} \cup Loading \cup Loaded
          => loader \in Loaders
    /\ mpeg_pc \in {"confirm", "sdram", "loader", "error", "reboot"} \cup Loading
          => Written(loader.words, ram)
    /\ mpeg_pc = "off" /\ loader # NoLoader
          => loader \in Loaders /\ Written(loader.words, ram)
    /\ mpeg_pc \in {"sdram", "loader"} => read_buf \in ProbeValues
    /\ mpeg_pc \in Loading =>
          /\ word \in 1 .. Len(loader.words)
          /\ LoaderWords = Len(loader.words)
          /\ LineStands(line, loader.words, ram, word)
          /\ Stands(read_buf, loader.words, ram, word)
          /\ Verified(loader.words, ram, word - 1)
    /\ mpeg_pc \in Loaded /\ loader.len % 4 = 0
          => Verified(loader.words, ram, Len(loader.words))
-----------------------------------------------------------------------------
(* the words that are sent are those of the file, when there are any *)
LEMMA WordsOfLoader ==
  ASSUME loader \in Loaders
  PROVE  /\ loader.words \in Seq(Nat)
         /\ loader.len % 4 = 0 => LoaderWords = Len(loader.words)
         /\ loader.len % 4 # 0 => LoaderWords = 0
BY MpegAssumption, SMTT(30) DEF LoaderWords, Aligned

LEMMA RestStands ==
  ASSUME NEW l, NEW w, NEW r, NEW m, LineStands(l, w, r, m),
         NEW k \in 0 .. Len(l)
  PROVE  LineStands(After(l, k), w, r, m)
<1> DEFINE A == [cmd : {"R", "W"}, val : Int]
           t == SubSeq(l, k + 1, Len(l))
<1>1. l \in Seq(A) /\ Len(l) \in Nat /\ k + 1 \in Int /\ Len(l) \in Int
  BY DEF LineStands
<1>2. \A i \in k + 1 .. Len(l) : i \in 1 .. Len(l)
  BY <1>1
<1>3. \A i \in k + 1 .. Len(l) : l[i] \in A
  <2> HIDE DEF A
  <2> QED BY <1>1, <1>2
<1>4. /\ t \in Seq(A)
      /\ Len(t) = IF k + 1 <= Len(l) THEN Len(l) - (k + 1) + 1 ELSE 0
      /\ \A i \in 1 .. Len(l) - (k + 1) + 1 : t[i] = l[(k + 1) + i - 1]
  <2> HIDE DEF A
  <2> QED BY <1>1, <1>3, SubSeqProperties
<1> HIDE DEF t
<1>5. Len(t) = Len(l) - k
  BY <1>1, <1>4
<1>6. ASSUME NEW i \in 1 .. Len(t), t[i].cmd = "R"
      PROVE  Stands(t[i].val, w, r, m)
  <2>1. i \in 1 .. Len(l) - (k + 1) + 1 /\ (k + 1) + i - 1 \in 1 .. Len(l)
    BY <1>1, <1>5
  <2>2. t[i] = l[(k + 1) + i - 1]
    BY <1>4, <2>1
  <2> QED BY <1>6, <2>1, <2>2 DEF LineStands
<1>7. LineStands(t, w, r, m)
  BY <1>4, <1>6 DEF LineStands
<1> QED BY <1>7 DEF After, t

LEMMA AnswerStands ==
  ASSUME NEW l, NEW w, NEW r, NEW m, LineStands(l, w, r, m),
         NEW c \in {"R", "W"}, NEW v \in Int, c = "R" => Stands(v, w, r, m)
  PROVE  LineStands(Append(l, [cmd |-> c, val |-> v]), w, r, m)
<1> DEFINE a == [cmd |-> c, val |-> v]
           t == Append(l, a)
<1>1. a \in [cmd : {"R", "W"}, val : Int] /\ a.cmd = c /\ a.val = v
  OBVIOUS
<1> HIDE DEF a
<1>2. l \in Seq([cmd : {"R", "W"}, val : Int])
  BY DEF LineStands
<1>3. /\ t \in Seq([cmd : {"R", "W"}, val : Int]) /\ Len(t) = Len(l) + 1
      /\ t[Len(l) + 1] = a /\ \A k \in 1 .. Len(l) : t[k] = l[k]
  BY <1>1, <1>2
<1> HIDE DEF t
<1>4. ASSUME NEW k \in 1 .. Len(t), t[k].cmd = "R"
      PROVE  Stands(t[k].val, w, r, m)
  <2>1. CASE k = Len(l) + 1
    BY <1>1, <1>3, <1>4, <2>1
  <2>2. CASE k \in 1 .. Len(l)
    BY <1>3, <1>4, <2>2 DEF LineStands
  <2> QED BY <1>2, <1>3, <1>4, <2>1, <2>2
<1>5. LineStands(t, w, r, m)
  BY <1>3, <1>4 DEF LineStands
<1> QED BY <1>5 DEF a, t

(* what the probes left on the line stands for no word of the loader *)
LEMMA ProbesStand ==
  ASSUME NEW l \in ProbeLines, NEW w, NEW r, NEW m
  PROVE  LineStands(l, w, r, m)
<1> PICK n \in 0 .. MaxLine : l \in [1 .. n -> Probe]
  BY DEF ProbeLines
<1>1. n \in Nat
  BY MpegAssumption
<1>2. Probe \subseteq [cmd : {"R", "W"}, val : Int]
  <2>1. ProbeValues \subseteq Int /\ 0 \in Int
    BY MpegAssumption
  <2>2. ASSUME NEW a \in Probe PROVE a \in [cmd : {"R", "W"}, val : Int]
    <3>1. CASE a \in [cmd : {"W"}, val : {0}]
      BY <2>1, <3>1
    <3>2. CASE a \in [cmd : {"R"}, val : ProbeValues]
      BY <2>1, <3>2
    <3> QED BY <2>2, <3>1, <3>2 DEF Probe
  <2> QED BY <2>2
<1>3. l \in Seq(Probe) /\ Len(l) = n
  <2> HIDE DEF Probe
  <2> QED BY <1>1
<1>4. ASSUME NEW k \in 1 .. Len(l), l[k].cmd = "R"
      PROVE  l[k].val \in ProbeValues
  <2>1. l[k] \in Probe
    BY <1>3
  <2> QED BY <1>4, <2>1 DEF Probe
<1>5. l \in Seq([cmd : {"R", "W"}, val : Int])
  <2> DEFINE A == [cmd : {"R", "W"}, val : Int]
  <2> HIDE DEF A, Probe
  <2>1. Probe \subseteq A
    BY <1>2 DEF A
  <2>2. l \in Seq(A)
    BY <1>3, <2>1
  <2> QED BY <2>2 DEF A
<1> QED BY <1>4, <1>5 DEF LineStands, Stands

LEMMA LateStands ==
  ASSUME NEW l, NEW w, NEW r, NEW m, LineStands(l, w, r, m), NEW c,
         NEW x \in LateRests(l, c)
  PROVE  LineStands(x, w, r, m)
BY RestStands DEF LateRests

LEMMA FirstStands ==
  ASSUME NEW l, NEW w, NEW r, NEW m, LineStands(l, w, r, m), NEW c,
         NEW k \in FirstOf(l, c)
  PROVE  /\ LineStands(After(l, k), w, r, m)
         /\ c = "R" => Stands(l[k].val, w, r, m)
<1>1. k \in 1 .. Len(l) /\ l[k].cmd = c
  BY DEF FirstOf, Answers
<1>2. k \in 0 .. Len(l)
  BY <1>1
<1> QED BY <1>1, <1>2, RestStands DEF LineStands
-----------------------------------------------------------------------------
(* a word written to the decoder takes away nothing that was shown *)
LEMMA MoreWritten ==
  ASSUME NEW w \in Seq(Nat), NEW r, Written(w, r), NEW n \in 1 .. Len(w)
  PROVE  LET s == [r EXCEPT ![n] = w[n]]
         IN  /\ Written(w, s)
             /\ \A v, m : m \in 0 .. Len(w) /\ Stands(v, w, r, m)
                             => Stands(v, w, s, m)
             /\ \A l, m : m \in 0 .. Len(w) /\ LineStands(l, w, r, m)
                             => LineStands(l, w, s, m)
             /\ \A m \in 0 .. Len(w) : Verified(w, r, m) => Verified(w, s, m)
<1> DEFINE s == [r EXCEPT ![n] = w[n]]
<1>1. /\ s \in [1 .. Len(w) -> Int]
      /\ \A i \in 1 .. Len(w) : s[i] = IF i = n THEN w[i] ELSE r[i]
  BY DEF Written
<1> HIDE DEF s
<1>2. Written(w, s)
  BY <1>1 DEF Written
<1>3. \A i \in 1 .. Len(w) : r[i] = w[i] => s[i] = w[i]
  BY <1>1
<1>4. ASSUME NEW v, NEW m \in 0 .. Len(w), Stands(v, w, r, m)
      PROVE  Stands(v, w, s, m)
  BY <1>3, <1>4 DEF Stands
<1>5. ASSUME NEW l, NEW m \in 0 .. Len(w), LineStands(l, w, r, m)
      PROVE  LineStands(l, w, s, m)
  BY <1>4, <1>5 DEF LineStands
<1>6. ASSUME NEW m \in 0 .. Len(w), Verified(w, r, m)
      PROVE  Verified(w, s, m)
  BY <1>3, <1>6 DEF Verified
<1> QED BY <1>2, <1>4, <1>5, <1>6 DEF s

(* what stands for the words up to m stands for those up to m + 1 *)
LEMMA FurtherStands ==
  ASSUME NEW w, NEW r, NEW m \in Nat
  PROVE  /\ \A v : Stands(v, w, r, m) => Stands(v, w, r, m + 1)
         /\ \A l : LineStands(l, w, r, m) => LineStands(l, w, r, m + 1)
<1>1. \A v : Stands(v, w, r, m) => Stands(v, w, r, m + 1)
  BY DEF Stands
<1> QED BY <1>1 DEF LineStands

(* The heart of the matter: a value that stands for a word up to n and      *)
(* equals word n shows word n, unless that is 0, a probed value or an       *)
(* earlier word.                                                            *)
LEMMA ReadBackShows ==
  ASSUME NEW w \in Seq(Nat), NEW r, NEW n \in 1 .. Len(w), NEW v,
         Verified(w, r, n - 1), v = w[n], v = 0 \/ Stands(v, w, r, n)
  PROVE  Verified(w, r, n)
<1> SUFFICES ASSUME NEW i \in 1 .. n, w[i] \notin ProbeValues \cup {0},
                    \A j \in 1 .. i - 1 : w[j] # w[i]
             PROVE  r[i] = w[i]
  BY DEF Verified
<1>1. CASE i \in 1 .. n - 1
  BY <1>1 DEF Verified
<1>2. CASE i = n
  <2>1. v # 0 /\ v # Junk /\ v \notin ProbeValues
    BY <1>2 DEF Junk
  <2>2. PICK j \in 1 .. n : v = w[j] /\ r[j] = w[j]
    BY <2>1 DEF Stands
  <2>3. j = n
    BY <1>2, <2>2
  <2> QED BY <1>2, <2>2, <2>3
<1> QED BY <1>1, <1>2
-----------------------------------------------------------------------------
LEMMA LoaderInit == Init => LoaderInv
BY DEF Init, MpegInit, LoaderInv, Loading, Loaded

LEMMA LoaderPowerUp == MpegStart => LoaderInv'
BY DEF MpegStart, MpegClear, LoaderInv, Loading, Loaded, NoLoader

Writes == WriteWord \/ WriteLate \/ WriteLost

LEMMA WriteKeeps == LoaderInv /\ Writes => LoaderInv'
<1> SUFFICES ASSUME LoaderInv, Writes PROVE LoaderInv'
  OBVIOUS
<1> USE DEF Writes, WriteWord, WriteLate, WriteLost
<1> DEFINE w == loader.words
<1>1. /\ mpeg_pc = "write" /\ mpeg_pc' = "readback"
      /\ UNCHANGED <<loader, word, read_buf>>
  BY DEF MpegGoto
<1>2. /\ loader \in Loaders /\ Written(w, ram) /\ word \in 1 .. Len(w)
      /\ LoaderWords = Len(w) /\ LineStands(line, w, ram, word)
      /\ Stands(read_buf, w, ram, word) /\ Verified(w, ram, word - 1)
  BY <1>1 DEF LoaderInv, Loading
<1>3. w \in Seq(Nat) /\ word - 1 \in 0 .. Len(w) /\ word \in 0 .. Len(w)
  BY <1>2, WordsOfLoader
<1>4. LoaderWords' = LoaderWords
  BY <1>1 DEF LoaderWords
<1> DEFINE sent == Append(line, [cmd |-> "W", val |-> 0])
<1>5. LineStands(sent, w, ram, word)
  BY <1>2, AnswerStands
<1> HIDE DEF sent
<1>6. /\ ram' = ram \/ ram' = [ram EXCEPT ![word] = w[word]]
      /\ \/ \E k \in FirstOf(sent, "W") : line' = After(sent, k)
         \/ line' \in LateRests(sent, "W")
         \/ line' \in LateRests(line, "W")
  BY DEF sent
<1>7. LineStands(line', w, ram, word)
  BY <1>2, <1>5, <1>6, LateStands, FirstStands
<1>8. /\ Written(w, ram') /\ LineStands(line', w, ram', word)
      /\ Stands(read_buf, w, ram', word) /\ Verified(w, ram', word - 1)
  <2>1. CASE ram' = ram
    BY <1>2, <1>7, <2>1
  <2>2. CASE ram' = [ram EXCEPT ![word] = w[word]]
    <3> HIDE DEF w
    <3> QED BY <1>2, <1>3, <1>7, <2>2, MoreWritten
  <2> QED BY <1>6, <2>1, <2>2
<1> QED BY <1>1, <1>2, <1>4, <1>8 DEF LoaderInv, Loading, Loaded

ReadsBack == ReadBack \/ ReadShort \/ ReadLost

LEMMA ReadBackKeeps == LoaderInv /\ ReadsBack => LoaderInv'
<1> SUFFICES ASSUME LoaderInv, ReadsBack PROVE LoaderInv'
  OBVIOUS
<1> USE DEF ReadsBack, ReadBack, ReadShort, ReadLost
<1> DEFINE w == loader.words
<1>1. mpeg_pc = "readback" /\ UNCHANGED <<loader, ram>>
  OBVIOUS
<1>2. /\ loader \in Loaders /\ Written(w, ram) /\ word \in 1 .. Len(w)
      /\ LoaderWords = Len(w) /\ LineStands(line, w, ram, word)
      /\ Stands(read_buf, w, ram, word) /\ Verified(w, ram, word - 1)
  BY <1>1 DEF LoaderInv, Loading
<1>3. w \in Seq(Nat)
  BY <1>2, WordsOfLoader
<1>4. LoaderWords' = LoaderWords
  BY <1>1 DEF LoaderWords
<1>5. ram[word] \in Int /\ Stands(ram[word], w, ram, word)
  BY <1>2 DEF Written, Stands
<1>6. LineStands(Answered, w, ram, word)
  BY <1>2, <1>5, AnswerStands DEF Answered
<1>7. \/ /\ \E k \in FirstOf(Answered, "R") :
               line' = After(Answered, k) /\ read_buf' = Answered[k].val
         /\ Compare(read_buf')
      \/ /\ \E k \in FirstOf(Answered, "R") : line' = After(Answered, k)
         /\ read_buf' = read_buf /\ Compare(read_buf)
      \/ /\ line' \in LateRests(Answered, "R") \cup LateRests(line, "R")
         /\ read_buf' = read_buf /\ Compare(0)
  OBVIOUS
<1>8. LineStands(line', w, ram, word) /\ Stands(read_buf', w, ram, word)
  BY <1>2, <1>6, <1>7, LateStands, FirstStands
<1>9. PICK v : Compare(v) /\ (v = 0 \/ Stands(v, w, ram, word))
  BY <1>2, <1>7, <1>8
<1>10. CASE v # w[word]
  <2>1. mpeg_pc' = "write" /\ word' = word
    BY <1>9, <1>10 DEF Compare, MpegGoto
  <2> QED BY <1>1, <1>2, <1>4, <1>8, <2>1 DEF LoaderInv, Loading, Loaded
<1>11. CASE v = w[word]
  <2>1. Verified(w, ram, word)
    BY <1>2, <1>3, <1>9, <1>11, ReadBackShows
  <2>2. CASE word < LoaderWords
    <3>1. mpeg_pc' = "write" /\ word' = word + 1
      BY <1>9, <1>11, <2>2 DEF Compare, MpegGoto
    <3>2. /\ LineStands(line', w, ram, word + 1)
          /\ Stands(read_buf', w, ram, word + 1)
      BY <1>2, <1>8, FurtherStands
    <3>3. word + 1 \in 1 .. Len(w) /\ word + 1 - 1 = word
      BY <1>2, <1>3, <2>2
    <3> QED BY <1>1, <1>2, <1>4, <2>1, <3>1, <3>2, <3>3
            DEF LoaderInv, Loading, Loaded
  <2>3. CASE ~(word < LoaderWords)
    <3>1. mpeg_pc' = "reboot"
      BY <1>9, <1>11, <2>3 DEF Compare, MpegGoto
    <3>2. word = Len(w)
      BY <1>2, <1>3, <2>3
    <3> QED BY <1>1, <1>2, <2>1, <3>1, <3>2 DEF LoaderInv, Loading, Loaded
  <2> QED BY <2>2, <2>3
<1> QED BY <1>10, <1>11

LEMMA SloaderKeeps == LoaderInv /\ SendSloader => LoaderInv'
<1> SUFFICES ASSUME LoaderInv, SendSloader PROVE LoaderInv'
  OBVIOUS
<1> DEFINE w == loader.words
<1>1. /\ mpeg_pc = "loader" /\ word' = 1
      /\ UNCHANGED <<loader, read_buf, ram>>
      /\ loader \in Loaders /\ Written(w, ram) /\ read_buf \in ProbeValues
  BY DEF SendSloader, LoaderInv
<1>2. /\ w \in Seq(Nat)
      /\ loader.len % 4 = 0 => LoaderWords = Len(w)
      /\ loader.len % 4 # 0 => LoaderWords = 0
  BY <1>1, WordsOfLoader
<1>3. LoaderWords' = LoaderWords
  BY <1>1 DEF LoaderWords
<1>4. \/ mpeg_pc' = "error"
      \/ /\ mpeg_pc' = IF LoaderWords = 0 THEN "reboot" ELSE "write"
         /\ line' \in ProbeLines
  BY DEF SendSloader, MpegGoto
<1>5. CASE mpeg_pc' = "error"
  BY <1>1, <1>5 DEF LoaderInv, Loading, Loaded
<1>6. CASE LoaderWords = 0 /\ mpeg_pc' = "reboot"
  <2>1. loader.len % 4 = 0 => Verified(w, ram, Len(w))
    BY <1>2, <1>6 DEF Verified
  <2> QED BY <1>1, <1>6, <2>1 DEF LoaderInv, Loading, Loaded
<1>7. CASE LoaderWords # 0 /\ mpeg_pc' = "write" /\ line' \in ProbeLines
  <2>1. LoaderWords = Len(w) /\ 1 \in 1 .. Len(w)
    BY <1>2, <1>7
  <2>2. LineStands(line', w, ram, 1) /\ Stands(read_buf, w, ram, 1)
    BY <1>1, <1>7, ProbesStand DEF Stands
  <2>3. Verified(w, ram, 1 - 1)
    BY DEF Verified
  <2> QED BY <1>1, <1>3, <1>7, <2>1, <2>2, <2>3 DEF LoaderInv, Loading, Loaded
<1> QED BY <1>4, <1>5, <1>6, <1>7

LEMMA BeginKeeps == LoaderInv /\ MpegBegin => LoaderInv'
<1> SUFFICES ASSUME LoaderInv, MpegBegin PROVE LoaderInv'
  OBVIOUS
<1>1. CASE mpeg_pc' = "return"
  BY <1>1 DEF LoaderInv, Loading, Loaded
<1>2. CASE mpeg_pc' = "confirm" /\ loader # NoLoader
  BY <1>2 DEF MpegBegin, MpegDone, LoaderInv, Loading, Loaded
<1>3. CASE mpeg_pc' = "confirm" /\ loader = NoLoader
  <2>1. /\ loader' \in Loaders
        /\ ram' = [i \in 1 .. Len(loader'.words) |-> Junk]
    BY <1>3 DEF MpegBegin, MpegDone
  <2>2. Written(loader'.words, ram')
    BY <2>1, MpegAssumption DEF Written, Junk
  <2> QED BY <1>3, <2>1, <2>2 DEF LoaderInv, Loading, Loaded
<1> QED BY <1>1, <1>2, <1>3 DEF MpegBegin, MpegDone, MpegGoto

LEMMA MpegKeepsLoader ==
  ASSUME LoaderInv, MpegBegin \/ MpegStep
  PROVE  LoaderInv'
<1>1. CASE MpegBegin
  BY <1>1, BeginKeeps
<1>2. CASE ConfirmDevice
  BY <1>2 DEF ConfirmDevice, MpegGoto, LoaderInv, Loading, Loaded
<1>3. CASE InitSdram
  BY <1>3 DEF InitSdram, MpegGoto, LoaderInv, Loading, Loaded
<1>4. CASE SendSloader
  BY <1>4, SloaderKeeps
<1>5. CASE Writes
  BY <1>5, WriteKeeps
<1>6. CASE ReadsBack
  BY <1>6, ReadBackKeeps
<1>7. CASE RebootIntoSloader
  <2>1. /\ mpeg_pc = "reboot" /\ mpeg_pc' \in {"reboot", "ready", "error"}
        /\ UNCHANGED <<loader, ram>>
    BY <1>7 DEF RebootIntoSloader, MpegGoto
  <2> QED BY <2>1 DEF LoaderInv, Loading, Loaded
<1>8. CASE StartTransfer
  BY <1>8 DEF StartTransfer, MpegGoto, MpegDone, link_vars, LoaderInv,
     Loading, Loaded
<1>9. CASE SendFrame \/ TakeFrame \/ RefuseFrame \/ LoseFrame
  <2>1. /\ mpeg_pc \in {"frame", "answer"}
        /\ mpeg_pc' \in {"frame", "answer", "killed", "return"}
        /\ UNCHANGED <<loader, ram>>
    BY <1>9 DEF SendFrame, TakeFrame, RefuseFrame, LoseFrame, Answer, MpegGoto,
       MpegDone, link_vars
  <2> QED BY <2>1 DEF LoaderInv, Loading, Loaded
<1>10. CASE MpegError
  BY <1>10 DEF MpegError, MpegGoto, MpegDone, link_vars, LoaderInv, Loading,
     Loaded
<1>11. CASE MpegReturn
  BY <1>11 DEF MpegReturn, LoaderInv, Loading, Loaded
<1>12. CASE FallSilent
  BY <1>12 DEF FallSilent, link_vars, LoaderInv, LoaderWords
<1> QED BY <1>1, <1>2, <1>3, <1>4, <1>5, <1>6, <1>7, <1>8, <1>9, <1>10, <1>11,
           <1>12
        DEF MpegStep, MpegFails, Writes, ReadsBack

LEMMA LoaderStep == LoaderInv /\ [Next]_vars => LoaderInv'
<1> SUFFICES ASSUME LoaderInv, [Next]_vars PROVE LoaderInv'
  OBVIOUS
<1>1. CASE UNCHANGED mpeg_vars
  <2>1. LoaderWords' = LoaderWords
    BY <1>1 DEF mpeg_vars, LoaderWords
  <2> QED BY <1>1, <2>1 DEF mpeg_vars, LoaderInv
<1> QED BY <1>1, StepsOfBurning, LoaderPowerUp, MpegKeepsLoader

(* When send_sloader reports "verify success" and the loader is started,    *)
(* every word of an aligned file that is neither 0, nor a repetition, nor a *)
(* value read before is in the decoder, whatever was lost, late or short on *)
(* the line.                                                                *)
THEOREM LoaderIsVerified == Spec => []LoaderVerified
<1>1. LoaderInv => LoaderVerified
  BY DEF LoaderInv, LoaderVerified, Loaded, Verified
<1> QED BY <1>1, LoaderStep, LoaderInit, PTL DEF Spec
-----------------------------------------------------------------------------
(* The types.  How far the counters go follows from what the burning        *)
(* programs have done, so the invariants above are part of the argument.    *)

(* an image is never padded beyond the buffer it is read into *)
LEMMA PaddedFits ==
  ASSUME NEW len \in Nat \ {0}
  PROVE  Padded(len) \in 0 .. FILE_MAX_SIZE
<1> DEFINE n == IF len < FILE_MAX_SIZE THEN len ELSE FILE_MAX_SIZE
           q == n \div NUM_ONCE
           m == FILE_MAX_SIZE \div NUM_ONCE
<1>0. /\ NUM_ONCE \in Nat \ {0} /\ FILE_MAX_SIZE \in Nat /\ FILE_MAX_SIZE % NUM_ONCE = 0
  BY McuAssumption
<1>1. n \in Nat /\ n <= FILE_MAX_SIZE
  BY <1>0
<1>2. Padded(len) \in Nat
  BY PaddedNat
<1>3. Padded(len) = IF n % NUM_ONCE = 0 THEN n ELSE n + (NUM_ONCE - (n % NUM_ONCE))
  BY DEF Padded
<1> HIDE DEF n
<1>4. /\ q \in Nat /\ n = q * NUM_ONCE + (n % NUM_ONCE)
      /\ n % NUM_ONCE \in Nat /\ n % NUM_ONCE < NUM_ONCE
  BY <1>0, <1>1
<1>5. m \in Nat /\ FILE_MAX_SIZE = m * NUM_ONCE
  <2>1. m \in Nat /\ FILE_MAX_SIZE = m * NUM_ONCE + (FILE_MAX_SIZE % NUM_ONCE)
    BY <1>0
  <2> HIDE DEF m
  <2>2. m * NUM_ONCE \in Nat
    BY <1>0, <2>1
  <2> QED BY <1>0, <2>1, <2>2
<1> HIDE DEF q, m
<1>6. CASE n % NUM_ONCE = 0
  BY <1>1, <1>2, <1>3, <1>6
<1>7. CASE n % NUM_ONCE # 0
  <2>1. (q + 1) * NUM_ONCE = q * NUM_ONCE + NUM_ONCE /\ q * NUM_ONCE \in Nat
        /\ m * NUM_ONCE \in Nat
    BY <1>0, <1>4, <1>5
  <2>2. Padded(len) = (q + 1) * NUM_ONCE
    BY <1>0, <1>3, <1>4, <1>7, <2>1
  <2>3. q < m
    <3> SUFFICES ASSUME m <= q PROVE FALSE
      BY <1>4, <1>5
    <3>1. m * NUM_ONCE <= q * NUM_ONCE
      BY <1>0, <1>4, <1>5
    <3> QED BY <1>0, <1>1, <1>4, <1>5, <1>7, <2>1, <3>1
  <2>4. (q + 1) * NUM_ONCE <= m * NUM_ONCE
    BY <1>0, <1>4, <1>5, <2>3
  <2> QED BY <1>0, <1>2, <1>5, <2>2, <2>4
<1> QED BY <1>6, <1>7

LEMMA ChunkFits ==
  ASSUME NEW i \in Nat, NEW f \in 0 .. FILE_MAX_SIZE, i * NUM_ONCE < f
  PROVE  i \in McuChunks /\ i + 1 \in McuChunks
<1> DEFINE m == FILE_MAX_SIZE \div NUM_ONCE
<1>0. /\ NUM_ONCE \in Nat \ {0} /\ FILE_MAX_SIZE \in Nat
  BY McuAssumption
<1>1. m \in Nat /\ FILE_MAX_SIZE < (m + 1) * NUM_ONCE
  BY <1>0
<1>m. FILE_MAX_SIZE = m * NUM_ONCE
  <2>1. FILE_MAX_SIZE = m * NUM_ONCE + (FILE_MAX_SIZE % NUM_ONCE) /\ FILE_MAX_SIZE % NUM_ONCE = 0
    BY <1>0, McuAssumption
  <2> HIDE DEF m
  <2>2. m * NUM_ONCE \in Nat
    BY <1>0, <1>1
  <2> QED BY <2>1, <2>2
<1> HIDE DEF m
<1>2. i < m
  <2> SUFFICES ASSUME m <= i PROVE FALSE
    BY <1>1
  <2>1. m * NUM_ONCE <= i * NUM_ONCE /\ m * NUM_ONCE \in Nat /\ i * NUM_ONCE \in Nat
    BY <1>0, <1>1
  <2> QED BY <1>0, <1>m, <2>1
<1>3. McuChunks = 0 .. m
  BY DEF McuChunks, m
<1> QED BY <1>1, <1>2, <1>3

(* the values McuPowerUp gives *)
LEMMA McuStartTypes ==
  /\ 0 \in 0 .. FILE_MAX_SIZE /\ 0 \in McuChunks
  /\ <<>> \in Seq([id : McuChunks, how : Damage \cup {"same"}])
<1>1. 0 \in 0 .. FILE_MAX_SIZE
  BY McuAssumption
<1>2. 0 \in McuChunks
  BY McuAssumption DEF McuChunks
<1>3. <<>> \in Seq([id : McuChunks, how : Damage \cup {"same"}])
  OBVIOUS
<1> QED BY <1>1, <1>2, <1>3

LEMMA McuTyped ==
  ASSUME McuTypeOK, ChunksInOrder, McuBegin \/ McuStep
  PROVE  McuTypeOK'
<1>0. 0 \in McuChunks /\ FILE_MAX_SIZE \in Nat
  BY McuAssumption DEF McuChunks
<1>s. ASSUME NEW d \in Damage \cup {"same"}, mcu_i \in McuChunks
      PROVE  Append(mcu_flash, Chunk(mcu_i, d)) \in Seq([id : McuChunks, how : Damage \cup {"same"}])
  <2>1. Chunk(mcu_i, d) \in [id : McuChunks, how : Damage \cup {"same"}]
    BY <1>s DEF Chunk
  <2> QED BY <2>1, AppendProperties DEF McuTypeOK
<1>1. CASE McuBegin
  <2> PICK len \in McuFiles :
        IF len = 0 THEN McuDone("NOT_EXISTED") /\ UNCHANGED file_len
        ELSE mcu_pc' = "open" /\ file_len' = Padded(len) /\ UNCHANGED mcu_ret
    BY <1>1 DEF McuBegin
  <2>1. file_len' \in 0 .. FILE_MAX_SIZE
    BY PaddedFits, McuAssumption DEF McuTypeOK
  <2> QED BY <1>1, <2>1 DEF McuBegin, McuDone, McuTypeOK
<1>2. CASE McuOpen
  BY <1>2 DEF McuOpen, McuDone, McuTypeOK
<1>3. CASE McuWrites
  <2> USE DEF McuWrites, McuWrite, McuWriteDamaged, McuWriteFails, Take
  <2>1. mcu_flash' \in Seq([id : McuChunks, how : Damage \cup {"same"}])
    BY <1>3, <1>s DEF McuTypeOK
  <2>2. /\ mcu_touched' \in BOOLEAN /\ mcu_pc' \in {"sum", "failed"}
        /\ UNCHANGED <<file_len, mcu_i, mcu_ret, restart_lost>>
    BY <1>3 DEF McuTypeOK
  <2> QED BY <2>1, <2>2 DEF McuTypeOK
<1>7. CASE McuSumFails
  BY <1>7 DEF McuSumFails, McuTypeOK
<1>4. CASE McuSum
  <2>1. mcu_i \in McuChunks /\ mcu_i + 1 \in McuChunks
    BY <1>4, ChunkFits DEF McuSum, ChunksInOrder, McuTypeOK
  <2> QED BY <1>4, <2>1 DEF McuSum, NextChunk, McuDone, McuTypeOK
<1>5. CASE McuRestart
  <2>1. mcu_flash' = <<>> \/ mcu_flash' = mcu_flash
    BY <1>5 DEF McuRestart
  <2>2. mcu_flash' \in Seq([id : McuChunks, how : Damage \cup {"same"}])
    <3> DEFINE C == [id : McuChunks, how : Damage \cup {"same"}]
    <3>1. mcu_flash \in Seq(C)
      BY DEF McuTypeOK
    <3> HIDE DEF C
    <3>2. <<>> \in Seq(C)
      OBVIOUS
    <3>3. mcu_flash' \in Seq(C)
      BY <2>1, <3>1, <3>2
    <3> QED BY <3>3 DEF C
  <2>3. /\ mcu_pc' = "write" /\ mcu_i' = 0 /\ restart_lost' \in BOOLEAN
        /\ UNCHANGED <<file_len, mcu_ret, mcu_touched>>
    BY <1>5 DEF McuRestart, McuTypeOK
  <2> QED BY <1>0, <2>2, <2>3 DEF McuTypeOK
<1>6. CASE McuReturn
  BY <1>0, <1>6 DEF McuReturn, McuTypeOK
<1> QED BY <1>1, <1>2, <1>3, <1>4, <1>5, <1>6, <1>7
        DEF McuStep, McuFails, McuWrites

(* The tries are counted before the next one, and a probe hits at most once. *)
MpegTypes ==
    /\ MpegTypeOK
    /\ mpeg_pc # "return" => try_time < TRIES
    /\ sdram.times <= sdram.count

(* the values MpegClear gives *)
LEMMA ClearTypes ==
  /\ NoLoader \in Loaders \cup {NoLoader} /\ 1 \in 1 .. Len(NoLoader.words) + 1
  /\ 0 \in 0 .. TRIES /\ 0 < TRIES
  /\ [count |-> 0, times |-> 0] \in [count : 0 .. SDRAM_TRIES, times : 0 .. SDRAM_TRIES]
  /\ [count |-> 0, times |-> 0].times <= [count |-> 0, times |-> 0].count
  /\ 0 \in 0 .. RomFrames - 1 /\ <<>> \in Seq(0 .. RomFrames - 1)
<1>1. /\ 0 \in 0 .. TRIES /\ 0 < TRIES /\ 0 \in 0 .. SDRAM_TRIES /\ 0 \in 0 .. RomFrames - 1
  BY MpegAssumption
<1>2. 1 \in 1 .. Len(NoLoader.words) + 1
  BY DEF NoLoader
<1>3. <<>> \in Seq(0 .. RomFrames - 1)
  OBVIOUS
<1> QED BY <1>1, <1>2, <1>3

LEMMA MpegInitTypes == MpegInit => MpegTypes
<1> SUFFICES ASSUME MpegInit PROVE MpegTypes
  OBVIOUS
<1> DEFINE z == [count |-> 0, times |-> 0]
<1>1. z \in [count : 0 .. SDRAM_TRIES, times : 0 .. SDRAM_TRIES] /\ z.times <= z.count
  BY ClearTypes
<1>2. sdram = z
  BY DEF MpegInit
<1> HIDE DEF z
<1> QED BY <1>1, <1>2, ClearTypes DEF MpegInit, MpegTypes, MpegTypeOK

LEMMA MpegClearTypes ==
  ASSUME MpegClear, mpeg_pc' \in {"off", "done"},
         mpeg_ret' \in {"none", "SUCCESS", "ERROR", "NOT_EXISTED"}, mpeg_touched' \in BOOLEAN
  PROVE  MpegTypes'
<1> DEFINE z == [count |-> 0, times |-> 0]
<1>1. z \in [count : 0 .. SDRAM_TRIES, times : 0 .. SDRAM_TRIES] /\ z.times <= z.count
  BY ClearTypes
<1>2. sdram' = z
  BY DEF MpegClear
<1> HIDE DEF z
<1> QED BY <1>1, <1>2, ClearTypes DEF MpegClear, MpegTypes, MpegTypeOK

LEMMA MpegTyped ==
  ASSUME MpegTypes, FramesInOrder, LoaderInv, MpegBegin \/ MpegStep
  PROVE  MpegTypes'
<1>0. /\ TRIES \in Nat /\ SDRAM_TRIES \in Nat /\ RomFrames \in Nat /\ RomFrames > 0
  BY MpegAssumption
<1>l. \A l \in Loaders \cup {NoLoader} : Len(l.words) \in Nat
  BY MpegAssumption DEF NoLoader
<1>z. [count |-> 0, times |-> 0] \in [count : 0 .. SDRAM_TRIES, times : 0 .. SDRAM_TRIES]
  BY <1>0
<1> DEFINE Rest == /\ UNCHANGED burn_vars /\ silent' \in BOOLEAN
                   /\ loader' = loader /\ try_time' = try_time /\ mpeg_pc # "return"
<1>r. ASSUME Rest,
             mpeg_pc' \in {"off", "confirm", "sdram", "loader", "write", "readback",
                           "reboot", "ready", "error"}, mpeg_ret' = mpeg_ret,
             sdram' \in [count : 0 .. SDRAM_TRIES, times : 0 .. SDRAM_TRIES],
             sdram'.times <= sdram'.count, word' \in 1 .. Len(loader.words) + 1
      PROVE  MpegTypes'
  BY <1>r DEF MpegTypes, MpegTypeOK, burn_vars
<1>1. CASE MpegBegin
  <2>1. loader' \in Loaders \cup {NoLoader} /\ word' \in 1 .. Len(loader'.words) + 1
    <3>1. CASE loader' = loader
      BY <1>1, <3>1 DEF MpegBegin, MpegTypes, MpegTypeOK
    <3>2. CASE loader = NoLoader /\ loader' \in Loaders
      <4>1. word' = 1
        <5>1. word \in 1 .. Len(NoLoader.words) + 1 /\ Len(NoLoader.words) = 0
          BY <3>2 DEF MpegTypes, MpegTypeOK, NoLoader
        <5> QED BY <1>1, <5>1 DEF MpegBegin
      <4> QED BY <1>l, <3>2, <4>1
    <3> QED BY <1>1, <3>1, <3>2 DEF MpegBegin
  <2>2. /\ mpeg_pc = "off" /\ mpeg_pc' \in {"return", "confirm"} /\ mpeg_ret' \in {mpeg_ret, "NOT_EXISTED"}
        /\ UNCHANGED <<try_time, sdram, burn_vars, silent>>
    BY <1>1 DEF MpegBegin, MpegDone, MpegGoto
  <2> QED BY <2>1, <2>2 DEF MpegTypes, MpegTypeOK, burn_vars
<1>2. CASE ConfirmDevice
  <2>1. Rest /\ sdram' = [count |-> 0, times |-> 0] /\ mpeg_pc' \in {"sdram", "error"}
        /\ mpeg_ret' = mpeg_ret /\ word' = word
    BY <1>2 DEF ConfirmDevice, MpegGoto, MpegTypes, MpegTypeOK
  <2>2. sdram'.times <= sdram'.count /\ word' \in 1 .. Len(loader.words) + 1
    BY <2>1 DEF MpegTypes, MpegTypeOK
  <2> HIDE DEF Rest
  <2> QED BY <1>r, <1>z, <2>1, <2>2
<1>3. CASE InitSdram
  <2>1. Rest /\ mpeg_pc' \in {"sdram", "error", "loader"} /\ mpeg_ret' = mpeg_ret /\ word' = word
    BY <1>3 DEF InitSdram, MpegGoto, MpegTypes, MpegTypeOK
  <2>2. /\ sdram' \in [count : 0 .. SDRAM_TRIES, times : 0 .. SDRAM_TRIES]
        /\ sdram'.times <= sdram'.count
    <3>1. /\ sdram \in [count : 0 .. SDRAM_TRIES, times : 0 .. SDRAM_TRIES]
          /\ sdram.times <= sdram.count
      BY DEF MpegTypes, MpegTypeOK
    <3>2. CASE sdram' = sdram
      BY <3>1, <3>2
    <3>3. ASSUME NEW hit \in {0, 1}, sdram.count < SDRAM_TRIES,
                 sdram' = [count |-> sdram.count + 1, times |-> sdram.times + hit]
          PROVE  /\ sdram' \in [count : 0 .. SDRAM_TRIES, times : 0 .. SDRAM_TRIES]
                 /\ sdram'.times <= sdram'.count
      <4>1. /\ sdram.count + 1 \in 0 .. SDRAM_TRIES /\ sdram.times + hit \in 0 .. SDRAM_TRIES
            /\ sdram.times + hit <= sdram.count + 1
        BY <1>0, <3>1, <3>3
      <4> QED BY <3>3, <4>1
    <3> QED BY <1>3, <3>2, <3>3 DEF InitSdram
  <2>3. word' \in 1 .. Len(loader.words) + 1
    BY <2>1 DEF MpegTypes, MpegTypeOK
  <2> HIDE DEF Rest
  <2> QED BY <1>r, <2>1, <2>2, <2>3
<1>4. CASE SendSloader
  <2>1. Rest /\ mpeg_pc' \in {"reboot", "write", "error"} /\ mpeg_ret' = mpeg_ret
        /\ word' = 1 /\ sdram' = sdram
    BY <1>4 DEF SendSloader, MpegGoto, MpegTypes, MpegTypeOK
  <2>2. 1 \in 1 .. Len(loader.words) + 1
    BY <1>l DEF MpegTypes, MpegTypeOK
  <2> HIDE DEF Rest
  <2> QED BY <1>r, <2>1, <2>2 DEF MpegTypes, MpegTypeOK
<1>5. CASE Writes
  <2>1. Rest /\ mpeg_pc' = "readback" /\ mpeg_ret' = mpeg_ret
        /\ word' = word /\ sdram' = sdram
    BY <1>5 DEF Writes, WriteWord, WriteLate, WriteLost, MpegGoto, MpegTypes, MpegTypeOK
  <2> HIDE DEF Rest
  <2> QED BY <1>r, <2>1 DEF MpegTypes, MpegTypeOK
<1>6. CASE ReadsBack
  <2> USE DEF ReadsBack, ReadBack, ReadShort, ReadLost
  <2>1. Rest /\ sdram' = sdram /\ \E v : Compare(v)
    BY <1>6 DEF MpegTypes, MpegTypeOK
  <2>2. /\ mpeg_pc' \in {"write", "reboot"} /\ mpeg_ret' = mpeg_ret
        /\ word' = word \/ (word' = word + 1 /\ word < LoaderWords)
    BY <2>1 DEF Compare, MpegGoto
  <2>3. word' \in 1 .. Len(loader.words) + 1
    <3>1. /\ word \in 1 .. Len(loader.words) + 1 /\ Len(loader.words) \in Nat
          /\ LoaderWords = Len(loader.words)
      BY <1>6, <1>l DEF LoaderInv, Loading, MpegTypes, MpegTypeOK
    <3> QED BY <2>2, <3>1
  <2> HIDE DEF Rest
  <2> QED BY <1>r, <2>1, <2>2, <2>3 DEF MpegTypes, MpegTypeOK
<1>7. CASE RebootIntoSloader
  <2>1. Rest /\ mpeg_pc' \in {"ready", "error"} /\ mpeg_ret' = mpeg_ret
        /\ word' = word /\ sdram' = sdram
    BY <1>7 DEF RebootIntoSloader, MpegGoto, MpegTypes, MpegTypeOK
  <2> HIDE DEF Rest
  <2> QED BY <1>r, <2>1 DEF MpegTypes, MpegTypeOK
<1>8. CASE StartTransfer
  <2>1. /\ mpeg_pc = "ready" /\ mpeg_pc' \in {"frame", "return"} /\ mpeg_ret' \in {mpeg_ret, "SUCCESS"}
        /\ frameid' = 0 /\ romsize' = RomFrames - 1 /\ transferred' \in {transferred, "no"}
        /\ UNCHANGED <<loader, try_time, sdram, word, mpeg_flash, mpeg_touched, silent>>
    BY <1>8 DEF StartTransfer, MpegGoto, MpegDone, link_vars, MpegTypes, MpegTypeOK
  <2>2. frameid' \in 0 .. RomFrames - 1 /\ romsize' \in 0 .. RomFrames - 1
    BY <1>0, <2>1
  <2> QED BY <2>1, <2>2 DEF MpegTypes, MpegTypeOK
<1>9. CASE TakeFrame \/ RefuseFrame \/ LoseFrame
  <2> USE DEF TakeFrame, RefuseFrame, LoseFrame
  <2>1. /\ frameid \in Nat /\ romsize \in Nat /\ frameid + romsize = RomFrames - 1
        /\ mpeg_pc = "answer"
    BY <1>9 DEF FramesInOrder
  <2>2. mpeg_flash' \in {mpeg_flash, Append(mpeg_flash, frameid)}
    BY <1>9
  <2>3. mpeg_flash' \in Seq(0 .. RomFrames - 1)
    <3>1. frameid \in 0 .. RomFrames - 1 /\ mpeg_flash \in Seq(0 .. RomFrames - 1)
      BY DEF MpegTypes, MpegTypeOK
    <3>2. Append(mpeg_flash, frameid) \in Seq(0 .. RomFrames - 1)
      <4> DEFINE F == 0 .. RomFrames - 1
      <4> HIDE DEF F
      <4>1. frameid \in F /\ mpeg_flash \in Seq(F)
        BY <3>1 DEF F
      <4>2. Append(mpeg_flash, frameid) \in Seq(F)
        BY <4>1, AppendProperties
      <4> QED BY <4>2 DEF F
    <3> QED BY <2>2, <3>1, <3>2
  <2>4. /\ mpeg_touched' \in BOOLEAN /\ silent' \in BOOLEAN
        /\ UNCHANGED <<loader, try_time, sdram, word>>
    BY <1>9 DEF link_vars, MpegTypes, MpegTypeOK
  <2>5. /\ mpeg_pc' \in {"frame", "answer", "killed", "return"} /\ mpeg_ret' \in {mpeg_ret, "SUCCESS"}
        /\ transferred' \in {transferred, "yes", "no"}
        /\ \/ frameid' = frameid + 1 /\ romsize' = romsize - 1 /\ romsize > 0
           \/ UNCHANGED <<frameid, romsize>>
    <3>1. (\E fb : Answer(fb)) \/ UNCHANGED <<mpeg_pc, mpeg_ret, frameid, romsize, transferred>>
      BY <1>9
    <3> QED BY <2>1, <3>1 DEF Answer, MpegGoto, MpegDone
  <2>6. frameid' \in 0 .. RomFrames - 1 /\ romsize' \in 0 .. RomFrames - 1
    BY <1>0, <2>1, <2>5
  <2> QED BY <2>1, <2>3, <2>4, <2>5, <2>6 DEF MpegTypes, MpegTypeOK
<1>13. CASE SendFrame
  BY <1>13 DEF SendFrame, MpegGoto, link_vars, burn_vars, MpegTypes, MpegTypeOK
<1>10. CASE MpegError
  <2>1. /\ mpeg_pc = "error" /\ try_time' = try_time + 1
        /\ IF try_time + 1 < TRIES THEN mpeg_pc' = "off" /\ mpeg_ret' = mpeg_ret
                                   ELSE mpeg_pc' = "return" /\ mpeg_ret' = "ERROR"
        /\ UNCHANGED <<loader, sdram, word, burn_vars, silent>>
    BY <1>10 DEF MpegError, MpegGoto, MpegDone, link_vars
  <2>2. try_time \in 0 .. TRIES /\ try_time < TRIES
    BY <2>1 DEF MpegTypes, MpegTypeOK
  <2>3. try_time' \in 0 .. TRIES /\ (mpeg_pc' # "return" => try_time' < TRIES)
    BY <1>0, <2>1, <2>2
  <2> QED BY <2>1, <2>3 DEF MpegTypes, MpegTypeOK, burn_vars
<1>11. CASE MpegReturn
  BY <1>11, MpegClearTypes DEF MpegReturn, MpegTypes, MpegTypeOK
<1>12. CASE FallSilent
  <2>1. /\ mpeg_pc # "return" /\ silent' = TRUE
        /\ UNCHANGED <<loader, mpeg_pc, mpeg_ret, try_time, sdram, word, burn_vars>>
    BY <1>12 DEF FallSilent, link_vars
  <2> QED BY <2>1 DEF MpegTypes, MpegTypeOK, burn_vars
<1> QED BY <1>1, <1>2, <1>3, <1>4, <1>5, <1>6, <1>7, <1>8, <1>9, <1>10, <1>11, <1>12,
           <1>13
        DEF MpegStep, MpegFails, Writes, ReadsBack

(* what main keeps *)
MainTypeOK ==
    /\ {bcb, command_file, args} \subseteq Commands \cup {"none"}
    /\ mode \in Modes \cup {"UPDATE_SYSTEM"}
    /\ data \in {"user", "kept", "erased", "settings"}
    /\ sys \in {"old", "package", "card"} /\ rec \in {"whole", "partial"}
    /\ taken \in Commands \cup {"none", "unknown", "lost"}
    /\ status \in {"SUCCESS", "ERROR", "NOT_EXISTED", "CORRUPT"}
    /\ screen \in {"none", "success", "failure"}
    /\ ending \in {"none", "reboot", "mcu_reset", "again", "exit"}

LEMMA MainTyped == MainTypeOK /\ [Next]_vars => MainTypeOK'
<1> SUFFICES ASSUME MainTypeOK, [Next]_vars PROVE MainTypeOK'
  OBVIOUS
<1> USE DEF MainTypeOK, disk_vars, run_vars, hist_vars
<1>1. CASE GetArgs
  BY <1>1 DEF GetArgs
<1>2. CASE Command
  BY <1>2 DEF Command
<1>3. CASE FsErase
  BY <1>3 DEF FsErase, Formatted, NotFormatted
<1>4. CASE FsEraseCache \/ FsRestore
  BY <1>4 DEF FsEraseCache, FsRestore
<1>5. CASE OtaBegin \/ OtaEnd \/ CardBegin \/ CardEnd
  BY <1>5 DEF OtaBegin, OtaEnd, CardBegin, CardEnd, InstallBegin, InstallEnd
<1>6. CASE Dispatch
  BY <1>6 DEF Dispatch
<1>7. CASE CleanData \/ CleanCache \/ CardErase
  BY <1>7 DEF CleanData, CleanCache, CardErase, EraseData, Formatted, NotFormatted
<1>8. CASE RecBegin \/ RecEnd \/ RecFlag
  BY <1>8 DEF RecBegin, RecEnd, RecFlag
<1>9. CASE Mpeg \/ Mcu
  BY <1>9 DEF Mpeg, Mcu, main_vars
<1>10. CASE CardPackage \/ UpdateEnd
  BY <1>10 DEF CardPackage, UpdateEnd
<1>11. CASE Verdict
  BY <1>11 DEF Verdict
<1>12. CASE Again \/ Respawn \/ Crash
  BY <1>12 DEF Again, Respawn, Crash, PowerUp, Start
<1>13. CASE MainSystem
  BY <1>13 DEF MainSystem, PowerUp, Start
<1>14. CASE UNCHANGED vars
  BY <1>14 DEF vars, main_vars
<1> QED BY <1>1, <1>2, <1>3, <1>4, <1>5, <1>6, <1>7, <1>8, <1>9, <1>10, <1>11,
           <1>12, <1>13, <1>14
        DEF Next, Run

TInv ==
    /\ MainTypeOK /\ McuTypeOK /\ MpegTypes
    /\ FramesInOrder /\ ChunksInOrder /\ LoaderInv

LEMMA TypesInit == Init => TInv
<1> SUFFICES ASSUME Init PROVE TInv
  OBVIOUS
<1>1. MainTypeOK
  BY DEF Init, RunIdle, MainTypeOK
<1>2. McuTypeOK
  BY McuStartTypes DEF Init, McuInit, McuTypeOK
<1>3. MpegTypes
  BY MpegInitTypes DEF Init
<1> QED BY <1>1, <1>2, <1>3, FramesInit, ChunksInit, LoaderInit DEF TInv

LEMMA TypesStep == TInv /\ [Next]_vars => TInv'
<1> SUFFICES ASSUME TInv, [Next]_vars PROVE TInv'
  OBVIOUS
<1>1. MainTypeOK' /\ FramesInOrder' /\ ChunksInOrder' /\ LoaderInv'
  BY MainTyped, FramesStep, ChunksStep, LoaderStep DEF TInv
<1>2. ASSUME UNCHANGED mcu_vars PROVE McuTypeOK'
  BY <1>2 DEF TInv, McuTypeOK, mcu_vars
<1>3. ASSUME McuPowerUp \/ McuRespawn PROVE McuTypeOK'
  BY <1>3, McuStartTypes DEF TInv, McuPowerUp, McuRespawn, McuTypeOK
<1>4. McuTypeOK'
  BY <1>2, <1>3, McuTyped, StepsOfBurning DEF TInv
<1>5. ASSUME UNCHANGED mpeg_vars PROVE MpegTypes'
  BY <1>5 DEF TInv, MpegTypes, MpegTypeOK, mpeg_vars
<1>6. ASSUME MpegStart PROVE MpegTypes'
  BY <1>6, MpegClearTypes DEF MpegStart
<1>7. MpegTypes'
  BY <1>5, <1>6, MpegTyped, StepsOfBurning DEF TInv
<1> QED BY <1>1, <1>4, <1>7 DEF TInv

(* Every variable of the recovery program and of the two burning programs   *)
(* stays within its type: no image is padded beyond FILE_MAX_SIZE, no chunk *)
(* or frame beyond the image is sent, no word beyond the loader is written, *)
(* and mpeg_update gives up after its TRIES.                                *)
THEOREM TypeCorrect == Spec => []TypeOK
<1>1. TInv => TypeOK
  BY DEF TInv, MainTypeOK, MpegTypes, TypeOK
<1> QED BY <1>1, TypesInit, TypesStep, PTL DEF Spec
=============================================================================
