------------------------------- MODULE Canbox -------------------------------
(* libcanbox/canbox.cpp: the HAL between Android and the CAN decoder box on *)
(* a UART.  The read thread collects bytes in tty_buffer, cuts frames       *)
(* (HEAD type length data[length] checksum) out of it, queues the good ones *)
(* and answers each with one byte; caller threads write commands and wait   *)
(* for the box's ACK byte.  Both sides write through canbox_write, under    *)
(* command_mutex.  The queue is the atomic one that NotifyChannel           *)
(* implements.                                                              *)
EXTENDS Integers, Sequences

CONSTANTS ByteMod,          \* 2^8 in the code
          HeadByte,         \* CANBOX_PROTOCAL_FRAME_START_BYTE, 0x2E
          AckByte,          \* CANBOX_PROTOCAL_FRAME_COMMAND_ACK, 0xFF
          NakByte,          \* 0xF0, "CheckSum Err"
          MaxBuffer,        \* MAX_BUFFER_STRING, 512
          Slack,            \* the extra bytes behind it, 16
          MaxRead,          \* MAX_READ_BYTE_ONCE, 64
          MaxRetryTimes,    \* MAX_RETRY_TIMES, 300
          MaxDrain,         \* sem_trywait calls before a command, 100
          MaxTries,         \* writes of one command, 3
          Reader,           \* the read thread
          Senders,          \* the threads that call canbox_send_command
          NoThread,         \* the mutex is free
          Events            \* what the box reports: records [type, data]

Byte == 0 .. ByteMod - 1
Index == 0 .. MaxBuffer + Slack - 1
Threads == Senders \cup {Reader}

ASSUME CanboxAssumption ==
    /\ ByteMod \in Nat /\ MaxBuffer \in Nat /\ Slack \in Nat /\ MaxRead \in Nat
    /\ MaxRetryTimes \in Nat /\ MaxDrain \in Nat /\ MaxTries \in Nat
    /\ {HeadByte, AckByte, NakByte} \subseteq Byte
    /\ HeadByte \notin {0, AckByte} /\ AckByte # NakByte
    /\ MaxRead + ByteMod + 1 <= MaxBuffer
    /\ Reader \notin Senders /\ NoThread \notin Threads

VARIABLES tty_buffer, tty_buffer_pos,
          search_byte,      \* the local of check_full_command
          rpc,              \* where the read thread is
          retry_times,      \* failed reads of the read thread
          sem_command_count, command_mutex,
          wpc,              \* where each thread is in canbox_write
          out,              \* the buffer each thread writes
          retry, s, errno,  \* the locals of canbox_write, and errno
          queue, delivered, \* the notification queue
          rx, tx,           \* the UART: bytes on their way in, writes on their way out
          sent, box,        \* the box: events reported so far, its state
          noise             \* history: bytes came in that the box did not send

buffer == <<tty_buffer, tty_buffer_pos, search_byte>>
writer == <<command_mutex, wpc, out, retry, s, errno>>
qvars == <<queue, delivered>>
world == <<rx, tx, sent, box, noise>>
vars == <<buffer, rpc, retry_times, sem_command_count, writer, qvars, world>>

Q == INSTANCE NotifyQueue WITH Notification <- Seq(Byte)
-----------------------------------------------------------------------------
(* Frames. *)

(* canbox_calc_checksum over the sequence b: the 8-bit sum, complemented *)
SumTo(b) == LET sum[k \in 0 .. Len(b)] == IF k = 0 THEN 0 ELSE sum[k - 1] + b[k]
            IN  sum[Len(b)]
canbox_calc_checksum(b) == (ByteMod - 1) - (SumTo(b) % ByteMod)

(* mutant: every frame is taken to be good *)
ChecksumSkipped(cmd) == TRUE

(* verify_notification: is the last byte the checksum of those behind HEAD? *)
ChecksumOK(cmd) == canbox_calc_checksum(SubSeq(cmd, 2, Len(cmd) - 1)) = cmd[Len(cmd)]

(* the frame the box sends for event e *)
FrameOf(e) == LET body == <<e.type, Len(e.data)>> \o e.data
              IN  <<HeadByte>> \o body \o <<canbox_calc_checksum(body)>>

ASSUME FramesAssumption ==
    \A e \in Events : e.data \in Seq(Byte) /\ FrameOf(e) \in Seq(Byte)
-----------------------------------------------------------------------------
(* canbox_open *)
Init ==
    /\ tty_buffer = [i \in Index |-> 0] /\ tty_buffer_pos = 0 /\ search_byte = 0
    /\ rpc = "select" /\ retry_times = 0
    /\ sem_command_count = 0 /\ command_mutex = NoThread
    /\ wpc = [t \in Threads |-> "idle"] /\ out = [t \in Threads |-> <<>>]
    /\ retry = [t \in Threads |-> 0] /\ s = [t \in Threads |-> 0]
    /\ errno = [t \in Threads |-> "none"]
    /\ Q!QInit
    /\ rx = <<>> /\ tx = <<>> /\ sent = <<>> /\ box = "quiet" /\ noise = FALSE
-----------------------------------------------------------------------------
(* canbox_write, by a sender or by the read thread *)
CallWrite(t, bytes) ==
    /\ wpc' = [wpc EXCEPT ![t] = "lock"]
    /\ out' = [out EXCEPT ![t] = bytes]
    /\ UNCHANGED <<command_mutex, retry, s, errno>>

WriteLock(t) ==
    /\ wpc[t] = "lock" /\ command_mutex = NoThread
    /\ command_mutex' = t
    /\ wpc' = [wpc EXCEPT ![t] = "drain"]
    /\ UNCHANGED <<buffer, rpc, retry_times, sem_command_count, out, retry, s, errno, qvars, world>>

(* one turn of the loop that clears sem_command_count: it is left when      *)
(* sem_trywait fails or after MaxDrain turns, then without counting         *)
Drain(t) ==
    /\ wpc[t] = "drain"
    /\ sem_command_count' = IF sem_command_count > 0 THEN sem_command_count - 1 ELSE 0
    /\ IF sem_command_count > 0 /\ retry[t] < MaxDrain
         THEN retry' = [retry EXCEPT ![t] = @ + 1] /\ UNCHANGED wpc
         ELSE retry' = [retry EXCEPT ![t] = 0] /\ wpc' = [wpc EXCEPT ![t] = "write"]
    /\ UNCHANGED <<buffer, rpc, retry_times, command_mutex, out, s, errno, qvars, world>>

WriteBytes(t) ==
    /\ wpc[t] = "write"
    /\ retry' = [retry EXCEPT ![t] = @ + 1]
    /\ tx' = Append(tx, out[t])
    /\ wpc' = [wpc EXCEPT ![t] = IF Len(out[t]) = 1 THEN "end" ELSE "wait"]
    /\ UNCHANGED <<buffer, rpc, retry_times, sem_command_count, command_mutex, out, s, errno,
                   qvars, rx, sent, box, noise>>

(* the condition of the retry loop *)
WriteAgain(t, res, err) == res = -1 /\ err = "ETIME" /\ retry[t] < MaxTries

WaitReturns(t, res, err) ==
    /\ s' = [s EXCEPT ![t] = res]
    /\ errno' = [errno EXCEPT ![t] = err]
    /\ wpc' = [wpc EXCEPT ![t] = IF WriteAgain(t, res, err) THEN "write" ELSE "end"]
    /\ UNCHANGED <<buffer, rpc, retry_times, command_mutex, out, retry, qvars, world>>

(* sem_timedwait takes a unit of the semaphore, at once or after blocking *)
WaitAcked(t) ==
    /\ wpc[t] \in {"wait", "blocked"} /\ sem_command_count > 0
    /\ sem_command_count' = sem_command_count - 1
    /\ WaitReturns(t, 0, errno[t])

(* ts.tv_nsec + 100 ms is not carried into tv_sec: in the last tenth of a   *)
(* second sem_timedwait refuses it *)
WaitInvalid(t) ==
    /\ wpc[t] = "wait" /\ sem_command_count = 0
    /\ WaitReturns(t, -1, "EINVAL")
    /\ UNCHANGED sem_command_count

WaitBlocks(t) ==
    /\ wpc[t] = "wait" /\ sem_command_count = 0
    /\ wpc' = [wpc EXCEPT ![t] = "blocked"]
    /\ UNCHANGED <<buffer, rpc, retry_times, sem_command_count, command_mutex, out, retry, s,
                   errno, qvars, world>>

(* mutant: a wait without a time limit *)
WaitForEver(t) == FALSE /\ UNCHANGED vars

(* the time limit expires, or a signal arrives, whatever the semaphore holds *)
WaitFails(t) ==
    /\ wpc[t] = "blocked"
    /\ \E err \in {"ETIMEDOUT", "EINTR"} : WaitReturns(t, -1, err)
    /\ UNCHANGED sem_command_count

(* usleep, unlock and return: the locals are gone; canbox_send_command      *)
(* ignores the result                                                       *)
WriteEnd(t) ==
    /\ wpc[t] = "end"
    /\ command_mutex' = NoThread
    /\ wpc' = [wpc EXCEPT ![t] = "idle"]
    /\ out' = [out EXCEPT ![t] = <<>>]
    /\ retry' = [retry EXCEPT ![t] = 0]
    /\ s' = [s EXCEPT ![t] = 0]
    /\ errno' = [errno EXCEPT ![t] = "none"]
    /\ UNCHANGED <<buffer, rpc, retry_times, sem_command_count, qvars, world>>

(* what canbox_write returns *)
WriteResult(t) == IF s[t] = -1 /\ errno[t] = "ETIME" THEN -1 ELSE 0

WriteStep(t) ==
    WriteLock(t) \/ Drain(t) \/ WriteBytes(t) \/ WaitAcked(t) \/ WaitInvalid(t)
    \/ WaitBlocks(t) \/ WaitFails(t) \/ WriteEnd(t)

(* canbox_send_command; a command is longer than one byte *)
canbox_send_command(t) ==
    /\ wpc[t] = "idle"
    /\ CallWrite(t, <<t, "command">>)
    /\ UNCHANGED <<buffer, rpc, retry_times, sem_command_count, qvars, world>>

(* canbox_get_notification *)
canbox_get_notification ==
    /\ Q!Pop
    /\ UNCHANGED <<buffer, rpc, retry_times, sem_command_count, writer, world>>
-----------------------------------------------------------------------------
(* The read thread.  Only it touches tty_buffer, so what check_full_command *)
(* does between two effects on shared state is one step.                    *)

(* read returns n bytes, which are appended; check_full_command begins *)
ReadBytes(n) ==
    /\ rpc = "select" /\ n \in 1 .. MaxRead /\ n <= Len(rx)
    /\ tty_buffer' = [i \in Index |-> IF i \in tty_buffer_pos .. tty_buffer_pos + n - 1
                                        THEN rx[i - tty_buffer_pos + 1] ELSE tty_buffer[i]]
    /\ tty_buffer_pos' = tty_buffer_pos + n
    /\ search_byte' = tty_buffer_pos + n
    /\ rx' = SubSeq(rx, n + 1, Len(rx))
    /\ rpc' = "ack"
    /\ UNCHANGED <<retry_times, sem_command_count, writer, qvars, tx, sent, box, noise>>

(* mutant: the thread never gives up *)
ReadFailsForEver ==
    /\ rpc = "select"
    /\ retry_times' = retry_times + 1 /\ UNCHANGED rpc
    /\ UNCHANGED <<buffer, sem_command_count, writer, qvars, world>>

(* read fails; retry_times is never reset *)
ReadFails ==
    /\ rpc = "select"
    /\ retry_times' = retry_times + 1
    /\ rpc' = IF retry_times' > MaxRetryTimes THEN "exit" ELSE "select"
    /\ UNCHANGED <<buffer, sem_command_count, writer, qvars, world>>

(* memchr over the first search_byte bytes: the positions of b *)
Found(b) == {i \in 0 .. search_byte - 1 : tty_buffer[i] = b}
IsHead(h) == h \in Found(HeadByte) /\ \A j \in Found(HeadByte) : h <= j

(* the first memchr of a turn: an ACK byte anywhere lets a sender go on *)
FindAck ==
    /\ rpc = "ack"
    /\ sem_command_count' = sem_command_count + (IF Found(AckByte) # {} THEN 1 ELSE 0)
    /\ rpc' = "head"
    /\ UNCHANGED <<buffer, retry_times, writer, qvars, world>>

(* no HEAD: whatever is buffered is dropped *)
NoHead ==
    /\ rpc = "head" /\ Found(HeadByte) = {}
    /\ tty_buffer_pos' = 0 /\ rpc' = "select"
    /\ UNCHANGED <<tty_buffer, search_byte, retry_times, sem_command_count, writer, qvars, world>>

(* length and left_bytes for the head at h *)
LengthAt(h) == tty_buffer[h + 2]
LeftBytes(h) == tty_buffer_pos - (h + 3)

(* mutant: the header and the checksum are asked for on top of the data *)
PartialTwice(h) ==
    \/ tty_buffer_pos - h \in 1 .. 3
    \/ LengthAt(h) + 4 > LeftBytes(h)

(* HEAD, type or length is the last byte, or the data is not all there *)
Partial(h) ==
    \/ tty_buffer_pos - h \in 1 .. 3
    \/ LengthAt(h) > LeftBytes(h)

(* the bytes from the head on are moved to the front; those behind stay *)
KeepFrom(h) ==
    /\ tty_buffer' = [i \in Index |-> IF i < tty_buffer_pos - h THEN tty_buffer[h + i]
                                      ELSE tty_buffer[i]]
    /\ tty_buffer_pos' = tty_buffer_pos - h

HoldPartial(h) ==
    /\ rpc = "head" /\ IsHead(h) /\ Partial(h)
    /\ KeepFrom(h)
    /\ rpc' = "select"
    /\ UNCHANGED <<search_byte, retry_times, sem_command_count, writer, qvars, world>>

(* the length + 4 bytes copied into command.  When left_bytes = length the  *)
(* last of them is the byte behind the valid ones.                          *)
CommandAt(h) == [k \in 1 .. LengthAt(h) + 4 |-> tty_buffer[h + k - 1]]

(* verify_notification, up to its canbox_write *)
verify_notification(cmd) ==
    IF ChecksumOK(cmd) THEN Q!Push(cmd) /\ CallWrite(Reader, <<AckByte>>)
    ELSE UNCHANGED qvars /\ CallWrite(Reader, <<NakByte>>)

TakeFrame(h) ==
    /\ rpc = "head" /\ IsHead(h) /\ ~Partial(h)
    /\ verify_notification(CommandAt(h))
    /\ rpc' = "answer"
    /\ UNCHANGED <<buffer, retry_times, sem_command_count, world>>

(* the bytes behind the frame that are left over *)
Remainder(h) == IF LeftBytes(h) > LengthAt(h) THEN LeftBytes(h) - LengthAt(h) - 1 ELSE 0

(* mutant: what was behind the moved bytes is not zeroed *)
ConsumeUncleared(h) ==
    /\ rpc = "answer" /\ wpc[Reader] = "idle" /\ IsHead(h)
    /\ tty_buffer' = [i \in Index |-> IF i < Remainder(h) THEN tty_buffer[h + LengthAt(h) + 4 + i]
                                      ELSE tty_buffer[i]]
    /\ tty_buffer_pos' = Remainder(h)
    /\ rpc' = IF Remainder(h) = 0 THEN "select" ELSE "ack"
    /\ UNCHANGED <<search_byte, retry_times, sem_command_count, writer, qvars, world>>

(* canbox_write has returned: the frame is cut out, the rest is zeroed, and *)
(* the search goes on while bytes are left                                  *)
Consume(h) ==
    /\ rpc = "answer" /\ wpc[Reader] = "idle" /\ IsHead(h)
    /\ tty_buffer' = [i \in Index |-> IF i < Remainder(h) THEN tty_buffer[h + LengthAt(h) + 4 + i]
                                      ELSE 0]
    /\ tty_buffer_pos' = Remainder(h)
    /\ rpc' = IF Remainder(h) = 0 THEN "select" ELSE "ack"
    /\ UNCHANGED <<search_byte, retry_times, sem_command_count, writer, qvars, world>>

ReaderStep ==
    \/ \E n \in 1 .. MaxRead : ReadBytes(n)
    \/ FindAck \/ NoHead
    \/ \E h \in Index : HoldPartial(h) \/ TakeFrame(h) \/ Consume(h)
-----------------------------------------------------------------------------
(* The box, as the HAL sees it: it reports one event at a time, sends it    *)
(* again when it is refused, and acknowledges a command or misses it.       *)
BoxReport(e) ==
    /\ box = "quiet"
    /\ box' = "sent" /\ sent' = Append(sent, FrameOf(e))
    /\ rx' = rx \o FrameOf(e)
    /\ UNCHANGED <<buffer, rpc, retry_times, sem_command_count, writer, qvars, tx, noise>>

BoxAnswered ==
    /\ tx # <<>> /\ Head(tx) = <<AckByte>>
    /\ tx' = Tail(tx) /\ box' = "quiet"
    /\ UNCHANGED <<buffer, rpc, retry_times, sem_command_count, writer, qvars, rx, sent, noise>>

BoxRefused ==
    /\ tx # <<>> /\ Head(tx) = <<NakByte>>
    /\ tx' = Tail(tx) /\ box' = "refused"
    /\ UNCHANGED <<buffer, rpc, retry_times, sem_command_count, writer, qvars, rx, sent, noise>>

BoxRepeats ==
    /\ box = "refused" /\ sent # <<>>
    /\ box' = "sent" /\ rx' = rx \o sent[Len(sent)]
    /\ UNCHANGED <<buffer, rpc, retry_times, sem_command_count, writer, qvars, tx, sent, noise>>

BoxCommand(reply) ==
    /\ tx # <<>> /\ Len(Head(tx)) > 1
    /\ tx' = Tail(tx) /\ rx' = rx \o reply
    /\ UNCHANGED <<buffer, rpc, retry_times, sem_command_count, writer, qvars, sent, box, noise>>

(* bytes on the line that the box did not send *)
LineNoise(bytes) ==
    /\ rx' = rx \o bytes /\ noise' = TRUE
    /\ UNCHANGED <<buffer, rpc, retry_times, sem_command_count, writer, qvars, tx, sent, box>>

BoxStep ==
    \/ BoxAnswered \/ BoxRefused \/ BoxRepeats
    \/ \E reply \in {<<>>, <<AckByte>>} : BoxCommand(reply)
-----------------------------------------------------------------------------
Next ==
    \/ \E t \in Senders : canbox_send_command(t)
    \/ canbox_get_notification
    \/ \E t \in Threads : WriteStep(t)
    \/ ReaderStep \/ ReadFails
    \/ \E e \in Events : BoxReport(e)
    \/ BoxStep
    \/ \E bytes \in Seq(Byte) : LineNoise(bytes)

Spec == Init /\ [][Next]_vars

(* Threads inside a call keep running and the read thread reads what there  *)
(* is.  A sender waiting for command_mutex gets it if it is free again and  *)
(* again: between two of its writes the read thread goes back to select and *)
(* waits for more bytes, which leaves the mutex to the waiter that the      *)
(* unlock woke.  Nothing is assumed of callers, of the box or of read       *)
(* errors.                                                                  *)
Fairness ==
    /\ WF_vars(ReaderStep) /\ WF_vars(WriteStep(Reader))
    /\ \A t \in Senders : WF_vars(WriteStep(t)) /\ SF_vars(WriteLock(t))
-----------------------------------------------------------------------------
WritePC == {"idle", "lock", "drain", "write", "wait", "blocked", "end"}

(* Every variable stays within its type. *)
TypeOK ==
    /\ rx \in Seq(Byte) /\ sent \in Seq(Seq(Byte))
    /\ tty_buffer \in [Index -> Byte]
    /\ tty_buffer_pos \in Nat /\ search_byte \in Nat
    /\ rpc \in {"select", "ack", "head", "answer", "exit"}
    /\ retry_times \in 0 .. MaxRetryTimes + 1
    /\ sem_command_count \in Nat
    /\ command_mutex \in Threads \cup {NoThread}
    /\ wpc \in [Threads -> WritePC] /\ noise \in BOOLEAN

(* "such kind of case won't be happen in fact": whatever the line carries,  *)
(* bytes are appended within MAX_BUFFER_STRING, and between reads less than *)
(* one frame is held.                                                       *)
BufferBound ==
    /\ tty_buffer_pos <= MaxBuffer
    /\ rpc = "select" => tty_buffer_pos <= ByteMod + 1

(* What check_full_command may look at behind the valid bytes is zero, so   *)
(* no byte of an earlier frame is taken for a HEAD or an ACK.               *)
NoGhostBytes ==
    rpc \in {"ack", "head", "answer"} =>
        /\ tty_buffer_pos <= search_byte
        /\ \A i \in tty_buffer_pos .. search_byte - 1 : tty_buffer[i] = 0

(* the line carried the box's frames only, and none of them ends in a       *)
(* checksum that looks like a HEAD byte                                     *)
CleanLine ==
    /\ ~noise
    /\ \A i \in 1 .. Len(sent) : sent[i][Len(sent[i])] # HeadByte

(* On a clean line the events handed up are those the box reported, once    *)
(* each and in order, however the frames are cut by read: at most the one   *)
(* the box still tries to report is missing.  A frame cut before its        *)
(* checksum is taken without it, so a checksum equal to HEAD that comes     *)
(* later begins a frame nobody sent: nothing is claimed from there on.      *)
EventsOnce ==
    CleanLine =>
    LET got == delivered \o queue
    IN  /\ Len(got) \in {Len(sent), Len(sent) - 1}
        /\ got = SubSeq(sent, 1, Len(got))
        /\ box = "quiet" => got = sent

(* "the command_mutex will be only call here, so it WILL NOT be possible to *)
(* cause deadlock with sem_comand_count": every call of canbox_write comes  *)
(* back, also when the read thread waits for the mutex that a sender holds  *)
(* while it waits for the read thread, and also when the read thread ended. *)
WriteReturns == \A t \in Threads : wpc[t] = "lock" ~> wpc[t] = "idle"

(* "canbox write command timeout: %d Retried: %d": a command whose answer   *)
(* does not come in time is written MaxTries times and then reported.       *)
TimeoutRetried ==
    \A t \in Threads : wpc[t] = "end" /\ s[t] = -1 /\ errno[t] = "ETIMEDOUT" =>
        retry[t] = MaxTries /\ WriteResult(t) = -1

(* "put the complete command into queue": a frame that reaches the HAL      *)
(* intact is not refused.                                                   *)
IntactAccepted == CleanLine => \A t \in Threads : wpc[t] # "idle" => out[t] # <<NakByte>>
=============================================================================
