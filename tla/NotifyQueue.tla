---------------------------- MODULE NotifyQueue ----------------------------
(* What the notification queue of the serial HALs (canbox, ipod, mpeg)      *)
(* promises to the threads on its two ends: an unbounded FIFO.  The read    *)
(* thread pushes each decoded notification once; every call of              *)
(* xxx_get_notification returns the oldest one that nobody was given yet,   *)
(* and waits while there is none.  NotifyChannel implements it with a       *)
(* tail queue, a mutex and a counting semaphore.                            *)
EXTENDS Sequences

CONSTANT Notification       \* the notifications the read thread can decode

VARIABLES queue,            \* notifications pushed and not yet handed out
          delivered         \* history: the notifications handed out, in order

qvars == <<queue, delivered>>

QInit == queue = <<>> /\ delivered = <<>>

(* push_xxx_notificaiton *)
Push(n) == queue' = Append(queue, n) /\ UNCHANGED delivered

(* pop_xxx_notificaiton *)
Pop == /\ queue # <<>>
       /\ delivered' = Append(delivered, Head(queue))
       /\ queue' = Tail(queue)

QNext == Pop \/ \E n \in Notification : Push(n)

QSpec == QInit /\ [][QNext]_qvars
=============================================================================
