--------------------------- MODULE NotifyChannel ---------------------------
(* The queue between the read thread of a serial HAL and the threads that   *)
(* call xxx_get_notification: a BSD tail queue, the mutex that guards it    *)
(* and the semaphore that counts its elements.  canbox.cpp, ipod.cpp and    *)
(* mpeg.cpp hold the same two functions under different names; an action    *)
(* is one of their steps that another thread can observe.                   *)
EXTENDS Naturals, Sequences, FiniteSets

CONSTANTS Notification,     \* the notifications the read thread can decode
          Consumers,        \* the threads that call xxx_get_notification
          Reader,           \* the read thread
          Null              \* the null pointer; also "no owner" of the mutex

ASSUME ThreadsAssumption ==
    /\ IsFiniteSet(Consumers)
    /\ Reader \notin Consumers
    /\ Null \notin Consumers \cup {Reader} \cup Notification

VARIABLES queue,            \* the tail queue xxx_head
          sem_count,        \* the semaphore sem_count
          mutex,            \* the thread that holds mutex, or Null
          rpc,              \* where the read thread is in push
          node,             \* p_new_node: what the read thread is pushing
          pc,               \* where each consumer is in pop
          temp,             \* temp: the node each consumer found first
          pushed,           \* history: everything ever inserted, in order
          delivered         \* history: everything handed to a caller, in order

vars == <<queue, sem_count, mutex, rpc, node, pc, temp, pushed, delivered>>

rvars == <<rpc, node>>
cvars == <<pc, temp, delivered>>

(* xxx_open: TAILQ_INIT, sem_init(&sem_count, 0, 0), pthread_mutex_init *)
Init ==
    /\ queue = <<>> /\ sem_count = 0 /\ mutex = Null
    /\ rpc = "idle" /\ node = Null
    /\ pc = [c \in Consumers |-> "idle"] /\ temp = [c \in Consumers |-> Null]
    /\ pushed = <<>> /\ delivered = <<>>
-----------------------------------------------------------------------------
(* push_xxx_notificaiton, in the read thread.  A failing malloc is not a    *)
(* step: the code copies through the null pointer and the process is gone.  *)
PushBegin(n) ==
    /\ rpc = "idle"
    /\ rpc' = "lock" /\ node' = n
    /\ UNCHANGED <<queue, sem_count, mutex, pushed, cvars>>

PushLock ==
    /\ rpc = "lock" /\ mutex = Null
    /\ mutex' = Reader /\ rpc' = "insert"
    /\ UNCHANGED <<queue, sem_count, node, pushed, cvars>>

(* mutant: the node is put in front of the list *)
PushInsertHead ==
    /\ rpc = "insert"
    /\ queue' = <<node>> \o queue /\ pushed' = Append(pushed, node)
    /\ rpc' = "unlock"
    /\ UNCHANGED <<sem_count, mutex, node, cvars>>

PushInsert ==
    /\ rpc = "insert"
    /\ queue' = Append(queue, node) /\ pushed' = Append(pushed, node)
    /\ rpc' = "unlock"
    /\ UNCHANGED <<sem_count, mutex, node, cvars>>

PushUnlock ==
    /\ rpc = "unlock"
    /\ mutex' = Null /\ rpc' = "post"
    /\ UNCHANGED <<queue, sem_count, node, pushed, cvars>>

(* mutants: the post is forgotten; it is done twice *)
PushPostForgotten ==
    /\ rpc = "post"
    /\ rpc' = "idle"
    /\ UNCHANGED <<queue, sem_count, mutex, node, pushed, cvars>>

PushPostTwice ==
    /\ rpc = "post"
    /\ sem_count' = sem_count + 2 /\ rpc' = "idle"
    /\ UNCHANGED <<queue, mutex, node, pushed, cvars>>

PushPost ==
    /\ rpc = "post"
    /\ sem_count' = sem_count + 1 /\ rpc' = "idle"
    /\ UNCHANGED <<queue, mutex, node, pushed, cvars>>
-----------------------------------------------------------------------------
(* xxx_get_notification, which is pop_xxx_notificaiton, in a caller's thread *)
PopBegin(c) ==
    /\ pc[c] = "idle"
    /\ pc' = [pc EXCEPT ![c] = "wait"]
    /\ UNCHANGED <<queue, sem_count, mutex, temp, pushed, delivered, rvars>>

(* mutant: a thread goes on although sem_wait did not count down *)
PopWaitInterrupted(c) ==
    /\ pc[c] = "wait"
    /\ sem_count' = sem_count - 1
    /\ pc' = [pc EXCEPT ![c] = "lock"]
    /\ UNCHANGED <<queue, mutex, temp, pushed, delivered, rvars>>

PopWait(c) ==
    /\ pc[c] = "wait" /\ sem_count > 0
    /\ sem_count' = sem_count - 1
    /\ pc' = [pc EXCEPT ![c] = "lock"]
    /\ UNCHANGED <<queue, mutex, temp, pushed, delivered, rvars>>

(* mutant: the list is walked without taking the mutex *)
PopLockMissing(c) ==
    /\ pc[c] = "lock"
    /\ pc' = [pc EXCEPT ![c] = "first"]
    /\ UNCHANGED <<queue, sem_count, mutex, temp, pushed, delivered, rvars>>

PopLock(c) ==
    /\ pc[c] = "lock" /\ mutex = Null
    /\ mutex' = c
    /\ pc' = [pc EXCEPT ![c] = "first"]
    /\ UNCHANGED <<queue, sem_count, temp, pushed, delivered, rvars>>

(* temp = xxx_head.tqh_first *)
PopFirst(c) ==
    /\ pc[c] = "first"
    /\ temp' = [temp EXCEPT ![c] = IF queue = <<>> THEN Null ELSE Head(queue)]
    /\ pc' = [pc EXCEPT ![c] = "remove"]
    /\ UNCHANGED <<queue, sem_count, mutex, pushed, delivered, rvars>>

(* memcpy from temp, then TAILQ_REMOVE of whatever is first by now.  The    *)
(* code logs a null temp and dereferences it all the same.                  *)
PopRemove(c) ==
    /\ pc[c] = "remove" /\ temp[c] # Null /\ queue # <<>>
    /\ delivered' = Append(delivered, temp[c])
    /\ queue' = Tail(queue)
    /\ pc' = [pc EXCEPT ![c] = "unlock"]
    /\ UNCHANGED <<sem_count, mutex, temp, pushed, rvars>>

(* pthread_mutex_unlock, free(temp), return *)
PopUnlock(c) ==
    /\ pc[c] = "unlock"
    /\ mutex' = Null
    /\ pc' = [pc EXCEPT ![c] = "idle"] /\ temp' = [temp EXCEPT ![c] = Null]
    /\ UNCHANGED <<queue, sem_count, pushed, delivered, rvars>>
-----------------------------------------------------------------------------
PushStep == PushLock \/ PushInsert \/ PushUnlock \/ PushPost

PopStep(c) == PopWait(c) \/ PopLock(c) \/ PopFirst(c) \/ PopRemove(c) \/ PopUnlock(c)

Next ==
    \/ \E n \in Notification : PushBegin(n)
    \/ PushStep
    \/ \E c \in Consumers : PopBegin(c) \/ PopStep(c)

Spec == Init /\ [][Next]_vars

(* A thread inside push or pop keeps running; nobody has to call them. *)
Fairness == WF_vars(PushStep) /\ \A c \in Consumers : WF_vars(PopStep(c))

FairSpec == Spec /\ Fairness
-----------------------------------------------------------------------------
PushPC == {"idle", "lock", "insert", "unlock", "post"}
PopPC == {"idle", "wait", "lock", "first", "remove", "unlock"}

(* Every variable stays within its type. *)
TypeOK ==
    /\ queue \in Seq(Notification) /\ pushed \in Seq(Notification)
    /\ delivered \in Seq(Notification)
    /\ sem_count \in Nat
    /\ mutex \in Consumers \cup {Reader, Null}
    /\ rpc \in PushPC /\ node \in Notification \cup {Null}
    /\ rpc # "idle" => node \in Notification
    /\ pc \in [Consumers -> PopPC]
    /\ temp \in [Consumers -> Notification \cup {Null}]

(* The consumers that took a unit of the semaphore and not yet a node. *)
Claimants == {c \in Consumers : pc[c] \in {"lock", "first", "remove"}}

(* The semaphore never promises more than the list holds: what it counts,   *)
(* what consumers have claimed and what is inserted but not yet posted add  *)
(* up to the length of the list.                                            *)
SemAccounting ==
    sem_count + Cardinality(Claimants) + (IF rpc \in {"unlock", "post"} THEN 1 ELSE 0)
        = Len(queue)

(* "canbox Queue NULL while sem get access" is never logged: a consumer     *)
(* that passed sem_wait finds a node first in the list, and the node it     *)
(* copies is still first when it removes the first one.                     *)
NoNullPop ==
    \A c \in Consumers : pc[c] = "remove" =>
        temp[c] # Null /\ queue # <<>> /\ temp[c] = Head(queue)

(* Nothing is lost, duplicated or reordered between push and pop, whatever  *)
(* the number of threads that pop.                                          *)
ExactlyOnce == delivered \o queue = pushed

(* Each mutex owner is inside its critical section and nobody else is. *)
MutexHeld ==
    /\ mutex = Reader <=> rpc \in {"insert", "unlock"}
    /\ \A c \in Consumers : mutex = c <=> pc[c] \in {"first", "remove", "unlock"}

(* No thread stays in sem_wait for ever while a notification stays in the   *)
(* list: the post that follows the insertion is never lost.                 *)
NoLostWakeup ==
    (queue # <<>> /\ \E c \in Consumers : pc[c] = "wait")
        ~> (queue = <<>> \/ \A c \in Consumers : pc[c] # "wait")

(* The mutex, the semaphore and the list together behave as the FIFO of     *)
(* NotifyQueue: insertion is its Push, removal its Pop.                     *)
Queue == INSTANCE NotifyQueue
Refinement == Queue!QSpec
=============================================================================
