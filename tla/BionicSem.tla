----------------------------- MODULE BionicSem -----------------------------
(* The semaphores of bionic, libc/bionic/semaphore.c, on which the          *)
(* notification queues and the acknowledge waits of the serial HALs rest.   *)
(* One word holds the count: n units, or -1 for "none, and somebody may be  *)
(* asleep".  The word is read, then replaced by compare-and-exchange; both  *)
(* are steps, and so are the futex calls that follow.  The process-shared   *)
(* bit travels unchanged beside the count and is left out.                  *)
EXTENDS Integers

CONSTANTS Thread,           \* the threads that use the semaphore
          Calls,            \* Calls[t]: the functions thread t may call
          SEM_MAX_VALUE     \* the largest count

Ops == {"wait", "timedwait", "trywait", "post"}

ASSUME SemAssumption ==
    /\ SEM_MAX_VALUE \in Nat \ {0}
    /\ Calls \in [Thread -> SUBSET Ops]

VARIABLES count,            \* SEMCOUNT_TO_VALUE(sem->count)
          op,               \* per thread: the function it is in
          pc,               \* per thread: the step it is at
          old,              \* per thread: `old' of the loop it is in
          ret               \* per thread: what the call returns

vars == <<count, op, pc, old, ret>>

PC == {"idle", "trydec", "trydec_xchg", "clock", "dec", "dec_xchg", "futex",
       "asleep", "inc", "inc_xchg", "wake", "return"}
Errors == {"EAGAIN", "EINVAL", "ETIMEDOUT", "EINTR", "EOVERFLOW"}

(* sem_init *)
Init ==
    /\ count \in 0 .. SEM_MAX_VALUE
    /\ op = [t \in Thread |-> "wait"] /\ pc = [t \in Thread |-> "idle"]
    /\ old = [t \in Thread |-> 0] /\ ret = [t \in Thread |-> "ok"]

Goto(t, l) == pc' = [pc EXCEPT ![t] = l]
Answer(t, r) == Goto(t, "return") /\ ret' = [ret EXCEPT ![t] = r]

(* where sem_wait and sem_timedwait go on after a futex call *)
LoopTop(o) == IF o = "wait" THEN "dec" ELSE "clock"

(* the first step of each function *)
Entry(o) == IF o = "wait" THEN "dec" ELSE IF o = "post" THEN "inc" ELSE "trydec"

Call(t, o) ==
    /\ pc[t] = "idle" /\ o \in Calls[t]
    /\ op' = [op EXCEPT ![t] = o] /\ Goto(t, Entry(o))
    /\ UNCHANGED <<count, old, ret>>

Return(t) ==
    /\ pc[t] = "return"
    /\ Goto(t, "idle")
    /\ op' = [op EXCEPT ![t] = "wait"] /\ ret' = [ret EXCEPT ![t] = "ok"]
    /\ UNCHANGED <<count, old>>
-----------------------------------------------------------------------------
(* `while (__atomic_cmpxchg(old, new, pvalue) != 0)': the word is replaced  *)
(* if it still holds old, else the loop starts again at l.                  *)
Swap(t, new) ==
    /\ count = old[t] /\ count' = new
    /\ old' = [old EXCEPT ![t] = 0] /\ UNCHANGED op

Retry(t, l) ==
    /\ count # old[t] /\ Goto(t, l)
    /\ old' = [old EXCEPT ![t] = 0] /\ UNCHANGED <<count, op, ret>>

(* __sem_trydec, called by sem_trywait and first by sem_timedwait.  When    *)
(* there is no unit the one fails and the other looks at its timeout, which *)
(* may be malformed.                                                        *)
TrydecLoad(t) ==
    /\ pc[t] = "trydec"
    /\ \/ /\ count > 0
          /\ old' = [old EXCEPT ![t] = count] /\ Goto(t, "trydec_xchg")
          /\ UNCHANGED ret
       \/ /\ count <= 0 /\ op[t] = "trywait"
          /\ Answer(t, "EAGAIN") /\ UNCHANGED old
       \/ /\ count <= 0 /\ op[t] = "timedwait"
          /\ Answer(t, "EINVAL") /\ UNCHANGED old
       \/ /\ count <= 0 /\ op[t] = "timedwait"
          /\ Goto(t, "clock") /\ UNCHANGED <<old, ret>>
    /\ UNCHANGED <<count, op>>

TrydecXchg(t) ==
    /\ pc[t] = "trydec_xchg"
    /\ \/ Swap(t, old[t] - 1) /\ Answer(t, "ok")
       \/ Retry(t, "trydec")

(* the top of the loop of sem_timedwait: the deadline has passed, or not *)
Clock(t) ==
    /\ pc[t] = "clock"
    /\ \/ Answer(t, "ETIMEDOUT")
       \/ Goto(t, "dec") /\ UNCHANGED ret
    /\ UNCHANGED <<count, op, old>>

(* __sem_dec: takes a unit, or announces a sleeper by turning 0 into -1 *)
DecLoad(t) ==
    /\ pc[t] = "dec"
    /\ \/ /\ count < 0 /\ Goto(t, "futex") /\ UNCHANGED old
       \/ /\ count >= 0 /\ Goto(t, "dec_xchg")
          /\ old' = [old EXCEPT ![t] = count]
    /\ UNCHANGED <<count, op, ret>>

DecXchg(t) ==
    /\ pc[t] = "dec_xchg"
    /\ \/ old[t] > 0 /\ Swap(t, old[t] - 1) /\ Answer(t, "ok")
       \/ old[t] = 0 /\ Swap(t, -1) /\ Goto(t, "futex") /\ UNCHANGED ret
       \/ Retry(t, "dec")

(* mutant: the increment is not refused at the largest value *)
IncLoadNoLimit(t) ==
    /\ pc[t] = "inc"
    /\ Goto(t, "inc_xchg") /\ old' = [old EXCEPT ![t] = count]
    /\ UNCHANGED <<count, op, ret>>

(* __sem_inc: adds a unit, -1 counting as 0, unless the count is full *)
IncLoad(t) ==
    /\ pc[t] = "inc"
    /\ \/ count = SEM_MAX_VALUE /\ Answer(t, "EOVERFLOW") /\ UNCHANGED old
       \/ /\ count # SEM_MAX_VALUE /\ Goto(t, "inc_xchg")
          /\ old' = [old EXCEPT ![t] = count] /\ UNCHANGED ret
    /\ UNCHANGED <<count, op>>

(* mutant: -1 is incremented like any other value, so the unit is lost *)
IncXchgPlain(t) ==
    /\ pc[t] = "inc_xchg"
    /\ \/ old[t] < 0 /\ Swap(t, old[t] + 1) /\ Goto(t, "wake") /\ UNCHANGED ret
       \/ old[t] >= 0 /\ Swap(t, old[t] + 1) /\ Answer(t, "ok")
       \/ Retry(t, "inc")

(* mutant: the post that ends the contention wakes nobody *)
IncXchgNoWake(t) ==
    /\ pc[t] = "inc_xchg"
    /\ \/ Swap(t, IF old[t] < 0 THEN 1 ELSE old[t] + 1) /\ Answer(t, "ok")
       \/ Retry(t, "inc")

IncXchg(t) ==
    /\ pc[t] = "inc_xchg"
    /\ \/ old[t] < 0 /\ Swap(t, 1) /\ Goto(t, "wake") /\ UNCHANGED ret
       \/ old[t] >= 0 /\ Swap(t, old[t] + 1) /\ Answer(t, "ok")
       \/ Retry(t, "inc")
-----------------------------------------------------------------------------
(* mutant: the word is not compared again before the thread goes to sleep *)
FutexWaitBlind(t) ==
    /\ pc[t] = "futex"
    /\ Goto(t, "asleep")
    /\ UNCHANGED <<count, op, old, ret>>

(* __futex_wait_ex: the kernel compares the word with -1 and puts the       *)
(* thread to sleep in one step, or sends it back with EWOULDBLOCK.          *)
FutexWait(t) ==
    /\ pc[t] = "futex"
    /\ Goto(t, IF count = -1 THEN "asleep" ELSE LoopTop(op[t]))
    /\ UNCHANGED <<count, op, old, ret>>

(* __futex_wake_ex(INT_MAX): every sleeper goes round its loop again *)
FutexWake(t) ==
    /\ pc[t] = "wake"
    /\ pc' = [u \in Thread |-> IF u = t THEN "return"
                               ELSE IF pc[u] = "asleep" THEN LoopTop(op[u])
                               ELSE pc[u]]
    /\ UNCHANGED <<count, op, old, ret>>

(* a signal ends the sleep: sem_wait goes on, sem_timedwait gives up *)
Interrupt(t) ==
    /\ pc[t] = "asleep"
    /\ \/ op[t] = "wait" /\ Goto(t, "dec") /\ UNCHANGED ret
       \/ op[t] = "timedwait" /\ Answer(t, "EINTR")
    /\ UNCHANGED <<count, op, old>>

Timeout(t) ==
    /\ pc[t] = "asleep" /\ op[t] = "timedwait"
    /\ Answer(t, "ETIMEDOUT")
    /\ UNCHANGED <<count, op, old>>
-----------------------------------------------------------------------------
Quiet == \A t \in Thread : pc[t] = "idle"

(* sem_init with a value that fits *)
SemInit(v) ==
    /\ Quiet
    /\ count' = v
    /\ UNCHANGED <<op, pc, old, ret>>

(* sem_destroy: EBUSY and no change when the count is -1 *)
SemDestroy ==
    /\ Quiet /\ count >= 0
    /\ count' = 0
    /\ UNCHANGED <<op, pc, old, ret>>

(* the steps a running thread takes by itself *)
Step(t) ==
    \/ TrydecLoad(t) \/ TrydecXchg(t) \/ Clock(t)
    \/ DecLoad(t) \/ DecXchg(t) \/ IncLoad(t) \/ IncXchg(t)
    \/ FutexWait(t) \/ FutexWake(t) \/ Return(t)

Next ==
    \/ SemDestroy
    \/ \E v \in 0 .. SEM_MAX_VALUE : SemInit(v)
    \/ \E t \in Thread :
          \/ \E o \in Ops : Call(t, o)
          \/ Step(t) \/ Interrupt(t) \/ Timeout(t)

(* The scheduler runs every thread that can go on.  Nobody has to call, no  *)
(* signal has to come and no deadline has to pass.                          *)
Fairness == \A t \in Thread : WF_vars(Step(t))

Spec == Init /\ [][Next]_vars /\ Fairness
-----------------------------------------------------------------------------
(* The count never leaves -1 .. SEM_MAX_VALUE, whatever the interleaving of *)
(* the loads and exchanges: what the comment of semaphore.c calls invalid   *)
(* at run time is not reached.                                              *)
TypeOK ==
    /\ count \in -1 .. SEM_MAX_VALUE
    /\ op \in [Thread -> Ops] /\ pc \in [Thread -> PC]
    /\ old \in [Thread -> -1 .. SEM_MAX_VALUE]
    /\ ret \in [Thread -> Errors \cup {"ok"}]

(* No lost wake-up: while a thread sleeps in the futex, the word says so,   *)
(* or a post has changed the word and is still to make its futex wake.      *)
SleeperSeen ==
    \A t \in Thread : pc[t] = "asleep" =>
        count = -1 \/ \E u \in Thread : pc[u] = "wake"

(* The answer a caller of the abstract semaphore would see coming *)
AbsCall(t) ==
    IF pc[t] = "idle" THEN "none"
    ELSE IF pc[t] = "wake" THEN "ok"
    ELSE IF pc[t] = "return" THEN ret[t]
    ELSE op[t]

AbsValue == IF count < 0 THEN 0 ELSE count

Abstract == INSTANCE CountingSem
    WITH value <- AbsValue, call <- [t \in Thread |-> AbsCall(t)]

(* The loads, exchanges and futex calls implement a counting semaphore: a   *)
(* unit is taken once, a post adds exactly one, trywait fails and a timed   *)
(* wait complains of its argument only when there was no unit, and a post   *)
(* overflows only at SEM_MAX_VALUE.                                         *)
Refinement == Abstract!Spec

Taking(t) == pc[t] \in {"trydec_xchg", "dec_xchg"} /\ pc'[t] = "return"
                /\ ret'[t] = "ok"

Waiting(t) ==
    pc[t] \in {"trydec", "trydec_xchg", "clock", "dec", "dec_xchg", "futex",
               "asleep"}

(* Units do not lie idle while somebody waits: if from some moment on there *)
(* is a unit and a thread in sem_wait, units are taken again and again.     *)
UnitsTaken ==
    <>[](count > 0 /\ \E t \in Thread : Waiting(t) /\ op[t] = "wait")
        => []<><<\E t \in Thread : Taking(t)>>_vars
=============================================================================
