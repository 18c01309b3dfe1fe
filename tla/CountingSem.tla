---------------------------- MODULE CountingSem ----------------------------
(* What a POSIX semaphore promises: a count of units and, for every thread, *)
(* the call it is in or the answer it is about to return with.  A call      *)
(* takes effect in one step.                                                *)
EXTENDS Naturals

CONSTANTS Thread, SEM_MAX_VALUE

VARIABLES value,            \* the units in the semaphore
          call              \* per thread: the call, then its answer

vars == <<value, call>>

Waits == {"wait", "timedwait", "trywait"}
Answers == {"ok", "EAGAIN", "EINVAL", "ETIMEDOUT", "EINTR", "EOVERFLOW"}

Quiet == \A t \in Thread : call[t] = "none"

Init == value \in 0 .. SEM_MAX_VALUE /\ Quiet /\ call \in [Thread -> {"none"}]

Begin(t) ==
    /\ call[t] = "none"
    /\ \E o \in Waits \cup {"post"} : call' = [call EXCEPT ![t] = o]
    /\ UNCHANGED value

Take(t) ==
    /\ call[t] \in Waits /\ value > 0
    /\ value' = value - 1 /\ call' = [call EXCEPT ![t] = "ok"]

(* a call that must not wait fails only when there is no unit *)
Refuse(t) ==
    /\ value = 0
    /\ \/ call[t] = "trywait" /\ call' = [call EXCEPT ![t] = "EAGAIN"]
       \/ call[t] = "timedwait" /\ call' = [call EXCEPT ![t] = "EINVAL"]
    /\ UNCHANGED value

GiveUp(t) ==
    /\ call[t] = "timedwait"
    /\ \E e \in {"ETIMEDOUT", "EINTR"} : call' = [call EXCEPT ![t] = e]
    /\ UNCHANGED value

Post(t) ==
    /\ call[t] = "post" /\ value < SEM_MAX_VALUE
    /\ value' = value + 1 /\ call' = [call EXCEPT ![t] = "ok"]

Overflow(t) ==
    /\ call[t] = "post" /\ value = SEM_MAX_VALUE
    /\ call' = [call EXCEPT ![t] = "EOVERFLOW"]
    /\ UNCHANGED value

Return(t) ==
    /\ call[t] \in Answers
    /\ call' = [call EXCEPT ![t] = "none"]
    /\ UNCHANGED value

(* sem_init and sem_destroy, when no call is in progress *)
Reset == Quiet /\ value' \in 0 .. SEM_MAX_VALUE /\ UNCHANGED call

Next ==
    \/ Reset
    \/ \E t \in Thread :
          \/ Begin(t) \/ Take(t) \/ Refuse(t) \/ GiveUp(t)
          \/ Post(t) \/ Overflow(t) \/ Return(t)

Spec == Init /\ [][Next]_vars
=============================================================================
