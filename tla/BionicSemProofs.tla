-------------------------- MODULE BionicSemProofs --------------------------
(* Proofs about BionicSem for any set of threads, any calls and any largest *)
(* value.                                                                   *)
EXTENDS BionicSem, TLAPS

(* Between the load and the exchange `old' is in the range the branch that  *)
(* follows relies on.                                                       *)
OldAt == \A t \in Thread :
    /\ pc[t] = "trydec_xchg" => old[t] > 0
    /\ pc[t] = "dec_xchg" => old[t] >= 0
    /\ pc[t] = "inc_xchg" => old[t] < SEM_MAX_VALUE

(* A step belongs to the functions that contain it. *)
OpAt == \A t \in Thread :
    /\ pc[t] \in {"trydec", "trydec_xchg"} => op[t] \in {"trywait", "timedwait"}
    /\ pc[t] = "clock" => op[t] = "timedwait"
    /\ pc[t] \in {"dec", "dec_xchg", "futex", "asleep"}
          => op[t] \in {"wait", "timedwait"}
    /\ pc[t] \in {"inc", "inc_xchg", "wake"} => op[t] = "post"

(* A call has no answer but "ok" before it returns. *)
RetAt == \A t \in Thread : pc[t] # "return" => ret[t] = "ok"

(* The inductive invariant: TypeOK needs the range of `old', the refinement *)
(* also the function a step belongs to.                                     *)
IInv == TypeOK /\ OldAt /\ OpAt /\ RetAt /\ SleeperSeen
-----------------------------------------------------------------------------
LEMMA InitHolds == Init => IInv
BY SemAssumption
   DEF Init, IInv, TypeOK, OldAt, OpAt, RetAt, SleeperSeen, PC, Ops, Errors

LEMMA TypeStep == IInv /\ [Next]_vars => TypeOK'
<1> SUFFICES ASSUME IInv, [Next]_vars PROVE TypeOK'
  OBVIOUS
<1> USE SemAssumption DEF IInv, TypeOK, OldAt, PC, Ops, Errors
<1>1. ASSUME NEW t \in Thread, NEW o \in Ops, Call(t, o) PROVE TypeOK'
  BY <1>1 DEF Call, Goto, Entry
<1>2. ASSUME NEW t \in Thread, Return(t) PROVE TypeOK'
  BY <1>2 DEF Return, Goto
<1>3. ASSUME NEW t \in Thread, TrydecLoad(t) PROVE TypeOK'
  BY <1>3 DEF TrydecLoad, Goto, Answer
<1>4. ASSUME NEW t \in Thread, TrydecXchg(t) PROVE TypeOK'
  BY <1>4 DEF TrydecXchg, Swap, Retry, Goto, Answer
<1>5. ASSUME NEW t \in Thread, Clock(t) PROVE TypeOK'
  BY <1>5 DEF Clock, Goto, Answer
<1>6. ASSUME NEW t \in Thread, DecLoad(t) PROVE TypeOK'
  BY <1>6 DEF DecLoad, Goto
<1>7. ASSUME NEW t \in Thread, DecXchg(t) PROVE TypeOK'
  BY <1>7 DEF DecXchg, Swap, Retry, Goto, Answer
<1>8. ASSUME NEW t \in Thread, IncLoad(t) PROVE TypeOK'
  BY <1>8 DEF IncLoad, Goto, Answer
<1>9. ASSUME NEW t \in Thread, IncXchg(t) PROVE TypeOK'
  BY <1>9 DEF IncXchg, Swap, Retry, Goto, Answer
<1>10. ASSUME NEW t \in Thread, FutexWait(t) PROVE TypeOK'
  BY <1>10 DEF FutexWait, Goto, LoopTop
<1>11. ASSUME NEW t \in Thread, FutexWake(t) PROVE TypeOK'
  BY <1>11 DEF FutexWake, LoopTop
<1>12. ASSUME NEW t \in Thread, Interrupt(t) \/ Timeout(t) PROVE TypeOK'
  BY <1>12 DEF Interrupt, Timeout, Goto, Answer
<1>13. ASSUME NEW v \in 0 .. SEM_MAX_VALUE, SemInit(v) PROVE TypeOK'
  BY <1>13 DEF SemInit
<1>14. CASE SemDestroy
  BY <1>14 DEF SemDestroy
<1>15. CASE UNCHANGED vars
  BY <1>15 DEF vars
<1> QED BY <1>1, <1>2, <1>3, <1>4, <1>5, <1>6, <1>7, <1>8, <1>9, <1>10,
           <1>11, <1>12, <1>13, <1>14, <1>15 DEF Next, Step

(* OldAt, OpAt and RetAt speak of one thread at a time. *)
LEMMA LocalStep == IInv /\ [Next]_vars => OldAt' /\ OpAt' /\ RetAt'
<1> DEFINE Local == OldAt' /\ OpAt' /\ RetAt'
<1> SUFFICES ASSUME IInv, [Next]_vars PROVE Local
  OBVIOUS
<1> USE SemAssumption DEF IInv, TypeOK, OldAt, OpAt, RetAt, Ops, PC
<1>1. ASSUME NEW t \in Thread, NEW o \in Ops, Call(t, o) PROVE Local
  BY <1>1 DEF Call, Goto, Entry
<1>2. ASSUME NEW t \in Thread, Return(t) PROVE Local
  BY <1>2 DEF Return, Goto
<1>3. ASSUME NEW t \in Thread, TrydecLoad(t) PROVE Local
  BY <1>3 DEF TrydecLoad, Goto, Answer
<1>4. ASSUME NEW t \in Thread, TrydecXchg(t) PROVE Local
  BY <1>4 DEF TrydecXchg, Swap, Retry, Goto, Answer
<1>5. ASSUME NEW t \in Thread, Clock(t) PROVE Local
  BY <1>5 DEF Clock, Goto, Answer
<1>6. ASSUME NEW t \in Thread, DecLoad(t) PROVE Local
  BY <1>6 DEF DecLoad, Goto
<1>7. ASSUME NEW t \in Thread, DecXchg(t) PROVE Local
  BY <1>7 DEF DecXchg, Swap, Retry, Goto, Answer
<1>8. ASSUME NEW t \in Thread, IncLoad(t) PROVE Local
  BY <1>8 DEF IncLoad, Goto, Answer
<1>9. ASSUME NEW t \in Thread, IncXchg(t) PROVE Local
  BY <1>9 DEF IncXchg, Swap, Retry, Goto, Answer
<1>10. ASSUME NEW t \in Thread, FutexWait(t) PROVE Local
  BY <1>10 DEF FutexWait, Goto, LoopTop
<1>11. ASSUME NEW t \in Thread, FutexWake(t) PROVE Local
  BY <1>11 DEF FutexWake, LoopTop
<1>12. ASSUME NEW t \in Thread, Interrupt(t) \/ Timeout(t) PROVE Local
  BY <1>12 DEF Interrupt, Timeout, Goto, Answer
<1>13. ASSUME NEW v \in 0 .. SEM_MAX_VALUE, SemInit(v) PROVE Local
  BY <1>13 DEF SemInit
<1>14. CASE SemDestroy
  BY <1>14 DEF SemDestroy
<1>15. CASE UNCHANGED vars
  BY <1>15 DEF vars
<1> QED BY <1>1, <1>2, <1>3, <1>4, <1>5, <1>6, <1>7, <1>8, <1>9, <1>10,
           <1>11, <1>12, <1>13, <1>14, <1>15 DEF Next, Step
-----------------------------------------------------------------------------
LEMMA SleeperStep == IInv /\ [Next]_vars => SleeperSeen'
<1> SUFFICES ASSUME IInv, [Next]_vars PROVE SleeperSeen'
  OBVIOUS
<1> USE DEF IInv, TypeOK, OldAt, SleeperSeen
<1>1. ASSUME NEW t \in Thread, NEW o \in Ops, Call(t, o) PROVE SleeperSeen'
  BY <1>1 DEF Call, Goto, Entry
<1>2. ASSUME NEW t \in Thread, Return(t) PROVE SleeperSeen'
  BY <1>2 DEF Return, Goto
<1>3. ASSUME NEW t \in Thread, TrydecLoad(t) PROVE SleeperSeen'
  BY <1>3 DEF TrydecLoad, Goto, Answer
<1>4. ASSUME NEW t \in Thread, TrydecXchg(t) PROVE SleeperSeen'
  BY <1>4 DEF TrydecXchg, Swap, Retry, Goto, Answer
<1>5. ASSUME NEW t \in Thread, Clock(t) PROVE SleeperSeen'
  BY <1>5 DEF Clock, Goto, Answer
<1>6. ASSUME NEW t \in Thread, DecLoad(t) PROVE SleeperSeen'
  BY <1>6 DEF DecLoad, Goto
<1>7. ASSUME NEW t \in Thread, DecXchg(t) PROVE SleeperSeen'
  BY <1>7 DEF DecXchg, Swap, Retry, Goto, Answer
<1>8. ASSUME NEW t \in Thread, IncLoad(t) PROVE SleeperSeen'
  BY <1>8 DEF IncLoad, Goto, Answer
<1>9. ASSUME NEW t \in Thread, IncXchg(t) PROVE SleeperSeen'
  BY <1>9 DEF IncXchg, Swap, Retry, Goto, Answer
<1>10. ASSUME NEW t \in Thread, FutexWait(t) PROVE SleeperSeen'
  BY <1>10 DEF FutexWait, Goto, LoopTop
<1>11. ASSUME NEW t \in Thread, FutexWake(t) PROVE SleeperSeen'
  BY <1>11 DEF FutexWake, LoopTop
<1>12. ASSUME NEW t \in Thread, Interrupt(t) \/ Timeout(t) PROVE SleeperSeen'
  BY <1>12 DEF Interrupt, Timeout, Goto, Answer
<1>13. ASSUME NEW v \in 0 .. SEM_MAX_VALUE, SemInit(v) PROVE SleeperSeen'
  BY <1>13 DEF SemInit, Quiet
<1>14. CASE SemDestroy
  BY <1>14 DEF SemDestroy, Quiet
<1>15. CASE UNCHANGED vars
  BY <1>15 DEF vars
<1> QED BY <1>1, <1>2, <1>3, <1>4, <1>5, <1>6, <1>7, <1>8, <1>9, <1>10,
           <1>11, <1>12, <1>13, <1>14, <1>15 DEF Next, Step

LEMMA Invariance == Spec => []IInv
<1>1. IInv /\ [Next]_vars => IInv'
  BY TypeStep, LocalStep, SleeperStep DEF IInv
<1> QED BY InitHolds, <1>1, PTL DEF Spec

(* The count stays between -1 and SEM_MAX_VALUE, however the loads and      *)
(* exchanges of the threads interleave.                                     *)
THEOREM TypeCorrect == Spec => []TypeOK
BY Invariance, PTL DEF IInv

(* No wake-up is lost: a thread asleep in the futex is announced by -1, or  *)
(* a sem_post is about to wake it.                                          *)
THEOREM NoSleeperForgotten == Spec => []SleeperSeen
BY Invariance, PTL DEF IInv
-----------------------------------------------------------------------------
(* What a step of thread t does to the calls of CountingSem. *)
AbsCalls == [t \in Thread |-> AbsCall(t)]

OthersStay(t) == \A u \in Thread \ {t} :
    pc'[u] = pc[u] /\ op'[u] = op[u] /\ ret'[u] = ret[u]

LEMMA AbsStep ==
  ASSUME NEW t \in Thread, OthersStay(t)
  PROVE  AbsCalls' = [AbsCalls EXCEPT ![t] = AbsCall(t)']
<1>1. \A u \in Thread \ {t} : AbsCall(u)' = AbsCall(u)
  BY DEF OthersStay, AbsCall
<1> QED BY <1>1 DEF AbsCalls

LEMMA AbsStays ==
  ASSUME NEW t \in Thread, OthersStay(t), AbsCall(t)' = AbsCall(t)
  PROVE  AbsCalls' = AbsCalls
BY AbsStep DEF AbsCalls

(* Every step of a thread is a step of CountingSem or none. *)
LEMMA CallImplements ==
  ASSUME IInv, NEW t \in Thread, NEW o \in Ops, Call(t, o)
  PROVE  Abstract!Begin(t)
<1>1. AbsCall(t) = "none" /\ AbsCall(t)' = o
  BY DEF AbsCall, Call, Goto, Entry, IInv, TypeOK, Ops
<1>2. OthersStay(t) /\ AbsValue' = AbsValue
  BY DEF OthersStay, Call, Goto, AbsValue, IInv, TypeOK
<1> QED BY <1>1, <1>2, AbsStep
        DEF Abstract!Begin, Abstract!Waits, Ops, AbsCalls

LEMMA ReturnImplements ==
  ASSUME IInv, NEW t \in Thread, Return(t)
  PROVE  Abstract!Return(t)
<1>1. AbsCall(t) = ret[t] /\ AbsCall(t)' = "none"
  BY DEF AbsCall, Return, Goto, IInv, TypeOK
<1>2. OthersStay(t) /\ AbsValue' = AbsValue
  BY DEF OthersStay, Return, Goto, AbsValue, IInv, TypeOK
<1> QED BY <1>1, <1>2, AbsStep
        DEF Abstract!Return, Abstract!Answers, Errors, AbsCalls, IInv, TypeOK

(* The calls stay as they are. *)
Stutters == AbsValue' = AbsValue /\ AbsCalls' = AbsCalls

LEMMA TrydecLoadImplements ==
  ASSUME IInv, NEW t \in Thread, TrydecLoad(t)
  PROVE  Abstract!Refuse(t) \/ Stutters
<1>1. OthersStay(t) /\ AbsValue' = AbsValue /\ AbsCall(t) = op[t]
  BY DEF OthersStay, TrydecLoad, Goto, Answer, AbsValue, AbsCall, IInv, TypeOK
<1>2. CASE pc'[t] # "return"
  <2>1. AbsCall(t)' = AbsCall(t)
    BY <1>2, <1>1 DEF TrydecLoad, Goto, Answer, AbsCall, IInv, TypeOK
  <2> QED BY <2>1, <1>1, AbsStays DEF Stutters
<1>3. CASE pc'[t] = "return"
  <2>1. \/ op[t] = "trywait" /\ AbsCall(t)' = "EAGAIN"
        \/ op[t] = "timedwait" /\ AbsCall(t)' = "EINVAL"
    BY <1>3 DEF TrydecLoad, Goto, Answer, AbsCall, IInv, TypeOK
  <2>2. AbsValue = 0
    BY <1>3 DEF TrydecLoad, Goto, Answer, AbsValue, IInv, TypeOK
  <2> QED BY <2>1, <2>2, <1>1, AbsStep DEF Abstract!Refuse, AbsCalls
<1> QED BY <1>2, <1>3

LEMMA TakeImplements ==
  ASSUME IInv, NEW t \in Thread, pc[t] \in {"trydec_xchg", "dec_xchg"},
         old[t] > 0, Swap(t, old[t] - 1), Answer(t, "ok")
  PROVE  Abstract!Take(t)
<1>1. OthersStay(t)
  BY DEF OthersStay, Swap, Goto, Answer, IInv, TypeOK
<1>2. AbsCall(t) = op[t] /\ AbsCall(t)' = "ok"
  BY DEF Swap, Goto, Answer, AbsCall, IInv, TypeOK
<1>3. op[t] \in {"wait", "trywait", "timedwait"}
  BY DEF IInv, OpAt
<1>4. AbsValue > 0 /\ AbsValue' = AbsValue - 1
  BY DEF Swap, AbsValue, IInv, TypeOK
<1> QED BY <1>1, <1>2, <1>3, <1>4, AbsStep
        DEF Abstract!Take, Abstract!Waits, AbsCalls

LEMMA RetryStutters ==
  ASSUME IInv, NEW t \in Thread, NEW l \in {"trydec", "dec", "inc"},
         pc[t] \in {"trydec_xchg", "dec_xchg", "inc_xchg"}, Retry(t, l)
  PROVE  Stutters
<1>1. OthersStay(t) /\ AbsValue' = AbsValue
  BY DEF OthersStay, Retry, Goto, AbsValue, IInv, TypeOK
<1>2. AbsCall(t)' = AbsCall(t)
  BY DEF Retry, Goto, AbsCall, IInv, TypeOK
<1> QED BY <1>1, <1>2, AbsStays DEF Stutters

LEMMA DecXchgImplements ==
  ASSUME IInv, NEW t \in Thread, DecXchg(t)
  PROVE  Abstract!Take(t) \/ Stutters
<1>1. CASE old[t] > 0 /\ Swap(t, old[t] - 1) /\ Answer(t, "ok")
  BY <1>1, TakeImplements DEF DecXchg
<1>2. CASE old[t] = 0 /\ Swap(t, -1) /\ Goto(t, "futex") /\ UNCHANGED ret
  <2>1. OthersStay(t) /\ AbsValue' = AbsValue
    BY <1>2 DEF OthersStay, Swap, Goto, AbsValue, IInv, TypeOK
  <2>2. AbsCall(t)' = AbsCall(t)
    BY <1>2 DEF DecXchg, Swap, Goto, AbsCall, IInv, TypeOK
  <2> QED BY <2>1, <2>2, AbsStays DEF Stutters
<1>3. CASE Retry(t, "dec")
  BY <1>3, RetryStutters DEF DecXchg
<1> QED BY <1>1, <1>2, <1>3 DEF DecXchg

(* A thread that sleeps, or goes to sleep, gives up or goes on. *)
LEMMA WaitImplements ==
  ASSUME IInv, NEW t \in Thread,
         \/ Clock(t) \/ DecLoad(t) \/ FutexWait(t) \/ Interrupt(t) \/ Timeout(t)
  PROVE  Abstract!GiveUp(t) \/ Stutters
<1>1. OthersStay(t) /\ AbsValue' = AbsValue /\ AbsCall(t) = op[t]
  BY DEF OthersStay, Clock, DecLoad, FutexWait, Interrupt, Timeout, Goto,
         Answer, AbsValue, AbsCall, IInv, TypeOK
<1>2. CASE pc'[t] # "return"
  <2>1. AbsCall(t)' = AbsCall(t)
    BY <1>2, <1>1 DEF Clock, DecLoad, FutexWait, Interrupt, Timeout, Goto,
                      Answer, LoopTop, AbsCall, IInv, TypeOK
  <2> QED BY <2>1, <1>1, AbsStays DEF Stutters
<1>3. CASE pc'[t] = "return"
  <2>1. op[t] = "timedwait" /\ AbsCall(t)' \in {"ETIMEDOUT", "EINTR"}
    BY <1>3 DEF Clock, DecLoad, FutexWait, Interrupt, Timeout, Goto, Answer,
                LoopTop, AbsCall, IInv, TypeOK, OpAt
  <2> QED BY <2>1, <1>1, AbsStep DEF Abstract!GiveUp, AbsCalls
<1> QED BY <1>2, <1>3

LEMMA IncLoadImplements ==
  ASSUME IInv, NEW t \in Thread, IncLoad(t)
  PROVE  Abstract!Overflow(t) \/ Stutters
<1>1. OthersStay(t) /\ AbsValue' = AbsValue /\ AbsCall(t) = "post"
  BY DEF OthersStay, IncLoad, Goto, Answer, AbsValue, AbsCall, IInv, TypeOK, OpAt
<1>2. CASE pc'[t] # "return"
  <2>1. AbsCall(t)' = AbsCall(t)
    BY <1>2, <1>1 DEF IncLoad, Goto, Answer, AbsCall, IInv, TypeOK, OpAt
  <2> QED BY <2>1, <1>1, AbsStays DEF Stutters
<1>3. CASE pc'[t] = "return"
  <2>1. AbsCall(t)' = "EOVERFLOW"
    BY <1>3 DEF IncLoad, Goto, Answer, AbsCall, IInv, TypeOK
  <2>2. AbsValue = SEM_MAX_VALUE
    BY <1>3, SemAssumption DEF IncLoad, Goto, AbsValue, IInv, TypeOK
  <2> QED BY <2>1, <2>2, <1>1, AbsStep DEF Abstract!Overflow, AbsCalls
<1> QED BY <1>2, <1>3

LEMMA IncXchgImplements ==
  ASSUME IInv, NEW t \in Thread, IncXchg(t)
  PROVE  Abstract!Post(t) \/ Stutters
<1>1. CASE Retry(t, "inc")
  BY <1>1, RetryStutters DEF IncXchg
<1>2. CASE ~ Retry(t, "inc")
  <2>1. OthersStay(t) /\ AbsCall(t) = "post" /\ AbsCall(t)' = "ok"
    BY <1>2 DEF OthersStay, IncXchg, Swap, Goto, Answer, AbsCall, IInv, TypeOK,
                OpAt
  <2>2. AbsValue < SEM_MAX_VALUE /\ AbsValue' = AbsValue + 1
    <3>1. old[t] < SEM_MAX_VALUE /\ old[t] \in -1 .. SEM_MAX_VALUE
      BY DEF IncXchg, IInv, TypeOK, OldAt
    <3>2. count = old[t] /\ count' = IF old[t] < 0 THEN 1 ELSE old[t] + 1
      BY <1>2, <3>1 DEF IncXchg, Swap, Goto, Answer
    <3> QED BY <3>1, <3>2, SemAssumption DEF AbsValue
  <2> QED BY <2>1, <2>2, AbsStep DEF Abstract!Post, AbsCalls
<1> QED BY <1>1, <1>2

LEMMA WakeStutters ==
  ASSUME IInv, NEW t \in Thread, FutexWake(t)
  PROVE  Stutters
<1>1. ASSUME NEW u \in Thread PROVE AbsCall(u)' = AbsCall(u)
  BY DEF FutexWake, LoopTop, AbsCall, IInv, TypeOK, RetAt
<1>2. AbsValue' = AbsValue
  BY DEF FutexWake, AbsValue
<1> QED BY <1>1, <1>2 DEF Stutters, AbsCalls

LEMMA ResetImplements ==
  ASSUME IInv, SemDestroy \/ \E v \in 0 .. SEM_MAX_VALUE : SemInit(v)
  PROVE  Abstract!Reset
<1>1. AbsCalls' = AbsCalls /\ \A t \in Thread : AbsCall(t) = "none"
  BY DEF SemDestroy, SemInit, Quiet, AbsCalls, AbsCall
<1>2. AbsValue' \in 0 .. SEM_MAX_VALUE
  BY SemAssumption DEF SemDestroy, SemInit, AbsValue
<1> QED BY <1>1, <1>2 DEF Abstract!Reset, Abstract!Quiet, AbsCalls

(* The count word, the compare-and-exchange loops and the futex calls       *)
(* implement the counting semaphore that the HALs rely on.                  *)
THEOREM ImplementsSem == Spec => Refinement
<1>1. Init => Abstract!Init
  BY SemAssumption DEF Init, Abstract!Init, Abstract!Quiet, AbsCall, AbsValue
<1>2. IInv /\ [Next]_vars => [Abstract!Next]_(Abstract!vars)
  <2> SUFFICES ASSUME IInv, [Next]_vars
               PROVE  Abstract!Next \/ Stutters
    BY DEF Stutters, AbsCalls, Abstract!vars
  <2>1. ASSUME NEW t \in Thread, TrydecXchg(t) PROVE Abstract!Take(t) \/ Stutters
    <3>1. CASE Retry(t, "trydec")
      BY <2>1, <3>1, RetryStutters DEF TrydecXchg
    <3>2. CASE Swap(t, old[t] - 1) /\ Answer(t, "ok")
      BY <2>1, <3>2, TakeImplements DEF TrydecXchg, IInv, OldAt
    <3> QED BY <2>1, <3>1, <3>2 DEF TrydecXchg
  <2>2. ASSUME NEW t \in Thread, Step(t) PROVE Abstract!Next \/ Stutters
    BY <2>1, <2>2, ReturnImplements, TrydecLoadImplements, WaitImplements,
       DecXchgImplements, IncLoadImplements, IncXchgImplements, WakeStutters
       DEF Step, Abstract!Next
  <2>3. ASSUME NEW t \in Thread, NEW o \in Ops, Call(t, o) PROVE Abstract!Next
    BY <2>3, CallImplements DEF Abstract!Next
  <2>4. ASSUME NEW t \in Thread, Interrupt(t) \/ Timeout(t)
        PROVE  Abstract!Next \/ Stutters
    BY <2>4, WaitImplements DEF Abstract!Next
  <2>5. CASE SemDestroy \/ \E v \in 0 .. SEM_MAX_VALUE : SemInit(v)
    BY <2>5, ResetImplements DEF Abstract!Next
  <2>6. CASE UNCHANGED vars
    BY <2>6 DEF vars, Stutters, AbsCalls, AbsCall, AbsValue
  <2> QED BY <2>2, <2>3, <2>4, <2>5, <2>6 DEF Next
<1> QED BY <1>1, <1>2, Invariance, PTL DEF Spec, Refinement, Abstract!Spec
=============================================================================
