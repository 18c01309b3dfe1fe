------------------------ MODULE NotifyChannelProofs ------------------------
(* Proofs about NotifyChannel for any finite set of consumers and any set   *)
(* of notifications.                                                        *)
EXTENDS NotifyChannel, FiniteSetTheorems, SequenceTheorems, TLAPS

(* The inductive invariant: the accounting of the semaphore needs the mutex *)
(* to be exclusive (a claimed node is removed once), the safety of temp     *)
(* needs both.                                                              *)
IInv == TypeOK /\ MutexHeld /\ SemAccounting /\ NoNullPop

-----------------------------------------------------------------------------
(* Facts on the set of claimants. *)
LEMMA ClaimantsFinite == Claimants \subseteq Consumers /\ IsFiniteSet(Claimants)
<1>1. Claimants \subseteq Consumers
  BY DEF Claimants
<1> QED BY <1>1, FS_Subset, ThreadsAssumption

LEMMA ClaimantsCard == Cardinality(Claimants) \in Nat
BY ClaimantsFinite, FS_CardinalityType

LEMMA ClaimantsAdd ==
  ASSUME NEW c \in Consumers, c \notin Claimants, Claimants' = Claimants \cup {c}
  PROVE  Cardinality(Claimants') = Cardinality(Claimants) + 1
BY ClaimantsFinite, FS_AddElement

LEMMA ClaimantsRemove ==
  ASSUME NEW c \in Consumers, c \in Claimants, Claimants' = Claimants \ {c}
  PROVE  Cardinality(Claimants') = Cardinality(Claimants) - 1
BY ClaimantsFinite, FS_RemoveElement

LEMMA ClaimantsPositive ==
  ASSUME NEW c \in Consumers, c \in Claimants
  PROVE  Cardinality(Claimants) > 0
<1>1. Claimants # {}
  OBVIOUS
<1> QED BY <1>1, ClaimantsFinite, FS_EmptySet, ClaimantsCard

(* A sequence with a positive length has a head. *)
LEMMA NonEmpty ==
  ASSUME NEW S, NEW s \in Seq(S)
  PROVE  /\ Len(s) \in Nat
         /\ Len(s) > 0 <=> s # <<>>
         /\ s # <<>> => /\ Head(s) \in S /\ Tail(s) \in Seq(S)
                        /\ Len(Tail(s)) = Len(s) - 1
OBVIOUS

LEMMA AppendFacts ==
  ASSUME NEW S, NEW s \in Seq(S), NEW e \in S
  PROVE  /\ Append(s, e) \in Seq(S)
         /\ Len(Append(s, e)) = Len(s) + 1
         /\ Append(s, e) # <<>>
         /\ s # <<>> => Head(Append(s, e)) = Head(s)
<1>1. Append(s, e) \in Seq(S) /\ Len(Append(s, e)) = Len(s) + 1
  OBVIOUS
<1>2. Append(s, e) # <<>>
  BY <1>1, NonEmpty
<1>3. s # <<>> => Append(s, e)[1] = s[1]
  OBVIOUS
<1> QED BY <1>1, <1>2, <1>3, HeadTailProperties

(* Moving the head of t to the end of s leaves s \o t as it was. *)
LEMMA MoveHead ==
  ASSUME NEW S, NEW s \in Seq(S), NEW t \in Seq(S), t # <<>>
  PROVE  Append(s, Head(t)) \o Tail(t) = s \o t
OBVIOUS

LEMMA AppendConcat ==
  ASSUME NEW S, NEW s \in Seq(S), NEW t \in Seq(S), NEW e \in S
  PROVE  s \o Append(t, e) = Append(s \o t, e)
OBVIOUS
-----------------------------------------------------------------------------
LEMMA InitIInv == Init => IInv
<1> SUFFICES ASSUME Init PROVE IInv
  OBVIOUS
<1>1. TypeOK
  BY DEF Init, TypeOK, PushPC, PopPC
<1>2. MutexHeld
  BY ThreadsAssumption DEF Init, MutexHeld
<1>3. SemAccounting
  <2>1. Claimants = {}
    BY DEF Init, Claimants
  <2> QED BY <2>1, FS_EmptySet DEF Init, SemAccounting
<1>4. NoNullPop
  BY DEF Init, NoNullPop
<1> QED BY <1>1, <1>2, <1>3, <1>4 DEF IInv

(* Every step keeps the types. *)
LEMMA NextTypeOK == IInv /\ [Next]_vars => TypeOK'
<1> SUFFICES ASSUME IInv, [Next]_vars PROVE TypeOK'
  OBVIOUS
<1> USE DEF IInv, TypeOK, PushPC, PopPC, rvars, cvars
<1>1. ASSUME NEW n \in Notification, PushBegin(n) PROVE TypeOK'
  BY <1>1 DEF PushBegin
<1>2. CASE PushLock
  BY <1>2 DEF PushLock
<1>3. CASE PushInsert
  BY <1>3, AppendFacts DEF PushInsert
<1>4. CASE PushUnlock
  BY <1>4 DEF PushUnlock
<1>5. CASE PushPost
  BY <1>5 DEF PushPost
<1>6. ASSUME NEW c \in Consumers, PopBegin(c) PROVE TypeOK'
  BY <1>6 DEF PopBegin
<1>7. ASSUME NEW c \in Consumers, PopWait(c) PROVE TypeOK'
  BY <1>7 DEF PopWait
<1>8. ASSUME NEW c \in Consumers, PopLock(c) PROVE TypeOK'
  BY <1>8 DEF PopLock
<1>9. ASSUME NEW c \in Consumers, PopFirst(c) PROVE TypeOK'
  BY <1>9, NonEmpty DEF PopFirst
<1>10. ASSUME NEW c \in Consumers, PopRemove(c) PROVE TypeOK'
  <2>1. temp[c] \in Notification
    BY <1>10 DEF PopRemove
  <2> QED BY <1>10, <2>1, NonEmpty, AppendFacts DEF PopRemove
<1>11. ASSUME NEW c \in Consumers, PopUnlock(c) PROVE TypeOK'
  BY <1>11 DEF PopUnlock
<1>12. CASE UNCHANGED vars
  BY <1>12 DEF vars
<1> QED BY <1>1, <1>2, <1>3, <1>4, <1>5, <1>6, <1>7, <1>8, <1>9, <1>10, <1>11, <1>12
        DEF Next, PushStep, PopStep

(* The mutex is exclusive: its owner, and only its owner, is inside. *)
LEMMA NextMutexHeld == IInv /\ [Next]_vars => MutexHeld'
<1> SUFFICES ASSUME IInv, [Next]_vars PROVE MutexHeld'
  OBVIOUS
<1> USE ThreadsAssumption DEF IInv, TypeOK, MutexHeld, PushPC, PopPC, rvars, cvars
<1>1. ASSUME NEW n \in Notification, PushBegin(n) PROVE MutexHeld'
  BY <1>1 DEF PushBegin
<1>2. CASE PushLock
  BY <1>2 DEF PushLock
<1>3. CASE PushInsert
  BY <1>3 DEF PushInsert
<1>4. CASE PushUnlock
  BY <1>4 DEF PushUnlock
<1>5. CASE PushPost
  BY <1>5 DEF PushPost
<1>6. ASSUME NEW c \in Consumers, PopBegin(c) PROVE MutexHeld'
  BY <1>6 DEF PopBegin
<1>7. ASSUME NEW c \in Consumers, PopWait(c) PROVE MutexHeld'
  BY <1>7 DEF PopWait
<1>8. ASSUME NEW c \in Consumers, PopLock(c) PROVE MutexHeld'
  BY <1>8 DEF PopLock
<1>9. ASSUME NEW c \in Consumers, PopFirst(c) PROVE MutexHeld'
  BY <1>9 DEF PopFirst
<1>10. ASSUME NEW c \in Consumers, PopRemove(c) PROVE MutexHeld'
  BY <1>10 DEF PopRemove
<1>11. ASSUME NEW c \in Consumers, PopUnlock(c) PROVE MutexHeld'
  BY <1>11 DEF PopUnlock
<1>12. CASE UNCHANGED vars
  BY <1>12 DEF vars
<1> QED BY <1>1, <1>2, <1>3, <1>4, <1>5, <1>6, <1>7, <1>8, <1>9, <1>10, <1>11, <1>12
        DEF Next, PushStep, PopStep

(* Semaphore, claims and list move together. *)
LEMMA NextSemAccounting == IInv /\ [Next]_vars => SemAccounting'
<1> SUFFICES ASSUME IInv, [Next]_vars PROVE SemAccounting'
  OBVIOUS
<1>a. /\ Cardinality(Claimants) \in Nat
      /\ queue \in Seq(Notification) /\ Len(queue) \in Nat
      /\ sem_count \in Nat /\ SemAccounting /\ pc \in [Consumers -> PopPC]
  BY ClaimantsCard, NonEmpty DEF IInv, TypeOK
<1>b. ASSUME pc' = pc PROVE Claimants' = Claimants
  BY <1>b DEF Claimants
<1>1. ASSUME NEW n \in Notification, PushBegin(n) PROVE SemAccounting'
  BY <1>1, <1>a, <1>b DEF PushBegin, SemAccounting, cvars
<1>2. CASE PushLock
  BY <1>2, <1>a, <1>b DEF PushLock, SemAccounting, cvars
<1>3. CASE PushInsert
  <2>1. node \in Notification
    BY <1>3 DEF PushInsert, IInv, TypeOK
  <2>2. Len(queue') = Len(queue) + 1
    BY <1>3, <1>a, <2>1, AppendFacts DEF PushInsert
  <2> QED BY <1>3, <1>a, <1>b, <2>2 DEF PushInsert, SemAccounting, cvars
<1>4. CASE PushUnlock
  BY <1>4, <1>a, <1>b DEF PushUnlock, SemAccounting, cvars
<1>5. CASE PushPost
  BY <1>5, <1>a, <1>b DEF PushPost, SemAccounting, cvars
<1>6. ASSUME NEW c \in Consumers, PopBegin(c) PROVE SemAccounting'
  <2>1. Claimants' = Claimants
    BY <1>6, <1>a DEF PopBegin, Claimants
  <2> QED BY <1>6, <1>a, <2>1 DEF PopBegin, SemAccounting, rvars
<1>7. ASSUME NEW c \in Consumers, PopWait(c) PROVE SemAccounting'
  <2>1. c \notin Claimants /\ Claimants' = Claimants \cup {c}
    BY <1>7, <1>a DEF PopWait, Claimants
  <2>2. Cardinality(Claimants') = Cardinality(Claimants) + 1
    BY <2>1, ClaimantsAdd
  <2> QED BY <1>7, <1>a, <2>2 DEF PopWait, SemAccounting, rvars
<1>8. ASSUME NEW c \in Consumers, PopLock(c) PROVE SemAccounting'
  <2>1. Claimants' = Claimants
    BY <1>8, <1>a DEF PopLock, Claimants
  <2> QED BY <1>8, <1>a, <2>1 DEF PopLock, SemAccounting, rvars
<1>9. ASSUME NEW c \in Consumers, PopFirst(c) PROVE SemAccounting'
  <2>1. Claimants' = Claimants
    BY <1>9, <1>a DEF PopFirst, Claimants
  <2> QED BY <1>9, <1>a, <2>1 DEF PopFirst, SemAccounting, rvars
<1>10. ASSUME NEW c \in Consumers, PopRemove(c) PROVE SemAccounting'
  <2>1. c \in Claimants /\ Claimants' = Claimants \ {c}
    BY <1>10, <1>a DEF PopRemove, Claimants
  <2>2. Cardinality(Claimants') = Cardinality(Claimants) - 1
    BY <2>1, ClaimantsRemove
  <2>3. Len(queue') = Len(queue) - 1
    BY <1>10, <1>a, NonEmpty DEF PopRemove
  <2> QED BY <1>10, <1>a, <2>2, <2>3, SMTT(30) DEF PopRemove, SemAccounting, rvars
<1>11. ASSUME NEW c \in Consumers, PopUnlock(c) PROVE SemAccounting'
  <2>1. Claimants' = Claimants
    BY <1>11, <1>a DEF PopUnlock, Claimants
  <2> QED BY <1>11, <1>a, <2>1 DEF PopUnlock, SemAccounting, rvars
<1>12. CASE UNCHANGED vars
  BY <1>12, <1>a, <1>b DEF vars, SemAccounting
<1> QED BY <1>1, <1>2, <1>3, <1>4, <1>5, <1>6, <1>7, <1>8, <1>9, <1>10, <1>11, <1>12
        DEF Next, PushStep, PopStep
(* The node a consumer found first is still first when it removes it: the   *)
(* list grows at its tail only, and shrinks only under the mutex.           *)
LEMMA NextNoNullPop == IInv /\ [Next]_vars => NoNullPop'
<1> SUFFICES ASSUME IInv, [Next]_vars PROVE NoNullPop'
  OBVIOUS
<1> USE DEF IInv, TypeOK, NoNullPop
<1>1. ASSUME NEW n \in Notification, PushBegin(n) PROVE NoNullPop'
  BY <1>1 DEF PushBegin, cvars
<1>2. CASE PushLock
  BY <1>2 DEF PushLock, cvars
<1>3. CASE PushInsert
  <2>1. node \in Notification
    BY <1>3 DEF PushInsert
  <2> QED BY <1>3, <2>1, AppendFacts DEF PushInsert, cvars
<1>4. CASE PushUnlock
  BY <1>4 DEF PushUnlock, cvars
<1>5. CASE PushPost
  BY <1>5 DEF PushPost, cvars
<1>6. ASSUME NEW c \in Consumers, PopBegin(c) PROVE NoNullPop'
  BY <1>6 DEF PopBegin
<1>7. ASSUME NEW c \in Consumers, PopWait(c) PROVE NoNullPop'
  BY <1>7 DEF PopWait
<1>8. ASSUME NEW c \in Consumers, PopLock(c) PROVE NoNullPop'
  BY <1>8 DEF PopLock
<1>9. ASSUME NEW c \in Consumers, PopFirst(c) PROVE NoNullPop'
  <2>1. c \in Claimants
    BY <1>9 DEF PopFirst, Claimants
  <2>2. Len(queue) > 0
    BY <2>1, ClaimantsPositive, ClaimantsCard, NonEmpty DEF SemAccounting
  <2>3. queue # <<>> /\ Head(queue) \in Notification
    BY <2>2, NonEmpty
  <2>4. Head(queue) # Null
    BY <2>3, ThreadsAssumption
  <2> QED BY <1>9, <2>3, <2>4 DEF PopFirst
<1>10. ASSUME NEW c \in Consumers, PopRemove(c) PROVE NoNullPop'
  <2>1. \A d \in Consumers : pc[d] = "remove" => d = c
    BY <1>10 DEF PopRemove, MutexHeld
  <2> QED BY <1>10, <2>1 DEF PopRemove
<1>11. ASSUME NEW c \in Consumers, PopUnlock(c) PROVE NoNullPop'
  BY <1>11 DEF PopUnlock
<1>12. CASE UNCHANGED vars
  BY <1>12 DEF vars
<1> QED BY <1>1, <1>2, <1>3, <1>4, <1>5, <1>6, <1>7, <1>8, <1>9, <1>10, <1>11, <1>12
        DEF Next, PushStep, PopStep
-----------------------------------------------------------------------------
(* The invariant holds throughout, for any number of consumers. *)
THEOREM Invariance == Spec => []IInv
<1>1. IInv /\ [Next]_vars => IInv'
  BY NextTypeOK, NextMutexHeld, NextSemAccounting, NextNoNullPop DEF IInv
<1> QED BY InitIInv, <1>1, PTL DEF Spec

(* Push and pop keep every variable within its type. *)
THEOREM TypeCorrect == Spec => []TypeOK
BY Invariance, PTL DEF IInv

(* sem_count, the claims of the consumers that passed sem_wait and the      *)
(* insertion not yet posted add up to the length of the list.               *)
THEOREM SemaphoreAccounts == Spec => []SemAccounting
BY Invariance, PTL DEF IInv

(* pop_xxx_notificaiton never finds the list empty after sem_wait, and      *)
(* removes the node it copied.                                              *)
THEOREM NullPopFree == Spec => []NoNullPop
BY Invariance, PTL DEF IInv

(* Nothing is lost, duplicated or reordered between push and pop. *)
THEOREM DeliveredExactlyOnce == Spec => []ExactlyOnce
<1>1. Init => ExactlyOnce
  BY DEF Init, ExactlyOnce
<1>2. IInv /\ ExactlyOnce /\ [Next]_vars => ExactlyOnce'
  <2> SUFFICES ASSUME IInv, ExactlyOnce, [Next]_vars PROVE ExactlyOnce'
    OBVIOUS
  <2>1. CASE PushInsert
    <3>1. node \in Notification
      BY <2>1 DEF PushInsert, IInv, TypeOK
    <3> QED BY <2>1, <3>1, AppendConcat DEF PushInsert, ExactlyOnce, IInv, TypeOK, cvars
  <2>2. ASSUME NEW c \in Consumers, PopRemove(c) PROVE ExactlyOnce'
    <3>1. queue # <<>> /\ temp[c] = Head(queue)
      BY <2>2 DEF PopRemove, IInv, NoNullPop
    <3> QED BY <2>2, <3>1, MoveHead DEF PopRemove, ExactlyOnce, IInv, TypeOK
  <2>3. CASE UNCHANGED <<queue, delivered, pushed>>
    BY <2>3 DEF ExactlyOnce
  <2> QED BY <2>1, <2>2, <2>3
          DEF Next, PushStep, PopStep, PushBegin, PushLock, PushUnlock, PushPost, PopBegin,
              PopWait, PopLock, PopFirst, PopUnlock, cvars, vars
<1> QED BY <1>1, <1>2, Invariance, PTL DEF Spec

(* The list, the mutex and the semaphore implement the FIFO of NotifyQueue. *)
THEOREM ImplementsQueue == Spec => Refinement
<1>1. Init => Queue!QInit
  BY DEF Init, Queue!QInit
<1>2. IInv /\ [Next]_vars => [Queue!QNext]_(Queue!qvars)
  <2> SUFFICES ASSUME IInv, [Next]_vars PROVE [Queue!QNext]_(Queue!qvars)
    OBVIOUS
  <2>1. CASE PushInsert
    <3>1. node \in Notification
      BY <2>1 DEF PushInsert, IInv, TypeOK
    <3>2. Queue!Push(node)
      BY <2>1 DEF PushInsert, Queue!Push, cvars
    <3> QED BY <3>1, <3>2 DEF Queue!QNext
  <2>2. ASSUME NEW c \in Consumers, PopRemove(c) PROVE Queue!Pop
    <3>1. temp[c] = Head(queue)
      BY <2>2 DEF PopRemove, IInv, NoNullPop
    <3> QED BY <2>2, <3>1 DEF PopRemove, Queue!Pop
  <2>3. CASE UNCHANGED <<queue, delivered>>
    BY <2>3 DEF Queue!qvars
  <2> QED BY <2>1, <2>2, <2>3
          DEF Next, PushStep, PopStep, PushBegin, PushLock, PushUnlock, PushPost, PopBegin,
              PopWait, PopLock, PopFirst, PopUnlock, cvars, vars, Queue!QNext
<1> QED BY <1>1, <1>2, Invariance, PTL DEF Spec, Refinement, Queue!QSpec
=============================================================================
