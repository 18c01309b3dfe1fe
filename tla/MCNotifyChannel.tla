-------------------------- MODULE MCNotifyChannel --------------------------
(* NotifyChannel on a small instance.  The n-th push carries the n-th       *)
(* notification, so that a duplicate or a swap is visible.                  *)
EXTENDS NotifyChannel

CONSTANT MaxPush            \* bound: pushes explored

MCNotification == 1 .. MaxPush

MCNext ==
    \/ /\ Len(pushed) < MaxPush
       /\ PushBegin(Len(pushed) + 1)
    \/ PushStep
    \/ \E c \in Consumers : PopBegin(c) \/ PopStep(c)

MCSpec == Init /\ [][MCNext]_vars /\ Fairness
=============================================================================
