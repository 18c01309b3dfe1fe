---------------------------- MODULE MCBionicSem ----------------------------
(* BionicSem on a small instance: a thread that waits, one that waits with  *)
(* or without a deadline or not at all, two that post.                      *)
EXTENDS BionicSem

CONSTANTS Waiter, Timed, Poster1, Poster2

MCThread == {Waiter, Timed, Poster1, Poster2}

MCCalls == [t \in MCThread |->
    CASE t = Waiter -> {"wait"}
      [] t = Timed -> {"wait", "timedwait", "trywait"}
      [] OTHER -> {"post"}]
=============================================================================
