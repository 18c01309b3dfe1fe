----------------------------- MODULE MCRecovery -----------------------------
(* Recovery on a small instance: a loader whose first word is a value the  *)
(* probes read and whose last one repeats the second, one with a 0, and one *)
(* whose length is not a multiple of 4; MCU images of no, one and two       *)
(* chunks, the last cut off at FILE_MAX_SIZE.                               *)
EXTENDS Recovery

MCLoaders == {[len |-> 12, words |-> <<5, 7, 7>>],
              [len |-> 12, words |-> <<7, 0, 8>>],
              [len |-> 5, words |-> <<5, 6>>]}
=============================================================================
