------------------------------- MODULE MCMpeg -------------------------------
(* Mpeg on a small instance: three-bit bytes, and a buffer in proportion:   *)
(* two reads long, the slack two bytes.                                     *)
EXTENDS Mpeg

CONSTANT MaxFrames          \* bound: frames the unit sends

(* a reported command without parameters; one as long as a frame can be,    *)
(* whose parameters look like a frame of a reported command; one that is    *)
(* not reported, with a HEAD byte                                           *)
MCFrames == {<<HeadOne, HeadTwo, 2, 1, 5>>,
             <<HeadOne, HeadTwo, 7, 2, HeadOne, HeadTwo, 2, 1, 0, 6>>,
             <<HeadOne, HeadTwo, 3, 6, HeadOne, 0>>}

MCNext ==
    \/ Len(sent) < MaxFrames /\ \E f \in Frames : DeviceSends(f)
    \/ ReaderStep \/ ReadFails \/ GetNotification
    \/ \E b \in {0, HeadOne} : LineNoise(b)

MCSpec == Init /\ [][MCNext]_vars
=============================================================================
