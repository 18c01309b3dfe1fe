------------------------------- MODULE MCIpod -------------------------------
(* Ipod on a small instance: three-bit bytes.                               *)
EXTENDS Ipod

CONSTANTS MaxFrames,        \* bound: frames the iPod sends
          SendsOn           \* bound: does it send on behind a large packet?

(* a reported command of the general lingo whose checksum is HEAD; one of   *)
(* the extended interface, as long as a frame can be, whose parameters and  *)
(* checksum look like a frame; a kind of change that is not reported; an    *)
(* unknown lingo                                                            *)
SmallFrames == {<<HeadOne, HeadTwo, 3, 0, 2, 4, HeadOne>>,
                <<HeadOne, HeadTwo, 7, 4, 0, 3, HeadOne, HeadTwo, 1, 3, 0>>,
                <<HeadOne, HeadTwo, 4, 4, 0, 6, 2, 0>>,
                <<HeadOne, HeadTwo, 2, 3, 1, 2>>}

(* and one in the large packet format *)
MCFrames == SmallFrames \cup {<<HeadOne, HeadTwo, 0, 0, 2, 0, 2, 4>>}

MCNext ==
    \/ /\ Len(sent) < MaxFrames /\ (LargeSent => SendsOn)
       /\ \E f \in Frames : DeviceSends(f)
    \/ ReaderStep \/ ReadFails \/ GetNotification
    \/ \E b \in {0, HeadOne} : LineNoise(b)

MCSpec == Init /\ [][MCNext]_vars
=============================================================================
