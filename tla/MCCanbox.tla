------------------------------ MODULE MCCanbox ------------------------------
(* Canbox on a small instance: two-bit bytes, every constant of the code    *)
(* scaled with them.  Either the box and the senders talk, or the line      *)
(* carries any stream of bytes, the ones no box would send included.        *)
EXTENDS Canbox

CONSTANTS MaxEvents,        \* bound: events the box reports
          MaxCalls,         \* bound: calls of canbox_send_command
          MaxSem,           \* bound: units of sem_command_count under noise
          MaxFrames         \* bound: frames made of noise that pass the checksum

VARIABLE calls

mcvars == <<vars, calls>>

(* one byte of data; an ACK byte and a HEAD byte as data; a HEAD byte as    *)
(* checksum, which with the repeated frame behind it makes a frame that     *)
(* nobody sent                                                              *)
MCEvents == {[type |-> 1, data |-> <<0>>],
             [type |-> 0, data |-> <<AckByte, HeadByte>>],
             [type |-> 0, data |-> <<0>>]}

MCInit == Init /\ calls = 0

(* noise comes in as the read thread sleeps in select with nothing to read *)
Babble ==
    /\ calls = 0 /\ sent = <<>>
    /\ rpc = "select" /\ rx = <<>> /\ tx = <<>>
    /\ sem_command_count < MaxSem /\ Len(queue) < MaxFrames
    /\ \E n \in 1 .. MaxRead : \E bytes \in [1 .. n -> Byte] : LineNoise(bytes)

(* bound: once the line is not clean, a box that is refused goes on only    *)
(* until something is queued, so that frames nobody sent do not pile up     *)
MCNext ==
    \/ /\ calls < MaxCalls /\ ~noise
       /\ \E t \in Senders : canbox_send_command(t)
       /\ calls' = calls + 1
    \/ /\ Len(sent) < MaxEvents /\ ~noise
       /\ \E e \in Events : BoxReport(e)
       /\ UNCHANGED calls
    \/ Babble /\ UNCHANGED calls
    \/ /\ \/ ~noise /\ canbox_get_notification
          \/ \E t \in Threads : WriteStep(t)
          \/ ReaderStep
          \/ ~noise /\ ReadFails
          \/ (box = "refused" => CleanLine \/ delivered \o queue = <<>>) /\ BoxStep
       /\ UNCHANGED calls

MCSpec == MCInit /\ [][MCNext]_mcvars /\ Fairness
=============================================================================
