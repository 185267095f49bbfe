-------------------------- MODULE MCStreamFlow ---------------------------
(* Streams for StreamFlow: a window of two that the sender can exhaust    *)
(* while one send or ack is refused, a window of two shared by fragment   *)
(* trains with two frames in flight, and a window whose ack threshold is  *)
(* above one, so that only the drain mark returns the last unit.          *)
EXTENDS StreamFlow

MCPlans ==
    {[credits |-> 2, messages |-> 3, frags |-> 1, wire |-> 1, faults |-> 1],
     [credits |-> 2, messages |-> 2, frags |-> 2, wire |-> 2, faults |-> 0],
     [credits |-> 3, messages |-> 3, frags |-> 1, wire |-> 1, faults |-> 0]}
==========================================================================
