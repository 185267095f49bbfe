-------------------------- MODULE MCStreamLife ---------------------------
(* Plans for StreamLife: a healthy connection with acks in flight and a   *)
(* full emitter queue, and a failing one.                                 *)
EXTENDS StreamLife

MCPlans ==
    {[drops |-> 1, failures |-> 0, acks |-> 1],
     [drops |-> 1, failures |-> 1, acks |-> 0]}
==========================================================================
