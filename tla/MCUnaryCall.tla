---------------------------- MODULE MCUnaryCall ----------------------------
(* Instances of UnaryCall: two calls, then one whose context may end, each  *)
(* through a reload, through a crash, and through crashes and restarts.     *)
EXTENDS UnaryCall

CONSTANTS c1, c2

Plan(calls, ends, gens, faults) == [calls |-> calls, ends |-> ends, gens |-> gens, faults |-> faults]

Both == {c1, c2}
One  == {c1}
Any  == One \X {"canceled", "expired"}
AllPlans == {Plan(Both, {}, 2, 0), Plan(Both, Any, 1, 0), Plan(Both, {}, 1, 1),
             Plan(One, Any, 2, 0), Plan(One, Any, 1, 1), Plan(One, {}, 2, 1)}
OnePlan  == {Plan(One, {}, 1, 0)}
=============================================================================
