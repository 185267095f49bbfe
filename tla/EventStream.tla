---------------------------- MODULE EventStream ----------------------------
(***************************************************************************)
(* What a supervisor promises about the events it publishes: their order,  *)
(* the instance generation each one names, and that nothing follows the    *)
(* return of Run.  Supervisor implements it.                               *)
(***************************************************************************)
EXTENDS Naturals, EventKinds

VARIABLES
    kind,   \* the last kind published
    gen,    \* the instance generation it was stamped with
    ended   \* 1: Run has returned

vars == <<kind, gen, ended>>

Init == kind = "none" /\ gen = 0 /\ ended = 0

\* Starting names a generation never used before, and so does a reload's Ready; the rest
\* name the instance already announced
Publish(k) ==
    /\ ended = 0 /\ k \in Follows(kind) /\ kind' = k
    /\ IF k = "Starting" \/ (kind = "Ready" /\ k = "Ready") THEN gen' \in Nat /\ gen' > gen ELSE gen' = gen
    /\ UNCHANGED ended

End == ended = 0 /\ kind \in EndsAfter /\ ended' = 1 /\ UNCHANGED <<kind, gen>>

Next == End \/ \E k \in Kinds : Publish(k)

Spec == Init /\ [][Next]_vars

=============================================================================
