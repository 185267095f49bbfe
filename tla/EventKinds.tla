----------------------------- MODULE EventKinds -----------------------------
(***************************************************************************)
(* The supervisor's lifecycle event kinds, their delivery class, and the   *)
(* order in which one supervisor's Run loop publishes them.                *)
(***************************************************************************)

Kinds == {"Starting", "Ready", "Unhealthy", "Crashed", "Restarting", "GaveUp"}

IsCritical(kind) == kind \in {"Unhealthy", "Crashed", "GaveUp"}

\* which kinds the loop may publish after the last one ("none" before the first)
Follows(kind) ==
    [none |-> {"Starting"}, Starting |-> {"Ready", "Crashed"}, Ready |-> {"Ready", "Unhealthy", "Crashed"},
     Unhealthy |-> {"Crashed"}, Crashed |-> {"Restarting", "GaveUp"}, Restarting |-> {"Starting"},
     GaveUp |-> {}][kind]

\* after which kinds Run may return: always after GaveUp, elsewhere only when stopped
EndsAfter == {"none", "Ready", "Crashed", "Restarting", "GaveUp"}

=============================================================================
