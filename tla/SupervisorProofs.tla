-------------------------- MODULE SupervisorProofs --------------------------
(***************************************************************************)
(* The supervisor keeps one instance at a time, within its restart budget, *)
(* answers each reload request once, and publishes the event stream that   *)
(* EventStream promises: for every restart budget, every heartbeat limit   *)
(* and every set of callers of Reload.                                     *)
(***************************************************************************)
EXTENDS Supervisor, TLAPS

-----------------------------------------------------------------------------
(* The inductive invariant.                                                *)

Serving == {"loop", "recv", "reload", "successor"}
Reloading == {"reload", "successor"}

\* An instance in hand has a generation, and a reload's successor a later one.
Generations ==
    /\ pc # "top" /\ pc # "returned" => gen >= 1
    /\ pc \in Serving \cup {"teardown"} => cur >= 1
    /\ pc \in Reloading => cur < gen

\* A heartbeat loop that still runs is below its limit of missed beats.
BeatsLeft == pc \in Serving => missed < Missed

\* Each restart was paid for: only the instance in hand is not yet.
RestartsPaid == streak <= used + (IF pc \in {"top", "sleep"} THEN 0 ELSE 1)

\* The loop runs a request exactly inside a reload, it is no longer in the slot, and a
\* caller that has not offered its request yet is in neither place and has no answer.
RequestsHeld ==
    /\ serving # NoCaller <=> pc \in Reloading
    /\ serving # NoCaller => serving # reloadCh
    /\ \A c \in Callers :
        caller[c] \in {"idle", "offer"} => done[c] = "none" /\ reloadCh # c /\ serving # c

\* The last event published, and the generation it names, at each point of Run.
EventsFollowRun ==
    /\ pc = "top" => kind \in {"none", "Restarting"}
    /\ pc = "spawn" => kind = "Starting" /\ egen = gen
    /\ pc \in Serving => kind = "Ready" /\ egen = cur
    /\ pc \in {"teardown", "crashed"} => kind \in {"Ready", "Unhealthy"} /\ egen = cur
    /\ pc = "teardown" /\ reason = "stop" => kind = "Ready"
    /\ pc = "policy" => kind = "Crashed"
    /\ pc = "gaveup" => kind = "GaveUp"
    /\ pc = "sleep" => kind = "Restarting"

IInv ==
    /\ TypeOK /\ NeverTwoInstances /\ RestartBudget /\ RequestAccounted
    /\ Generations /\ BeatsLeft /\ RestartsPaid /\ RequestsHeld /\ EventsFollowRun

-----------------------------------------------------------------------------
\* Init establishes the invariant: no process, no request, no event.
LEMMA InitIInv == Init => IInv
BY SupervisorAssumption
   DEF Init, IInv, TypeOK, NeverTwoInstances, RestartBudget, RequestAccounted, Generations,
       BeatsLeft, RestartsPaid, RequestsHeld, EventsFollowRun, Serving, Reloading, Kinds

\* A step of Run, one step per action.
LEMMA RunIInv == IInv /\ Run => IInv'
<1> SUFFICES ASSUME IInv, Run PROVE IInv'
    OBVIOUS
<1> USE SupervisorAssumption
    DEF IInv, TypeOK, NeverTwoInstances, RestartBudget, RequestAccounted, Generations,
        BeatsLeft, RestartsPaid, RequestsHeld, EventsFollowRun, Serving, Reloading, Kinds,
        loopVars, callVars, eventVars, Emit
<1>1. CASE Top
    BY <1>1 DEF Top
<1>2. CASE SpawnFails
    BY <1>2 DEF SpawnFails
<1>3. CASE SpawnReady
    BY <1>3 DEF SpawnReady
<1>4. CASE Loop
    BY <1>4 DEF Loop, EndInstance
<1>5. CASE RecvFails
    BY <1>5 DEF RecvFails, EndInstance
<1>6. CASE RecvTimesOut
    BY <1>6 DEF RecvTimesOut
<1>7. CASE RecvOther
    BY <1>7 DEF RecvOther
<1>8. CASE RecvBeat
    BY <1>8 DEF RecvBeat, Classified
<1>9. CASE DeclineReload
    BY <1>9 DEF DeclineReload, Classified
<1>10. CASE BeginReload
    BY <1>10 DEF BeginReload
<1>11. CASE ReloadSpawns
    BY <1>11 DEF ReloadSpawns
<1>12. CASE ReloadCommits
    BY <1>12 DEF ReloadCommits
<1>13. CASE ReloadRollsBack
    BY <1>13 DEF ReloadRollsBack, Classified
<1>14. CASE ReloadGivesUp
    BY <1>14 DEF ReloadGivesUp
<1>15. CASE Teardown
    BY <1>15 DEF Teardown
<1>16. CASE Crashed
    BY <1>16 DEF Crashed
<1>17. CASE Policy
    BY <1>17 DEF Policy, Exhausted
<1>18. CASE GiveUp
    BY <1>18 DEF GiveUp
<1>19. CASE Sleep
    BY <1>19 DEF Sleep
<1>20. QED
    BY <1>1, <1>2, <1>3, <1>4, <1>5, <1>6, <1>7, <1>8, <1>9, <1>10, <1>11, <1>12, <1>13,
       <1>14, <1>15, <1>16, <1>17, <1>18, <1>19 DEF Run, Heard

\* Stop, the routing layer and the callers of Reload keep the invariant at every point of Run.
LEMMA OthersIInv ==
    IInv /\ (Stop \/ NotifyConnLost \/ \E c \in Callers : Offer(c) \/ Await(c) \/ Cancel(c)) => IInv'
<1> USE SupervisorAssumption
    DEF IInv, TypeOK, NeverTwoInstances, RestartBudget, RequestAccounted, Generations,
        BeatsLeft, RestartsPaid, RequestsHeld, EventsFollowRun, Serving, Reloading, Kinds,
        loopVars, callVars, eventVars
<1>1. ASSUME IInv, Stop PROVE IInv'
    BY <1>1 DEF Stop
<1>2. ASSUME IInv, NotifyConnLost PROVE IInv'
    BY <1>2 DEF NotifyConnLost
<1>3. ASSUME IInv, NEW c \in Callers, Offer(c) PROVE IInv'
    BY <1>3 DEF Offer
<1>4. ASSUME IInv, NEW c \in Callers, Await(c) PROVE IInv'
    BY <1>4 DEF Await
<1>5. ASSUME IInv, NEW c \in Callers, Cancel(c) PROVE IInv'
    BY <1>5 DEF Cancel
<1>6. QED
    BY <1>1, <1>2, <1>3, <1>4, <1>5

\* A stuttering step keeps the invariant.
LEMMA StutterIInv == IInv /\ UNCHANGED vars => IInv'
BY DEF IInv, TypeOK, NeverTwoInstances, RestartBudget, RequestAccounted, Generations, BeatsLeft,
       RestartsPaid, RequestsHeld, EventsFollowRun, vars, loopVars, callVars, eventVars

\* The inductive invariant holds in every reachable state.
THEOREM InvariantHolds == Spec => []IInv
<1>1. IInv /\ [Next]_vars => IInv'
    BY RunIInv, OthersIInv, StutterIInv DEF Next
<1>2. QED
    BY InitIInv, <1>1, PTL DEF Spec

\* One process serves and is accounted for (runOneInstance), the restart policy never exceeds its
\* budget (effectiveRestartsUsed), and no reload request is lost or answered twice (serviceReload).
THEOREM OneInstanceAtATime == Spec => []OneInstance
<1>1. IInv => OneInstance
    BY DEF IInv, OneInstance
<1>2. QED
    BY InvariantHolds, <1>1, PTL

-----------------------------------------------------------------------------
(* Supervisor implements EventStream.                                      *)

\* A supervisor that has not run yet has published nothing.
LEMMA InitMaps == Init => Events!Init
BY DEF Init, Events!Init

\* A step of Run publishes the one event that may follow the last, ends the stream, or is
\* invisible in it: one step per action that does either.
LEMMA RunMaps == IInv /\ Run => [Events!Next]_(Events!vars)
<1> SUFFICES ASSUME IInv, Run PROVE [Events!Next]_(Events!vars)
    OBVIOUS
<1> USE DEF IInv, TypeOK, Generations, EventsFollowRun, Serving, Reloading, Events!Kinds, Events!Follows, Events!EndsAfter,
            loopVars, callVars, eventVars, Emit, Events!Next, Events!End, Events!Publish, Events!vars
<1>1. CASE Top
    BY <1>1 DEF Top
<1>2. CASE SpawnFails
    BY <1>2 DEF SpawnFails
<1>3. CASE SpawnReady
    BY <1>3 DEF SpawnReady
<1>4. CASE Loop \/ RecvFails
    BY <1>4 DEF Loop, RecvFails, EndInstance
<1>5. CASE RecvTimesOut
    BY <1>5 DEF RecvTimesOut
<1>6. CASE RecvOther \/ BeginReload \/ ReloadSpawns \/ ReloadGivesUp
    BY <1>6 DEF RecvOther, BeginReload, ReloadSpawns, ReloadGivesUp
<1>7. CASE RecvBeat \/ DeclineReload
    BY <1>7 DEF RecvBeat, DeclineReload, Classified
<1>8. CASE ReloadCommits
    BY <1>8 DEF ReloadCommits
<1>9. CASE ReloadRollsBack
    BY <1>9 DEF ReloadRollsBack, Classified
<1>10. CASE Teardown
    BY <1>10 DEF Teardown
<1>11. CASE Crashed
    BY <1>11 DEF Crashed
<1>12. CASE Policy
    BY <1>12 DEF Policy
<1>13. CASE GiveUp \/ Sleep
    BY <1>13 DEF GiveUp, Sleep
<1>14. QED
    BY <1>1, <1>2, <1>3, <1>4, <1>5, <1>6, <1>7, <1>8, <1>9, <1>10, <1>11, <1>12, <1>13
       DEF Run, Heard

\* Nothing but Run publishes.
LEMMA OthersMap ==
    (Stop \/ NotifyConnLost \/ \E c \in Callers : Offer(c) \/ Await(c) \/ Cancel(c)) \/ UNCHANGED vars
        => UNCHANGED Events!vars
BY DEF Stop, NotifyConnLost, Offer, Await, Cancel, vars, eventVars, Events!vars

\* Whatever crashes, reloads and Stop do to Run, its observers see a stream of EventStream: the
\* kinds in their order, each generation announced before it is named, nothing after the end.
THEOREM EventsAsPromised == Spec => PublishesTheStream
<1>1. IInv /\ [Next]_vars => [Events!Next]_(Events!vars)
    BY RunMaps, OthersMap DEF Next
<1>2. QED
    BY InitMaps, InvariantHolds, <1>1, PTL DEF Spec, PublishesTheStream, Events!Spec
=============================================================================
