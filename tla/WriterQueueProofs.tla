------------------------- MODULE WriterQueueProofs -------------------------
(***************************************************************************)
(* The writer goroutine accounts for every intent and every slab, tells    *)
(* each caller what became of its frame, and publishes data frames in      *)
(* order: for every set of submissions and every queue, ring, arena and    *)
(* burst bound.                                                            *)
(***************************************************************************)
EXTENDS WriterQueue, FiniteSetTheorems, TLAPS

-----------------------------------------------------------------------------
(* The inductive invariant.                                                *)

InPlace == {"place", "build", "filling", "push"}

\* What the writer has in hand at each point of its turn: a carry inside place or set aside, a
\* staged lifecycle intent only at the start of a burst, and no lead over data outside one.
WriterTurn ==
    /\ carry.s = NoIntent => carry = NoCarry
    /\ carry.built = 0 => carry.slab = 0
    /\ carry.s # NoIntent <=> wpc \in InPlace \/ stuck = 1
    /\ wpc \in {"build", "filling"} => carry.built = 0
    /\ wpc = "push" => carry.built = 1
    /\ wpc = "filling" => carry.s \in Fills
    /\ staged # NoIntent => wpc = "burst" /\ burst = 0
    /\ wpc # "burst" => burst = 0
    /\ streak <= IF wpc = "burst" THEN burst ELSE IF wpc = "data" THEN BurstBound ELSE 0

\* stop closes the barrier only when no enqueue is in flight, and the writer drains after it.
StopOrder ==
    /\ Closed => \A s \in Sends : pc[s] # "select"
    /\ wpc \in {"drain", "stopped"} => stop \in {"join", "done"}

\* A submission has a result exactly when it has returned, and the writer's report is that result.
Results ==
    \A s \in Sends :
        /\ pc[s] = "returned" <=> res[s] # "none"
        /\ res[s] \in {"ok", "failed", "closed"} => done[s] # <<>> /\ done[s][1] = res[s]

\* A data frame is published exactly when it was reported so.
PublishedReported == \A s \in Data : InSeq(s, published) <=> done[s] # <<>> /\ done[s][1] = "ok"

\* The claim/abandon word of a fill: a caller that left has abandoned it; one that is marshalled,
\* built or published was claimed.
FillWord ==
    \A s \in Fills :
        /\ res[s] = "ctx" => fill[s] = "abandoned"
        /\ InSeq(s, published) => fill[s] = "filling"
        /\ carry.s = s /\ (carry.built = 1 \/ wpc = "filling") => fill[s] = "filling"

\* The data queue is the end of what was accepted, the carry is what comes just before it, and
\* what is published came earlier still.
Behind == Len(dataQueue) + (IF carry.s = NoIntent THEN 0 ELSE 1)
AcceptedOnce ==
    /\ \A i, j \in 1 .. Len(accepted) : accepted[i] = accepted[j] => i = j
    /\ \A i \in 1 .. Len(accepted) : pc[accepted[i]] \notin {"unmade", "new", "select"}
QueueIsSuffix ==
    /\ Behind <= Len(accepted)
    /\ \A j \in 1 .. Len(dataQueue) : accepted[Len(accepted) - Len(dataQueue) + j] = dataQueue[j]
    /\ carry.s # NoIntent => accepted[Len(accepted) - Len(dataQueue)] = carry.s
PublishedEarlier ==
    \A i \in 1 .. Len(published) : \A n \in 1 .. Len(accepted) :
        published[i] = accepted[n] => n <= Len(accepted) - Behind

IInv ==
    /\ TypeOK /\ WriterTurn /\ StopOrder /\ Results /\ PublishedReported /\ FillWord
    /\ AcceptedOnce /\ QueueIsSuffix /\ PublishedEarlier
    /\ IntentAccounted /\ StoppedEmpty /\ SlabsAccounted /\ FillOwned /\ DataOrder

-----------------------------------------------------------------------------
\* The lanes: a data submission is a copy or a fill, never a lifecycle one.
LEMMA Lanes ==
    /\ Copies \subseteq Data /\ Fills \subseteq Data /\ Data \subseteq Sends /\ Lifecycles \subseteq Sends
    /\ \A s \in Data : s \notin Lifecycles /\ s # NoIntent /\ (s \in Copies <=> s \notin Fills)
    /\ \A s \in Lifecycles : s \notin Data /\ s \notin Fills /\ s # NoIntent
    /\ \A s \in Sends : s \in Data \/ s \in Lifecycles
BY WriterQueueAssumption DEF Sends, Data

\* The bounds are positive.
LEMMA Bounds ==
    DataDepth \in Nat \ {0} /\ LifecycleDepth \in Nat \ {0} /\ RingCap \in Nat \ {0}
    /\ Slabs \in Nat \ {0} /\ BurstBound \in Nat \ {0}
BY WriterQueueAssumption

\* The intent in hand is a data submission.
LEMMA CarryHeld ==
    ASSUME WriterTypes, WriterTurn
    PROVE  /\ wpc \in InPlace => carry.s \in Data
           /\ carry # NoCarry => carry.s \in Data
BY DEF WriterTypes, WriterTurn

\* The carry once its payload is built, with or without a slab, and when there is none.
LEMMA CarryTypes ==
    ASSUME WriterTypes
    PROVE  /\ NoCarry \in [s : Data \cup {NoIntent}, built : {0, 1}, slab : {0, 1}]
           /\ [carry EXCEPT !.built = 1] \in [s : Data \cup {NoIntent}, built : {0, 1}, slab : {0, 1}]
           /\ [carry EXCEPT !.built = 1, !.slab = 1] \in [s : Data \cup {NoIntent}, built : {0, 1}, slab : {0, 1}]
BY DEF WriterTypes, NoCarry

\* The done channel keeps one more report of the submission, and those of the others.
LEMMA ReportDone ==
    ASSUME SenderTypes, NEW s \in Sends, NEW r \in {"ok", "failed", "closed"}, Report(s, r)
    PROVE  /\ done' \in [Sends -> Seq({"ok", "failed", "closed"})]
           /\ done'[s] = Append(done[s], r) /\ Len(done'[s]) = Len(done[s]) + 1
           /\ \A t \in Sends : t # s => done'[t] = done[t]
<1>1. done[s] \in Seq({"ok", "failed", "closed"})
    BY DEF SenderTypes
<1>2. Append(done[s], r) \in Seq({"ok", "failed", "closed"}) /\ Len(Append(done[s], r)) = Len(done[s]) + 1
    BY <1>1
<1>3. QED
    BY <1>2 DEF SenderTypes, Report

\* What a caller reads from its done channel is one of the writer's reports.
LEMMA ReportRead ==
    ASSUME SenderTypes, NEW s \in Sends, done[s] # <<>>
    PROVE  Head(done[s]) = done[s][1] /\ Head(done[s]) \in {"ok", "failed", "closed"}
<1>1. done[s] \in Seq({"ok", "failed", "closed"})
    BY DEF SenderTypes
<1>2. QED
    BY <1>1

\* Appending a value to a sequence adds that value to what occurs in it.
LEMMA InSeqAppend ==
    ASSUME NEW S, NEW q \in Seq(S), NEW y \in S, NEW x
    PROVE  InSeq(x, Append(q, y)) <=> InSeq(x, q) \/ x = y
<1>1. /\ Len(q) \in Nat /\ Len(Append(q, y)) = Len(q) + 1 /\ Append(q, y)[Len(q) + 1] = y
      /\ \A i \in 1 .. Len(q) : Append(q, y)[i] = q[i]
    OBVIOUS
<1>2. \A i : i \in 1 .. Len(Append(q, y)) <=> i \in 1 .. Len(q) \/ i = Len(q) + 1
    BY <1>1
<1>3. QED
    BY <1>1, <1>2 DEF InSeq

\* A step keeps the types of the submissions: places, results, reports and claim words.
LEMMA NextSenderTypes ==
    ASSUME SenderTypes, QueueTypes, WriterTypes, WriterTurn, [Next]_vars
    PROVE  SenderTypes'
<1> USE DEF SenderTypes, senderVars, queueVars, loopVars, regionVars
<1>1. ASSUME NEW s \in Sends, Enqueue(s) PROVE SenderTypes'
    BY <1>1 DEF Enqueue, Return, Locking, Closed
<1>2. ASSUME NEW s \in Sends, Accept(s) PROVE SenderTypes'
    BY <1>2 DEF Accept, Lane
<1>3. ASSUME NEW s \in Sends, Reported(s) PROVE SenderTypes'
    BY <1>3 DEF Reported, Return
<1>4. ASSUME NEW s \in Sends, GiveUp(s) PROVE SenderTypes'
    BY <1>4 DEF GiveUp, Return, Lane
<1>5. CASE EmitLifecycle
    <2>1. PICK t \in Lifecycles : Report(t, "ok") \/ Report(t, "failed")
        BY <1>5 DEF EmitLifecycle
    <2>2. done' \in [Sends -> Seq({"ok", "failed", "closed"})]
        BY <2>1, Lanes, ReportDone
    <2>3. QED
        BY <1>5, <2>2 DEF EmitLifecycle
<1>6. CASE Place
    <2>1. done' \in [Sends -> Seq({"ok", "failed", "closed"})]
        BY <1>6, CarryHeld, Lanes, ReportDone DEF Place, InPlace, Finish
    <2>2. QED
        BY <1>6, <2>1 DEF Place, placeFrame
<1>7. CASE Build
    <2>1. done' \in [Sends -> Seq({"ok", "failed", "closed"})]
        BY <1>7, CarryHeld, Lanes, ReportDone DEF Build, InPlace, Finish, SetAside
    <2>2. fill' \in [Fills -> {"pending", "filling", "abandoned"}]
        BY <1>7 DEF Build
    <2>3. QED
        BY <1>7, <2>1, <2>2 DEF Build, placeFrame
<1>8. CASE RunFill
    <2>1. done' \in [Sends -> Seq({"ok", "failed", "closed"})]
        BY <1>8, CarryHeld, Lanes, ReportDone DEF RunFill, InPlace, Finish
    <2>2. QED
        BY <1>8, <2>1 DEF RunFill, placeFrame
<1>9. CASE Push
    <2>1. done' \in [Sends -> Seq({"ok", "failed", "closed"})]
        BY <1>9, CarryHeld, Lanes, ReportDone DEF Push, InPlace, Finish, SetAside
    <2>2. QED
        BY <1>9, <2>1 DEF Push, placeFrame
<1>10. CASE Drain
    <2>1. done' \in [Sends -> Seq({"ok", "failed", "closed"})]
        BY <1>10, CarryHeld, Lanes, ReportDone DEF Drain, QueueTypes
    <2>2. QED
        BY <1>10, <2>1 DEF Drain
<1>11. ASSUME NEW s \in Sends, Refuse(s) \/ Withdraw(s) PROVE SenderTypes'
    BY <1>11 DEF Refuse, Return, Shutdown, Withdraw
<1>12. CASE BurstOver \/ DataTurn \/ Check \/ Wake \/ ObserveShutdown \/ StopStep \/ Consume \/
        notePeerProgress \/ Poison \/ Finished \/ UNCHANGED vars
    BY <1>12 DEF BurstOver, DataTurn, Check, Wake, ObserveShutdown, Shutdown, StopStep, Consume,
       notePeerProgress, Poison, Finished, vars
<1>13. QED
    BY <1>1, <1>2, <1>3, <1>4, <1>5, <1>6, <1>7, <1>8, <1>9, <1>10, <1>11, <1>12
       DEF Next, SenderStep, WriterStep

\* A step keeps the types of the queues and of the orders of acceptance and publication.
LEMMA NextQueueTypes ==
    ASSUME QueueTypes, WriterTypes, WriterTurn, [Next]_vars
    PROVE  QueueTypes'
<1> USE DEF QueueTypes, senderVars, queueVars, loopVars, regionVars
<1>1. ASSUME NEW s \in Sends, Accept(s) PROVE QueueTypes'
    <2>1. CASE s \in Data
        <3>1. /\ Len(dataQueue) < DataDepth /\ dataQueue' = Append(dataQueue, s) /\ accepted' = Append(accepted, s)
              /\ UNCHANGED <<lifecycleQueue, published>>
            BY <1>1, <2>1, Lanes DEF Accept, Lane
        <3>2. QED
            BY <2>1, <3>1, Bounds
    <2>2. CASE s \in Lifecycles
        <3>1. /\ Len(lifecycleQueue) < LifecycleDepth /\ lifecycleQueue' = Append(lifecycleQueue, s)
              /\ UNCHANGED <<dataQueue, accepted, published>>
            BY <1>1, <2>2, Lanes DEF Accept, Lane
        <3>2. QED
            BY <2>2, <3>1, Bounds
    <2>3. QED
        BY <2>1, <2>2, Lanes
<1>2. CASE EmitLifecycle
    <2>1. CASE lifecycleQueue # <<>> /\ lifecycleQueue' = Tail(lifecycleQueue)
        BY <1>2, <2>1, Bounds DEF EmitLifecycle
    <2>2. CASE UNCHANGED lifecycleQueue
        BY <1>2, <2>2 DEF EmitLifecycle
    <2>3. QED
        BY <1>2, <2>1, <2>2 DEF EmitLifecycle
<1>3. CASE DataTurn
    <2>1. CASE dataQueue # <<>> /\ dataQueue' = Tail(dataQueue)
        BY <1>3, <2>1, Bounds DEF DataTurn
    <2>2. CASE UNCHANGED dataQueue
        BY <1>3, <2>2 DEF DataTurn
    <2>3. QED
        BY <1>3, <2>1, <2>2 DEF DataTurn
<1>4. CASE Push
    <2>1. CASE published' = Append(published, carry.s)
        BY <1>4, <2>1, CarryHeld DEF Push, InPlace, placeFrame
    <2>2. CASE UNCHANGED published
        BY <1>4, <2>2 DEF Push, placeFrame
    <2>3. QED
        BY <1>4, <2>1, <2>2 DEF Push
<1>5. CASE Wake
    <2>1. CASE lifecycleQueue # <<>> /\ lifecycleQueue' = Tail(lifecycleQueue) /\ UNCHANGED dataQueue
        BY <1>5, <2>1, Bounds DEF Wake
    <2>2. CASE dataQueue # <<>> /\ dataQueue' = Tail(dataQueue) /\ UNCHANGED lifecycleQueue
        BY <1>5, <2>2, Bounds DEF Wake
    <2>3. CASE UNCHANGED queueVars
        BY <1>5, <2>3 DEF Wake
    <2>4. QED
        BY <1>5, <2>1, <2>2, <2>3 DEF Wake
<1>6. CASE Drain
    <2>1. CASE lifecycleQueue # <<>> /\ lifecycleQueue' = Tail(lifecycleQueue) /\ UNCHANGED dataQueue
        BY <1>6, <2>1, Bounds DEF Drain
    <2>2. CASE dataQueue # <<>> /\ dataQueue' = Tail(dataQueue) /\ UNCHANGED lifecycleQueue
        BY <1>6, <2>2, Bounds DEF Drain
    <2>3. CASE UNCHANGED queueVars
        BY <1>6, <2>3 DEF Drain
    <2>4. QED
        BY <1>6, <2>1, <2>2, <2>3 DEF Drain
<1>7. ASSUME NEW s \in Sends, Enqueue(s) \/ Refuse(s) \/ Withdraw(s) \/ Reported(s) \/ GiveUp(s) PROVE QueueTypes'
    BY <1>7 DEF Enqueue, Return, Locking, Closed, Refuse, Shutdown, Withdraw, Reported, GiveUp,
       Lane
<1>8. CASE BurstOver \/ Place \/ Build \/ RunFill \/ Check \/ ObserveShutdown \/ StopStep \/
        Consume \/ notePeerProgress \/ Poison \/ Finished \/ UNCHANGED vars
    BY <1>8 DEF BurstOver, Place, Finish, Report, Abandoned, placeFrame, Build, SetAside,
       Claimable, RunFill, Check, ObserveShutdown, Shutdown, StopStep, Consume, notePeerProgress,
       Poison, Finished, vars
<1>9. QED
    BY <1>1, <1>2, <1>3, <1>4, <1>5, <1>6, <1>7, <1>8
       DEF Next, SenderStep, WriterStep

\* A step keeps the types of the writer goroutine.
LEMMA NextWriterTypes ==
    ASSUME WriterTypes, QueueTypes, [Next]_vars
    PROVE  WriterTypes'
<1> USE DEF WriterTypes, senderVars, queueVars, loopVars, regionVars
<1>1. CASE EmitLifecycle
    BY <1>1, Bounds DEF EmitLifecycle
<1>2. CASE BurstOver
    BY <1>2, Bounds DEF BurstOver
<1>3. CASE DataTurn
    <2>1. CASE dataQueue # <<>> /\ carry' = [NoCarry EXCEPT !.s = Head(dataQueue)]
        BY <1>3, <2>1 DEF DataTurn, QueueTypes, NoCarry
    <2>2. CASE UNCHANGED carry
        BY <1>3, <2>2 DEF DataTurn
    <2>3. QED
        BY <1>3, <2>1, <2>2 DEF DataTurn
<1>4. CASE Place
    BY <1>4, CarryTypes DEF Place, Finish, placeFrame
<1>5. CASE Build
    <2>1. carry' \in {carry, NoCarry, [carry EXCEPT !.built = 1, !.slab = 1], [carry EXCEPT !.built = 1]}
        BY <1>5 DEF Build, Finish, SetAside
    <2>2. carry' \in [s : Data \cup {NoIntent}, built : {0, 1}, slab : {0, 1}]
        BY <2>1, CarryTypes
    <2>3. QED
        BY <1>5, <2>2 DEF Build, Finish, SetAside, placeFrame
<1>6. CASE RunFill
    <2>1. carry' \in {NoCarry, [carry EXCEPT !.built = 1, !.slab = 1]}
        BY <1>6 DEF RunFill, Finish
    <2>2. carry' \in [s : Data \cup {NoIntent}, built : {0, 1}, slab : {0, 1}]
        BY <2>1, CarryTypes
    <2>3. QED
        BY <1>6, <2>2 DEF RunFill, Finish, placeFrame
<1>7. CASE Push
    BY <1>7, CarryTypes DEF Push, Finish, SetAside, placeFrame
<1>8. CASE Check
    BY <1>8 DEF Check
<1>9. CASE Wake
    <2>1. CASE lifecycleQueue # <<>> /\ staged' = Head(lifecycleQueue) /\ UNCHANGED carry
        BY <1>9, <2>1 DEF Wake, QueueTypes
    <2>2. CASE dataQueue # <<>> /\ carry' = [NoCarry EXCEPT !.s = Head(dataQueue)] /\ UNCHANGED staged
        BY <1>9, <2>2 DEF Wake, QueueTypes, NoCarry
    <2>3. CASE UNCHANGED <<carry, staged>>
        BY <1>9, <2>3 DEF Wake
    <2>4. QED
        BY <1>9, <2>1, <2>2, <2>3 DEF Wake
<1>10. CASE ObserveShutdown
    BY <1>10 DEF ObserveShutdown, Shutdown
<1>11. CASE Drain
    BY <1>11, CarryTypes DEF Drain
<1>12. CASE notePeerProgress
    BY <1>12 DEF notePeerProgress
<1>13. ASSUME NEW s \in Sends, Enqueue(s) \/ Accept(s) \/ Refuse(s) \/ Withdraw(s) \/ Reported(s) \/ GiveUp(s) PROVE WriterTypes'
    BY <1>13 DEF Enqueue, Return, Locking, Closed, Accept, Lane, Refuse, Shutdown, Withdraw,
       Reported, GiveUp
<1>14. CASE StopStep \/ Consume \/ Poison \/ Finished \/ UNCHANGED vars
    BY <1>14 DEF StopStep, Consume, Poison, Finished, vars
<1>15. QED
    BY <1>1, <1>2, <1>3, <1>4, <1>5, <1>6, <1>7, <1>8, <1>9, <1>10, <1>11, <1>12, <1>13, <1>14
       DEF Next, SenderStep, WriterStep

\* A step keeps what the writer has in hand in agreement with where it is in its turn.
LEMMA NextWriterTurn ==
    ASSUME WriterTypes, QueueTypes, WriterTurn, [Next]_vars
    PROVE  WriterTurn'
<1> USE DEF WriterTurn, InPlace, senderVars, queueVars, loopVars, regionVars
<1>1. CASE EmitLifecycle
    BY <1>1, Bounds DEF EmitLifecycle, WriterTypes
<1>2. CASE BurstOver
    BY <1>2, Bounds DEF BurstOver, WriterTypes
<1>3. CASE DataTurn
    <2>1. CASE dataQueue # <<>> /\ wpc' = "place" /\ carry' = [NoCarry EXCEPT !.s = Head(dataQueue)]
        <3>1. Head(dataQueue) \in Data
            BY <2>1 DEF QueueTypes
        <3>2. QED
            BY <1>3, <2>1, <3>1, Lanes DEF DataTurn, NoCarry
    <2>2. CASE stuck = 1 /\ wpc' = "place" /\ UNCHANGED carry
        BY <1>3, <2>2 DEF DataTurn
    <2>3. CASE stuck = 0 /\ wpc' = "check" /\ UNCHANGED carry
        BY <1>3, <2>3 DEF DataTurn
    <2>4. QED
        BY <1>3, <2>1, <2>2, <2>3 DEF DataTurn
<1>4. CASE Place
    BY <1>4, Bounds DEF Place, Finish, placeFrame, NoCarry, WriterTypes
<1>5. CASE Build
    <2>1. CASE carry' = NoCarry /\ stuck' = 0 /\ wpc' = next
        BY <1>5, <2>1 DEF Build, placeFrame, WriterTypes, NoCarry
    <2>2. CASE carry' = [carry EXCEPT !.built = 1] /\ wpc' = "push" /\ UNCHANGED stuck
        BY <1>5, <2>2 DEF Build, placeFrame, WriterTypes
    <2>3. CASE carry' = carry /\ stuck' = 1 /\ wpc' = next
        BY <1>5, <2>3 DEF Build, placeFrame, WriterTypes
    <2>4. CASE carry' = [carry EXCEPT !.built = 1, !.slab = 1] /\ wpc' = "push" /\ UNCHANGED stuck
        BY <1>5, <2>4 DEF Build, placeFrame, WriterTypes
    <2>5. CASE carry.s \in Fills /\ wpc' = "filling" /\ UNCHANGED <<carry, stuck>>
        BY <1>5, <2>5 DEF Build, placeFrame
    <2>6. QED
        BY <1>5, <2>1, <2>2, <2>3, <2>4, <2>5 DEF Build, Finish, SetAside
<1>6. CASE RunFill
    <2>1. CASE carry' = [carry EXCEPT !.built = 1, !.slab = 1] /\ wpc' = "push" /\ UNCHANGED stuck
        BY <1>6, <2>1 DEF RunFill, placeFrame, WriterTypes
    <2>2. CASE carry' = NoCarry /\ stuck' = 0 /\ wpc' = next
        BY <1>6, <2>2 DEF RunFill, placeFrame, WriterTypes, NoCarry
    <2>3. QED
        BY <1>6, <2>1, <2>2 DEF RunFill, Finish
<1>7. CASE Push
    <2>1. CASE carry' = NoCarry /\ stuck' = 0 /\ wpc' = next
        BY <1>7, <2>1 DEF Push, placeFrame, WriterTypes, NoCarry
    <2>2. CASE carry' = carry /\ stuck' = 1 /\ wpc' = next
        BY <1>7, <2>2 DEF Push, placeFrame, WriterTypes
    <2>3. QED
        BY <1>7, <2>1, <2>2 DEF Push, Finish, SetAside
<1>8. CASE Check
    BY <1>8 DEF Check
<1>9. CASE Wake
    <2>1. CASE dataQueue # <<>> /\ wpc' = "place" /\ streak' = 0 /\ carry' = [NoCarry EXCEPT !.s = Head(dataQueue)]
               /\ UNCHANGED staged
        <3>1. Head(dataQueue) \in Data
            BY <2>1 DEF QueueTypes
        <3>2. QED
            BY <1>9, <2>1, <3>1, Lanes DEF Wake, NoCarry
    <2>2. CASE wpc' = "burst" /\ UNCHANGED <<carry, streak>>
        BY <1>9, <2>2 DEF Wake
    <2>3. QED
        BY <1>9, <2>1, <2>2 DEF Wake
<1>10. CASE ObserveShutdown
    BY <1>10 DEF ObserveShutdown, Shutdown
<1>11. CASE Drain
    BY <1>11 DEF Drain, NoCarry
<1>12. CASE notePeerProgress
    BY <1>12 DEF notePeerProgress
<1>13. ASSUME NEW s \in Sends, Enqueue(s) \/ Accept(s) \/ Refuse(s) \/ Withdraw(s) \/ Reported(s) \/ GiveUp(s) PROVE WriterTurn'
    BY <1>13 DEF Enqueue, Return, Locking, Closed, Accept, Lane, Refuse, Shutdown, Withdraw,
       Reported, GiveUp
<1>14. CASE StopStep \/ Consume \/ Poison \/ Finished \/ UNCHANGED vars
    BY <1>14 DEF StopStep, Consume, Poison, Finished, vars
<1>15. QED
    BY <1>1, <1>2, <1>3, <1>4, <1>5, <1>6, <1>7, <1>8, <1>9, <1>10, <1>11, <1>12, <1>13, <1>14
       DEF Next, SenderStep, WriterStep

\* A step keeps the order of stop: no enqueue in flight once closed, no drain before the barrier.
LEMMA NextStopOrder ==
    ASSUME SenderTypes, WriterTypes, StopOrder, [Next]_vars
    PROVE  StopOrder'
<1> USE DEF StopOrder, Closed, senderVars, queueVars, loopVars, regionVars
<1>1. ASSUME NEW s \in Sends, Enqueue(s) PROVE StopOrder'
    BY <1>1 DEF Enqueue, Return, SenderTypes
<1>2. ASSUME NEW s \in Sends, Accept(s) PROVE StopOrder'
    BY <1>2 DEF Accept, SenderTypes
<1>3. ASSUME NEW s \in Sends, Refuse(s) PROVE StopOrder'
    BY <1>3 DEF Refuse, Return, SenderTypes
<1>4. ASSUME NEW s \in Sends, Withdraw(s) PROVE StopOrder'
    BY <1>4 DEF Withdraw, Return, SenderTypes
<1>5. ASSUME NEW s \in Sends, Reported(s) PROVE StopOrder'
    BY <1>5 DEF Reported, Return, SenderTypes
<1>6. ASSUME NEW s \in Sends, GiveUp(s) PROVE StopOrder'
    BY <1>6 DEF GiveUp, Return, SenderTypes
<1>7. CASE DataTurn
    BY <1>7 DEF DataTurn
<1>8. CASE Place
    BY <1>8 DEF Place, Finish, placeFrame, WriterTypes
<1>9. CASE Build
    BY <1>9 DEF Build, Finish, SetAside, placeFrame, WriterTypes
<1>10. CASE RunFill
    BY <1>10 DEF RunFill, Finish, placeFrame, WriterTypes
<1>11. CASE Push
    BY <1>11 DEF Push, Finish, SetAside, placeFrame, WriterTypes
<1>12. CASE Check
    BY <1>12 DEF Check
<1>13. CASE Wake
    BY <1>13 DEF Wake
<1>14. CASE ObserveShutdown
    BY <1>14 DEF ObserveShutdown, Shutdown
<1>15. CASE Drain
    BY <1>15 DEF Drain, Report
<1>16. CASE StopStep
    BY <1>16 DEF StopStep
<1>17. CASE EmitLifecycle \/ BurstOver \/ Consume \/ notePeerProgress \/ Poison \/ Finished \/
        UNCHANGED vars
    BY <1>17 DEF EmitLifecycle, Report, BurstOver, Consume, notePeerProgress, Poison, Finished,
       vars
<1>18. QED
    BY <1>1, <1>2, <1>3, <1>4, <1>5, <1>6, <1>7, <1>8, <1>9, <1>10, <1>11, <1>12, <1>13, <1>14,
       <1>15, <1>16, <1>17
       DEF Next, SenderStep, WriterStep

\* A step keeps a stopped writer empty-handed: nothing is enqueued after the barrier.
LEMMA NextStoppedEmpty ==
    ASSUME WriterTypes, StopOrder, StoppedEmpty, [Next]_vars
    PROVE  StoppedEmpty'
<1> USE DEF StoppedEmpty, senderVars, queueVars, loopVars, regionVars
<1>1. ASSUME NEW s \in Sends, Accept(s) PROVE StoppedEmpty'
    BY <1>1 DEF Accept, StopOrder, Closed
<1>2. CASE EmitLifecycle
    BY <1>2 DEF EmitLifecycle, Report
<1>3. CASE BurstOver
    BY <1>3 DEF BurstOver
<1>4. CASE DataTurn
    BY <1>4 DEF DataTurn
<1>5. CASE Place
    BY <1>5 DEF Place, Finish, WriterTypes
<1>6. CASE Build
    BY <1>6 DEF Build, Finish, SetAside, WriterTypes
<1>7. CASE RunFill
    BY <1>7 DEF RunFill, Finish, WriterTypes
<1>8. CASE Push
    BY <1>8 DEF Push, Finish, SetAside, WriterTypes
<1>9. CASE Check
    BY <1>9 DEF Check
<1>10. CASE Wake
    BY <1>10 DEF Wake
<1>11. CASE ObserveShutdown
    BY <1>11 DEF ObserveShutdown, Shutdown
<1>12. CASE Drain
    BY <1>12 DEF Drain, Report
<1>13. CASE notePeerProgress
    BY <1>13 DEF notePeerProgress
<1>14. ASSUME NEW s \in Sends, Enqueue(s) \/ Refuse(s) \/ Withdraw(s) \/ Reported(s) \/ GiveUp(s) PROVE StoppedEmpty'
    BY <1>14 DEF Enqueue, Return, Locking, Closed, Refuse, Shutdown, Withdraw, Reported, GiveUp,
       Lane
<1>15. CASE StopStep \/ Consume \/ Poison \/ Finished \/ UNCHANGED vars
    BY <1>15 DEF StopStep, Consume, Poison, Finished, vars
<1>16. QED
    BY <1>1, <1>2, <1>3, <1>4, <1>5, <1>6, <1>7, <1>8, <1>9, <1>10, <1>11, <1>12, <1>13, <1>14,
       <1>15
       DEF Next, SenderStep, WriterStep

-----------------------------------------------------------------------------
(* The order of the data lane.                                             *)

Order == AcceptedOnce /\ QueueIsSuffix /\ PublishedEarlier /\ DataOrder

\* Nothing moves on the data lane; a submission that was accepted stays so.
LEMMA OrderKeep ==
    ASSUME QueueTypes, Order, carry'.s = carry.s, UNCHANGED <<dataQueue, accepted, published>>,
           \A t \in Sends : pc[t] \notin {"unmade", "new", "select"} => pc'[t] \notin {"unmade", "new", "select"}
    PROVE  Order'
<1>1. AcceptedOnce'
    <2>1. \A i \in 1 .. Len(accepted) : accepted[i] \in Sends
        BY Lanes DEF QueueTypes
    <2>2. QED
        BY <2>1 DEF Order, AcceptedOnce
<1>2. Behind' = Behind
    BY DEF Behind
<1>3. QueueIsSuffix'
    BY <1>2 DEF Order, QueueIsSuffix
<1>4. PublishedEarlier'
    BY <1>2 DEF Order, PublishedEarlier
<1>5. DataOrder'
    BY DEF Order, DataOrder
<1>6. QED
    BY <1>1, <1>3, <1>4, <1>5 DEF Order

\* The writer takes the oldest data intent in hand.
LEMMA OrderTake ==
    ASSUME QueueTypes, Order, carry.s = NoIntent, dataQueue # <<>>,
           carry' = [NoCarry EXCEPT !.s = Head(dataQueue)], dataQueue' = Tail(dataQueue),
           UNCHANGED <<pc, accepted, published>>
    PROVE  Order'
<1>1. /\ Len(dataQueue) \in Nat /\ Len(dataQueue) >= 1 /\ Len(dataQueue') = Len(dataQueue) - 1
      /\ \A j \in 1 .. Len(dataQueue') : dataQueue'[j] = dataQueue[j + 1]
      /\ Head(dataQueue) = dataQueue[1] /\ Head(dataQueue) \in Data
    BY DEF QueueTypes
<1>2. carry'.s = dataQueue[1] /\ carry'.s # NoIntent
    BY <1>1, Lanes DEF NoCarry
<1>3. Behind' = Behind /\ Behind = Len(dataQueue)
    BY <1>1, <1>2 DEF Behind
<1>4. Len(accepted) \in Nat
    BY DEF QueueTypes
<1>5. QueueIsSuffix'
    BY <1>1, <1>2, <1>3, <1>4 DEF Order, QueueIsSuffix
<1>6. QED
    BY <1>3, <1>5 DEF Order, AcceptedOnce, PublishedEarlier, DataOrder

\* The oldest data intent is drained, nothing being in hand.
LEMMA OrderDrain ==
    ASSUME QueueTypes, Order, carry.s = NoIntent, carry'.s = NoIntent, dataQueue # <<>>,
           dataQueue' = Tail(dataQueue), UNCHANGED <<pc, accepted, published>>
    PROVE  Order'
<1>1. /\ Len(dataQueue) \in Nat /\ Len(dataQueue) >= 1 /\ Len(dataQueue') = Len(dataQueue) - 1
      /\ \A j \in 1 .. Len(dataQueue') : dataQueue'[j] = dataQueue[j + 1]
    BY DEF QueueTypes
<1>2. Behind' = Behind - 1 /\ Behind = Len(dataQueue)
    BY <1>1 DEF Behind
<1>3. Len(accepted) \in Nat
    BY DEF QueueTypes
<1>4. QueueIsSuffix'
    BY <1>1, <1>2, <1>3 DEF Order, QueueIsSuffix
<1>5. PublishedEarlier'
    BY <1>1, <1>2, <1>3 DEF Order, PublishedEarlier
<1>6. QED
    BY <1>4, <1>5 DEF Order, AcceptedOnce, DataOrder

\* The carry is finished without being published.
LEMMA OrderDrop ==
    ASSUME QueueTypes, Order, carry.s \in Data, carry' = NoCarry, UNCHANGED <<pc, dataQueue, accepted, published>>
    PROVE  Order'
<1>1. Behind' = Behind - 1 /\ Behind \in Nat /\ carry'.s = NoIntent
    BY Lanes DEF Behind, NoCarry, QueueTypes
<1>2. Len(accepted) \in Nat
    BY DEF QueueTypes
<1>3. QueueIsSuffix'
    BY <1>1, <1>2 DEF Order, QueueIsSuffix
<1>4. PublishedEarlier'
    BY <1>1, <1>2 DEF Order, PublishedEarlier
<1>5. QED
    BY <1>3, <1>4 DEF Order, AcceptedOnce, DataOrder

\* The carry is published: it comes after all that was published and before all that is queued.
LEMMA OrderPublish ==
    ASSUME QueueTypes, Order, carry.s \in Data, carry' = NoCarry, published' = Append(published, carry.s),
           UNCHANGED <<pc, dataQueue, accepted>>
    PROVE  Order'
<1>1. Behind' = Behind - 1 /\ Behind \in Nat /\ carry'.s = NoIntent /\ carry.s # NoIntent
      /\ Behind' = Len(dataQueue)
    BY Lanes DEF Behind, NoCarry, QueueTypes
<1>2. Len(accepted) \in Nat /\ Len(published) \in Nat /\ Len(dataQueue) \in Nat
    BY DEF QueueTypes
<1>3. /\ Len(published') = Len(published) + 1 /\ published'[Len(published) + 1] = carry.s
      /\ \A i \in 1 .. Len(published) : published'[i] = published[i]
    BY DEF QueueTypes
<1>4. QueueIsSuffix'
    BY <1>1, <1>2 DEF Order, QueueIsSuffix
<1>5. ASSUME NEW n \in 1 .. Len(accepted), accepted[n] = carry.s PROVE n = Len(accepted) - Len(dataQueue)
    BY <1>1, <1>2, <1>5 DEF Order, QueueIsSuffix, AcceptedOnce
<1>6. ASSUME NEW i \in 1 .. Len(published), NEW n \in 1 .. Len(accepted), published[i] = accepted[n]
      PROVE  n <= Len(accepted) - Behind
    BY <1>6 DEF Order, PublishedEarlier
<1>7. PublishedEarlier'
    <2> SUFFICES ASSUME NEW i \in 1 .. Len(published'), NEW n \in 1 .. Len(accepted), published'[i] = accepted[n]
                 PROVE  n <= Len(accepted) - Behind'
        BY DEF PublishedEarlier
    <2>1. CASE i = Len(published) + 1
        BY <1>1, <1>2, <1>3, <1>5, <2>1
    <2>2. CASE i \in 1 .. Len(published)
        BY <1>1, <1>2, <1>3, <1>6, <2>2
    <2>3. QED
        BY <1>2, <1>3, <2>1, <2>2
<1>8. DataOrder'
    <2> SUFFICES ASSUME NEW i \in 1 .. Len(published'), NEW j \in 1 .. Len(published'),
                        NEW m \in 1 .. Len(accepted'), NEW n \in 1 .. Len(accepted'),
                        i < j, published'[i] = accepted'[m], published'[j] = accepted'[n]
                 PROVE  m < n
        BY SMTT(60) DEF DataOrder
    <2>1. i \in 1 .. Len(published) /\ published[i] = accepted[m]
        BY <1>2, <1>3
    <2>2. CASE j = Len(published) + 1
        <3>1. n = Len(accepted) - Len(dataQueue)
            BY <1>3, <1>5, <2>2
        <3>2. m <= Len(accepted) - Behind
            BY <1>6, <2>1
        <3>3. QED
            BY <1>1, <1>2, <3>1, <3>2
    <2>3. CASE j \in 1 .. Len(published)
        BY <1>3, <2>1, <2>3 DEF Order, DataOrder
    <2>4. QED
        BY <1>2, <1>3, <2>2, <2>3
<1>9. QED
    BY <1>4, <1>7, <1>8 DEF Order, AcceptedOnce

\* The data queue accepts an intent that was never accepted nor published before.
LEMMA OrderAccept ==
    ASSUME QueueTypes, SenderTypes, Order, NEW s \in Data, pc[s] = "select", pc' = [pc EXCEPT ![s] = "wait"],
           ~InSeq(s, published), dataQueue' = Append(dataQueue, s), accepted' = Append(accepted, s),
           UNCHANGED <<carry, published>>
    PROVE  Order'
<1>1. Len(accepted) \in Nat /\ Len(published) \in Nat /\ Len(dataQueue) \in Nat
    BY DEF QueueTypes
<1>2. /\ Len(accepted') = Len(accepted) + 1 /\ accepted'[Len(accepted) + 1] = s
      /\ \A i \in 1 .. Len(accepted) : accepted'[i] = accepted[i] /\ accepted[i] \in Data
    BY DEF QueueTypes
<1>3. /\ Len(dataQueue') = Len(dataQueue) + 1 /\ dataQueue'[Len(dataQueue) + 1] = s
      /\ \A i \in 1 .. Len(dataQueue) : dataQueue'[i] = dataQueue[i]
    BY DEF QueueTypes
<1>4. \A i \in 1 .. Len(accepted) : accepted[i] # s
    BY DEF Order, AcceptedOnce
<1>5. Behind' = Behind + 1 /\ Behind \in Nat
    BY <1>1, <1>3 DEF Behind
<1>6. AcceptedOnce'
    <2>1. \A i, j \in 1 .. Len(accepted') : accepted'[i] = accepted'[j] => i = j
        BY <1>1, <1>2, <1>4 DEF Order, AcceptedOnce
    <2>2. ASSUME NEW i \in 1 .. Len(accepted') PROVE pc'[accepted'[i]] \notin {"unmade", "new", "select"}
        <3>1. CASE i = Len(accepted) + 1
            BY <1>2, <3>1, Lanes DEF SenderTypes
        <3>2. CASE i \in 1 .. Len(accepted)
            BY <1>2, <1>4, <3>2, Lanes DEF SenderTypes, Order, AcceptedOnce
        <3>3. QED
            BY <1>1, <1>2, <3>1, <3>2
    <2>3. QED
        BY <2>1, <2>2 DEF AcceptedOnce
<1>7. QueueIsSuffix'
    <2>1. Behind' <= Len(accepted')
        BY <1>1, <1>2, <1>5 DEF Order, QueueIsSuffix
    <2>2. ASSUME NEW j \in 1 .. Len(dataQueue')
          PROVE  accepted'[Len(accepted') - Len(dataQueue') + j] = dataQueue'[j]
        <3>1. CASE j = Len(dataQueue) + 1
            BY <1>1, <1>2, <1>3, <3>1
        <3>2. CASE j \in 1 .. Len(dataQueue)
            <4>1. Len(accepted) - Len(dataQueue) + j \in 1 .. Len(accepted)
                BY <1>1, <3>2 DEF Order, QueueIsSuffix, Behind
            <4>2. QED
                BY <1>1, <1>2, <1>3, <3>2, <4>1 DEF Order, QueueIsSuffix
        <3>3. j = Len(dataQueue) + 1 \/ j \in 1 .. Len(dataQueue)
            BY <1>1, <1>3
        <3>4. QED
            BY <3>1, <3>2, <3>3
    <2>3. carry'.s # NoIntent => accepted'[Len(accepted') - Len(dataQueue')] = carry'.s
        BY <1>1, <1>2, <1>3 DEF Order, QueueIsSuffix, Behind
    <2>4. QED
        BY <2>1, <2>2, <2>3 DEF QueueIsSuffix
<1>8. ASSUME NEW i \in 1 .. Len(published), NEW n \in 1 .. Len(accepted'), published[i] = accepted'[n]
      PROVE  n \in 1 .. Len(accepted) /\ published[i] = accepted[n]
    BY <1>1, <1>2, <1>8 DEF InSeq
<1>9. PublishedEarlier'
    BY <1>1, <1>2, <1>5, <1>8 DEF Order, PublishedEarlier
<1>10. DataOrder'
    BY <1>8 DEF Order, DataOrder
<1>11. QED
    BY <1>6, <1>7, <1>9, <1>10 DEF Order

-----------------------------------------------------------------------------
(* Counting the occurrences of a value in a sequence.                      *)

\* A count is a natural number, zero in the empty sequence, and no value outside the
\* sequence's set occurs.
LEMMA CountType ==
    ASSUME NEW S, NEW q \in Seq(S), NEW x
    PROVE  /\ Count(q, x) \in Nat
           /\ q = <<>> => Count(q, x) = 0
           /\ x \notin S => Count(q, x) = 0
           /\ IsFiniteSet({i \in 1 .. Len(q) : q[i] = x})
<1> DEFINE P == {i \in 1 .. Len(q) : q[i] = x}
<1>1. IsFiniteSet(P)
    <2>1. Len(q) \in Nat
        OBVIOUS
    <2>2. QED
        BY <2>1, FS_Interval, FS_Subset, P \subseteq 1 .. Len(q), 1 \in Int, Len(q) \in Int
<1>2. Cardinality(P) \in Nat
    BY <1>1, FS_CardinalityType
<1>3. ASSUME q = <<>> \/ x \notin S PROVE P = {}
    BY <1>3
<1>4. QED
    BY <1>1, <1>2, <1>3, FS_EmptySet DEF Count

\* Appending a value adds one to its own count and nothing to the others.
LEMMA CountAppend ==
    ASSUME NEW S, NEW q \in Seq(S), NEW y \in S, NEW x
    PROVE  Count(Append(q, y), x) = Count(q, x) + (IF y = x THEN 1 ELSE 0)
<1> DEFINE P == {i \in 1 .. Len(q) : q[i] = x}
           R == {i \in 1 .. Len(Append(q, y)) : Append(q, y)[i] = x}
<1>1. IsFiniteSet(P) /\ Cardinality(P) \in Nat
    BY CountType DEF Count
<1>2. R = IF y = x THEN P \cup {Len(q) + 1} ELSE P
    OBVIOUS
<1>3. Len(q) + 1 \notin P
    OBVIOUS
<1>4. Cardinality(P \cup {Len(q) + 1}) = Cardinality(P) + 1
    BY <1>1, <1>3, FS_AddElement
<1>5. Count(Append(q, y), x) = Cardinality(R) /\ Count(q, x) = Cardinality(P)
    BY DEF Count
<1> HIDE DEF P, R
<1>6. QED
    BY <1>1, <1>2, <1>4, <1>5

\* Taking the head off takes one from its own count and nothing from the others.
LEMMA CountTail ==
    ASSUME NEW S, NEW q \in Seq(S), q # <<>>, NEW x
    PROVE  Count(q, x) = Count(Tail(q), x) + (IF Head(q) = x THEN 1 ELSE 0)
<1> DEFINE T == {i \in 1 .. Len(Tail(q)) : Tail(q)[i] = x}
           R == {i \in 2 .. Len(q) : q[i] = x}
           P == {i \in 1 .. Len(q) : q[i] = x}
           f == [i \in T |-> i + 1]
<1>1. Len(q) \in Nat \ {0} /\ Tail(q) \in Seq(S) /\ Len(Tail(q)) = Len(q) - 1
      /\ \A i \in 1 .. Len(Tail(q)) : Tail(q)[i] = q[i + 1]
    OBVIOUS
<1>2. IsFiniteSet(T) /\ Cardinality(T) \in Nat
    <2>1. Tail(q) \in Seq(S)
        BY <1>1
    <2>2. IsFiniteSet({i \in 1 .. Len(Tail(q)) : Tail(q)[i] = x}) /\ Count(Tail(q), x) \in Nat
        BY <2>1, CountType
    <2>3. QED
        BY <2>2 DEF Count
<1>3. f \in Bijection(T, R)
    <2>1. \A i \in T : i \in Nat /\ i + 1 \in R
        BY <1>1
    <2>2. \A j \in R : j - 1 \in T
        BY <1>1
    <2>3. f \in [T -> R]
        BY <2>1
    <2>4. \A i, j \in T : f[i] = f[j] => i = j
        BY <2>1
    <2>5. \A j \in R : j - 1 \in T /\ f[j - 1] = j
        BY <2>2
    <2> HIDE DEF f, T, R
    <2>6. QED
        BY <2>3, <2>4, <2>5 DEF Bijection, Injection, Surjection, IsInjective
<1>4. IsFiniteSet(R) /\ Cardinality(R) = Cardinality(T)
    BY <1>2, <1>3, FS_Bijection DEF ExistsBijection
<1>5. P = IF Head(q) = x THEN R \cup {1} ELSE R
    BY <1>1
<1>6. 1 \notin R
    OBVIOUS
<1>7. Cardinality(R \cup {1}) = Cardinality(R) + 1
    BY <1>4, <1>6, FS_AddElement
<1>8. Count(q, x) = Cardinality(P) /\ Count(Tail(q), x) = Cardinality(T)
    BY DEF Count
<1> HIDE DEF P, R, T
<1>9. QED
    BY <1>2, <1>4, <1>5, <1>7, <1>8

\* Init establishes the invariant: nothing is queued, in hand, published or allocated.
LEMMA InitIInv == Init => IInv
<1> SUFFICES ASSUME Init PROVE IInv
    OBVIOUS
<1> USE Lanes, Bounds DEF Init
<1>1. ASSUME NEW x PROVE Count(<<>>, x) = 0
    BY CountType, <<>> \in Seq({})
<1>2. TypeOK /\ WriterTurn /\ StopOrder /\ Results
    BY WriterQueueAssumption
       DEF TypeOK, SenderTypes, QueueTypes, WriterTypes, RegionTypes, WriterTurn, StopOrder, Results,
           NoCarry, InPlace, Closed
<1>3. PublishedReported /\ FillWord /\ AcceptedOnce /\ QueueIsSuffix /\ PublishedEarlier
    BY DEF PublishedReported, FillWord, AcceptedOnce, QueueIsSuffix, PublishedEarlier, Behind, InSeq, NoCarry
<1>4. IntentAccounted /\ StoppedEmpty /\ SlabsAccounted /\ FillOwned /\ DataOrder
    BY <1>1, WriterQueueAssumption DEF IntentAccounted, StoppedEmpty, SlabsAccounted, FillOwned, DataOrder, Queued, InHand, NoCarry
<1>5. QED
    BY <1>2, <1>3, <1>4 DEF IInv

\* A step keeps the types of the ring, the arena and stop.
LEMMA NextRegionTypes ==
    ASSUME RegionTypes, WriterTypes, SlabsAccounted, [Next]_vars
    PROVE  RegionTypes'
<1> USE DEF RegionTypes, senderVars, queueVars, loopVars, regionVars
<1>c. Count(ring, 1) \in Nat /\ carry.slab \in {0, 1} /\ Slabs \in Nat
    BY CountType, Bounds DEF WriterTypes
<1>1. CASE EmitLifecycle
    BY <1>1, Bounds DEF EmitLifecycle
<1>2. CASE Place
    BY <1>c, <1>2 DEF Place, Finish, SlabsAccounted, placeFrame
<1>3. CASE Build
    <2>1. passed <= used
        BY <1>c, <1>3 DEF Build, SlabsAccounted
    <2>2. used' \in 0 .. Slabs /\ passed' \in 0 .. Slabs
        BY <1>c, <2>1, Bounds, <1>3 DEF Build, Finish
    <2>3. QED
        BY <2>2, <1>3 DEF Build, placeFrame
<1>4. CASE RunFill
    BY <1>c, <1>4 DEF RunFill, Finish, SlabsAccounted, placeFrame
<1>5. CASE Push
    <2>1. used' \in 0 .. Slabs
        BY <1>c, <1>5 DEF Push, Finish, SetAside, SlabsAccounted
    <2>2. ring' \in Seq({0, 1}) /\ Len(ring') <= RingCap
        <3>1. CASE Len(ring) < RingCap /\ ring' = Append(ring, carry.slab)
            BY <3>1, <1>c, Bounds
        <3>2. QED
            BY <3>1, <1>5 DEF Push
    <2>3. QED
        BY <2>1, <2>2, <1>5 DEF Push, placeFrame
<1>6. CASE Drain
    BY <1>c, <1>6 DEF Drain, SlabsAccounted
<1>7. CASE StopStep
    BY <1>7 DEF StopStep
<1>8. CASE Consume
    <2>1. ring' \in Seq({0, 1}) /\ Len(ring') <= RingCap /\ Head(ring) \in {0, 1}
        BY <1>8, Bounds DEF Consume
    <2>2. Count(ring, 1) = Count(Tail(ring), 1) + (IF Head(ring) = 1 THEN 1 ELSE 0)
        BY <1>8, CountTail DEF Consume
    <2>3. Count(Tail(ring), 1) \in Nat
        BY <2>1, <1>8, CountType DEF Consume
    <2>4. passed + Head(ring) <= used
        BY <1>c, <2>1, <2>2, <2>3 DEF SlabsAccounted
    <2>5. QED
        BY <1>c, <2>1, <2>4, <1>8 DEF Consume
<1>9. CASE Poison
    BY <1>9 DEF Poison
<1>10. ASSUME NEW s \in Sends, Enqueue(s) \/ Accept(s) \/ Refuse(s) \/ Withdraw(s) \/ Reported(s) \/ GiveUp(s) PROVE RegionTypes'
    BY <1>10 DEF Enqueue, Return, Locking, Closed, Accept, Lane, Refuse, Shutdown, Withdraw,
       Reported, GiveUp
<1>11. CASE BurstOver \/ DataTurn \/ Check \/ Wake \/ ObserveShutdown \/ notePeerProgress \/
        Finished \/ UNCHANGED vars
    BY <1>11 DEF BurstOver, DataTurn, Check, Wake, ObserveShutdown, Shutdown, notePeerProgress,
       Finished, vars
<1>12. QED
    BY <1>1, <1>2, <1>3, <1>4, <1>5, <1>6, <1>7, <1>8, <1>9, <1>10, <1>11
       DEF Next, SenderStep, WriterStep

\* A step loses no slab: Alloc, Push, the peer's consumption, reclaim and every exit of place.
LEMMA NextSlabsAccounted ==
    ASSUME RegionTypes, WriterTypes, WriterTurn, SlabsAccounted, [Next]_vars
    PROVE  SlabsAccounted'
<1> USE DEF SlabsAccounted, senderVars, queueVars, loopVars, regionVars
<1>r. ring \in Seq({0, 1}) /\ used \in Nat /\ passed \in Nat
    BY Bounds DEF RegionTypes
<1>c. Count(ring, 1) \in Nat /\ carry.slab \in {0, 1} /\ used \in Nat /\ passed \in Nat
    BY <1>r, CountType DEF WriterTypes
<1>1. CASE EmitLifecycle
    <2>1. Count(ring', 1) = Count(ring, 1)
        <3>1. CASE ring' = Append(ring, 0)
            BY <1>r, <1>c, <3>1, CountAppend
        <3>2. QED
            BY <3>1, <1>1 DEF EmitLifecycle
    <2>2. QED
        BY <1>1, <2>1 DEF EmitLifecycle
<1>2. CASE BurstOver
    BY <1>2 DEF BurstOver
<1>3. CASE DataTurn
    <2>1. carry.slab = 0 \/ UNCHANGED carry
        BY <1>3 DEF DataTurn, WriterTurn, NoCarry, InPlace
    <2>2. carry'.slab = carry.slab
        BY <1>3, <2>1 DEF DataTurn, NoCarry
    <2>3. QED
        BY <1>3, <2>2 DEF DataTurn
<1>4. CASE Place
    BY <1>c, <1>4, Bounds DEF Place, Finish, NoCarry, WriterTypes
<1>5. CASE Build
    <2>1. used = passed + Count(ring, 1) /\ carry.slab = 0
        BY <1>c, <1>5 DEF Build, WriterTurn
    <2>2. CASE carry' = NoCarry /\ wpc' = next
        BY <1>c, <2>1, <2>2, <1>5 DEF Build, Finish, NoCarry, WriterTypes
    <2>3. CASE carry' = [carry EXCEPT !.built = 1] /\ wpc' = "push" /\ UNCHANGED <<used, passed>>
        BY <1>c, <2>1, <2>3, <1>5 DEF Build, WriterTypes
    <2>4. CASE carry' = carry /\ wpc' = next /\ used' = used - passed /\ passed' = 0
        BY <1>c, <2>1, <2>4, <1>5 DEF Build, WriterTypes
    <2>5. CASE carry' = [carry EXCEPT !.built = 1, !.slab = 1] /\ wpc' = "push" /\ used' = used - passed + 1 /\ passed' = 0
        BY <1>c, <2>1, <2>5, <1>5 DEF Build, WriterTypes
    <2>6. CASE carry' = carry /\ wpc' = "filling" /\ used' = used - passed + 1 /\ passed' = 0
        BY <1>c, <2>1, <2>6, <1>5 DEF Build
    <2>7. QED
        BY <1>5, <2>2, <2>3, <2>4, <2>5, <2>6 DEF Build, Finish, SetAside
<1>6. CASE RunFill
    <2>1. CASE carry' = [carry EXCEPT !.built = 1, !.slab = 1] /\ wpc' = "push" /\ UNCHANGED used
        BY <1>c, <2>1, <1>6 DEF RunFill, WriterTypes
    <2>2. CASE Finish("failed", 1)
        BY <1>c, <2>2, <1>6 DEF RunFill, Finish, NoCarry, WriterTypes
    <2>3. QED
        BY <1>6, <2>1, <2>2 DEF RunFill
<1>7. CASE Push
    <2>1. CASE ring' = Append(ring, carry.slab) /\ Finish("ok", 0)
        <3>1. Count(ring', 1) = Count(ring, 1) + carry.slab
            BY <1>c, <2>1, CountAppend DEF RegionTypes
        <3>2. QED
            BY <1>c, <2>1, <3>1, <1>7 DEF Push, Finish, NoCarry, WriterTypes
    <2>2. CASE UNCHANGED ring /\ Finish("failed", carry.slab)
        BY <1>c, <2>2, <1>7 DEF Push, Finish, NoCarry, WriterTypes
    <2>3. CASE UNCHANGED <<ring, used>> /\ SetAside(carry)
        BY <1>c, <2>3, <1>7 DEF Push, SetAside, WriterTypes
    <2>4. QED
        BY <1>7, <2>1, <2>2, <2>3 DEF Push
<1>8. CASE Check
    BY <1>8 DEF Check
<1>9. CASE Wake
    <2>1. carry.slab = 0 \/ UNCHANGED carry
        BY <1>9 DEF Wake, WriterTurn, NoCarry, InPlace
    <2>2. carry'.slab = carry.slab
        BY <1>9, <2>1 DEF Wake, NoCarry
    <2>3. QED
        BY <1>9, <2>2 DEF Wake
<1>10. CASE ObserveShutdown
    BY <1>10 DEF ObserveShutdown, Shutdown
<1>11. CASE Drain
    BY <1>c, <1>11 DEF Drain, NoCarry, WriterTypes
<1>12. CASE Consume
    <2>1. Count(ring, 1) = Count(Tail(ring), 1) + (IF Head(ring) = 1 THEN 1 ELSE 0)
        BY <1>12, CountTail DEF Consume, RegionTypes
    <2>2. Head(ring) \in {0, 1} /\ Tail(ring) \in Seq({0, 1})
        BY <1>12, <1>r DEF Consume
    <2>3. Count(Tail(ring), 1) \in Nat
        BY <2>2, CountType
    <2>4. QED
        BY <1>c, <2>1, <2>2, <2>3, <1>12 DEF Consume
<1>13. CASE notePeerProgress
    BY <1>13 DEF notePeerProgress
<1>14. ASSUME NEW s \in Sends, Enqueue(s) \/ Accept(s) \/ Refuse(s) \/ Withdraw(s) \/ Reported(s) \/ GiveUp(s) PROVE SlabsAccounted'
    BY <1>14 DEF Enqueue, Return, Locking, Closed, Accept, Lane, Refuse, Shutdown, Withdraw,
       Reported, GiveUp
<1>15. CASE StopStep \/ Poison \/ Finished \/ UNCHANGED vars
    BY <1>15 DEF StopStep, Poison, Finished, vars
<1>16. QED
    BY <1>1, <1>2, <1>3, <1>4, <1>5, <1>6, <1>7, <1>8, <1>9, <1>10, <1>11, <1>12, <1>13, <1>14,
       <1>15
       DEF Next, SenderStep, WriterStep

-----------------------------------------------------------------------------
(* The ledger: where each intent is, and what its caller is told.          *)

Accounts == IntentAccounted /\ Results /\ PublishedReported

\* The numbers the ledger adds up are natural numbers.
LEMMA LedgerTypes ==
    ASSUME SenderTypes, QueueTypes, NEW s \in Sends
    PROVE  /\ Count(dataQueue, s) \in Nat /\ Count(lifecycleQueue, s) \in Nat /\ InHand(s) \in {0, 1, 2}
           /\ done[s] \in Seq({"ok", "failed", "closed"}) /\ Len(done[s]) \in Nat /\ Queued(s) \in Nat
<1>1. Count(dataQueue, s) \in Nat
    BY CountType DEF QueueTypes
<1>2. Count(lifecycleQueue, s) \in Nat
    BY CountType DEF QueueTypes
<1>3. QED
    BY <1>1, <1>2 DEF SenderTypes, InHand, Queued

\* An intent that is queued or in hand was accepted and not reported.
LEMMA Unreported ==
    ASSUME SenderTypes, QueueTypes, IntentAccounted, NEW s \in Sends, InHand(s) + Queued(s) >= 1
    PROVE  /\ done[s] = <<>> /\ InHand(s) + Queued(s) = 1
           /\ pc[s] \notin {"unmade", "new", "select"} /\ res[s] \notin {"refused", "withdrawn"}
<1>1. InHand(s) + Queued(s) + Len(done[s]) =
          IF pc[s] \in {"unmade", "new", "select"} \/ res[s] \in {"refused", "withdrawn"} THEN 0 ELSE 1
    BY LedgerTypes DEF IntentAccounted, Queued
<1>2. InHand(s) + Queued(s) \in Nat /\ Len(done[s]) \in Nat /\ done[s] \in Seq({"ok", "failed", "closed"})
    BY LedgerTypes DEF Queued
<1>3. QED
    BY <1>1, <1>2

\* Accounts stay balanced when each intent is in as many places as before.
LEMMA LedgerShift ==
    ASSUME SenderTypes, QueueTypes, Accounts, UNCHANGED <<pc, res>>,
           \A t \in Sends : (Queued(t) + InHand(t) + Len(done[t]))' = Queued(t) + InHand(t) + Len(done[t])
    PROVE  IntentAccounted'
BY DEF Accounts, IntentAccounted

\* The first report on an intent, which says "ok" exactly when the frame is published with it.
LEMMA FirstReport ==
    ASSUME SenderTypes, QueueTypes, Results, PublishedReported, NEW s \in Sends, done[s] = <<>>,
           NEW r \in {"ok", "failed", "closed"}, Report(s, r), UNCHANGED <<pc, res>>,
           IF s \in Data /\ r = "ok" THEN published' = Append(published, s) ELSE UNCHANGED published
    PROVE  Results' /\ PublishedReported'
<1>1. /\ done'[s] = <<r>>
      /\ \A t \in Sends : t # s => done'[t] = done[t]
    BY ReportDone
<1>2. Results'
    <2> SUFFICES ASSUME NEW t \in Sends
                 PROVE  /\ pc'[t] = "returned" <=> res'[t] # "none"
                        /\ res'[t] \in {"ok", "failed", "closed"} => done'[t] # <<>> /\ done'[t][1] = res'[t]
        BY DEF Results
    <2>1. CASE t = s
        BY <2>1 DEF Results
    <2>2. CASE t # s
        BY <1>1, <2>2 DEF Results
    <2>3. QED
        BY <2>1, <2>2
<1>3. ASSUME NEW t \in Data PROVE InSeq(t, published') <=> InSeq(t, published) \/ (t = s /\ r = "ok")
    <2>1. CASE s \in Data /\ r = "ok"
        <3>1. published \in Seq(Data) /\ published' = Append(published, s)
            BY <2>1 DEF QueueTypes
        <3>2. QED
            BY <2>1, <3>1, InSeqAppend
    <2>2. CASE ~(s \in Data /\ r = "ok")
        BY <2>2, <1>3 DEF InSeq
    <2>3. QED
        BY <2>1, <2>2
<1>4. PublishedReported'
    <2> SUFFICES ASSUME NEW t \in Data
                 PROVE  InSeq(t, published') <=> done'[t] # <<>> /\ done'[t][1] = "ok"
        BY DEF PublishedReported
    <2>1. CASE t = s
        BY <1>1, <1>3, <2>1 DEF PublishedReported
    <2>2. CASE t # s
        BY <1>1, <1>3, <2>2, Lanes DEF PublishedReported
    <2>3. QED
        BY <2>1, <2>2
<1>5. QED
    BY <1>2, <1>4

\* The carry is finished: published, failed or closed.
LEMMA AccountsFinish ==
    ASSUME SenderTypes, QueueTypes, Accounts, carry.s \in Data, NEW r \in {"ok", "failed", "closed"},
           Report(carry.s, r), carry' = NoCarry, UNCHANGED <<pc, res, dataQueue, lifecycleQueue, staged>>,
           IF r = "ok" THEN published' = Append(published, carry.s) ELSE UNCHANGED published
    PROVE  Accounts'
<1>1. carry.s \in Sends /\ NoIntent \notin Sends
    BY Lanes
<1>2. InHand(carry.s) + Queued(carry.s) >= 1
    BY <1>1, LedgerTypes DEF InHand, Queued
<1>3. done[carry.s] = <<>> /\ InHand(carry.s) + Queued(carry.s) = 1
    BY <1>1, <1>2, Unreported DEF Accounts
<1>4. Results' /\ PublishedReported'
    BY <1>1, <1>3, FirstReport DEF Accounts
<1>5. ASSUME NEW t \in Sends
      PROVE  (Queued(t) + InHand(t) + Len(done[t]))' = Queued(t) + InHand(t) + Len(done[t])
    <2>1. CASE t = carry.s
        <3>1. InHand(t)' + 1 = InHand(t) /\ InHand(t)' \in Int /\ Queued(t)' = Queued(t)
            BY <1>1, <2>1 DEF InHand, Queued, NoCarry
        <3>2. Len(done'[t]) = Len(done[t]) + 1
            BY <1>1, <2>1, ReportDone
        <3>3. QED
            BY <3>1, <3>2, LedgerTypes
    <2>2. CASE t # carry.s
        BY <1>1, <2>2, ReportDone DEF Queued, InHand, NoCarry
    <2>3. QED
        BY <2>1, <2>2
<1>6. IntentAccounted'
    BY <1>5, LedgerShift
<1>7. QED
    BY <1>4, <1>6 DEF Accounts

\* Nothing moves: the carry may be built, claimed or set aside.
LEMMA AccountsKeep ==
    ASSUME Accounts, carry'.s = carry.s,
           UNCHANGED <<pc, res, done, dataQueue, lifecycleQueue, staged, published>>
    PROVE  Accounts'
<1>1. IntentAccounted'
    BY DEF Accounts, IntentAccounted, Queued, InHand
<1>2. QED
    BY <1>1 DEF Accounts, Results, PublishedReported

\* The writer takes the oldest data intent in hand.
LEMMA AccountsTake ==
    ASSUME SenderTypes, QueueTypes, Accounts, carry.s = NoIntent, dataQueue # <<>>,
           carry' = [NoCarry EXCEPT !.s = Head(dataQueue)], dataQueue' = Tail(dataQueue),
           UNCHANGED <<pc, res, done, lifecycleQueue, staged, published>>
    PROVE  Accounts'
<1>1. ASSUME NEW t \in Sends
      PROVE  (Queued(t) + InHand(t) + Len(done[t]))' = Queued(t) + InHand(t) + Len(done[t])
    <2>1. Count(dataQueue, t) = Count(dataQueue', t) + (IF Head(dataQueue) = t THEN 1 ELSE 0)
        BY CountTail DEF QueueTypes
    <2>2. Count(dataQueue', t) \in Nat
        BY CountType, dataQueue' \in Seq(Data) DEF QueueTypes
    <2>3. /\ InHand(t)' = InHand(t) + (IF Head(dataQueue) = t THEN 1 ELSE 0)
          /\ InHand(t)' \in Int
        BY Lanes DEF InHand, NoCarry
    <2>4. Queued(t)' = Count(dataQueue', t) + Count(lifecycleQueue, t)
        BY DEF Queued
    <2>5. Queued(t) = Count(dataQueue, t) + Count(lifecycleQueue, t)
        BY DEF Queued
    <2>6. /\ Count(dataQueue, t) \in Int /\ Count(lifecycleQueue, t) \in Int
          /\ InHand(t) \in Int /\ Len(done[t]) \in Int /\ done' = done
        BY LedgerTypes
    <2>7. QED
        BY <2>1, <2>2, <2>3, <2>4, <2>5, <2>6
<1>2. IntentAccounted'
    BY <1>1, LedgerShift
<1>3. QED
    BY <1>2 DEF Accounts, Results, PublishedReported

\* A blocking select stages the oldest lifecycle intent.
LEMMA AccountsStage ==
    ASSUME SenderTypes, QueueTypes, Accounts, staged = NoIntent, lifecycleQueue # <<>>,
           staged' = Head(lifecycleQueue), lifecycleQueue' = Tail(lifecycleQueue),
           UNCHANGED <<pc, res, done, dataQueue, carry, published>>
    PROVE  Accounts'
<1>1. ASSUME NEW t \in Sends
      PROVE  (Queued(t) + InHand(t) + Len(done[t]))' = Queued(t) + InHand(t) + Len(done[t])
    <2>1. Count(lifecycleQueue, t) = Count(lifecycleQueue', t) + (IF Head(lifecycleQueue) = t THEN 1 ELSE 0)
        BY CountTail DEF QueueTypes
    <2>2. Count(lifecycleQueue', t) \in Nat
        BY CountType, lifecycleQueue' \in Seq(Lifecycles) DEF QueueTypes
    <2>3. /\ InHand(t)' = InHand(t) + (IF Head(lifecycleQueue) = t THEN 1 ELSE 0)
          /\ InHand(t)' \in Int
        BY Lanes DEF InHand, NoCarry
    <2>4. Queued(t)' = Count(dataQueue, t) + Count(lifecycleQueue', t)
        BY DEF Queued
    <2>5. Queued(t) = Count(dataQueue, t) + Count(lifecycleQueue, t)
        BY DEF Queued
    <2>6. /\ Count(dataQueue, t) \in Int /\ Count(lifecycleQueue, t) \in Int
          /\ InHand(t) \in Int /\ Len(done[t]) \in Int /\ done' = done
        BY LedgerTypes
    <2>7. QED
        BY <2>1, <2>2, <2>3, <2>4, <2>5, <2>6
<1>2. IntentAccounted'
    BY <1>1, LedgerShift
<1>3. QED
    BY <1>2 DEF Accounts, Results, PublishedReported

\* The staged lifecycle intent is emitted.
LEMMA AccountsEmitStaged ==
    ASSUME SenderTypes, QueueTypes, Accounts, staged \in Lifecycles, staged' = NoIntent,
           NEW r \in {"ok", "failed", "closed"}, Report(staged, r),
           UNCHANGED <<pc, res, carry, dataQueue, lifecycleQueue, published>>
    PROVE  Accounts'
<1>1. staged \in Sends /\ staged \notin Data /\ NoIntent \notin Sends
    BY Lanes
<1>2. InHand(staged) + Queued(staged) >= 1
    BY <1>1, LedgerTypes DEF InHand
<1>3. done[staged] = <<>>
    BY <1>1, <1>2, Unreported DEF Accounts
<1>4. Results' /\ PublishedReported'
    BY <1>1, <1>3, FirstReport DEF Accounts
<1>5. ASSUME NEW t \in Sends
      PROVE  (Queued(t) + InHand(t) + Len(done[t]))' = Queued(t) + InHand(t) + Len(done[t])
    <2>1. CASE t = staged
        <3>1. InHand(t)' + 1 = InHand(t) /\ InHand(t)' \in Int /\ Queued(t)' = Queued(t)
            BY <1>1, <2>1 DEF InHand, Queued
        <3>2. Len(done'[t]) = Len(done[t]) + 1
            BY <1>1, <2>1, ReportDone
        <3>3. QED
            BY <3>1, <3>2, LedgerTypes
    <2>2. CASE t # staged
        BY <1>1, <2>2, ReportDone DEF Queued, InHand
    <2>3. QED
        BY <2>1, <2>2
<1>6. IntentAccounted'
    BY <1>5, LedgerShift
<1>7. QED
    BY <1>4, <1>6 DEF Accounts

\* The oldest lifecycle intent is emitted from its queue, or drained.
LEMMA AccountsEmitQueued ==
    ASSUME SenderTypes, QueueTypes, Accounts, lifecycleQueue # <<>>, lifecycleQueue' = Tail(lifecycleQueue),
           NEW r \in {"ok", "failed", "closed"}, Report(Head(lifecycleQueue), r),
           carry'.s = carry.s, UNCHANGED <<pc, res, staged, dataQueue, published>>
    PROVE  Accounts'
<1> DEFINE h == Head(lifecycleQueue)
<1>1. h \in Lifecycles
    BY DEF QueueTypes
<1> HIDE DEF h
<1>2. h \in Sends /\ h \notin Data
    BY <1>1, Lanes
<1>3. ASSUME NEW t \in Sends
      PROVE  /\ Count(lifecycleQueue, t) = Count(lifecycleQueue', t) + (IF h = t THEN 1 ELSE 0)
             /\ Count(lifecycleQueue', t) \in Nat
    BY CountTail, CountType, lifecycleQueue' \in Seq(Lifecycles) DEF QueueTypes, h
<1>4. InHand(h) + Queued(h) >= 1
    BY <1>2, <1>3, LedgerTypes DEF Queued
<1>5. done[h] = <<>>
    BY <1>2, <1>4, Unreported DEF Accounts
<1>6. Report(h, r)
    BY DEF h
<1>7. Results' /\ PublishedReported'
    BY <1>2, <1>5, <1>6, FirstReport DEF Accounts
<1>8. ASSUME NEW t \in Sends
      PROVE  (Queued(t) + InHand(t) + Len(done[t]))' = Queued(t) + InHand(t) + Len(done[t])
    <2>1. InHand(t)' = InHand(t)
        BY DEF InHand
    <2>2. /\ Queued(t) = Count(dataQueue, t) + Count(lifecycleQueue, t)
          /\ Queued(t)' = Count(dataQueue, t) + Count(lifecycleQueue', t)
        BY DEF Queued
    <2>3. Len(done'[t]) = Len(done[t]) + (IF h = t THEN 1 ELSE 0)
        <3>1. CASE h = t
            BY <1>6, <3>1, ReportDone
        <3>2. CASE h # t
            BY <1>2, <1>6, <3>2, ReportDone, LedgerTypes
        <3>3. QED
            BY <3>1, <3>2
    <2>4. /\ Count(dataQueue, t) \in Int /\ Count(lifecycleQueue, t) \in Int
          /\ InHand(t) \in Int /\ Len(done[t]) \in Int
        BY LedgerTypes
    <2>5. /\ Count(lifecycleQueue, t) = Count(lifecycleQueue', t) + (IF h = t THEN 1 ELSE 0)
          /\ Count(lifecycleQueue', t) \in Nat
        BY <1>3
    <2>6. CASE h = t
        BY <2>1, <2>2, <2>3, <2>4, <2>5, <2>6
    <2>7. CASE h # t
        BY <2>1, <2>2, <2>3, <2>4, <2>5, <2>7
    <2>8. QED
        BY <2>6, <2>7
<1>9. IntentAccounted'
    BY <1>8, LedgerShift
<1>10. QED
    BY <1>7, <1>9 DEF Accounts

\* The oldest data intent is drained.
LEMMA AccountsDrainData ==
    ASSUME SenderTypes, QueueTypes, Accounts, dataQueue # <<>>, dataQueue' = Tail(dataQueue),
           Report(Head(dataQueue), "closed"),
           carry'.s = carry.s, UNCHANGED <<pc, res, staged, lifecycleQueue, published>>
    PROVE  Accounts'
<1> DEFINE h == Head(dataQueue)
<1>1. h \in Data
    BY DEF QueueTypes
<1> HIDE DEF h
<1>2. h \in Sends
    BY <1>1, Lanes
<1>3. ASSUME NEW t \in Sends
      PROVE  /\ Count(dataQueue, t) = Count(dataQueue', t) + (IF h = t THEN 1 ELSE 0)
             /\ Count(dataQueue', t) \in Nat
    BY CountTail, CountType, dataQueue' \in Seq(Data) DEF QueueTypes, h
<1>4. InHand(h) + Queued(h) >= 1
    BY <1>2, <1>3, LedgerTypes DEF Queued
<1>5. done[h] = <<>>
    BY <1>2, <1>4, Unreported DEF Accounts
<1>6. Report(h, "closed")
    BY DEF h
<1>7. Results' /\ PublishedReported'
    BY <1>2, <1>5, <1>6, FirstReport DEF Accounts
<1>8. ASSUME NEW t \in Sends
      PROVE  (Queued(t) + InHand(t) + Len(done[t]))' = Queued(t) + InHand(t) + Len(done[t])
    <2>1. InHand(t)' = InHand(t)
        BY DEF InHand
    <2>2. /\ Queued(t) = Count(dataQueue, t) + Count(lifecycleQueue, t)
          /\ Queued(t)' = Count(dataQueue', t) + Count(lifecycleQueue, t)
        BY DEF Queued
    <2>3. Len(done'[t]) = Len(done[t]) + (IF h = t THEN 1 ELSE 0)
        <3>1. CASE h = t
            BY <1>6, <3>1, ReportDone
        <3>2. CASE h # t
            BY <1>2, <1>6, <3>2, ReportDone, LedgerTypes
        <3>3. QED
            BY <3>1, <3>2
    <2>4. /\ Count(dataQueue, t) \in Int /\ Count(lifecycleQueue, t) \in Int
          /\ InHand(t) \in Int /\ Len(done[t]) \in Int
        BY LedgerTypes
    <2>5. /\ Count(dataQueue, t) = Count(dataQueue', t) + (IF h = t THEN 1 ELSE 0)
          /\ Count(dataQueue', t) \in Nat
        BY <1>3
    <2>6. CASE h = t
        BY <2>1, <2>2, <2>3, <2>4, <2>5, <2>6
    <2>7. CASE h # t
        BY <2>1, <2>2, <2>3, <2>4, <2>5, <2>7
    <2>8. QED
        BY <2>6, <2>7
<1>9. IntentAccounted'
    BY <1>8, LedgerShift
<1>10. QED
    BY <1>7, <1>9 DEF Accounts

\* A submission moves on without a queue or the writer: refused, withdrawn, told, or gone.
LEMMA AccountsSubmission ==
    ASSUME SenderTypes, Accounts, NEW s \in Sends,
           UNCHANGED <<done, dataQueue, lifecycleQueue, carry, staged, published>>,
           \A t \in Sends : t # s => pc'[t] = pc[t] /\ res'[t] = res[t],
           pc'[s] = "returned" <=> res'[s] # "none",
           res'[s] \in {"ok", "failed", "closed"} => done[s] # <<>> /\ done[s][1] = res'[s],
           (pc[s] \in {"unmade", "new", "select"} \/ res[s] \in {"refused", "withdrawn"}) <=>
               (pc'[s] \in {"unmade", "new", "select"} \/ res'[s] \in {"refused", "withdrawn"})
    PROVE  Accounts'
<1>1. ASSUME NEW t \in Sends PROVE Queued(t)' = Queued(t) /\ InHand(t)' = InHand(t)
    BY DEF Queued, InHand
<1>2. IntentAccounted'
    BY <1>1 DEF IntentAccounted, Accounts
<1>3. Results'
    BY DEF Results, Accounts
<1>4. QED
    BY <1>2, <1>3 DEF Accounts, PublishedReported

\* A queue accepts an intent, which is then in that queue and nowhere else.
LEMMA AccountsAccept ==
    ASSUME SenderTypes, QueueTypes, Accounts, NEW s \in Sends, Accept(s)
    PROVE  Accounts'
<1>1. pc[s] = "select" /\ pc' = [pc EXCEPT ![s] = "wait"] /\ UNCHANGED <<res, done, carry, staged, published>>
    BY DEF Accept, loopVars
<1>2. res[s] = "none"
    BY <1>1 DEF Accounts, Results, SenderTypes
<1>3. ASSUME NEW t \in Sends
      PROVE  (Queued(t) + InHand(t) + Len(done[t]))' =
                 Queued(t) + InHand(t) + Len(done[t]) + (IF t = s THEN 1 ELSE 0)
    <2>1. InHand(t)' = InHand(t)
        BY <1>1 DEF InHand
    <2>2. /\ Queued(t) = Count(dataQueue, t) + Count(lifecycleQueue, t)
          /\ Queued(t)' = Count(dataQueue', t) + Count(lifecycleQueue', t)
        BY DEF Queued
    <2>t. /\ Count(dataQueue, t) \in Int /\ Count(lifecycleQueue, t) \in Int
          /\ InHand(t) \in Int /\ Len(done[t]) \in Int /\ done' = done
        BY <1>1, LedgerTypes
    <2>3. CASE Lane(s) = "data" /\ dataQueue' = Append(dataQueue, s) /\ UNCHANGED lifecycleQueue
        <3>1. s \in Data
            BY <2>3, Lanes DEF Lane
        <3>2. Count(dataQueue', t) = Count(dataQueue, t) + (IF s = t THEN 1 ELSE 0)
            BY <2>3, <3>1, CountAppend DEF QueueTypes
        <3>3. QED
            BY <2>1, <2>2, <2>t, <2>3, <3>2
    <2>4. CASE Lane(s) = "lifecycle" /\ lifecycleQueue' = Append(lifecycleQueue, s) /\ UNCHANGED dataQueue
        <3>1. s \in Lifecycles
            BY <2>4, Lanes DEF Lane
        <3>2. Count(lifecycleQueue', t) = Count(lifecycleQueue, t) + (IF s = t THEN 1 ELSE 0)
            BY <2>4, <3>1, CountAppend DEF QueueTypes
        <3>3. QED
            BY <2>1, <2>2, <2>t, <2>4, <3>2
    <2>5. QED
        BY <2>3, <2>4 DEF Accept
<1>4. ASSUME NEW t \in Sends
      PROVE  (Queued(t) + InHand(t) + Len(done[t]))' =
                 IF pc'[t] \in {"unmade", "new", "select"} \/ res'[t] \in {"refused", "withdrawn"} THEN 0 ELSE 1
    <2>1. Queued(t) + InHand(t) + Len(done[t]) =
              IF pc[t] \in {"unmade", "new", "select"} \/ res[t] \in {"refused", "withdrawn"} THEN 0 ELSE 1
        BY DEF Accounts, IntentAccounted
    <2>2. QED
        BY <1>1, <1>2, <1>3, <2>1 DEF SenderTypes
<1>5. IntentAccounted'
    BY <1>4 DEF IntentAccounted
<1>6. QED
    BY <1>1, <1>2, <1>5 DEF Accounts, Results, PublishedReported, SenderTypes

\* A step keeps the accounts: each action is one of the movements above.
LEMMA NextAccounts ==
    ASSUME SenderTypes, QueueTypes, WriterTypes, WriterTurn, Accounts, [Next]_vars
    PROVE  Accounts'
<1> USE DEF senderVars, queueVars, loopVars, regionVars
<1>1. ASSUME NEW s \in Sends, Enqueue(s) PROVE Accounts'
    <2>1. /\ pc[s] = "new" /\ UNCHANGED <<done, dataQueue, lifecycleQueue, carry, staged, published>>
          /\ \A t \in Sends : t # s => pc'[t] = pc[t] /\ res'[t] = res[t]
          /\ \/ pc'[s] = "returned" /\ res'[s] = "refused"
             \/ pc'[s] = "select" /\ res'[s] = res[s]
        BY <1>1 DEF Enqueue, Return, queueVars, loopVars, SenderTypes
    <2>2. res[s] = "none"
        BY <2>1 DEF Results, Accounts, SenderTypes
    <2>3. QED
        BY <2>1, <2>2, AccountsSubmission
<1>2. ASSUME NEW s \in Sends, Accept(s) PROVE Accounts'
    BY <1>2, AccountsAccept
<1>3. ASSUME NEW s \in Sends, Refuse(s) PROVE Accounts'
    <2>1. /\ pc[s] = "select" /\ UNCHANGED <<done, dataQueue, lifecycleQueue, carry, staged, published>>
          /\ \A t \in Sends : t # s => pc'[t] = pc[t] /\ res'[t] = res[t]
          /\ pc'[s] = "returned" /\ res'[s] = "refused"
        BY <1>3 DEF Refuse, Return, queueVars, loopVars, SenderTypes
    <2>2. QED
        BY <2>1, AccountsSubmission
<1>4. ASSUME NEW s \in Sends, Withdraw(s) PROVE Accounts'
    <2>1. /\ pc[s] = "select" /\ UNCHANGED <<done, dataQueue, lifecycleQueue, carry, staged, published>>
          /\ \A t \in Sends : t # s => pc'[t] = pc[t] /\ res'[t] = res[t]
          /\ pc'[s] = "returned" /\ res'[s] = "withdrawn"
        BY <1>4 DEF Withdraw, Return, queueVars, loopVars, SenderTypes
    <2>2. QED
        BY <2>1, AccountsSubmission
<1>5. ASSUME NEW s \in Sends, Reported(s) PROVE Accounts'
    <2>1. /\ pc[s] \in {"wait", "owed"} /\ UNCHANGED <<done, dataQueue, lifecycleQueue, carry, staged, published>>
          /\ \A t \in Sends : t # s => pc'[t] = pc[t] /\ res'[t] = res[t]
          /\ pc'[s] = "returned" /\ res'[s] = Head(done[s]) /\ done[s] # <<>>
        BY <1>5 DEF Reported, Return, queueVars, loopVars, SenderTypes
    <2>2. res[s] = "none"
        BY <2>1 DEF Results, Accounts, SenderTypes
    <2>3. Head(done[s]) = done[s][1] /\ Head(done[s]) \in {"ok", "failed", "closed"}
        BY <2>1, ReportRead
    <2>4. QED
        BY <2>1, <2>2, <2>3, AccountsSubmission
<1>6. ASSUME NEW s \in Sends, GiveUp(s) PROVE Accounts'
    <2>1. /\ pc[s] = "wait" /\ UNCHANGED <<done, dataQueue, lifecycleQueue, carry, staged, published>>
          /\ \A t \in Sends : t # s => pc'[t] = pc[t] /\ res'[t] = res[t]
          /\ \/ pc'[s] = "returned" /\ res'[s] = "ctx"
             \/ pc'[s] = "owed" /\ res'[s] = res[s]
        BY <1>6 DEF GiveUp, Return, queueVars, loopVars, SenderTypes
    <2>2. res[s] = "none"
        BY <2>1 DEF Results, Accounts, SenderTypes
    <2>3. QED
        BY <2>1, <2>2, AccountsSubmission
<1>7. CASE EmitLifecycle
    <2>1. PICK h \in Lifecycles :
              /\ \/ staged = h /\ staged' = NoIntent /\ UNCHANGED lifecycleQueue
                 \/ /\ staged = NoIntent /\ lifecycleQueue # <<>> /\ h = Head(lifecycleQueue)
                    /\ lifecycleQueue' = Tail(lifecycleQueue) /\ UNCHANGED staged
              /\ Report(h, "ok") \/ Report(h, "failed")
        BY <1>7 DEF EmitLifecycle
    <2>2. UNCHANGED <<pc, res, carry, dataQueue, published>>
        BY <1>7 DEF EmitLifecycle, senderVars
    <2>3. PICK r \in {"ok", "failed", "closed"} : Report(h, r)
        BY <2>1
    <2>4. CASE staged = h /\ staged' = NoIntent /\ UNCHANGED lifecycleQueue
        BY <2>2, <2>3, <2>4, AccountsEmitStaged
    <2>5. CASE lifecycleQueue # <<>> /\ h = Head(lifecycleQueue)
               /\ lifecycleQueue' = Tail(lifecycleQueue) /\ UNCHANGED staged
        BY <2>2, <2>3, <2>5, AccountsEmitQueued
    <2>6. QED
        BY <2>1, <2>4, <2>5
<1>8. CASE DataTurn
    <2>1. UNCHANGED <<pc, res, done, lifecycleQueue, staged, published>>
        BY <1>8 DEF DataTurn, senderVars
    <2>2. CASE UNCHANGED <<carry, dataQueue>>
        BY <2>1, <2>2, AccountsKeep
    <2>3. CASE stuck = 0 /\ dataQueue # <<>> /\ carry' = [NoCarry EXCEPT !.s = Head(dataQueue)]
               /\ dataQueue' = Tail(dataQueue)
        <3>1. carry.s = NoIntent
            BY <1>8, <2>3 DEF DataTurn, WriterTurn, InPlace
        <3>2. QED
            BY <2>1, <2>3, <3>1, AccountsTake
    <2>4. QED
        BY <1>8, <2>2, <2>3 DEF DataTurn
<1>9. CASE Place
    <2>1. carry.s \in Data /\ UNCHANGED <<pc, res, dataQueue, lifecycleQueue, staged, published>>
        BY <1>9, CarryHeld DEF Place, InPlace, placeFrame, senderVars, queueVars
    <2>2. CASE UNCHANGED done /\ carry'.s = carry.s
        BY <2>1, <2>2, AccountsKeep
    <2>3. CASE Report(carry.s, "failed") /\ carry' = NoCarry
        BY <2>1, <2>3, AccountsFinish
    <2>4. QED
        BY <1>9, <2>2, <2>3 DEF Place, Finish, SetAside
<1>10. CASE Build
    <2>1. carry.s \in Data /\ UNCHANGED <<pc, res, dataQueue, lifecycleQueue, staged, published>>
        BY <1>10, CarryHeld DEF Build, InPlace, placeFrame, senderVars, queueVars
    <2>2. CASE UNCHANGED done /\ carry'.s = carry.s
        BY <2>1, <2>2, AccountsKeep
    <2>3. CASE Report(carry.s, "failed") /\ carry' = NoCarry
        BY <2>1, <2>3, AccountsFinish
    <2>4. [carry EXCEPT !.built = 1].s = carry.s /\ [carry EXCEPT !.built = 1, !.slab = 1].s = carry.s
        BY DEF WriterTypes
    <2>5. QED
        BY <1>10, <2>2, <2>3, <2>4 DEF Build, Finish, SetAside
<1>11. CASE RunFill
    <2>1. carry.s \in Data /\ UNCHANGED <<pc, res, dataQueue, lifecycleQueue, staged, published>>
        BY <1>11, CarryHeld DEF RunFill, InPlace, placeFrame, senderVars, queueVars
    <2>2. CASE UNCHANGED done /\ carry'.s = carry.s
        BY <2>1, <2>2, AccountsKeep
    <2>3. CASE Report(carry.s, "failed") /\ carry' = NoCarry
        BY <2>1, <2>3, AccountsFinish
    <2>4. [carry EXCEPT !.built = 1].s = carry.s /\ [carry EXCEPT !.built = 1, !.slab = 1].s = carry.s
        BY DEF WriterTypes
    <2>5. QED
        BY <1>11, <2>2, <2>3, <2>4 DEF RunFill, Finish, SetAside
<1>12. CASE Push
    <2>1. carry.s \in Data /\ UNCHANGED <<pc, res, dataQueue, lifecycleQueue, staged>>
        BY <1>12, CarryHeld DEF Push, InPlace, placeFrame, senderVars, queueVars
    <2>2. CASE SetAside(carry) /\ UNCHANGED published
        BY <2>1, <2>2, AccountsKeep DEF SetAside
    <2>3. CASE Finish("failed", carry.slab) /\ UNCHANGED published
        BY <2>1, <2>3, AccountsFinish DEF Finish
    <2>4. CASE Finish("ok", 0) /\ published' = Append(published, carry.s)
        BY <2>1, <2>4, AccountsFinish DEF Finish
    <2>5. QED
        BY <1>12, <2>2, <2>3, <2>4 DEF Push
<1>13. CASE Wake
    <2>1. UNCHANGED <<pc, res, done, published>>
        BY <1>13 DEF Wake, senderVars
    <2>2. CASE UNCHANGED <<queueVars, carry, staged>>
        BY <2>1, <2>2, AccountsKeep DEF queueVars
    <2>3. CASE stuck = 0 /\ dataQueue # <<>> /\ carry' = [NoCarry EXCEPT !.s = Head(dataQueue)]
               /\ dataQueue' = Tail(dataQueue) /\ UNCHANGED <<lifecycleQueue, staged>>
        <3>1. carry.s = NoIntent
            BY <1>13, <2>3 DEF Wake, WriterTurn, InPlace
        <3>2. QED
            BY <2>1, <2>3, <3>1, AccountsTake
    <2>4. CASE lifecycleQueue # <<>> /\ staged' = Head(lifecycleQueue) /\ lifecycleQueue' = Tail(lifecycleQueue)
               /\ UNCHANGED <<dataQueue, carry>>
        <3>1. staged = NoIntent
            BY <1>13 DEF Wake, WriterTurn
        <3>2. QED
            BY <2>1, <2>4, <3>1, AccountsStage
    <2>5. QED
        BY <1>13, <2>2, <2>3, <2>4 DEF Wake
<1>14. CASE Drain
    <2>1. UNCHANGED <<pc, res, staged, published>>
        BY <1>14 DEF Drain, senderVars
    <2>2. CASE carry # NoCarry /\ Report(carry.s, "closed") /\ carry' = NoCarry /\ UNCHANGED queueVars
        <3>1. carry.s \in Data
            BY <2>2, CarryHeld DEF WriterTypes, WriterTurn
        <3>2. QED
            BY <2>1, <2>2, <3>1, AccountsFinish DEF queueVars
    <2>3. CASE lifecycleQueue # <<>> /\ Report(Head(lifecycleQueue), "closed") /\ carry' = carry
               /\ lifecycleQueue' = Tail(lifecycleQueue) /\ UNCHANGED dataQueue
        BY <2>1, <2>3, AccountsEmitQueued
    <2>4. CASE dataQueue # <<>> /\ Report(Head(dataQueue), "closed") /\ carry' = carry
               /\ dataQueue' = Tail(dataQueue) /\ UNCHANGED lifecycleQueue
        BY <2>1, <2>4, AccountsDrainData
    <2>5. CASE UNCHANGED <<done, queueVars, carry>>
        BY <2>1, <2>5, AccountsKeep DEF queueVars
    <2>6. QED
        BY <1>14, <2>2, <2>3, <2>4, <2>5 DEF Drain
<1>15. CASE BurstOver \/ Check \/ ObserveShutdown \/ StopStep \/ Consume \/ notePeerProgress \/
        Poison \/ Finished \/ UNCHANGED vars
    BY AccountsKeep, <1>15 DEF BurstOver, Check, ObserveShutdown, Shutdown, StopStep, Consume,
       notePeerProgress, Poison, Finished, vars
<1>16. QED
    BY <1>1, <1>2, <1>3, <1>4, <1>5, <1>6, <1>7, <1>8, <1>9, <1>10, <1>11, <1>12, <1>13, <1>14,
       <1>15
       DEF Next, SenderStep, WriterStep

\* A step keeps the order of the data lane: each action is one of the movements above.
LEMMA NextOrder ==
    ASSUME SenderTypes, QueueTypes, WriterTypes, WriterTurn, Accounts, Order, [Next]_vars
    PROVE  Order'
<1> USE DEF senderVars, queueVars, loopVars, regionVars
<1>1. ASSUME NEW s \in Sends, Enqueue(s) PROVE Order'
    <2>1. UNCHANGED <<carry, dataQueue, accepted, published>>
        BY <1>1 DEF Enqueue, queueVars
    <2>2. \A t \in Sends : pc[t] \notin {"unmade", "new", "select"} => pc'[t] \notin {"unmade", "new", "select"}
        BY <1>1 DEF Enqueue, Return, SenderTypes
    <2>3. QED
        BY <2>1, <2>2, OrderKeep
<1>2. ASSUME NEW s \in Sends, Accept(s) PROVE Order'
    <2>1. pc[s] = "select" /\ pc' = [pc EXCEPT ![s] = "wait"] /\ UNCHANGED <<carry, published>>
        BY <1>2 DEF Accept
    <2>2. CASE Lane(s) = "data" /\ dataQueue' = Append(dataQueue, s) /\ accepted' = Append(accepted, s)
        <3>1. s \in Data
            BY <2>2, Lanes DEF Lane
        <3>2. Queued(s) + InHand(s) + Len(done[s]) = 0
            BY <2>1 DEF Accounts, IntentAccounted
        <3>3. done[s] = <<>>
            BY <3>2, LedgerTypes
        <3>4. ~InSeq(s, published)
            BY <3>1, <3>3 DEF Accounts, PublishedReported
        <3>5. QED
            BY <2>1, <2>2, <3>1, <3>4, OrderAccept
    <2>3. CASE UNCHANGED <<dataQueue, accepted>>
        BY <2>1, <2>3, OrderKeep DEF SenderTypes
    <2>4. QED
        BY <1>2, <2>2, <2>3 DEF Accept
<1>3. ASSUME NEW s \in Sends, Refuse(s) PROVE Order'
    <2>1. UNCHANGED <<carry, dataQueue, accepted, published>>
        BY <1>3 DEF Refuse, queueVars
    <2>2. \A t \in Sends : pc[t] \notin {"unmade", "new", "select"} => pc'[t] \notin {"unmade", "new", "select"}
        BY <1>3 DEF Refuse, Return, SenderTypes
    <2>3. QED
        BY <2>1, <2>2, OrderKeep
<1>4. ASSUME NEW s \in Sends, Withdraw(s) PROVE Order'
    <2>1. UNCHANGED <<carry, dataQueue, accepted, published>>
        BY <1>4 DEF Withdraw, queueVars
    <2>2. \A t \in Sends : pc[t] \notin {"unmade", "new", "select"} => pc'[t] \notin {"unmade", "new", "select"}
        BY <1>4 DEF Withdraw, Return, SenderTypes
    <2>3. QED
        BY <2>1, <2>2, OrderKeep
<1>5. ASSUME NEW s \in Sends, Reported(s) PROVE Order'
    <2>1. UNCHANGED <<carry, dataQueue, accepted, published>>
        BY <1>5 DEF Reported, queueVars
    <2>2. \A t \in Sends : pc[t] \notin {"unmade", "new", "select"} => pc'[t] \notin {"unmade", "new", "select"}
        BY <1>5 DEF Reported, Return, SenderTypes
    <2>3. QED
        BY <2>1, <2>2, OrderKeep
<1>6. ASSUME NEW s \in Sends, GiveUp(s) PROVE Order'
    <2>1. UNCHANGED <<carry, dataQueue, accepted, published>>
        BY <1>6 DEF GiveUp, queueVars
    <2>2. \A t \in Sends : pc[t] \notin {"unmade", "new", "select"} => pc'[t] \notin {"unmade", "new", "select"}
        BY <1>6 DEF GiveUp, Return, SenderTypes
    <2>3. QED
        BY <2>1, <2>2, OrderKeep
<1>7. CASE DataTurn
    <2>1. UNCHANGED <<pc, accepted, published>>
        BY <1>7 DEF DataTurn, senderVars
    <2>2. CASE UNCHANGED <<carry, dataQueue>>
        BY <2>1, <2>2, OrderKeep
    <2>3. CASE stuck = 0 /\ dataQueue # <<>> /\ carry' = [NoCarry EXCEPT !.s = Head(dataQueue)]
               /\ dataQueue' = Tail(dataQueue)
        <3>1. carry.s = NoIntent
            BY <1>7, <2>3 DEF DataTurn, WriterTurn, InPlace
        <3>2. QED
            BY <2>1, <2>3, <3>1, OrderTake
    <2>4. QED
        BY <1>7, <2>2, <2>3 DEF DataTurn
<1>8. CASE Place
    <2>1. carry.s \in Data /\ UNCHANGED <<pc, dataQueue, accepted, published>>
        BY <1>8, CarryHeld DEF Place, InPlace, placeFrame, senderVars, queueVars
    <2>2. CASE carry'.s = carry.s
        BY <2>1, <2>2, OrderKeep
    <2>3. CASE carry' = NoCarry
        BY <2>1, <2>3, OrderDrop
    <2>4. QED
        BY <1>8, <2>2, <2>3 DEF Place, Finish
<1>9. CASE Build
    <2>1. carry.s \in Data /\ UNCHANGED <<pc, dataQueue, accepted, published>>
        BY <1>9, CarryHeld DEF Build, InPlace, placeFrame, senderVars, queueVars
    <2>2. CASE carry'.s = carry.s
        BY <2>1, <2>2, OrderKeep
    <2>3. CASE carry' = NoCarry
        BY <2>1, <2>3, OrderDrop
    <2>4. [carry EXCEPT !.built = 1].s = carry.s /\ [carry EXCEPT !.built = 1, !.slab = 1].s = carry.s
        BY DEF WriterTypes
    <2>5. QED
        BY <1>9, <2>2, <2>3, <2>4 DEF Build, Finish, SetAside
<1>10. CASE RunFill
    <2>1. carry.s \in Data /\ UNCHANGED <<pc, dataQueue, accepted, published>>
        BY <1>10, CarryHeld DEF RunFill, InPlace, placeFrame, senderVars, queueVars
    <2>2. CASE carry'.s = carry.s
        BY <2>1, <2>2, OrderKeep
    <2>3. CASE carry' = NoCarry
        BY <2>1, <2>3, OrderDrop
    <2>4. [carry EXCEPT !.built = 1].s = carry.s /\ [carry EXCEPT !.built = 1, !.slab = 1].s = carry.s
        BY DEF WriterTypes
    <2>5. QED
        BY <1>10, <2>2, <2>3, <2>4 DEF RunFill, Finish, SetAside
<1>11. CASE Push
    <2>1. carry.s \in Data /\ UNCHANGED <<pc, dataQueue, accepted>>
        BY <1>11, CarryHeld DEF Push, InPlace, placeFrame, senderVars, queueVars
    <2>2. CASE carry'.s = carry.s /\ UNCHANGED published
        BY <2>1, <2>2, OrderKeep
    <2>3. CASE carry' = NoCarry /\ UNCHANGED published
        BY <2>1, <2>3, OrderDrop
    <2>4. CASE carry' = NoCarry /\ published' = Append(published, carry.s)
        BY <2>1, <2>4, OrderPublish
    <2>5. QED
        BY <1>11, <2>2, <2>3, <2>4 DEF Push, Finish, SetAside
<1>12. CASE Wake
    <2>1. UNCHANGED <<pc, accepted, published>>
        BY <1>12 DEF Wake, senderVars
    <2>2. CASE UNCHANGED <<carry, dataQueue>>
        BY <2>1, <2>2, OrderKeep
    <2>3. CASE stuck = 0 /\ dataQueue # <<>> /\ carry' = [NoCarry EXCEPT !.s = Head(dataQueue)]
               /\ dataQueue' = Tail(dataQueue)
        <3>1. carry.s = NoIntent
            BY <1>12, <2>3 DEF Wake, WriterTurn, InPlace
        <3>2. QED
            BY <2>1, <2>3, <3>1, OrderTake
    <2>4. QED
        BY <1>12, <2>2, <2>3 DEF Wake, queueVars
<1>13. CASE Drain
    <2>1. UNCHANGED <<pc, accepted, published>>
        BY <1>13 DEF Drain, senderVars
    <2>2. CASE carry # NoCarry /\ carry' = NoCarry /\ UNCHANGED dataQueue
        <3>1. carry.s \in Data
            BY <2>2, CarryHeld
        <3>2. QED
            BY <2>1, <2>2, <3>1, OrderDrop
    <2>3. CASE UNCHANGED <<carry, dataQueue>>
        BY <2>1, <2>3, OrderKeep
    <2>4. CASE carry = NoCarry /\ UNCHANGED carry /\ dataQueue # <<>> /\ dataQueue' = Tail(dataQueue)
        <3>1. carry.s = NoIntent /\ carry'.s = NoIntent
            BY <2>4 DEF NoCarry
        <3>2. QED
            BY <2>1, <2>4, <3>1, OrderDrain
    <2>5. QED
        BY <1>13, <2>2, <2>3, <2>4 DEF Drain, queueVars
<1>14. CASE EmitLifecycle \/ BurstOver \/ Check \/ ObserveShutdown \/ StopStep \/ Consume \/
        notePeerProgress \/ Poison \/ Finished \/ UNCHANGED vars
    BY OrderKeep, <1>14 DEF EmitLifecycle, Report, BurstOver, Check, ObserveShutdown, Shutdown,
       StopStep, Consume, notePeerProgress, Poison, Finished, vars
<1>15. QED
    BY <1>1, <1>2, <1>3, <1>4, <1>5, <1>6, <1>7, <1>8, <1>9, <1>10, <1>11, <1>12, <1>13, <1>14
       DEF Next, SenderStep, WriterStep

-----------------------------------------------------------------------------
(* The claim/abandon word of a fill.                                       *)

Fill == FillWord /\ FillOwned

\* The intent in hand is unreported, so its caller waits or has left on its context.
LEMMA CarryUnreported ==
    ASSUME SenderTypes, QueueTypes, Accounts, carry.s \in Data
    PROVE  done[carry.s] = <<>> /\ (pc[carry.s] \in {"wait", "owed"} \/ res[carry.s] = "ctx")
<1> DEFINE c == carry.s
<1>1. c \in Sends
    BY Lanes
<1>2. InHand(c) + Queued(c) >= 1
    BY <1>1, LedgerTypes DEF InHand
<1> HIDE DEF c
<1>3. done[c] = <<>> /\ pc[c] \notin {"unmade", "new", "select"} /\ res[c] \notin {"refused", "withdrawn"}
    BY <1>1, <1>2, Unreported DEF Accounts
<1>4. (pc[c] = "returned" <=> res[c] # "none") /\ (res[c] \in {"ok", "failed", "closed"} => done[c] # <<>>)
    BY <1>1 DEF Accounts, Results
<1>5. pc[c] \in {"wait", "owed"} \/ res[c] = "ctx"
    BY <1>1, <1>3, <1>4 DEF SenderTypes
<1>6. QED
    BY <1>3, <1>5 DEF c

\* Nothing is claimed, published or given up; what is in hand stays or goes.
LEMMA FillKeep ==
    ASSUME Fill, UNCHANGED <<pc, res, fill, published>>,
           carry' = carry \/ carry'.built = 0, wpc' # "filling" \/ UNCHANGED <<wpc, carry>>
    PROVE  Fill'
BY DEF Fill, FillWord, FillOwned

\* The caller of a submission that is not a fill in hand moves on.
LEMMA FillSubmission ==
    ASSUME SenderTypes, QueueTypes, WriterTypes, WriterTurn, Accounts, Fill, NEW s \in Sends,
           UNCHANGED <<fill, published, carry, wpc>>,
           \A t \in Sends : t # s => pc'[t] = pc[t] /\ res'[t] = res[t],
           s \in Fills => res'[s] # "ctx",
           pc[s] \in {"wait", "owed"} /\ carry.s = s => pc'[s] \in {"wait", "owed"}
    PROVE  Fill'
<1>1. FillWord'
    BY Lanes DEF Fill, FillWord
<1>2. FillOwned'
    BY Lanes, CarryHeld DEF Fill, FillOwned, InPlace
<1>3. QED
    BY <1>1, <1>2 DEF Fill

\* A step keeps the claim word: a fill runs only while its caller waits for it.
LEMMA NextFill ==
    ASSUME SenderTypes, QueueTypes, WriterTypes, WriterTurn, Accounts, Fill, [Next]_vars
    PROVE  Fill'
<1> USE DEF senderVars, queueVars, loopVars, regionVars
<1>1. ASSUME NEW s \in Sends, Enqueue(s) PROVE Fill'
    <2>1. /\ pc[s] = "new" /\ UNCHANGED <<fill, published, carry, wpc>>
          /\ \A t \in Sends : t # s => pc'[t] = pc[t] /\ res'[t] = res[t]
          /\ res'[s] \in {res[s], "refused", "withdrawn"}
        BY <1>1 DEF Enqueue, Return, SenderTypes
    <2>2. res[s] # "ctx"
        BY <2>1 DEF Accounts, Results
    <2>3. QED
        BY <2>1, <2>2, FillSubmission
<1>2. ASSUME NEW s \in Sends, Accept(s) PROVE Fill'
    <2>1. /\ pc[s] = "select" /\ UNCHANGED <<fill, published, carry, wpc>>
          /\ \A t \in Sends : t # s => pc'[t] = pc[t] /\ res'[t] = res[t]
          /\ res'[s] \in {res[s], "refused", "withdrawn"}
        BY <1>2 DEF Accept, SenderTypes
    <2>2. res[s] # "ctx"
        BY <2>1 DEF Accounts, Results
    <2>3. QED
        BY <2>1, <2>2, FillSubmission
<1>3. ASSUME NEW s \in Sends, Refuse(s) PROVE Fill'
    <2>1. /\ pc[s] = "select" /\ UNCHANGED <<fill, published, carry, wpc>>
          /\ \A t \in Sends : t # s => pc'[t] = pc[t] /\ res'[t] = res[t]
          /\ res'[s] \in {res[s], "refused", "withdrawn"}
        BY <1>3 DEF Refuse, Return, SenderTypes
    <2>2. res[s] # "ctx"
        BY <2>1 DEF Accounts, Results
    <2>3. QED
        BY <2>1, <2>2, FillSubmission
<1>4. ASSUME NEW s \in Sends, Withdraw(s) PROVE Fill'
    <2>1. /\ pc[s] = "select" /\ UNCHANGED <<fill, published, carry, wpc>>
          /\ \A t \in Sends : t # s => pc'[t] = pc[t] /\ res'[t] = res[t]
          /\ res'[s] \in {res[s], "refused", "withdrawn"}
        BY <1>4 DEF Withdraw, Return, SenderTypes
    <2>2. res[s] # "ctx"
        BY <2>1 DEF Accounts, Results
    <2>3. QED
        BY <2>1, <2>2, FillSubmission
<1>5. ASSUME NEW s \in Sends, Reported(s) PROVE Fill'
    <2>1. /\ done[s] # <<>> /\ UNCHANGED <<fill, published, carry, wpc>>
          /\ \A t \in Sends : t # s => pc'[t] = pc[t] /\ res'[t] = res[t]
          /\ res'[s] = Head(done[s])
        BY <1>5 DEF Reported, Return, SenderTypes
    <2>2. res'[s] \in {"ok", "failed", "closed"}
        BY <2>1, ReportRead
    <2>3. carry.s # s
        BY <2>1, CarryUnreported, Lanes DEF WriterTypes
    <2>4. QED
        BY <2>1, <2>2, <2>3, FillSubmission
<1>6. ASSUME NEW s \in Sends, GiveUp(s) PROVE Fill'
    <2>1. /\ pc[s] = "wait" /\ s \in Data /\ UNCHANGED <<published, carry, wpc>>
          /\ \A t \in Sends : t # s => pc'[t] = pc[t] /\ res'[t] = res[t]
        BY <1>6, Lanes DEF GiveUp, Return, SenderTypes, Lane
    <2>2. CASE s \in Copies /\ res'[s] = "ctx" /\ UNCHANGED fill
        <3>1. s \notin Fills
            BY <2>1, <2>2, Lanes
        <3>2. carry.s = s => wpc # "filling"
            BY <3>1 DEF WriterTurn
        <3>3. QED
            BY <2>1, <2>2, <3>1, <3>2, Lanes, CarryHeld DEF Fill, FillWord, FillOwned, InPlace
    <2>3. CASE s \in Fills /\ fill[s] = "pending" /\ fill' = [fill EXCEPT ![s] = "abandoned"]
        <3>1. carry.s = s => wpc # "filling" /\ carry.built # 1
            BY <2>3 DEF Fill, FillWord
        <3>2. ~InSeq(s, published)
            BY <2>3 DEF Fill, FillWord
        <3>3. FillWord'
            BY <2>1, <2>3, <3>1, <3>2, Lanes DEF Fill, FillWord, SenderTypes
        <3>4. FillOwned'
            BY <2>1, <3>1, Lanes, CarryHeld DEF Fill, FillOwned, InPlace
        <3>5. QED
            BY <3>3, <3>4 DEF Fill
    <2>4. CASE s \in Fills /\ fill[s] = "filling" /\ pc' = [pc EXCEPT ![s] = "owed"] /\ UNCHANGED <<res, fill>>
        <3>1. res'[s] # "ctx"
            BY <2>1, <2>4 DEF Accounts, Results
        <3>2. QED
            BY <2>1, <2>4, <3>1, FillSubmission DEF SenderTypes
    <2>5. QED
        BY <1>6, <2>2, <2>3, <2>4 DEF GiveUp, Return, SenderTypes
<1>7. CASE DataTurn
    BY <1>7, FillKeep DEF DataTurn, NoCarry
<1>8. CASE Place
    BY <1>8, FillKeep DEF Place, Finish, NoCarry, placeFrame, WriterTypes
<1>9. CASE Build
    <2>1. carry.s \in Data /\ carry.built = 0 /\ UNCHANGED <<pc, res, published>>
        BY <1>9, CarryHeld DEF Build, WriterTurn, InPlace, placeFrame, senderVars
    <2>2. CASE UNCHANGED fill /\ carry' \in {carry, NoCarry} /\ wpc' = next
        BY <2>1, <2>2, FillKeep DEF NoCarry, WriterTypes
    <2>3. CASE /\ Claimable(carry.s) /\ wpc' = "push" /\ carry' = [carry EXCEPT !.built = 1]
               /\ fill' = [s \in Fills |-> IF s = carry.s THEN "filling" ELSE fill[s]]
        <3>1. carry'.s = carry.s
            BY <2>3 DEF WriterTypes
        <3>2. FillWord'
            BY <2>1, <2>3, <3>1 DEF Fill, FillWord, Claimable
        <3>3. QED
            BY <2>3, <3>2 DEF Fill, FillOwned
    <2>4. CASE carry.s \in Copies /\ wpc' = "push" /\ carry' = [carry EXCEPT !.built = 1, !.slab = 1]
               /\ UNCHANGED fill
        <3>1. carry'.s = carry.s /\ carry.s \notin Fills
            BY <2>1, <2>4, Lanes DEF WriterTypes
        <3>2. QED
            BY <2>1, <2>4, <3>1 DEF Fill, FillWord, FillOwned
    <2>5. CASE carry.s \in Fills /\ Claimable(carry.s) /\ UNCHANGED carry
               /\ fill' = [fill EXCEPT ![carry.s] = "filling"]
        <3>1. fill[carry.s] = "pending"
            BY <2>5 DEF Claimable
        <3>2. res[carry.s] # "ctx"
            BY <2>5, <3>1 DEF Fill, FillWord
        <3>3. pc[carry.s] \in {"wait", "owed"}
            BY <2>1, <3>2, CarryUnreported
        <3>4. FillWord'
            BY <2>1, <2>5, <3>1, <3>2 DEF Fill, FillWord, SenderTypes
        <3>5. QED
            BY <2>1, <2>5, <3>3, <3>4 DEF Fill, FillOwned
    <2>6. QED
        BY <1>9, <2>2, <2>3, <2>4, <2>5 DEF Build, Finish, SetAside
<1>10. CASE RunFill
    <2>1. wpc = "filling" /\ UNCHANGED <<pc, res, published, fill>>
        BY <1>10 DEF RunFill, placeFrame, senderVars
    <2>2. CASE carry' = [carry EXCEPT !.built = 1, !.slab = 1] /\ wpc' = "push"
        <3>1. carry'.s = carry.s
            BY <2>2 DEF WriterTypes
        <3>2. QED
            BY <2>1, <2>2, <3>1 DEF Fill, FillWord, FillOwned
    <2>3. CASE Finish("failed", 1)
        BY <2>1, <2>3, FillKeep DEF Finish, NoCarry, WriterTypes
    <2>4. QED
        BY <1>10, <2>2, <2>3 DEF RunFill
<1>11. CASE Push
    <2>1. wpc = "push" /\ carry.s \in Data /\ carry.built = 1 /\ UNCHANGED <<pc, res, fill>>
        BY <1>11, CarryHeld DEF Push, WriterTurn, InPlace, placeFrame, senderVars
    <2>2. CASE UNCHANGED published /\ carry' \in {carry, NoCarry} /\ wpc' = next
        BY <2>1, <2>2, FillKeep DEF NoCarry, WriterTypes
    <2>3. CASE published' = Append(published, carry.s) /\ carry' = NoCarry /\ wpc' = next
        <3>1. \A t \in Data : InSeq(t, published') => InSeq(t, published) \/ t = carry.s
            <4>1. published \in Seq(Data) /\ published' = Append(published, carry.s)
                BY <2>3 DEF QueueTypes
            <4>2. QED
                BY <2>1, <4>1, InSeqAppend
        <3>2. carry.s \in Fills => fill[carry.s] = "filling"
            BY <2>1 DEF Fill, FillWord
        <3>3. FillWord'
            BY <2>1, <2>3, <3>1, <3>2, Lanes DEF Fill, FillWord, NoCarry
        <3>4. QED
            BY <2>3, <3>3 DEF Fill, FillOwned, WriterTypes
    <2>4. QED
        BY <1>11, <2>2, <2>3 DEF Push, Finish, SetAside
<1>12. CASE Wake
    BY <1>12, FillKeep DEF Wake, NoCarry
<1>13. CASE Drain
    BY <1>13, FillKeep DEF Drain, NoCarry, senderVars
<1>14. CASE EmitLifecycle \/ BurstOver \/ Check \/ ObserveShutdown \/ StopStep \/ Consume \/
        notePeerProgress \/ Poison \/ Finished \/ UNCHANGED vars
    BY FillKeep, <1>14 DEF EmitLifecycle, Report, BurstOver, Check, ObserveShutdown, Shutdown,
       StopStep, Consume, notePeerProgress, Poison, Finished, vars
<1>15. QED
    BY <1>1, <1>2, <1>3, <1>4, <1>5, <1>6, <1>7, <1>8, <1>9, <1>10, <1>11, <1>12, <1>13, <1>14
       DEF Next, SenderStep, WriterStep

-----------------------------------------------------------------------------
(* The theorems.                                                           *)

\* Every step keeps the invariant.
LEMMA NextIInv == IInv /\ [Next]_vars => IInv'
<1> SUFFICES ASSUME IInv, [Next]_vars PROVE IInv'
    OBVIOUS
<1>1. SenderTypes /\ QueueTypes /\ WriterTypes /\ RegionTypes /\ WriterTurn /\ StopOrder
    BY DEF IInv, TypeOK
<1>2. StoppedEmpty /\ SlabsAccounted /\ Accounts /\ Order /\ Fill
    BY DEF IInv, Accounts, Order, Fill
<1>3. TypeOK'
    BY <1>1, <1>2, NextSenderTypes, NextQueueTypes, NextWriterTypes, NextRegionTypes DEF TypeOK
<1>4. WriterTurn' /\ StopOrder' /\ StoppedEmpty' /\ SlabsAccounted'
    BY <1>1, <1>2, NextWriterTurn, NextStopOrder, NextStoppedEmpty, NextSlabsAccounted
<1>5. Accounts'
    BY <1>1, <1>2, NextAccounts
<1>6. Order'
    BY <1>1, <1>2, NextOrder
<1>7. Fill'
    BY <1>1, <1>2, NextFill
<1>8. QED
    BY <1>3, <1>4, <1>5, <1>6, <1>7 DEF IInv, Accounts, Order, Fill

\* The invariant holds in every state.
THEOREM InvariantHolds == Spec => []IInv
<1>1. QED
    BY InitIInv, NextIInv, PTL DEF Spec

\* Whatever the submissions, the queue depths, the ring, the arena and the burst bound: an accepted
\* intent is queued, in the writer's hand or reported, in exactly one of them and reported once
\* (enqueue, run, drainAndStop); nothing is left once the writer has stopped; and every slab belongs
\* to the ring, to a consumed descriptor or to the intent in hand (stampPayload, freeSlab, reclaim).
THEOREM IntentsAndSlabsAccounted == Spec => []EveryIntentAccounted
<1>1. IInv => EveryIntentAccounted
    BY DEF IInv, EveryIntentAccounted
<1>2. QED
    BY <1>1, InvariantHolds, PTL

\* A caller that is told nil has a published frame and one that is told an error has not; a fill's
\* function runs only while its caller is inside submitFill; data frames are published in the order
\* of acceptance; and at most BurstBound lifecycle intents pass waiting data.
THEOREM SubmissionsToldTheTruth == Spec => []SubmissionsHonest
<1>1. ASSUME IInv PROVE ReportHonest
    <2>1. SenderTypes /\ QueueTypes /\ IntentAccounted /\ Results /\ PublishedReported /\ FillWord
        BY <1>1 DEF IInv, TypeOK
    <2> SUFFICES ASSUME NEW s \in Data
                 PROVE  /\ res[s] = "ok" => InSeq(s, published)
                        /\ res[s] \in {"refused", "withdrawn", "failed", "closed"} => ~InSeq(s, published)
                        /\ s \in Fills /\ res[s] = "ctx" => ~InSeq(s, published)
        BY DEF ReportHonest
    <2>2. InSeq(s, published) <=> done[s] # <<>> /\ done[s][1] = "ok"
        BY <2>1 DEF PublishedReported
    <2>3. s \in Sends
        BY Lanes
    <2>4. res[s] \in {"ok", "failed", "closed"} => done[s] # <<>> /\ done[s][1] = res[s]
        BY <2>1, <2>3 DEF Results
    <2>5. res[s] \in {"refused", "withdrawn"} => done[s] = <<>>
        <3>1. res[s] \in {"refused", "withdrawn"} => Queued(s) + InHand(s) + Len(done[s]) = 0
            BY <2>1, <2>3 DEF IntentAccounted
        <3>2. QED
            BY <2>1, <2>3, <3>1, LedgerTypes
    <2>6. s \in Fills /\ res[s] = "ctx" => ~InSeq(s, published)
        BY <2>1 DEF FillWord
    <2>7. QED
        BY <2>2, <2>4, <2>5, <2>6
<1>2. ASSUME IInv PROVE BurstBounded
    BY <1>2, Bounds DEF IInv, TypeOK, WriterTypes, WriterTurn, BurstBounded
<1>3. IInv => SubmissionsHonest
    BY <1>1, <1>2 DEF IInv, SubmissionsHonest
<1>4. QED
    BY <1>3, InvariantHolds, PTL
=============================================================================
