--------------------------- MODULE ParkWakeProofs ---------------------------
(***************************************************************************)
(* The park/wake protocol loses no wakeup, for every cursor width W and    *)
(* every ring capacity Cap < W.                                            *)
(***************************************************************************)
EXTENDS ParkWake, TLAPS

\* Every initial state of the region satisfies the inductive invariant.
LEMMA InitIInv == Init => IInv
BY ParkWakeAssumption
   DEF Init, IInv, TypeOK, ParkedOnlyInWait, DrainBounded, TeardownOrder, NoLostWakeup,
       Cursor, Depth, ProducerPC, ConsumerPC, TeardownPC

\* Advancing a cursor stays in range and moves the distance by one.
LEMMA CursorStep ==
    ASSUME NEW t \in Cursor, NEW h \in Cursor
    PROVE  /\ Inc(t) \in Cursor
           /\ Depth(t, h) \in 0 .. W - 1
           /\ Depth(t, h) < W - 1 => Depth(Inc(t), h) = Depth(t, h) + 1
           /\ t # h => Depth(t, Inc(h)) = Depth(t, h) - 1
           /\ Depth(t, h) = 0 <=> t = h
BY ParkWakeAssumption DEF Cursor, Inc, Depth


\* Every step keeps the types: cursors stay below W, words and program counters
\* keep their values.
LEMMA NextTypeOK == IInv /\ [Next]_vars => TypeOK'
<1> SUFFICES ASSUME IInv, [Next]_vars PROVE TypeOK'
    OBVIOUS
<1> USE DEF IInv, TypeOK
<1>1. CASE PrePublish
    BY <1>1 DEF PrePublish, ProducerPC, ConsumerPC, TeardownPC
<1>2. CASE Push
    BY <1>2, CursorStep DEF Push, ProducerPC
<1>3. CASE SignalGate
    BY <1>3 DEF SignalGate, ProducerPC, ConsumerPC, TeardownPC
<1>4. CASE SignalLoadPark
    BY <1>4 DEF SignalLoadPark, ProducerPC, ConsumerPC, TeardownPC
<1>5. CASE SignalWrite
    BY <1>5 DEF SignalWrite, ProducerPC, ConsumerPC, TeardownPC
<1>6. CASE SignalPoison
    BY <1>6 DEF SignalPoison, ProducerPC, ConsumerPC, TeardownPC
<1>7. CASE ProducerCrash
    BY <1>7 DEF ProducerCrash, ProducerPC, ConsumerPC, TeardownPC
<1>8. CASE TeardownBegin
    BY <1>8 DEF TeardownBegin, ProducerPC, ConsumerPC, TeardownPC
<1>9. CASE TeardownStep
    BY <1>9 DEF TeardownStep, ProducerPC, ConsumerPC, TeardownPC
<1>10. CASE Recv
    BY <1>10 DEF Recv, ProducerPC, ConsumerPC, TeardownPC
<1>11. CASE Spin
    BY <1>11 DEF Spin, ProducerPC, ConsumerPC, TeardownPC
<1>12. CASE TryPark
    BY <1>12 DEF TryPark, ProducerPC, ConsumerPC, TeardownPC
<1>13. CASE ArmCheck
    BY <1>13 DEF ArmCheck, ProducerPC, ConsumerPC, TeardownPC
<1>14. CASE ReadEventFD
    BY <1>14 DEF ReadEventFD, ProducerPC, ConsumerPC, TeardownPC
<1>15. CASE MarkAwake
    BY <1>15 DEF MarkAwake, ProducerPC, ConsumerPC, TeardownPC
<1>16. CASE WakeCheck
    BY <1>16 DEF WakeCheck, ProducerPC, ConsumerPC, TeardownPC
<1>17. CASE Drain
    BY <1>17 DEF Drain, ProducerPC, ConsumerPC, TeardownPC
<1>18. CASE Consume
    <2>1. Inc(head) \in Cursor
        BY CursorStep
    <2>2. QED
        BY <1>18, <2>1 DEF Consume, ConsumerPC
<1>19. CASE CancelCtx
    BY <1>19, ParkWakeAssumption DEF CancelCtx
<1>20. CASE Terminated
    BY <1>20 DEF Terminated, vars
<1>21. CASE UNCHANGED vars
    BY <1>21 DEF vars
<1>22. QED
    BY <1>1, <1>2, <1>3, <1>4, <1>5, <1>6, <1>7, <1>8, <1>9, <1>10, <1>11,
       <1>12, <1>13, <1>14, <1>15, <1>16, <1>17, <1>18, <1>19, <1>20, <1>21
       DEF Next, Producer, Consumer

\* Every step keeps the park word in agreement with the consumer's position.
LEMMA NextParkedOnlyInWait == IInv /\ [Next]_vars => ParkedOnlyInWait'
<1> SUFFICES ASSUME IInv, [Next]_vars PROVE ParkedOnlyInWait'
    OBVIOUS
<1> USE DEF IInv, TypeOK, ParkedOnlyInWait
<1>1. CASE PrePublish
    BY <1>1 DEF PrePublish, ConsumerPC
<1>2. CASE Push
    BY <1>2 DEF Push, ConsumerPC
<1>3. CASE SignalGate
    BY <1>3 DEF SignalGate, ConsumerPC
<1>4. CASE SignalLoadPark
    BY <1>4 DEF SignalLoadPark, ConsumerPC
<1>5. CASE SignalWrite
    BY <1>5 DEF SignalWrite, ConsumerPC
<1>6. CASE SignalPoison
    BY <1>6 DEF SignalPoison, ConsumerPC
<1>7. CASE ProducerCrash
    BY <1>7 DEF ProducerCrash, ConsumerPC
<1>8. CASE TeardownBegin
    BY <1>8 DEF TeardownBegin, ConsumerPC
<1>9. CASE TeardownStep
    BY <1>9 DEF TeardownStep, ConsumerPC
<1>10. CASE Recv
    BY <1>10 DEF Recv, ConsumerPC
<1>11. CASE Spin
    BY <1>11 DEF Spin, ConsumerPC
<1>12. CASE TryPark
    BY <1>12 DEF TryPark, ConsumerPC
<1>13. CASE ArmCheck
    BY <1>13 DEF ArmCheck, ConsumerPC
<1>14. CASE ReadEventFD
    BY <1>14 DEF ReadEventFD, ConsumerPC
<1>15. CASE MarkAwake
    BY <1>15 DEF MarkAwake, ConsumerPC
<1>16. CASE WakeCheck
    BY <1>16 DEF WakeCheck, ConsumerPC
<1>17. CASE Drain
    BY <1>17 DEF Drain, ConsumerPC
<1>18. CASE Consume
    BY <1>18 DEF Consume, ConsumerPC
<1>19. CASE CancelCtx
    BY <1>19 DEF CancelCtx, ConsumerPC
<1>20. CASE Terminated
    BY <1>20 DEF Terminated, vars
<1>21. CASE UNCHANGED vars
    BY <1>21 DEF vars
<1>22. QED
    BY <1>1, <1>2, <1>3, <1>4, <1>5, <1>6, <1>7, <1>8, <1>9, <1>10, <1>11,
       <1>12, <1>13, <1>14, <1>15, <1>16, <1>17, <1>18, <1>19, <1>20, <1>21
       DEF Next, Producer, Consumer

\* Every step keeps the drained range inside the published one.
LEMMA NextDrainBounded == IInv /\ [Next]_vars => DrainBounded'
<1> SUFFICES ASSUME IInv, [Next]_vars PROVE DrainBounded'
    OBVIOUS
<1> USE DEF IInv, TypeOK, DrainBounded
<1>1. CASE PrePublish
    BY <1>1 DEF PrePublish, ConsumerPC
<1>2. CASE Push
    <2>1. CASE UNCHANGED tail
        BY <1>2, <2>1 DEF Push
    <2>2. CASE tail' = Inc(tail) /\ Depth(tail, head) < Cap
        <3>1. Depth(tail', head') = Depth(tail, head) + 1
            BY <1>2, <2>2, CursorStep, ParkWakeAssumption DEF Push, Cursor
        <3>2. Depth(tail, head) \in Nat /\ Depth(seen, head) \in Nat
            BY CursorStep, ParkWakeAssumption
        <3>3. QED
            BY <1>2, <2>2, <3>1, <3>2, ParkWakeAssumption DEF Push
    <2>3. QED
        BY <1>2, <2>1, <2>2 DEF Push
<1>3. CASE SignalGate
    BY <1>3 DEF SignalGate, ConsumerPC
<1>4. CASE SignalLoadPark
    BY <1>4 DEF SignalLoadPark, ConsumerPC
<1>5. CASE SignalWrite
    BY <1>5 DEF SignalWrite, ConsumerPC
<1>6. CASE SignalPoison
    BY <1>6 DEF SignalPoison, ConsumerPC
<1>7. CASE ProducerCrash
    BY <1>7 DEF ProducerCrash, ConsumerPC
<1>8. CASE TeardownBegin
    BY <1>8 DEF TeardownBegin, ConsumerPC
<1>9. CASE TeardownStep
    BY <1>9 DEF TeardownStep, ConsumerPC
<1>10. CASE Recv
    BY <1>10 DEF Recv, ConsumerPC
<1>11. CASE Spin
    <2>1. Depth(tail, head) \in Nat /\ Depth(seen, head) \in Nat
        BY CursorStep, ParkWakeAssumption
    <2>2. QED
        BY <1>11, <2>1 DEF Spin
<1>12. CASE TryPark
    BY <1>12 DEF TryPark, ConsumerPC
<1>13. CASE ArmCheck
    <2>1. Depth(tail, head) \in Nat /\ Depth(seen, head) \in Nat
        BY CursorStep, ParkWakeAssumption
    <2>2. QED
        BY <1>13, <2>1 DEF ArmCheck
<1>14. CASE ReadEventFD
    BY <1>14 DEF ReadEventFD, ConsumerPC
<1>15. CASE MarkAwake
    BY <1>15 DEF MarkAwake, ConsumerPC
<1>16. CASE WakeCheck
    <2>1. Depth(tail, head) \in Nat /\ Depth(seen, head) \in Nat
        BY CursorStep, ParkWakeAssumption
    <2>2. QED
        BY <1>16, <2>1 DEF WakeCheck
<1>17. CASE Drain
    BY <1>17 DEF Drain, ConsumerPC
<1>18. CASE Consume
    <2>1. CASE UNCHANGED head
        BY <1>18, <2>1 DEF Consume
    <2>2. CASE head' = Inc(head)
        <3>1. head # seen /\ Depth(seen, head) <= Depth(tail, head)
            BY <1>18 DEF Consume
        <3>2. tail # head
            BY <3>1, CursorStep, ParkWakeAssumption
        <3>3. /\ Depth(tail', head') = Depth(tail, head) - 1
              /\ Depth(seen', head') = Depth(seen, head) - 1
            BY <1>18, <2>2, <3>1, <3>2, CursorStep DEF Consume
        <3>4. Depth(tail, head) \in Nat /\ Depth(seen, head) \in Nat
            BY CursorStep, ParkWakeAssumption
        <3>5. cpc' # "consume"
            BY <1>18 DEF Consume
        <3>6. QED
            BY <3>1, <3>3, <3>4, <3>5, ParkWakeAssumption
    <2>3. QED
        BY <1>18, <2>1, <2>2 DEF Consume
<1>19. CASE CancelCtx
    BY <1>19 DEF CancelCtx, ConsumerPC
<1>20. CASE Terminated
    BY <1>20 DEF Terminated, vars
<1>21. CASE UNCHANGED vars
    BY <1>21 DEF vars
<1>22. QED
    BY <1>1, <1>2, <1>3, <1>4, <1>5, <1>6, <1>7, <1>8, <1>9, <1>10, <1>11,
       <1>12, <1>13, <1>14, <1>15, <1>16, <1>17, <1>18, <1>19, <1>20, <1>21
       DEF Next, Producer, Consumer

\* Every step keeps the order in which a teardown stores its words.
LEMMA NextTeardownOrder == IInv /\ [Next]_vars => TeardownOrder'
<1> SUFFICES ASSUME IInv, [Next]_vars PROVE TeardownOrder'
    OBVIOUS
<1> USE DEF IInv, TypeOK, TeardownOrder
<1>1. CASE PrePublish
    BY <1>1 DEF PrePublish
<1>2. CASE Push
    BY <1>2 DEF Push
<1>3. CASE SignalGate
    BY <1>3 DEF SignalGate
<1>4. CASE SignalLoadPark
    BY <1>4 DEF SignalLoadPark
<1>5. CASE SignalWrite
    BY <1>5 DEF SignalWrite
<1>6. CASE SignalPoison
    BY <1>6 DEF SignalPoison
<1>7. CASE ProducerCrash
    BY <1>7 DEF ProducerCrash
<1>8. CASE TeardownBegin
    BY <1>8 DEF TeardownBegin
<1>9. CASE TeardownStep
    BY <1>9 DEF TeardownStep
<1>10. CASE Recv
    BY <1>10 DEF Recv
<1>11. CASE Spin
    BY <1>11 DEF Spin
<1>12. CASE TryPark
    BY <1>12 DEF TryPark
<1>13. CASE ArmCheck
    BY <1>13 DEF ArmCheck
<1>14. CASE ReadEventFD
    BY <1>14 DEF ReadEventFD
<1>15. CASE MarkAwake
    BY <1>15 DEF MarkAwake
<1>16. CASE WakeCheck
    BY <1>16 DEF WakeCheck
<1>17. CASE Drain
    BY <1>17 DEF Drain
<1>18. CASE Consume
    BY <1>18 DEF Consume
<1>19. CASE CancelCtx
    BY <1>19 DEF CancelCtx
<1>20. CASE Terminated
    BY <1>20 DEF Terminated, vars
<1>21. CASE UNCHANGED vars
    BY <1>21 DEF vars
<1>22. QED
    BY <1>1, <1>2, <1>3, <1>4, <1>5, <1>6, <1>7, <1>8, <1>9, <1>10, <1>11,
       <1>12, <1>13, <1>14, <1>15, <1>16, <1>17, <1>18, <1>19, <1>20, <1>21
       DEF Next, Producer, Consumer

\* Every step keeps a wake owed to a blocked consumer that has something to see.
LEMMA NextNoLostWakeup == IInv /\ [Next]_vars => NoLostWakeup'
<1> SUFFICES ASSUME IInv, [Next]_vars PROVE NoLostWakeup'
    OBVIOUS
<1> USE DEF IInv, TypeOK, ParkedOnlyInWait, TeardownOrder, NoLostWakeup, Signalling
<1>1. CASE PrePublish
    BY <1>1 DEF PrePublish
<1>2. CASE Push
    BY <1>2 DEF Push
<1>3. CASE SignalGate
    BY <1>3 DEF SignalGate
<1>4. CASE SignalLoadPark
    BY <1>4 DEF SignalLoadPark
<1>5. CASE SignalWrite
    BY <1>5 DEF SignalWrite
<1>6. CASE SignalPoison
    BY <1>6 DEF SignalPoison
<1>7. CASE ProducerCrash
    BY <1>7 DEF ProducerCrash
<1>8. CASE TeardownBegin
    BY <1>8 DEF TeardownBegin
<1>9. CASE TeardownStep
    BY <1>9 DEF TeardownStep
<1>10. CASE Recv
    BY <1>10 DEF Recv
<1>11. CASE Spin
    BY <1>11 DEF Spin
<1>12. CASE TryPark
    BY <1>12 DEF TryPark
<1>13. CASE ArmCheck
    BY <1>13 DEF ArmCheck
<1>14. CASE ReadEventFD
    BY <1>14 DEF ReadEventFD
<1>15. CASE MarkAwake
    BY <1>15 DEF MarkAwake
<1>16. CASE WakeCheck
    BY <1>16 DEF WakeCheck
<1>17. CASE Drain
    BY <1>17 DEF Drain
<1>18. CASE Consume
    BY <1>18 DEF Consume
<1>19. CASE CancelCtx
    BY <1>19 DEF CancelCtx
<1>20. CASE Terminated
    BY <1>20 DEF Terminated, vars
<1>21. CASE UNCHANGED vars
    BY <1>21 DEF vars
<1>22. QED
    BY <1>1, <1>2, <1>3, <1>4, <1>5, <1>6, <1>7, <1>8, <1>9, <1>10, <1>11,
       <1>12, <1>13, <1>14, <1>15, <1>16, <1>17, <1>18, <1>19, <1>20, <1>21
       DEF Next, Producer, Consumer

\* The inductive invariant holds in every reachable state.
THEOREM InvariantHolds == Spec => []IInv
<1>1. IInv /\ [Next]_vars => IInv'
    BY NextTypeOK, NextParkedOnlyInWait, NextDrainBounded, NextTeardownOrder,
       NextNoLostWakeup DEF IInv
<1>2. QED
    BY InitIInv, <1>1, PTL DEF Spec

\* The words, cursors and program counters of the protocol keep their types.
THEOREM TypeCorrect == Spec => []TypeOK
BY InvariantHolds, PTL DEF IInv

\* No wakeup is lost: SpinWaiter.Wait never blocks for good on a ring that holds
\* work, or on a region that was shut down, unless a wake is still to be written.
THEOREM WakeupsNotLost == Spec => []NoLostWakeup
BY InvariantHolds, PTL DEF IInv

\* The park word reads PARKED exactly inside Wait's armed section.
THEOREM ParkWordNeverDangles == Spec => []ParkedOnlyInWait
BY InvariantHolds, PTL DEF IInv

\* drain never runs past the published tail, whatever the cursor width.
THEOREM DrainStaysBounded == Spec => []DrainBounded
BY InvariantHolds, PTL DEF IInv
=============================================================================
