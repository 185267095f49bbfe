------------------------------ MODULE FrameFifo ------------------------------
(***************************************************************************)
(* What one direction of the shared-memory data plane promises its users:  *)
(* a bounded queue of frames.  A published frame is delivered once, intact *)
(* and in order, unless the receiver faults on it or the region goes down. *)
(***************************************************************************)
EXTENDS Naturals, Sequences

CONSTANTS
    Capacity,  \* frames the direction holds
    Frames     \* frame contents

VARIABLES
    queue,  \* frames published and not yet released by the receiver
    out     \* the frame last handed to the receiver's caller

fifoVars == <<queue, out>>

FifoInit == queue = <<>> /\ out \in Frames

Publish(f) ==
    /\ Len(queue) < Capacity
    /\ queue' = Append(queue, f)
    /\ UNCHANGED out

Deliver ==
    /\ queue # <<>>
    /\ out' = Head(queue) /\ queue' = Tail(queue)

\* The receiver's own fault: the frame is released, its caller gets an error.
Discard ==
    /\ queue # <<>>
    /\ queue' = Tail(queue) /\ UNCHANGED out

FifoNext == (\E f \in Frames : Publish(f)) \/ Deliver \/ Discard

FifoSpec == FifoInit /\ [][FifoNext]_fifoVars
=============================================================================
