-------------------------- MODULE MCWriterQueue --------------------------
(* Instances of WriterQueue: a copied frame, a fill and two lifecycle     *)
(* frames, in the mixes that contend for the queues, the slab and a turn. *)
EXTENDS WriterQueue

CONSTANTS copy, fill1, cancel, ack

MCMixes == {{copy, fill1}, {copy, cancel, ack}, {fill1, cancel}}
==========================================================================
