------------------------------ MODULE EventBus ------------------------------
(***************************************************************************)
(* One subscription of the supervisor's generic Bus: its two bounded rings *)
(* and its forwarder goroutine.  A publish and its wake-up are one step:   *)
(* nothing can be observed between them but a token that arrives later.    *)
(***************************************************************************)
EXTENDS Naturals, Sequences, EventKinds

CONSTANTS
    InfoCap,    \* InformationalBufferCapacity (16 in the code)
    None        \* no event in hand

ASSUME EventBusAssumption == InfoCap \in Nat \ {0}

CriticalBufferCapacity == 3

\* a fresh busSubscriber with its forwarder goroutine started
Subscribed == [crit |-> <<>>, info |-> <<>>, hand |-> None, sending |-> 0, wake |-> 0, done |-> 0, pc |-> "next"]

\* one ring: the oldest entry makes room
Put(q, ev, cap) == Append(IF Len(q) = cap THEN Tail(q) ELSE q, ev)

Enqueue(s, ev, cap) ==
    LET woken == [s EXCEPT !.wake = 1] IN
    IF IsCritical(ev.kind) THEN [woken EXCEPT !.crit = Put(@, ev, cap)] ELSE [woken EXCEPT !.info = Put(@, ev, InfoCap)]

Quiesced(s) == s.crit = <<>> /\ s.info = <<>> /\ s.sending = 0

\* next: critical first, checked out under the same lock
Checkout(s, pc) ==
    IF s.crit # <<>> THEN [s EXCEPT !.hand = Head(s.crit), !.crit = Tail(@), !.sending = 1, !.pc = pc]
    ELSE [s EXCEPT !.hand = Head(s.info), !.info = Tail(@), !.sending = 1, !.pc = pc]

Pending(s) == s.crit # <<>> \/ s.info # <<>>

\* an unsubscribe ends the blocked send
Interrupted(s) == {t \in {[s EXCEPT !.pc = "try"]} : s.done = 1}

\* forward: the steps that involve no receiver, as the set of subscribers s may become
ForwarderSteps(s) ==
    CASE s.pc = "next" -> {IF Pending(s) THEN Checkout(s, "send") ELSE [s EXCEPT !.pc = "nothing"]}
      [] s.pc = "nothing" -> {[s EXCEPT !.pc = "idle"]}
      [] s.pc = "idle" -> {t \in {[s EXCEPT !.wake = 0, !.pc = "next"]} : s.wake = 1}
                              \cup {t \in {[s EXCEPT !.pc = "final"]} : s.done = 1}
      [] s.pc = "send" -> Interrupted(s)
      [] s.pc = "clear" -> {[s EXCEPT !.sending = 0, !.pc = "next"]}
      [] s.pc = "final" -> {IF Pending(s) THEN Checkout(s, "try") ELSE [s EXCEPT !.pc = "closed"]}
      [] OTHER -> {}

\* tryHandOff with nobody waiting: the event is dropped and the channel closed
DropInHand(s) == [s EXCEPT !.hand = None, !.sending = 0, !.pc = "closed"]

\* a receiver takes the event in hand; after an unsubscribe the hand-off loop goes on
HandOver(s) ==
    [s EXCEPT !.hand = None, !.pc = IF s.pc = "send" THEN "clear" ELSE "final",
              !.sending = IF s.pc = "send" THEN @ ELSE 0]

SubscriberOK(s, Events) ==
    /\ s.crit \in Seq({e \in Events : IsCritical(e.kind)}) /\ s.info \in Seq({e \in Events : ~IsCritical(e.kind)})
    /\ s.hand \in Events \cup {None} /\ {s.sending, s.wake, s.done} \subseteq {0, 1}
    /\ s.pc \in {"next", "nothing", "idle", "send", "clear", "try", "final", "closed"}
    /\ (s.hand # None) = (s.pc \in {"send", "try"}) /\ (s.pc \in {"send", "try", "clear"}) = (s.sending = 1)

=============================================================================
