--------------------------- MODULE BoundedChannel ---------------------------
(***************************************************************************)
(* What a bounded hand-over between threads promises, whatever it is made  *)
(* of: items leave in the order they entered, none is lost, duplicated or  *)
(* invented, never more than cap of them are on their way, and nothing     *)
(* enters once the channel is shut.  container/Queue.h implements it       *)
(* (module Queue), and so does the ring of runtime/ProducerConsumer.h      *)
(* (module ProducerConsumer).                                              *)
(***************************************************************************)
EXTENDS Naturals, Sequences

CONSTANT Item   \* what travels

VARIABLES
    sent,       \* every item that entered, in order
    received,   \* every item that left, in order
    cap,        \* the bound on the items on their way
    shut        \* no item may enter any more

chVars == <<sent, received, cap, shut>>

InFlight == Len(sent) - Len(received)

ChInit ==
    /\ sent = << >>
    /\ received = << >>
    /\ cap \in Nat \ {0}
    /\ shut = FALSE

Send ==
    /\ ~shut
    /\ InFlight < cap
    /\ \E x \in Item : sent' = Append(sent, x)
    /\ UNCHANGED <<received, cap, shut>>

\* One or more items leave together (Queue::pop(std::vector&)).
Receive ==
    /\ \E k \in 1..InFlight :
          received' = received \o SubSeq(sent, Len(received) + 1, Len(received) + k)
    /\ UNCHANGED <<sent, cap, shut>>

Rebound ==
    /\ cap' \in Nat \ {0}
    /\ InFlight <= cap'
    /\ UNCHANGED <<sent, received, shut>>

Shut ==
    /\ shut' = TRUE
    /\ UNCHANGED <<sent, received, cap>>

ChNext == Send \/ Receive \/ Rebound \/ Shut

ChSpec == ChInit /\ [][ChNext]_chVars
=============================================================================
