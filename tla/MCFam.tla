------------------------------- MODULE MCFam --------------------------------
(* FamMap, the lock of the map and the FamList of a bucket, on small instances.
   A behaviour takes the steps of one of them (part), and the others stay in
   their initial states. *)
EXTENDS FamMap, FamLock

CONSTANTS MaxNodes, MaxListCalls, Regimes

VARIABLES
    part,
    regime, next, prev, marked, size_, lpc, node, near, far, lcalls, pushed, ladded, removed, seen

list == <<regime, next, prev, marked, size_, lpc, node, near, far, lcalls, pushed, ladded, removed, seen>>

L == INSTANCE FamList
        WITH Threads <- Procs, MaxCalls <- MaxListCalls, pc <- lpc, calls <- lcalls, added <- ladded

MCInit ==
    /\ part \in {"map", "list", "lock"}
    /\ Init /\ LockInit /\ L!Init
    /\ part # "list" => regime = "sequential"

MCNext ==
    /\ UNCHANGED part
    /\ \/ part = "map" /\ Next /\ UNCHANGED <<list, lease>>
       \/ part = "lock" /\ LockNext /\ UNCHANGED <<map, list>>
       \/ part = "list" /\ L!Next /\ UNCHANGED <<map, lease>>

MCSpec ==
    /\ MCInit /\ [][MCNext]_<<part, map, list, lease>>
    /\ \A p \in Procs : WF_map(part = "map" /\ Step(p))

\* The properties of FamList, which states them.
ListExact == L!ListExact
IterationComplete == L!IterationComplete
=============================================================================
