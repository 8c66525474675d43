----------------------------- MODULE MCStorage ------------------------------
(* What writes files and has to find them again: TxnLog and AIOHandle on small
   instances.  A behaviour takes the steps of one of them (part), and the other
   stays in an initial state. *)
EXTENDS TxnLog, TLC

CONSTANTS Counts, MaxWrites, MaxOpens     \* of AIOHandle

ASSUME CountsAssumption == Counts \subseteq Nat

VARIABLES
    part,
    count_, fsync_, fd_, used_, pos_, buffers_, call, at, flying, mode, written, opens, outcome,
    reported, abandoned

aio ==
    <<count_, fsync_, fd_, used_, pos_, buffers_, call, at, flying, mode, written, opens, outcome,
      reported, abandoned>>

A == INSTANCE AIOHandle WITH file <- written

MCInit ==
    /\ part \in {"log", "aio"}
    /\ Init /\ A!Init
    /\ part # "log" => kind = "MemoryMapped"
    /\ part # "aio" => count_ = 1 /\ fsync_

MCNext ==
    /\ UNCHANGED part
    /\ \/ part = "log" /\ Next /\ UNCHANGED aio
       \/ part = "aio" /\ A!Next /\ UNCHANGED vars

MCSpec == MCInit /\ [][MCNext]_<<part, vars, aio>>

Symmetry == Permutations(Threads) \cup Permutations(Events)

\* The properties of AIOHandle, which states them.
BuffersHeld == A!BuffersHeld
FlushMeansWritten == A!FlushMeansWritten
=============================================================================
