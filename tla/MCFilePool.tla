----------------------------- MODULE MCFilePool -----------------------------
(* Pools of open files: PooledFiles, FilePool, and by itself the CacheLRU that
   FilePool is built on, on small instances.  A behaviour takes the steps of one
   of them (part), and the others stay in an initial state. *)
EXTENDS PooledFiles, TLC

CONSTANTS
    Threads, Removers, Handles, Capacities, FilesVanish, OpenFails, CloseFails, NoHandle,
    MaxOps     \* of CacheLRU

\* A null pointer is no DataHandle; a capacity is a size_t.
ASSUME NullAssumption == NoHandle \notin Handles
ASSUME CapacityAssumption == Capacities \subseteq Nat

VARIABLES
    part,
    inUse_, storage_, capacity_, closed, op, arg, holds, asleep, closeThrew, dropped,
    entries, size, purged, extracted, overwritten, lastUse, now

pool == <<inUse_, storage_, capacity_, closed, op, arg, holds, asleep, closeThrew, dropped>>
lru == <<entries, size, purged, extracted, overwritten, lastUse, now>>

F == INSTANCE FilePool

\* The handles and threads of the pool also stand for the keys and values of the
\* cache, and the handles for the users of PooledFiles: one symmetry serves all.
L == INSTANCE CacheLRU WITH
        Key <- Handles, Value <- Threads, storage_ <- entries, capacity_ <- size

MCInit ==
    /\ part \in {"pooled", "pool", "lru"}
    /\ Init /\ F!Init /\ L!Init
    /\ part # "pooled" => kind = "file" /\ exists = {}
    /\ part # "pool" => capacity_ = 0 /\ \A t, u \in Threads : arg[t] = arg[u]
    /\ part # "lru" => size = 0

MCNext ==
    /\ UNCHANGED part
    /\ \/ part = "pooled" /\ Next /\ UNCHANGED <<pool, lru>>
       \/ part = "pool" /\ F!Next /\ UNCHANGED <<vars, lru>>
       \/ part = "lru" /\ L!Next /\ UNCHANGED <<vars, pool>>

MCSpec == MCInit /\ [][MCNext]_<<part, vars, pool, lru>>

Symmetry == Permutations(Threads) \cup Permutations(Handles) \cup Permutations(Paths)

\* The properties of FilePool and CacheLRU, which state them.
OneUser == F!OneUser
SignalChain == F!SignalChain
EntriesKept == L!EntriesKept
=============================================================================
