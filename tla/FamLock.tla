------------------------------- MODULE FamLock -------------------------------
(***************************************************************************)
(* The lock of a FamMap, kept in fabric-attached memory: FamMap::lock and  *)
(* FamMap::unlock of io/fam/FamMap.cc.                                     *)
(*                                                                         *)
(* The lock is the time, in seconds, at which it was taken, and 0 when it  *)
(* is free.  A holder that has kept it longer than lock_ttl is taken for   *)
(* dead, and the lock is stolen.  Times are unsigned integers, and so is   *)
(* their difference.  All processes see one clock.                         *)
(***************************************************************************)
EXTENDS Integers, FiniteSets

CONSTANTS
    Lockers,  \* the processes
    Ttl,      \* lock_ttl
    MaxTime,  \* how far the clock goes
    Word      \* unsigned integers are 0 .. Word - 1

ASSUME TtlAssumption == Ttl \in Nat
ASSUME WordAssumption == Word \in Nat \ {0}

VARIABLES
    time,     \* the clock
    lock_,    \* the lock object
    at,       \* process -> where it is
    now,      \* process -> its nowSeconds()
    held,     \* process -> what it fetched
    overrun,  \* history: a process kept the lock when its lease was old
    early     \* history: a lease newer than the time it is compared with was fetched

lease == <<time, lock_, at, now, held, overrun, early>>

LockInit ==
    /\ time = 1
    /\ lock_ = 0
    /\ at = [p \in Lockers |-> "idle"]
    /\ now = [p \in Lockers |-> 0]
    /\ held = [p \in Lockers |-> 0]
    /\ overrun = FALSE
    /\ early = FALSE

Move(p, l) == at' = [at EXCEPT ![p] = l]
Holders == {p \in Lockers : at[p] = "holds"}

\* lock(): nowSeconds()
Now(p) ==
    /\ at[p] \in {"idle", "again"}
    /\ now' = [now EXCEPT ![p] = time]
    /\ Move(p, "swap")
    /\ UNCHANGED <<time, lock_, held, overrun, early>>

Taken(p) ==
    /\ Move(p, "holds")
    /\ lock_' = now[p]
    /\ overrun' = (overrun \/ time - now[p] > Ttl)

\* lock(): compareSwap from 0 to now
Swap(p) ==
    /\ at[p] = "swap"
    /\ IF lock_ = 0 THEN Taken(p) ELSE Move(p, "fetch") /\ UNCHANGED <<lock_, overrun>>
    /\ UNCHANGED <<time, now, held, early>>

\* Mutant: the lease is old as soon as it lasts as long as it may.
Old_AtOnce(t, h) == (t - h) % Word >= Ttl

\* (now - held) > lock_ttl
Old(t, h) == (t - h) % Word > Ttl

\* lock(): the lease is fetched and compared with the time read before
Fetch(p) ==
    /\ at[p] = "fetch"
    /\ held' = [held EXCEPT ![p] = lock_]
    /\ Move(p, IF lock_ # 0 /\ Old(now[p], lock_) THEN "steal" ELSE "again")
    /\ early' = (early \/ lock_ > now[p])
    /\ UNCHANGED <<time, lock_, now, overrun>>

\* lock(): compareSwap from held to now
Steal(p) ==
    /\ at[p] = "steal"
    /\ IF lock_ = held[p] THEN Taken(p) ELSE Move(p, "again") /\ UNCHANGED <<lock_, overrun>>
    /\ UNCHANGED <<time, now, held, early>>

\* unlock()
Unlock(p) ==
    /\ at[p] = "holds"
    /\ lock_' = 0
    /\ Move(p, "idle")
    /\ UNCHANGED <<time, now, held, overrun, early>>

\* A holder dies.
Die(p) ==
    /\ at[p] = "holds"
    /\ Move(p, "dead")
    /\ UNCHANGED <<time, lock_, now, held, overrun, early>>

Tick ==
    /\ time < MaxTime
    /\ time' = time + 1
    /\ overrun' = (overrun \/ \E p \in Holders : time + 1 - now[p] > Ttl)
    /\ UNCHANGED <<lock_, at, now, held, early>>

LockNext == Tick \/ \E p \in Lockers : Now(p) \/ Swap(p) \/ Fetch(p) \/ Steal(p) \/ Unlock(p) \/ Die(p)

LockSpec == LockInit /\ [][LockNext]_lease

----------------------------------------------------------------------------
\* lock() and unlock() serialise the processes, as long as none of them keeps
\* the lock longer than lock_ttl after the time it asked for it.
LockSerialises == ~overrun => Cardinality(Holders) <= 1

\* The same, when no process was slow between reading the time and fetching the
\* lease, so that the lease was taken after that time.
LockSerialisesInTime == ~overrun /\ ~early => Cardinality(Holders) <= 1
=============================================================================
