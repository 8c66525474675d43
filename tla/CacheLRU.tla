------------------------------ MODULE CacheLRU ------------------------------
(***************************************************************************)
(* container/CacheLRU.cc: a cache of at most capacity_ entries, the most   *)
(* recently used first.  A value that is purged is given to the purge      *)
(* handler (FilePool closes and deletes it there).  The class has no lock: *)
(* every method is one action.                                             *)
(***************************************************************************)
EXTENDS Naturals, Sequences

CONSTANTS
    Key, Value,
    Capacities,    \* what the constructor and capacity(size_t) are given
    MaxOps         \* bound on the insertions and accesses

VARIABLES
    storage_,      \* std::list of entries <<key, value>>, front first (map_ indexes it)
    capacity_,
    purged,        \* history: values given to the purge handler
    extracted,     \* history: values handed back by extract()
    overwritten,   \* history: values replaced by insert() under their key
    lastUse,       \* history: when each key was last inserted or accessed
    now            \* history: insertions and accesses so far

vars == <<storage_, capacity_, purged, extracted, overwritten, lastUse, now>>

Init ==
    /\ storage_ = << >>
    /\ capacity_ \in Capacities
    /\ purged = {} /\ extracted = {} /\ overwritten = {}
    /\ lastUse = [k \in Key |-> 0]
    /\ now = 0

-----------------------------------------------------------------------------
Values(s) == {s[n][2] : n \in DOMAIN s}
Keys(s)   == {s[n][1] : n \in DOMAIN s}

Exists(k) == k \in Keys(storage_)

\* map_[k]: where the entry of k is in the list s
At(s, k) == CHOOSE n \in DOMAIN s : s[n][1] = k

\* erase(itr), if find() has found k
Without(s, k) ==
    IF k \in Keys(s)
    THEN SubSeq(s, 1, At(s, k) - 1) \o SubSeq(s, At(s, k) + 1, Len(s))
    ELSE s

\* trim(): what is over capacity goes from the back
Trim(s, cap) == SubSeq(s, 1, IF cap < Len(s) THEN cap ELSE Len(s))

\* push_front() of an entry whose key, if there, was erased before
Front(s, k, v) == << <<k, v>> >> \o Without(s, k)

\* The value stored under k, if any.
Stored(k) == IF Exists(k) THEN {storage_[At(storage_, k)][2]} ELSE {}

\* Mutant: what is trimmed is not given to the purge handler.
Over_Dropped(s, cap) == {}

\* what trim() gives to the purge handler
Over(s, cap) == Values(s) \ Values(Trim(s, cap))

\* insert(): the value an existing key had is dropped, not purged
Insert(k, v) ==
    LET s == Front(storage_, k, v) IN
    /\ storage_' = Trim(s, capacity_)
    /\ purged' = purged \cup Over(s, capacity_)
    /\ UNCHANGED capacity_

\* access(): the entry moves to the front; OutOfRange if there is none
Access(k) ==
    /\ Exists(k)
    /\ storage_' = Front(storage_, k, storage_[At(storage_, k)][2])
    /\ UNCHANGED <<capacity_, purged>>

\* extract(): the caller gets the value, nothing is purged; OutOfRange if there is none
Extract(k) ==
    /\ Exists(k)
    /\ storage_' = Without(storage_, k)
    /\ UNCHANGED <<capacity_, purged>>

\* remove()
Remove(k) ==
    /\ storage_' = Without(storage_, k)
    /\ purged' = purged \cup Stored(k)
    /\ UNCHANGED capacity_

\* clear(), also called by the destructor
Clear ==
    /\ storage_' = << >>
    /\ purged' = purged \cup Values(storage_)
    /\ UNCHANGED capacity_

\* capacity(size)
Capacity(n) ==
    /\ capacity_' = n
    /\ storage_' = Trim(storage_, n)
    /\ purged' = purged \cup Over(storage_, n)

-----------------------------------------------------------------------------
\* Values that were never inserted: a caller owns what it inserts.
Fresh == Value \ (Values(storage_) \cup purged \cup extracted \cup overwritten)

Uses(k) ==
    /\ now < MaxOps
    /\ now' = now + 1
    /\ lastUse' = [lastUse EXCEPT ![k] = now + 1]

Next ==
    \/ \E k \in Key : /\ Uses(k)
                      /\ \E v \in Fresh : Insert(k, v)
                      /\ overwritten' = overwritten \cup Stored(k)
                      /\ UNCHANGED extracted
    \/ \E k \in Key : Uses(k) /\ Access(k) /\ UNCHANGED <<extracted, overwritten>>
    \/ \E k \in Key : /\ Extract(k)
                      /\ extracted' = extracted \cup Stored(k)
                      /\ UNCHANGED <<overwritten, lastUse, now>>
    \/ /\ \/ \E k \in Key : Remove(k)
          \/ Clear
          \/ \E n \in Capacities : Capacity(n)
       /\ UNCHANGED <<extracted, overwritten, lastUse, now>>

Spec == Init /\ [][Next]_vars

-----------------------------------------------------------------------------
\* The list is in order of last use, so what trim() takes from the back is what
\* has gone unused longest; it is within its capacity, and every value has one
\* fate: it is stored once, or it was purged, handed back or overwritten.  None
\* is forgotten: a value leaves the cache into one of the three.
EntriesKept ==
    /\ []( /\ Len(storage_) <= capacity_
           /\ \A m, n \in DOMAIN storage_ : m < n =>
                 /\ lastUse[storage_[m][1]] > lastUse[storage_[n][1]]
                 /\ storage_[m][2] # storage_[n][2]
           /\ Values(storage_) \cap (purged \cup extracted \cup overwritten) = {}
           /\ purged \cap (extracted \cup overwritten) = {} /\ extracted \cap overwritten = {})
    /\ [][Values(storage_) \ Values(storage_)' \subseteq (purged \cup extracted \cup overwritten)']_vars

=============================================================================
