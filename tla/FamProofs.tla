------------------------------ MODULE FamProofs ------------------------------
(***************************************************************************)
(* FindsInserted of FamMap, for any number of processes and keys, and      *)
(* LockSerialisesInTime of FamLock, for any number of processes, any       *)
(* lock_ttl and any word size.                                             *)
(***************************************************************************)
EXTENDS FamMap, FamLock, SequenceTheorems, FiniteSetTheorems, TLAPS

MapPlaces ==
    {"idle", "get", "claim", "create", "fields", "publish", "spin", "describe", "scan", "push",
     "count", "dead"}

MapTypes ==
    /\ head \in {"0", "creating", "list"}
    /\ entries \in Seq(Keys)
    /\ pc \in [Procs -> MapPlaces]
    /\ call = [p \in Procs |-> call[p]]

\* What holds of process p, by where it is: it describes, scans and pushes only
\* what is published; it publishes only what is written; and what its find() is
\* sure to find was inserted.
Placed(p) ==
    /\ pc[p] = "publish" => fields = TRUE
    /\ pc[p] \in {"describe", "scan", "push", "count"} => head = "list"
    /\ pc[p] \notin {"idle", "dead"} => call[p].key \in Keys
    /\ pc[p] = "count" => In(call[p].key)
    /\ call[p].known => call[p].key \in added

\* The inductive invariant.
MapInv ==
    /\ MapTypes
    /\ head = "list" => fields = TRUE
    /\ \A k \in added : head = "list" /\ In(k)
    /\ \A p \in Procs : Placed(p)
    /\ ~wrong

\* A process that is in no call looks for no key it is sure to find.
LEMMA NoCallKnown == ~NoCall.known
BY DEF NoCall

\* The empty map.
LEMMA InitMapInv == Init => MapInv
<1> SUFFICES ASSUME Init PROVE MapInv
    OBVIOUS
<1>1. ~wrong
    BY Zenon DEF Init
<1>2. \A p \in Procs : pc[p] = "idle" /\ call[p] = NoCall
    BY DEF Init
<1>3. \A p \in Procs : ~call[p].known
    BY <1>2, NoCallKnown
<1>4. MapTypes
    BY DEF Init, MapTypes, MapPlaces
<1>5. QED
    BY <1>1, <1>2, <1>3, <1>4 DEF Init, MapInv, Placed

\* What is in the list stays there when an entry is pushed, and so is that entry.
LEMMA PushKeeps ==
    ASSUME entries \in Seq(Keys), NEW k \in Keys, entries' = <<k>> \o entries
    PROVE  /\ entries' \in Seq(Keys)
           /\ In(k)'
           /\ \A m : In(m) => In(m)'
<1>1. entries' \in Seq(Keys) /\ Len(entries') = 1 + Len(entries)
    OBVIOUS
<1>2. entries'[1] = k /\ \A i \in 1 .. Len(entries) : entries'[i + 1] = entries[i]
    OBVIOUS
<1>3. In(k)'
    BY <1>1, <1>2 DEF In
<1>4. ASSUME NEW m, In(m) PROVE In(m)'
    <2>1. PICK i \in 1 .. Len(entries) : entries[i] = m
        BY <1>4 DEF In
    <2>2. i + 1 \in 1 .. Len(entries') /\ entries'[i + 1] = m
        BY <1>1, <1>2, <2>1
    <2>3. QED
        BY <2>2 DEF In
<1>5. QED
    BY <1>1, <1>3, <1>4

\* Every step of insert() and find() keeps the inductive invariant.
LEMMA StepMapInv == MapInv /\ [Next]_map => MapInv'
<1> SUFFICES ASSUME MapInv, [Next]_map PROVE MapInv'
    OBVIOUS
<1> USE DEF MapInv, MapTypes, MapPlaces, Placed, Goto
<1>1. ASSUME NEW p \in Procs, NEW op \in {"insert", "forceInsert", "find"}, NEW k \in Keys, Call(p, op, k)
      PROVE  MapInv'
    BY ZenonT(60), <1>1 DEF Call, In
<1>2. ASSUME NEW p \in Procs, GetBucket(p) PROVE MapInv'
    <2>1. call[p].known => head = "list"
        OBVIOUS
    <2>2. ~wrong'
        BY Zenon, <1>2, <2>1 DEF GetBucket
    <2>3. MapTypes' /\ UNCHANGED <<head, fields, entries, added>>
        BY <1>2 DEF GetBucket, Return
    <2>4. ASSUME NEW q \in Procs PROVE Placed(q)'
        BY <1>2, <2>3, NoCallKnown DEF GetBucket, Return, In
    <2>5. QED
        BY Zenon, <2>2, <2>3, <2>4 DEF In
<1>3. ASSUME NEW p \in Procs, Claim(p) PROVE MapInv'
    BY <1>3 DEF Claim, In
<1>4. ASSUME NEW p \in Procs, Create(p) PROVE MapInv'
    BY <1>4 DEF Create, CreatedHead, In
<1>5. ASSUME NEW p \in Procs, WriteFields(p) PROVE MapInv'
    BY <1>5 DEF WriteFields, In
<1>6. ASSUME NEW p \in Procs, Publish(p) PROVE MapInv'
    BY <1>6 DEF Publish, In
<1>7. ASSUME NEW p \in Procs, Spin(p) PROVE MapInv'
    BY <1>7 DEF Spin, In
<1>8. ASSUME NEW p \in Procs, SpinThrows(p) PROVE MapInv'
    BY ZenonT(60), <1>8 DEF SpinThrows, Return, NoCall, In
<1>9. ASSUME NEW p \in Procs, Describe(p) PROVE MapInv'
    BY Zenon, <1>9 DEF Describe, In
<1>10. ASSUME NEW p \in Procs, Scan(p) PROVE MapInv'
    <2>1. call[p].known => In(call[p].key)
        OBVIOUS
    <2>2. ~wrong'
        BY Zenon, <1>10, <2>1 DEF Scan
    <2>3. MapTypes' /\ UNCHANGED <<head, fields, entries, added>>
        BY <1>10 DEF Scan, Return
    <2>4. ASSUME NEW q \in Procs PROVE Placed(q)'
        BY <1>10, <2>3, NoCallKnown DEF Scan, Return, In
    <2>5. QED
        BY Zenon, <2>2, <2>3, <2>4 DEF In
<1>11. ASSUME NEW p \in Procs, Push(p) PROVE MapInv'
    BY <1>11, PushKeeps DEF Push
<1>12. ASSUME NEW p \in Procs, Count(p) PROVE MapInv'
    BY ZenonT(60), <1>12 DEF Count, Return, NoCall, In
<1>13. ASSUME NEW p \in Procs, Crash(p) PROVE MapInv'
    BY Zenon, <1>13 DEF Crash, NoCall, In
<1>14. CASE UNCHANGED map
    BY <1>14 DEF map, In
<1>15. QED
    BY Zenon, <1>1, <1>2, <1>3, <1>4, <1>5, <1>6, <1>7, <1>8, <1>9, <1>10, <1>11, <1>12, <1>13, <1>14
    DEF Next, Step

\* Whatever processes insert, find, create the bucket or die, in whatever order,
\* find() finds what was inserted, in a bucket that is complete.
THEOREM FindsInsertedHolds == Spec => []FindsInserted
<1>1. MapInv => FindsInserted
    BY DEF MapInv, FindsInserted
<1>2. QED
    BY <1>1, InitMapInv, StepMapInv, PTL DEF Spec

-----------------------------------------------------------------------------
LockPlaces == {"idle", "swap", "fetch", "steal", "again", "holds", "dead"}

LockTypes ==
    /\ time \in Nat /\ time > 0
    /\ lock_ \in Nat
    /\ at \in [Lockers -> LockPlaces]
    /\ now \in [Lockers -> Nat]
    /\ held \in [Lockers -> Nat]
    /\ overrun \in BOOLEAN
    /\ early \in BOOLEAN
    /\ \A p \in Lockers : now[p] <= time
    /\ \A p \in Lockers : at[p] # "idle" => now[p] > 0

\* What the holder relies on: the lease is its own, and not old.
Leased(p) == lock_ = now[p] /\ time - now[p] <= Ttl

\* What a thief has seen: a lease that was old when it asked for the lock.
Seen(p) == now[p] - held[p] > Ttl

\* The inductive invariant.
LockInv ==
    /\ LockTypes
    /\ ~overrun /\ ~early =>
          /\ \A p, q \in Lockers : at[p] = "holds" /\ at[q] = "holds" => p = q
          /\ \A p \in Lockers : at[p] = "holds" => Leased(p)
          /\ \A p \in Lockers : at[p] = "steal" => Seen(p)

\* The lease of a map nobody has locked.
LEMMA InitLockInv == LockInit => LockInv
<1> SUFFICES ASSUME LockInit PROVE LockInv
    OBVIOUS
<1>1. overrun \in BOOLEAN /\ early \in BOOLEAN
    BY Zenon DEF LockInit
<1>2. \A p \in Lockers : at[p] = "idle"
    BY DEF LockInit
<1>3. QED
    BY <1>1, <1>2 DEF LockInit, LockInv, LockTypes, LockPlaces

\* A remainder is not greater than the number.
LEMMA RemainderLess == ASSUME NEW x \in Nat PROVE x % Word <= x
<1>1. CASE x < Word
    <2>1. x % Word = x
        BY <1>1, WordAssumption
    <2>2. QED
        BY <2>1
<1>2. CASE ~(x < Word)
    <2>1. x % Word \in 0 .. Word - 1
        BY WordAssumption
    <2>2. QED
        BY <1>2, <2>1, WordAssumption
<1>3. QED
    BY <1>1, <1>2

\* Without underflow, a lease that looks old is old.
LEMMA OldIsOld == ASSUME NEW t \in Nat, NEW h \in Nat, h <= t, Old(t, h) PROVE t - h > Ttl
<1>1. t - h \in Nat
    OBVIOUS
<1>2. (t - h) % Word <= t - h
    BY <1>1, RemainderLess
<1>3. (t - h) % Word \in Int
    BY <1>1, WordAssumption
<1>4. QED
    BY <1>1, <1>2, <1>3, TtlAssumption DEF Old

\* Taking the lock when nobody holds it.
LEMMA TakenKeeps ==
    ASSUME LockInv, NEW p \in Lockers, Taken(p), UNCHANGED <<time, now, held, early>>, at[p] # "idle",
           ~overrun /\ ~early => \A q \in Lockers : at[q] # "holds"
    PROVE  LockInv'
<1> USE DEF LockInv, LockTypes, LockPlaces
<1>1. LockTypes'
    BY TtlAssumption DEF Taken, Move
<1>2. ~overrun' => ~overrun /\ time - now[p] <= Ttl
    <2>1. ~overrun' => ~overrun /\ ~(time - now[p] > Ttl)
        BY Zenon DEF Taken
    <2>2. QED
        BY <2>1, TtlAssumption
<1>3. \A q \in Lockers : at'[q] = IF q = p THEN "holds" ELSE at[q]
    BY DEF Taken, Move
<1>4. ASSUME ~overrun', ~early'
      PROVE  /\ \A q, r \in Lockers : at'[q] = "holds" /\ at'[r] = "holds" => q = r
             /\ \A q \in Lockers : at'[q] = "holds" => Leased(q)'
             /\ \A q \in Lockers : at'[q] = "steal" => Seen(q)'
    BY SMTT(60), <1>2, <1>3, <1>4 DEF Taken, Leased, Seen
<1>5. QED
    BY <1>1, <1>4

\* Every step of a process, and of its clock, keeps the inductive invariant.
LEMMA StepLockInv == LockInv /\ [LockNext]_lease => LockInv'
<1> SUFFICES ASSUME LockInv, [LockNext]_lease PROVE LockInv'
    OBVIOUS
<1> USE TtlAssumption DEF LockInv, LockTypes, LockPlaces, Leased, Seen
<1>1. CASE Tick
    <2>1. ~overrun' => ~overrun /\ \A p \in Holders : ~(time + 1 - now[p] > Ttl)
        BY <1>1, Zenon DEF Tick
    <2>2. overrun' \in BOOLEAN
        BY <1>1, Zenon DEF Tick
    <2>3. LockTypes'
        BY <1>1, <2>2 DEF Tick
    <2>4. QED
        BY <1>1, <2>1, <2>3 DEF Tick, Holders
<1>2. ASSUME NEW p \in Lockers, Now(p) PROVE LockInv'
    BY <1>2 DEF Now, Move
<1>3. ASSUME NEW p \in Lockers, Swap(p) PROVE LockInv'
    <2>1. CASE lock_ = 0
        <3>1. Taken(p) /\ UNCHANGED <<time, now, held, early>> /\ at[p] = "swap"
            BY <1>3, <2>1 DEF Swap
        <3>2. ~overrun /\ ~early => \A q \in Lockers : at[q] # "holds"
            BY <2>1
        <3>3. QED
            BY <3>1, <3>2, TakenKeeps
    <2>2. CASE lock_ # 0
        BY <1>3, <2>2 DEF Swap, Move
    <2>3. QED
        BY <2>1, <2>2
<1>4. ASSUME NEW p \in Lockers, Fetch(p) PROVE LockInv'
    <2>1. ~early' => ~early /\ lock_ <= now[p]
        <3>1. ~early' => ~early /\ ~(lock_ > now[p])
            BY <1>4, Zenon DEF Fetch
        <3>2. QED
            BY <3>1
    <2>2. ~early' /\ at'[p] = "steal" => now[p] - lock_ > Ttl
        <3>1. at'[p] = "steal" => Old(now[p], lock_)
            BY <1>4 DEF Fetch, Move
        <3>2. QED
            BY <2>1, <3>1, OldIsOld
    <2>3. LockTypes'
        BY <1>4 DEF Fetch, Move
    <2>4. ASSUME ~overrun', ~early' PROVE \A q \in Lockers : at'[q] = "steal" => Seen(q)'
        BY <1>4, <2>1, <2>2, <2>4 DEF Fetch, Move
    <2>5. ASSUME ~overrun', ~early'
          PROVE  /\ \A q, r \in Lockers : at'[q] = "holds" /\ at'[r] = "holds" => q = r
                 /\ \A q \in Lockers : at'[q] = "holds" => Leased(q)'
        BY <1>4, <2>1, <2>5 DEF Fetch, Move
    <2>6. QED
        BY <2>3, <2>4, <2>5
<1>5. ASSUME NEW p \in Lockers, Steal(p) PROVE LockInv'
    <2>1. CASE lock_ = held[p]
        <3>1. Taken(p) /\ UNCHANGED <<time, now, held, early>> /\ at[p] = "steal"
            BY <1>5, <2>1 DEF Steal
        <3>2. ~overrun /\ ~early => \A q \in Lockers : at[q] # "holds"
            BY <2>1, <3>1
        <3>3. QED
            BY <3>1, <3>2, TakenKeeps
    <2>2. CASE lock_ # held[p]
        BY <1>5, <2>2 DEF Steal, Move
    <2>3. QED
        BY <2>1, <2>2
<1>6. ASSUME NEW p \in Lockers, Unlock(p) PROVE LockInv'
    BY <1>6 DEF Unlock, Move
<1>7. ASSUME NEW p \in Lockers, Die(p) PROVE LockInv'
    BY <1>7 DEF Die, Move
<1>8. CASE UNCHANGED lease
    BY <1>8 DEF lease
<1>9. QED
    BY SMTT(60), <1>1, <1>2, <1>3, <1>4, <1>5, <1>6, <1>7, <1>8 DEF LockNext

\* Two processes in their critical sections would both have the lease.
LEMMA LockInvSerialises == LockInv => LockSerialisesInTime
<1> SUFFICES ASSUME LockInv, ~overrun, ~early PROVE Cardinality(Holders) <= 1
    BY DEF LockSerialisesInTime
<1>1. CASE Holders = {}
    BY <1>1, FS_EmptySet
<1>2. ASSUME NEW p \in Holders PROVE Cardinality(Holders) <= 1
    <2>1. Holders = {p}
        BY <1>2 DEF LockInv, LockTypes, Holders
    <2>2. Cardinality({p}) = 1
        BY FS_Singleton
    <2>3. QED
        BY <2>1, <2>2
<1>3. QED
    BY <1>1, <1>2

\* FamMap's lock serialises any number of processes, for any lock_ttl, as long as
\* nobody overruns its lease and no lease is newer than the time it is held to.
THEOREM LockSerialisesHolds == LockSpec => []LockSerialisesInTime
BY InitLockInv, StepLockInv, LockInvSerialises, PTL DEF LockSpec
=============================================================================
