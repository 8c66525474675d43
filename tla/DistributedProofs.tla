------------------------- MODULE DistributedProofs --------------------------
(* The safety properties of processes that work together, for any number of them:
   NeverPartial and CreatedOnce of CacheManager, SentOnce of TCPTransport and
   TagsExpected of MPITransport. *)
EXTENDS CacheManager, TCPTransport, MPITransport, TLAPS

----------------------------------------------------------------------------
\* Processes that share a cache on disk.

\* Where a process has the lock and may still create the file.
Creating == {"create", "save", "commit"}
Critical == Creating \cup {"recheck"}
Early    == {"get", "open", "utime", "openLock", "lock"} \cup Critical
Places   == Early \cup {"found", "load", "loadLocked", "unlock", "unlink", "done"}

Types ==
    /\ file \in {"none", "complete"}
    /\ tmp \in [Procs -> {"none", "partial", "complete"}]
    /\ at \in [Procs -> Places]
    /\ inodes \in Nat
    /\ name \in 0 .. MaxInodes
    /\ fd \in [Procs -> 0 .. MaxInodes]
    /\ holder \in [1 .. MaxInodes -> SUBSET Procs]
    /\ evictions \in Nat
    /\ created \in Nat
    /\ failed \in BOOLEAN
    /\ \A p \in Procs : at[p] = "commit" => tmp[p] = "complete"
    /\ \A p \in Procs : at[p] \in {"lock"} \cup Critical => fd[p] # 0

\* As long as there is no file, nobody has got past the creation, so nobody has
\* unlinked the lock file: there is one inode, and its lock excludes.
Exclusive ==
    /\ created = IF file = "none" THEN 0 ELSE 1
    /\ \A p \in Procs : at[p] \in Critical => holder[fd[p]] = {p}
    /\ \A p \in Procs : at[p] \in Creating => file = "none"
    /\ file = "none" => \A p \in Procs : at[p] \in Early
    /\ file = "none" => \A p \in Procs : at[p] \in {"lock"} \cup Critical => fd[p] = name
    /\ file = "none" => \A p \in Procs : at[p] = "utime" => name # 0

\* The inductive invariant.
IInv == Types /\ (~failed /\ evictions = 0 => Exclusive)

\* No process has called getOrCreate() yet.
LEMMA InitIInv == Init => IInv
<1> SUFFICES ASSUME Init PROVE IInv
    OBVIOUS
<1> USE DEF Creating, Critical, Early, Places
<1>1. failed \in BOOLEAN
    BY Zenon DEF Init
<1>2. Types
    BY <1>1, InodesAssumption DEF Init, Types
<1>3. Exclusive
    BY DEF Init, Exclusive
<1>4. QED
    BY <1>2, <1>3 DEF IInv

\* Two processes past the lock, when there is no file, are one.
LEMMA OneCreates ==
    ASSUME Types, Exclusive, file = "none",
           NEW p \in Procs, NEW q \in Procs, at[p] \in Critical, at[q] \in Critical
    PROVE  p = q
BY SMTT(60) DEF Exclusive, Critical

\* Every step of getOrCreate() keeps the types.
LEMMA StepTypes == IInv /\ [Next]_vars => Types'
<1> SUFFICES ASSUME Types, [Next]_vars PROVE Types'
    BY DEF IInv
<1> USE DEF Types, Creating, Critical, Early, Places, Goto, lockfile
<1>1. ASSUME NEW p \in Procs, Get(p) PROVE Types'
    BY <1>1 DEF Get
<1>2. ASSUME NEW p \in Procs, OpenLock(p) PROVE Types'
    BY SMTT(60), <1>2, InodesAssumption DEF OpenLock, EnsureName
<1>3. ASSUME NEW p \in Procs, Lock(p) PROVE Types'
    BY <1>3 DEF Lock
<1>4. ASSUME NEW p \in Procs, Recheck(p) PROVE Types'
    BY <1>4 DEF Recheck
<1>5. ASSUME NEW p \in Procs, Stage(p) PROVE Types'
    BY <1>5 DEF Stage, StageFile
<1>6. ASSUME NEW p \in Procs, Save(p) PROVE Types'
    BY <1>6 DEF Save
<1>7. ASSUME NEW p \in Procs, SaveThrows(p) PROVE Types'
    BY <1>7 DEF SaveThrows
<1>8. ASSUME NEW p \in Procs, Commit(p) PROVE Types'
    BY <1>8 DEF Commit
<1>9. ASSUME NEW p \in Procs, Found(p) \/ Load(p) PROVE Types'
    BY SMTT(60), <1>9 DEF Found, Load
<1>10. ASSUME NEW p \in Procs, Unlock(p) PROVE Types'
    BY Zenon, <1>10 DEF Unlock
<1>11. ASSUME NEW p \in Procs, Unlink(p) PROVE Types'
    BY <1>11, InodesAssumption DEF Unlink
<1>12. ASSUME NEW p \in Procs, Die(p) PROVE Types'
    BY <1>12, InodesAssumption DEF Die
<1>13. CASE Evict
    BY <1>13, InodesAssumption DEF Evict
<1>14. CASE UNCHANGED vars
    BY <1>14 DEF vars
<1>15. ASSUME NEW p \in Procs, TouchLock(p) PROVE Types'
    <2>1. inodes' \in Nat /\ name' \in 0 .. MaxInodes
        BY SMTT(60), <1>15, InodesAssumption DEF TouchLock, EnsureName
    <2>2. at' \in [Procs -> Places] /\ at'[p] \in {"openLock", "utime"} /\ \A q \in Procs \ {p} : at'[q] = at[q]
        BY <1>15 DEF TouchLock
    <2>3. UNCHANGED <<file, tmp, fd, holder, evictions, failed, created>>
        BY Zenon, <1>15 DEF TouchLock
    <2>4. QED
        BY SMTT(60), <2>1, <2>2, <2>3
<1>16. ASSUME NEW p \in Procs, Utime(p) PROVE Types'
    BY SMTT(60), <1>16 DEF Utime
<1>17. QED
    BY Zenon, <1>1, <1>2, <1>3, <1>4, <1>5, <1>6, <1>7, <1>8, <1>9, <1>10, <1>11, <1>12, <1>13, <1>14,
       <1>15, <1>16
    DEF Next, Step

\* Every step of getOrCreate() keeps the inductive invariant.
LEMMA StepIInv == IInv /\ [Next]_vars => IInv'
<1> SUFFICES ASSUME IInv, [Next]_vars PROVE IInv'
    OBVIOUS
<1>0. Types /\ Types'
    BY StepTypes DEF IInv
<1> SUFFICES ASSUME ~failed', evictions' = 0 PROVE Exclusive'
    BY <1>0 DEF IInv
<1> USE <1>0 DEF Creating, Critical, Early, Places, Goto, lockfile
<1>A. ASSUME NEW p \in Procs, Die(p) \/ SaveThrows(p) PROVE FALSE
    <2>1. failed' = TRUE
        BY <1>A DEF Die, SaveThrows
    <2>2. QED
        BY <2>1
<1>B. CASE Evict
    <2>1. evictions' = evictions + 1 /\ evictions \in Nat
        BY SMTT(60), <1>B DEF Evict, Types
    <2>2. QED
        BY <2>1
<1>C. ASSUME NEW p \in Procs, Step(p), ~SaveThrows(p) PROVE UNCHANGED <<failed, evictions>>
    BY <1>C DEF Step, Get, TouchLock, Utime, OpenLock, Lock, Recheck, Stage, Save, Commit, Found, Load, Unlock, Unlink
<1>D. CASE UNCHANGED vars
    BY <1>D DEF vars, IInv, Exclusive
<1>E. ASSUME NEW p \in Procs, Step(p), ~SaveThrows(p) PROVE Exclusive'
    <2>0. Exclusive
        BY <1>E, <1>C DEF IInv
    <2>1. CASE Get(p)
        BY <2>0, <2>1 DEF Get, Exclusive, Types
    <2>2. CASE OpenLock(p)
        BY SMTT(60), <2>0, <2>2 DEF OpenLock, EnsureName, Exclusive, Types
    <2>3. CASE Lock(p)
        <3>1. \A q \in Procs : at'[q] = IF q = p THEN "recheck" ELSE at[q]
            BY <2>3 DEF Lock, Types
        <3>2. at[p] = "lock" /\ holder[fd[p]] = {} /\ UNCHANGED <<file, created, name, fd>>
            BY <2>3 DEF Lock
        <3>3. fd[p] \in 1 .. MaxInodes
            BY <3>2 DEF Types
        <3>4. \A i \in 1 .. MaxInodes : holder'[i] = IF i = fd[p] THEN {p} ELSE holder[i]
            BY <2>3 DEF Lock, Types
        <3>5. ASSUME NEW q \in Procs, at'[q] \in Critical PROVE holder'[fd'[q]] = {q}
            <4>1. CASE q = p
                BY <3>2, <3>3, <3>4, <4>1
            <4>2. CASE q # p
                <5>1. holder[fd[q]] = {q} /\ fd[q] \in 1 .. MaxInodes
                    BY SMTT(60), <2>0, <3>1, <3>5, <4>2 DEF Exclusive, Types
                <5>2. QED
                    BY <3>2, <3>4, <5>1
            <4>3. QED
                BY <4>1, <4>2
        <3>6. QED
            BY <2>0, <3>1, <3>2, <3>5 DEF Exclusive
    <2>4. CASE Recheck(p)
        BY <2>0, <2>4 DEF Recheck, Missing, Exclusive, Types
    <2>5. CASE Stage(p)
        BY <2>0, <2>5 DEF Stage, StageFile, Exclusive, Types
    <2>6. CASE Save(p)
        BY <2>0, <2>6 DEF Save, Exclusive, Types
    <2>7. CASE Commit(p)
        <3>1. file = "none" /\ \A q \in Procs \ {p} : at[q] \notin Critical
            BY <2>0, <2>7, OneCreates DEF Commit, Exclusive
        <3>2. file' = "complete" /\ created' = 1
            BY <2>0, <2>7, <3>1 DEF Commit, Exclusive, Types
        <3>3. \A q \in Procs : at'[q] \notin Critical
            BY SMTT(60), <2>7, <3>1 DEF Commit, Types
        <3>4. QED
            BY <3>2, <3>3 DEF Exclusive
    <2>8. CASE Found(p) \/ Load(p)
        BY SMTT(60), <2>0, <2>8 DEF Found, Load, Exclusive, Types
    <2>9. CASE Unlock(p)
        BY <2>0, <2>9 DEF Unlock, Exclusive, Types
    <2>10. CASE Unlink(p)
        BY SMTT(60), <2>0, <2>10 DEF Unlink, Exclusive, Types
    <2>11. CASE TouchLock(p)
        BY SMTT(60), <2>0, <2>11 DEF TouchLock, EnsureName, Exclusive, Types
    <2>12. CASE Utime(p)
        BY SMTT(60), <2>0, <2>12 DEF Utime, Exclusive, Types
    <2>13. QED
        BY Zenon, <1>E, <2>1, <2>2, <2>3, <2>4, <2>5, <2>6, <2>7, <2>8, <2>9, <2>10, <2>11, <2>12 DEF Step
<1>F. QED
    BY <1>A, <1>B, <1>D, <1>E DEF Next, Step

\* However many processes write the entry, fail or die, what is found under its
\* name is complete.
THEOREM NeverPartialHolds == Spec => []NeverPartial
<1>1. IInv => NeverPartial
    BY DEF IInv, Types, NeverPartial
<1>2. QED
    BY <1>1, InitIInv, StepIInv, PTL DEF Spec

\* However many processes want the entry at once, one of them creates it, as long
\* as none fails and nothing is evicted: the lock file that is unlinked under
\* those that wait is unlinked only when the entry is there.
THEOREM CreatedOnceHolds == Spec => []CreatedOnce
<1>1. IInv => CreatedOnce
    BY DEF IInv, Types, Exclusive, CreatedOnce
<1>2. QED
    BY <1>1, InitIInv, StepIInv, PTL DEF Spec

----------------------------------------------------------------------------
\* A producer and its workers over TCP.

Sending == {"send", "scan", "thrown"}
Closing == {"shutdown", "closing", "done"}

TypesT ==
    /\ master \in {"initialise", "produce"} \cup Sending \cup Closing
    /\ next \in Nat
    /\ connections_ \in Seq(Workers)
    /\ active_ \in [Workers -> BOOLEAN]
    /\ backlog \subseteq Workers
    /\ j \in Int
    /\ work \in [Workers -> {"absent", "idle", "waiting", "closing", "done", "dead"}]
    /\ up \in [Workers -> Seq({"READY", "STATISTICS"})]
    /\ down \in [Workers -> Seq(Nat)]
    /\ consumed \subseteq Workers \X (Nat \ {0})

\* A worker has asked and was not answered, or was answered and has not asked.
Turn(w) ==
    /\ work[w] \in {"absent", "idle", "closing"} => up[w] = <<>> /\ down[w] = <<>>
    /\ work[w] = "waiting" =>
          \/ up[w] = <<"READY">> /\ down[w] = <<>>
          \/ up[w] = <<>> /\ Len(down[w]) = 1
    /\ work[w] = "done" => up[w] \in {<<"STATISTICS">>, <<>>} /\ down[w] = <<>>
    /\ work[w] = "dead" => up[w] \in {<<"READY">>, <<>>}

\* No worker is told to shut down before all messages are sent; and one that has
\* something to read is connected, so the shutdown waits for it.
Linked(w) ==
    /\ master \notin Closing =>
          work[w] \notin {"closing", "done"} /\ \A k \in DOMAIN down[w] : down[w][k] # 0
    /\ work[w] = "waiting" /\ down[w] # <<>> => active_[w]
    /\ active_[w] => \E k \in DOMAIN connections_ : connections_[k] = w

\* The loop over connections_ stays inside; a message that is sent was produced.
InLoop ==
    /\ master \in Sending => next > 0
    /\ master = "scan" => j \in 0 .. Len(connections_)
    /\ master = "closing" => j > 0
    /\ master = "done" => connections_ = <<>>

\* What was sent is with one worker, and nothing else is with any.
Held ==
    /\ \A w \in Workers : \A m \in Nat \ {0} : Has(w, m) => m <= next
    /\ \A m \in 1 .. next :
          IF m = next /\ master \in Sending
             THEN \A w \in Workers : ~Has(w, m)
             ELSE \E w \in Workers : \A v \in Workers : Has(v, m) <=> v = w

\* The inductive invariant.
IInvT == TypesT /\ (\A w \in Workers : Turn(w) /\ Linked(w)) /\ InLoop /\ Held

\* cleanup() forgets no connection that is active.
LEMMA CleanupKeeps ==
    ASSUME connections_ \in Seq(Workers), active_ \in [Workers -> BOOLEAN], Cleanup
    PROVE  /\ connections_' \in Seq(Workers)
           /\ \A w \in Workers : active_[w] /\ (\E k \in DOMAIN connections_ : connections_[k] = w)
                                 => \E k \in DOMAIN connections_' : connections_'[k] = w
<1> DEFINE kept == {k \in DOMAIN connections_ : active_[connections_[k]]}
<1>1. PICK n \in 0 .. Len(connections_) : \E f \in [1 .. n -> kept] :
            /\ \A k \in kept : \E i \in 1 .. n : f[i] = k
            /\ connections_' = [i \in 1 .. n |-> connections_[f[i]]]
    BY Zenon DEF Cleanup
<1>2. PICK f \in [1 .. n -> kept] :
            /\ \A k \in kept : \E i \in 1 .. n : f[i] = k
            /\ connections_' = [i \in 1 .. n |-> connections_[f[i]]]
    BY Zenon, <1>1
<1>3. n \in Nat
    BY Len(connections_) \in Nat
<1>4. \A i \in 1 .. n : f[i] \in DOMAIN connections_
    BY Zenon
<1>5. \A k \in DOMAIN connections_ : connections_[k] \in Workers
    OBVIOUS
<1>6. connections_' \in [1 .. n -> Workers]
    BY Zenon, <1>2, <1>4, <1>5
<1>7. connections_' \in Seq(Workers) /\ DOMAIN connections_' = 1 .. n
    BY <1>3, <1>6
<1>8. ASSUME NEW k \in DOMAIN connections_, active_[connections_[k]]
      PROVE  \E i \in DOMAIN connections_' : connections_'[i] = connections_[k]
    <2>1. k \in kept
        BY Zenon, <1>8
    <2>2. PICK i \in 1 .. n : f[i] = k
        BY Zenon, <1>2, <2>1
    <2>3. connections_'[i] = connections_[k]
        BY Zenon, <1>2, <2>2
    <2>4. QED
        BY Zenon, <1>7, <2>3
<1>9. QED
    BY Zenon, <1>7, <1>8

\* accept() adds a connection that is active.
LEMMA AcceptKeeps ==
    ASSUME TypesT, Accept
    PROVE  /\ connections_' \in Seq(Workers)
           /\ active_' \in [Workers -> BOOLEAN]
           /\ backlog' \subseteq Workers
           /\ \A w \in Workers : active_[w] => active_'[w]
           /\ \A w \in Workers :
                 (active_[w] => \E k \in DOMAIN connections_ : connections_[k] = w)
                 => (active_'[w] => \E k \in DOMAIN connections_' : connections_'[k] = w)
<1>1. PICK w \in backlog : /\ backlog' = backlog \ {w}
                           /\ connections_' = Append(connections_, w)
                           /\ active_' = [active_ EXCEPT ![w] = TRUE]
    BY Zenon DEF Accept
<1>2. w \in Workers /\ connections_ \in Seq(Workers) /\ backlog \subseteq Workers
    BY Zenon DEF TypesT
<1>3. active_ \in [Workers -> BOOLEAN]
    BY Zenon DEF TypesT
<1>4. connections_' \in Seq(Workers)
    BY <1>1, <1>2
<1>5. active_' \in [Workers -> BOOLEAN]
    BY Zenon, <1>1, <1>2, <1>3
<1>6. \A v \in Workers : active_'[v] = IF v = w THEN TRUE ELSE active_[v]
    BY Zenon, <1>1, <1>2, <1>3
<1>7. \A k \in DOMAIN connections_ : k \in DOMAIN connections_' /\ connections_'[k] = connections_[k]
    BY <1>1, <1>2
<1>8. \E k \in DOMAIN connections_' : connections_'[k] = w
    <2>1. Len(connections_) + 1 \in DOMAIN connections_' /\ connections_'[Len(connections_) + 1] = w
        BY <1>1, <1>2
    <2>2. QED
        BY Zenon, <2>1
<1>9. \A v \in Workers : active_[v] => active_'[v]
    BY Zenon, <1>6
<1>10. \A v \in Workers :
          (active_[v] => \E k \in DOMAIN connections_ : connections_[k] = v)
          => (active_'[v] => \E k \in DOMAIN connections_' : connections_'[k] = v)
    BY Zenon, <1>6, <1>7, <1>8
<1>11. QED
    BY Zenon, <1>1, <1>2, <1>4, <1>5, <1>9, <1>10

\* send() moves the connection that it served to the front.
LEMMA ServeKeeps ==
    ASSUME TypesT, InLoop, Serve
    PROVE  /\ j \in 1 .. Len(connections_)
           /\ connections_[j] \in Workers
           /\ connections_' \in Seq(Workers)
           /\ \A k \in DOMAIN connections_ : \E l \in DOMAIN connections_' : connections_'[l] = connections_[k]
<1> DEFINE c == connections_
           d == connections_'
<1>0. c \in Seq(Workers) /\ j \in 1 .. Len(c)
    <2>1. master = "scan" /\ j > 0
        BY Zenon DEF Serve
    <2>2. QED
        BY <2>1 DEF InLoop, TypesT
<1>1. d = [c EXCEPT ![j] = c[1], ![1] = c[j]]
    BY Zenon DEF Serve, Connection
<1> HIDE DEF c, d
<1>2. d \in Seq(Workers) /\ DOMAIN d = DOMAIN c
    BY <1>0, <1>1
<1>3. 1 \in DOMAIN c /\ j \in DOMAIN c /\ c[j] \in Workers
    BY <1>0
<1>4. d[1] = c[j]
    BY Zenon, <1>1, <1>3
<1>5. j # 1 => d[j] = c[1]
    BY Zenon, <1>1, <1>3
<1>6. \A k \in DOMAIN c : k # 1 /\ k # j => d[k] = c[k]
    BY Zenon, <1>1
<1>7. ASSUME NEW k \in DOMAIN c PROVE \E l \in DOMAIN d : d[l] = c[k]
    <2>1. CASE k = j
        BY Zenon, <1>2, <1>3, <1>4, <2>1
    <2>2. CASE k = 1 /\ k # j
        BY Zenon, <1>2, <1>3, <1>5, <2>2
    <2>3. CASE k # 1 /\ k # j
        BY Zenon, <1>2, <1>6, <2>3
    <2>4. QED
        BY Zenon, <2>1, <2>2, <2>3
<1>8. QED
    BY Zenon, <1>0, <1>2, <1>3, <1>7 DEF c, d

\* Every step keeps the types.
LEMMA StepTypesT == IInvT /\ [TcpNext]_tcp => TypesT'
<1> SUFFICES ASSUME IInvT, [TcpNext]_tcp PROVE TypesT'
    OBVIOUS
<1>0. TypesT /\ InLoop
    BY Zenon DEF IInvT
<1> DEFINE UpTags == {"READY", "STATISTICS"}
<1>a. \A w \in Workers : up[w] \in Seq(UpTags) /\ down[w] \in Seq(Nat)
    BY Zenon, <1>0 DEF TypesT
<1>b. \A w \in Workers : [up EXCEPT ![w] = <<>>] \in [Workers -> Seq(UpTags)]
    BY <1>0 DEF TypesT
<1>c. \A w \in Workers : [active_ EXCEPT ![w] = FALSE] \in [Workers -> BOOLEAN]
    BY Zenon, <1>0 DEF TypesT
<1>d. ASSUME NEW w \in Workers, up[w] # <<>>
      PROVE  [up EXCEPT ![w] = Tail(@)] \in [Workers -> Seq(UpTags)]
    <2>1. Tail(up[w]) \in Seq(UpTags)
        BY <1>a, <1>d
    <2>2. QED
        BY Zenon, <1>0, <2>1 DEF TypesT
<1>e. ASSUME NEW w \in Workers, NEW t \in UpTags
      PROVE  [up EXCEPT ![w] = Append(@, t)] \in [Workers -> Seq(UpTags)]
    <2>1. Append(up[w], t) \in Seq(UpTags)
        BY <1>a
    <2>2. QED
        BY Zenon, <1>0, <2>1 DEF TypesT
<1>f. ASSUME NEW w \in Workers, NEW m \in Nat
      PROVE  [down EXCEPT ![w] = Append(@, m)] \in [Workers -> Seq(Nat)]
    <2>1. Append(down[w], m) \in Seq(Nat)
        BY <1>a
    <2>2. QED
        BY Zenon, <1>0, <2>1 DEF TypesT
<1>g. ASSUME NEW w \in Workers, down[w] # <<>>
      PROVE  [down EXCEPT ![w] = Tail(@)] \in [Workers -> Seq(Nat)]
    <2>1. Tail(down[w]) \in Seq(Nat)
        BY <1>a, <1>g
    <2>2. QED
        BY Zenon, <1>0, <2>1 DEF TypesT
<1>h. 0 \in Nat /\ next \in Nat /\ next + 1 \in Nat /\ j \in Int /\ j + 1 \in Int /\ j - 1 \in Int /\ 1 \in Int
    BY <1>0 DEF TypesT
<1>1. CASE Initialise
    BY Zenon, <1>0, <1>1, AcceptKeeps DEF Initialise, MasterGoto, worker, TypesT
<1>2. CASE Produce
    BY Zenon, <1>0, <1>2, <1>h DEF Produce, MasterGoto, worker, TypesT, Sending, Closing
<1>3. CASE SendAccept
    BY Zenon, <1>0, <1>3, AcceptKeeps DEF SendAccept, worker, TypesT
<1>4. CASE SendSelect
    <2>1. connections_' \in Seq(Workers)
        BY Zenon, <1>0, <1>4, CleanupKeeps DEF SendSelect, TypesT
    <2>2. j' \in Int
        BY <1>4, <2>1 DEF SendSelect
    <2>3. QED
        BY Zenon, <1>0, <1>4, <2>1, <2>2 DEF SendSelect, MasterGoto, worker, TypesT, Sending
<1>5. CASE Skip
    BY Zenon, <1>0, <1>5, <1>h DEF Skip, socket, worker, TypesT
<1>6. CASE Serve
    <2>1. connections_[j] \in Workers /\ connections_' \in Seq(Workers)
        BY Zenon, <1>0, <1>6, ServeKeeps
    <2>2. up' \in [Workers -> Seq(UpTags)] /\ down' \in [Workers -> Seq(Nat)]
        BY Zenon, <1>6, <1>d, <1>f, <1>h, <2>1 DEF Serve, Connection
    <2>3. QED
        BY Zenon, <1>0, <1>6, <2>1, <2>2 DEF Serve, MasterGoto, TypesT
<1>7. CASE ServeThrows
    <2>1. j \in 1 .. Len(connections_) /\ connections_ \in Seq(Workers)
        <3>1. master = "scan" /\ j > 0
            BY Zenon, <1>7 DEF ServeThrows
        <3>2. QED
            BY <1>0, <3>1 DEF InLoop, TypesT
    <2>2. connections_[j] \in Workers
        BY <2>1
    <2>3. up' \in [Workers -> Seq(UpTags)] /\ active_' \in [Workers -> BOOLEAN]
        BY Zenon, <1>7, <1>b, <1>c, <2>2 DEF ServeThrows, Connection, Disconnect
    <2>4. QED
        BY Zenon, <1>0, <1>7, <1>h, <2>3 DEF ServeThrows, AfterFailure, TypesT
<1>8. CASE Resend
    <2>1. connections_' \in Seq(Workers)
        BY Zenon, <1>0, <1>8, CleanupKeeps DEF Resend, TypesT
    <2>2. master' \in Sending
        BY Zenon, <1>8 DEF Resend, MasterGoto, Sending
    <2>3. QED
        BY Zenon, <1>0, <1>8, <2>1, <2>2 DEF Resend, worker, TypesT
<1>9. CASE ShutdownSelect
    BY Zenon, <1>0, <1>9, <1>h DEF ShutdownSelect, MasterGoto, socket, worker, TypesT, Closing
<1>10. CASE ShutdownOne
    <2>1. j \in 1 .. Len(connections_) /\ connections_ \in Seq(Workers)
        <3>1. master = "closing" /\ j <= Len(connections_)
            BY Zenon, <1>10 DEF ShutdownOne
        <3>2. QED
            BY <1>0, <3>1 DEF InLoop, TypesT
    <2>2. connections_[j] \in Workers
        BY <2>1
    <2>3. up' \in [Workers -> Seq(UpTags)] /\ active_' \in [Workers -> BOOLEAN] /\ down' \in [Workers -> Seq(Nat)]
        <3>1. CASE UNCHANGED <<up, down, active_>>
            BY Zenon, <1>0, <3>1 DEF TypesT
        <3>2. CASE Answer(Connection)
            <4> DEFINE w == connections_[j]
            <4>1. up' = [up EXCEPT ![w] = <<>>] \/ (up[w] # <<>> /\ up' = [up EXCEPT ![w] = Tail(@)])
                BY Zenon, <3>2 DEF Answer, Connection
            <4>2. active_' = active_ \/ active_' = [active_ EXCEPT ![w] = FALSE]
                BY Zenon, <3>2 DEF Answer, Connection, Disconnect
            <4>3. down' = down \/ down' = [down EXCEPT ![w] = Append(@, 0)]
                BY Zenon, <3>2 DEF Answer, Connection, Shutdown
            <4>4. w \in Workers
                BY Zenon, <2>2
            <4> HIDE DEF w
            <4>5. up' \in [Workers -> Seq(UpTags)]
                BY Zenon, <1>b, <1>d, <4>1, <4>4
            <4>6. active_' \in [Workers -> BOOLEAN]
                BY Zenon, <1>0, <1>c, <4>2, <4>4 DEF TypesT
            <4>7. down' \in [Workers -> Seq(Nat)]
                <5>1. CASE down' = down
                    BY Zenon, <1>0, <5>1 DEF TypesT
                <5>2. CASE down' = [down EXCEPT ![w] = Append(@, 0)]
                    BY Zenon, <1>f, <1>h, <4>4, <5>2
                <5>3. QED
                    BY Zenon, <4>3, <5>1, <5>2
            <4>8. QED
                BY Zenon, <4>5, <4>6, <4>7
        <3>3. QED
            BY Zenon, <1>10, <3>1, <3>2 DEF ShutdownOne
    <2>4. QED
        BY Zenon, <1>0, <1>10, <1>h, <2>3 DEF ShutdownOne, TypesT
<1>11. CASE ShutdownAgain
    <2>1. connections_' \in Seq(Workers)
        BY Zenon, <1>0, <1>11, CleanupKeeps DEF ShutdownAgain, TypesT
    <2>2. QED
        BY Zenon, <1>0, <1>11, <2>1 DEF ShutdownAgain, MasterGoto, worker, TypesT, Closing
<1>12. CASE Return
    BY Zenon, <1>0, <1>12 DEF Return, MasterGoto, socket, worker, TypesT, Closing
<1>13. ASSUME NEW w \in Workers, Connect(w) PROVE TypesT'
    BY Zenon, <1>0, <1>13 DEF Connect, Move, TypesT
<1>14. ASSUME NEW w \in Workers, SendReady(w) PROVE TypesT'
    BY Zenon, <1>0, <1>14, <1>e DEF SendReady, Move, socket, TypesT
<1>15. ASSUME NEW w \in Workers, GetMessage(w) PROVE TypesT'
    <2>1. down' \in [Workers -> Seq(Nat)]
        BY Zenon, <1>15, <1>g DEF GetMessage
    <2>2. Head(down[w]) \in Nat
        BY <1>a, <1>15 DEF GetMessage
    <2>3. work' \in [Workers -> {"absent", "idle", "waiting", "closing", "done", "dead"}]
        BY Zenon, <1>0, <1>15 DEF GetMessage, Move, TypesT
    <2>4. consumed' \subseteq Workers \X (Nat \ {0})
        <3>1. CASE Head(down[w]) = 0
            BY Zenon, <1>0, <1>15, <3>1 DEF GetMessage, Shutdown, TypesT
        <3>2. CASE Head(down[w]) # 0
            BY <1>0, <1>15, <2>2, <3>2 DEF GetMessage, Shutdown, TypesT
        <3>3. QED
            BY Zenon, <3>1, <3>2
    <2>5. QED
        BY Zenon, <1>0, <1>15, <2>1, <2>3, <2>4 DEF GetMessage, socket, TypesT
<1>16. ASSUME NEW w \in Workers, Statistics(w) PROVE TypesT'
    BY Zenon, <1>0, <1>16, <1>e DEF Statistics, Move, socket, TypesT
<1>17. ASSUME NEW w \in Workers, GetThrows(w) \/ WorkerDies(w) PROVE TypesT'
    BY Zenon, <1>0, <1>17 DEF GetThrows, WorkerDies, Move, socket, TypesT
<1>18. CASE UNCHANGED tcp
    BY Zenon, <1>0, <1>18 DEF tcp, TypesT
<1>19. QED
    BY Zenon, <1>1, <1>2, <1>3, <1>4, <1>5, <1>6, <1>7, <1>8, <1>9, <1>10, <1>11, <1>12, <1>13,
       <1>14, <1>15, <1>16, <1>17, <1>18 DEF TcpNext, TcpProducer, Worker

\* Sequences of at most one element.
LEMMA Singles ==
    ASSUME NEW x
    PROVE  /\ Tail(<<x>>) = <<>> /\ Head(<<x>>) = x /\ <<x>> # <<>> /\ Len(<<x>>) = 1
           /\ Append(<<>>, x) = <<x>> /\ DOMAIN <<x>> = {1} /\ <<x>>[1] = x
           /\ DOMAIN <<>> = {}
OBVIOUS

\* A sequence of length 0 is empty.
LEMMA NoneLeft == ASSUME NEW S, NEW s \in Seq(S), Len(s) = 0 PROVE s = <<>>
OBVIOUS

\* A connection that is active is one of connections_.
LEMMA StepListed ==
    ASSUME IInvT, [TcpNext]_tcp, NEW v \in Workers, active_'[v]
    PROVE  \E k \in DOMAIN connections_' : connections_'[k] = v
<1>0. TypesT /\ InLoop /\ (active_[v] => \E k \in DOMAIN connections_ : connections_[k] = v)
    BY Zenon DEF IInvT, Linked
<1> DEFINE Goal == \E k \in DOMAIN connections_' : connections_'[k] = v
<1>a. active_ \in [Workers -> BOOLEAN] /\ connections_ \in Seq(Workers)
    BY Zenon, <1>0 DEF TypesT
<1>1. CASE Initialise \/ SendAccept
    BY Zenon, <1>0, <1>1, AcceptKeeps DEF Initialise, SendAccept
<1>2. CASE SendSelect \/ Resend \/ ShutdownAgain
    <2>1. Cleanup /\ active_' = active_
        BY Zenon, <1>2 DEF SendSelect, Resend, ShutdownAgain
    <2>2. QED
        BY Zenon, <1>0, <1>a, <2>1, CleanupKeeps
<1>3. CASE Serve
    <2>1. \A k \in DOMAIN connections_ : \E l \in DOMAIN connections_' : connections_'[l] = connections_[k]
        BY Zenon, <1>0, <1>3, ServeKeeps
    <2>2. active_' = active_
        BY Zenon, <1>3 DEF Serve
    <2>3. QED
        BY Zenon, <1>0, <2>1, <2>2
<1>4. CASE connections_' = connections_ /\ (active_'[v] => active_[v])
    BY Zenon, <1>0, <1>4
<1>5. ASSUME NEW w, active_' = [active_ EXCEPT ![w] = FALSE] PROVE active_'[v] => active_[v]
    BY Zenon, <1>a, <1>5
<1>6. CASE ServeThrows
    <2>1. connections_' = connections_ /\ active_' = [active_ EXCEPT ![connections_[j]] = FALSE]
        BY Zenon, <1>6 DEF ServeThrows, Disconnect, Connection
    <2>2. QED
        BY Zenon, <1>4, <1>5, <2>1
<1>7. CASE ShutdownOne
    <2>1. connections_' = connections_
        BY Zenon, <1>7 DEF ShutdownOne
    <2>2. active_' = active_ \/ active_' = [active_ EXCEPT ![connections_[j]] = FALSE]
        BY Zenon, <1>7 DEF ShutdownOne, Answer, Disconnect, Connection
    <2>3. QED
        BY Zenon, <1>4, <1>5, <2>1, <2>2
<1>8. CASE Produce \/ Skip \/ ShutdownSelect \/ Return
    BY Zenon, <1>4, <1>8 DEF Produce, Skip, ShutdownSelect, Return, socket
<1>9. ASSUME NEW w \in Workers, Connect(w) \/ Worker(w) \/ WorkerDies(w) PROVE Goal
    BY Zenon, <1>4, <1>9 DEF Connect, Worker, SendReady, GetMessage, Statistics, GetThrows, WorkerDies, socket
<1>10. CASE UNCHANGED tcp
    BY Zenon, <1>4, <1>10 DEF tcp
<1>11. QED
    BY Zenon, <1>1, <1>2, <1>3, <1>6, <1>7, <1>8, <1>9, <1>10 DEF TcpNext, TcpProducer

\* The loops stay inside connections_.
LEMMA StepInLoop == IInvT /\ [TcpNext]_tcp => InLoop'
<1> SUFFICES ASSUME IInvT, [TcpNext]_tcp PROVE InLoop'
    OBVIOUS
<1>0. TypesT /\ InLoop /\ TypesT'
    BY Zenon, StepTypesT DEF IInvT
<1>1. Len(connections_) \in Nat /\ Len(connections_') \in Nat /\ j \in Int /\ next \in Nat
    BY <1>0 DEF TypesT
<1>2. CASE Initialise
    BY Zenon, <1>2 DEF Initialise, MasterGoto, InLoop, Sending
<1>3. CASE Produce
    BY <1>0, <1>1, <1>3 DEF Produce, MasterGoto, InLoop, Sending
<1>4. CASE SendAccept
    BY <1>0, <1>4 DEF SendAccept, InLoop
<1>5. CASE SendSelect
    BY <1>0, <1>1, <1>5 DEF SendSelect, MasterGoto, InLoop, Sending
<1>6. CASE Skip
    BY <1>0, <1>1, <1>6 DEF Skip, socket, InLoop
<1>7. CASE Serve
    BY Zenon, <1>7 DEF Serve, MasterGoto, InLoop, Sending
<1>8. CASE ServeThrows
    BY <1>0, <1>1, <1>8 DEF ServeThrows, AfterFailure, InLoop
<1>9. CASE Resend
    BY <1>0, <1>1, <1>9 DEF Resend, MasterGoto, InLoop, Sending
<1>10. CASE ShutdownSelect
    BY <1>10 DEF ShutdownSelect, MasterGoto, InLoop, Sending
<1>11. CASE ShutdownOne
    BY <1>0, <1>1, <1>11 DEF ShutdownOne, InLoop, Sending
<1>12. CASE ShutdownAgain
    BY Zenon, <1>12 DEF ShutdownAgain, MasterGoto, InLoop, Sending
<1>13. CASE Return
    BY Zenon, <1>13 DEF Return, MasterGoto, socket, InLoop, Sending
<1>14. ASSUME NEW w \in Workers, Connect(w) \/ Worker(w) \/ WorkerDies(w) PROVE InLoop'
    <2>1. UNCHANGED <<master, next, j, connections_>>
        BY Zenon, <1>14 DEF Connect, Worker, SendReady, GetMessage, Statistics, GetThrows, WorkerDies, socket
    <2>2. QED
        BY Zenon, <1>0, <2>1 DEF InLoop
<1>15. CASE UNCHANGED tcp
    BY Zenon, <1>0, <1>15 DEF tcp, InLoop
<1>16. QED
    BY Zenon, <1>2, <1>3, <1>4, <1>5, <1>6, <1>7, <1>8, <1>9, <1>10, <1>11, <1>12, <1>13, <1>14,
       <1>15 DEF TcpNext, TcpProducer

\* Shutdown, once begun, goes on.
LEMMA ClosingStays ==
    ASSUME TypesT, [TcpNext]_tcp, master' \notin Closing
    PROVE  master \notin Closing
<1> USE DEF Closing, MasterGoto
<1>1. ASSUME TcpProducer PROVE master \notin Closing
    <2>1. CASE Initialise \/ Produce \/ SendSelect \/ Serve \/ Resend
        BY Zenon, <2>1 DEF Initialise, Produce, SendSelect, Serve, Resend
    <2>2. CASE SendAccept \/ Skip \/ ServeThrows \/ ShutdownOne
        BY Zenon, <2>2 DEF SendAccept, Skip, ServeThrows, AfterFailure, ShutdownOne
    <2>3. CASE ShutdownSelect \/ ShutdownAgain \/ Return
        BY Zenon, <2>3 DEF ShutdownSelect, ShutdownAgain, Return
    <2>4. QED
        BY Zenon, <1>1, <2>1, <2>2, <2>3 DEF TcpProducer
<1>2. ASSUME NEW w \in Workers, Connect(w) \/ Worker(w) \/ WorkerDies(w) PROVE master' = master
    BY Zenon, <1>2 DEF Connect, Worker, SendReady, GetMessage, Statistics, GetThrows, WorkerDies
<1>3. CASE UNCHANGED tcp
    BY Zenon, <1>3 DEF tcp
<1>4. QED
    BY Zenon, <1>1, <1>2, <1>3 DEF TcpNext

\* What is between the producer and a worker, and what is not Listed.
Sound(w) ==
    /\ Turn(w)
    /\ master \notin Closing =>
          work[w] \notin {"closing", "done"} /\ \A k \in DOMAIN down[w] : down[w][k] # 0
    /\ work[w] = "waiting" /\ down[w] # <<>> => active_[w]

\* A step that does not touch a worker leaves it sound.
LEMMA Untouched ==
    ASSUME NEW v \in Workers, Sound(v), master' \notin Closing => master \notin Closing,
           work'[v] = work[v], up'[v] = up[v], down'[v] = down[v], active_[v] => active_'[v]
    PROVE  Sound(v)'
BY Zenon DEF Sound, Turn

\* send() answers a worker that has asked.
LEMMA ServeSound ==
    ASSUME IInvT, Serve, NEW v \in Workers, Sound(v)
    PROVE  Sound(v)'
<1> DEFINE w == connections_[j]
<1>0. TypesT /\ InLoop
    BY Zenon DEF IInvT
<1>1. /\ master = "scan" /\ master' = "produce" /\ active_[w] /\ active_' = active_ /\ work' = work
      /\ up[w] # <<>> /\ up' = [up EXCEPT ![w] = Tail(@)] /\ down' = [down EXCEPT ![w] = Append(@, next)]
    BY Zenon DEF Serve, Connection, Ready, MasterGoto
<1>2. up \in [Workers -> Seq({"READY", "STATISTICS"})] /\ down \in [Workers -> Seq(Nat)]
    BY Zenon, <1>0 DEF TypesT
<1> HIDE DEF w
<1>3. CASE v # w
    <2>1. up'[v] = up[v] /\ down'[v] = down[v]
        BY Zenon, <1>1, <1>2, <1>3
    <2>2. QED
        BY Zenon, <1>1, <2>1, Untouched DEF Closing
<1>4. CASE v = w
    <2>1. up'[v] = Tail(up[v]) /\ down'[v] = Append(down[v], next)
        BY Zenon, <1>1, <1>2, <1>4
    <2>2. work[v] \in {"waiting", "dead"} /\ up[v] = <<"READY">> /\ \A k \in DOMAIN down[v] : down[v][k] # 0
        BY Zenon, <1>0, <1>1, <1>4 DEF Sound, Turn, Closing, TypesT
    <2>3. up'[v] = <<>>
        BY Zenon, <2>1, <2>2, Singles
    <2>4. work[v] = "waiting" => down'[v] = <<next>>
        <3>1. work[v] = "waiting" => down[v] = <<>>
            BY Zenon, <1>1, <1>4 DEF Sound, Turn
        <3>2. QED
            BY Zenon, <2>1, <3>1, Singles
    <2>5. next # 0 /\ next \in Nat
        BY <1>0, <1>1 DEF InLoop, Sending, TypesT
    <2>6. \A k \in DOMAIN down'[v] : down'[v][k] # 0
        <3>1. down[v] \in Seq(Nat)
            BY Zenon, <1>2
        <3>2. QED
            BY <2>1, <2>2, <2>5, <3>1
    <2>7. Turn(v)'
        BY Zenon, <1>1, <2>2, <2>3, <2>4, Singles DEF Turn
    <2>8. QED
        BY Zenon, <1>1, <1>4, <2>2, <2>6, <2>7 DEF Sound
<1>5. QED
    BY Zenon, <1>3, <1>4

\* What the producer reads last of a worker, or fails to, is after its death or
\* its STATISTICS.
LEMMA DropSound ==
    ASSUME TypesT, [TcpNext]_tcp, NEW w \in Workers, work[w] \in {"dead", "done"},
           active_' = [active_ EXCEPT ![w] = FALSE],
           up' = [up EXCEPT ![w] = <<>>] \/ (up' = [up EXCEPT ![w] = Tail(@)] /\ up[w] # <<>>),
           UNCHANGED <<work, down>>,
           NEW v \in Workers, Sound(v)
    PROVE  Sound(v)'
<1>1. up \in [Workers -> Seq({"READY", "STATISTICS"})] /\ active_ \in [Workers -> BOOLEAN]
    BY Zenon DEF TypesT
<1>2. CASE v # w
    <2>1. up'[v] = up[v] /\ active_'[v] = active_[v]
        BY Zenon, <1>1, <1>2
    <2>2. QED
        BY Zenon, <2>1, Untouched, ClosingStays
<1>3. CASE v = w
    <2>1. up'[v] = <<>>
        <3>1. up'[v] = <<>> \/ (up'[v] = Tail(up[v]) /\ up[v] # <<>>)
            BY Zenon, <1>1, <1>3
        <3>2. up[v] \in {<<"READY">>, <<"STATISTICS">>, <<>>}
            BY Zenon, <1>3 DEF Sound, Turn
        <3>3. QED
            BY Zenon, <3>1, <3>2, Singles
    <2>2. Turn(v)'
        BY Zenon, <1>3, <2>1 DEF Sound, Turn
    <2>3. QED
        BY Zenon, <1>3, <2>2, ClosingStays DEF Sound
<1>4. QED
    BY Zenon, <1>2, <1>3

\* sendShutDownMessage() answers a worker that has asked, and hangs up on one that
\* has sent its STATISTICS or is gone.
LEMMA ShutdownOneSound ==
    ASSUME IInvT, [TcpNext]_tcp, ShutdownOne, NEW v \in Workers, Sound(v),
           \A w \in Workers : Sound(w)
    PROVE  Sound(v)'
<1> DEFINE w == connections_[j]
<1>0. TypesT /\ InLoop
    BY Zenon DEF IInvT
<1>1. master = "closing" /\ master' = "closing" /\ work' = work /\ j <= Len(connections_)
    BY Zenon DEF ShutdownOne
<1>2. up \in [Workers -> Seq({"READY", "STATISTICS"})] /\ down \in [Workers -> Seq(Nat)]
    BY Zenon, <1>0 DEF TypesT
<1>3. w \in Workers
    BY <1>0, <1>1 DEF InLoop, TypesT
<1>4. \/ UNCHANGED <<up, down, active_>>
      \/ active_[w] /\ Answer(w)
    BY Zenon DEF ShutdownOne, Ready, Connection
<1> HIDE DEF w
<1>5. CASE UNCHANGED <<up, down, active_>>
    BY Zenon, <1>1, <1>5, Untouched
<1>6. CASE active_[w] /\ up[w] # <<>> /\ Head(up[w]) = "READY" /\ active_' = active_
           /\ up' = [up EXCEPT ![w] = Tail(@)] /\ down' = [down EXCEPT ![w] = Append(@, 0)]
    <2>1. CASE v # w
        <3>1. up'[v] = up[v] /\ down'[v] = down[v]
            BY Zenon, <1>2, <1>6, <2>1
        <3>2. QED
            BY Zenon, <1>1, <1>6, <3>1, Untouched
    <2>2. CASE v = w
        <3>1. up'[v] = Tail(up[v]) /\ down'[v] = Append(down[v], 0)
            BY Zenon, <1>2, <1>6, <2>2
        <3>2. "READY" # "STATISTICS"
            BY Zenon
        <3>3. up[v] # <<"STATISTICS">>
            BY Zenon, <1>6, <2>2, <3>2, Singles
        <3>4. work[v] \in {"waiting", "dead"} /\ up[v] = <<"READY">>
            BY Zenon, <1>0, <1>6, <2>2, <3>3 DEF Sound, Turn, TypesT
        <3>5. work[v] = "waiting" => down[v] = <<>>
            BY Zenon, <1>6, <2>2 DEF Sound, Turn
        <3>6. up'[v] = <<>> /\ (work[v] = "waiting" => Len(down'[v]) = 1)
            <4>1. up'[v] = <<>>
                BY Zenon, <3>1, <3>4, Singles
            <4>2. work[v] = "waiting" => down'[v] = <<0>>
                BY Zenon, <3>1, <3>5, Singles
            <4>3. QED
                BY Zenon, <4>1, <4>2, Singles
        <3>7. Turn(v)'
            BY Zenon, <1>1, <3>4, <3>6 DEF Turn
        <3>8. QED
            BY Zenon, <1>1, <1>6, <2>2, <3>7 DEF Sound, Closing
    <2>3. QED
        BY Zenon, <2>1, <2>2
<1>7. CASE /\ work[w] \in {"dead", "done"} /\ down' = down /\ Disconnect(w)
           /\ up' = [up EXCEPT ![w] = <<>>] \/ (up' = [up EXCEPT ![w] = Tail(@)] /\ up[w] # <<>>)
    BY Zenon, <1>0, <1>1, <1>3, <1>7, DropSound DEF Disconnect
<1>8. CASE active_[w] /\ Answer(w)
    <2>1. CASE up[w] # <<>> /\ Head(up[w]) # "READY" /\ down' = down /\ Disconnect(w)
               /\ up' = [up EXCEPT ![w] = Tail(@)]
        <3>1. work[w] \in {"dead", "done"}
            <4>1. up[w] # <<"READY">>
                BY Zenon, <2>1, Singles
            <4>2. Turn(w)
                BY Zenon, <1>3 DEF Sound
            <4>3. work[w] \in {"absent", "idle", "waiting", "closing", "done", "dead"}
                BY Zenon, <1>0, <1>3 DEF TypesT
            <4>4. QED
                BY Zenon, <2>1, <4>1, <4>2, <4>3 DEF Turn
        <3>2. QED
            BY Zenon, <1>7, <2>1, <3>1
    <2>2. CASE Throws(w) /\ up' = [up EXCEPT ![w] = <<>>] /\ Disconnect(w) /\ down' = down
        BY Zenon, <1>7, <2>2 DEF Throws, Gone
    <2>3. QED
        BY Zenon, <1>6, <1>8, <2>1, <2>2 DEF Answer, Shutdown
<1>9. QED
    BY Zenon, <1>4, <1>5, <1>8

\* What a worker does keeps it sound.
LEMMA WorkerSound ==
    ASSUME TypesT, NEW v \in Workers, Sound(v), Connect(v) \/ Worker(v) \/ WorkerDies(v)
    PROVE  Sound(v)'
<1>1. /\ work \in [Workers -> {"absent", "idle", "waiting", "closing", "done", "dead"}]
      /\ up \in [Workers -> Seq({"READY", "STATISTICS"})] /\ down \in [Workers -> Seq(Nat)]
    BY Zenon DEF TypesT
<1> USE DEF socket, Move
<1>2. CASE Connect(v)
    <2>1. work'[v] = "idle" /\ work[v] = "absent" /\ UNCHANGED <<master, up, down, active_>>
        BY Zenon, <1>1, <1>2 DEF Connect
    <2>2. QED
        BY Zenon, <2>1 DEF Sound, Turn
<1>3. CASE SendReady(v)
    <2>1. /\ work'[v] = "waiting" /\ work[v] = "idle" /\ UNCHANGED <<master, down, active_>>
          /\ up'[v] = Append(up[v], "READY")
        BY Zenon, <1>1, <1>3 DEF SendReady
    <2>2. up[v] = <<>> /\ down[v] = <<>>
        BY Zenon, <2>1 DEF Sound, Turn
    <2>3. up'[v] = <<"READY">>
        BY Zenon, <2>1, <2>2, Singles
    <2>4. Turn(v)'
        BY Zenon, <2>1, <2>2, <2>3 DEF Turn
    <2>5. QED
        BY Zenon, <2>1, <2>2, <2>4 DEF Sound
<1>4. CASE GetMessage(v)
    <2>1. /\ work[v] = "waiting" /\ down[v] # <<>> /\ down'[v] = Tail(down[v])
          /\ UNCHANGED <<master, up, active_>>
        BY Zenon, <1>1, <1>4 DEF GetMessage
    <2>2. (Head(down[v]) = 0 /\ work'[v] = "closing") \/ (Head(down[v]) # 0 /\ work'[v] = "idle")
        BY Zenon, <1>1, <1>4 DEF GetMessage, Shutdown
    <2>3. up[v] = <<>> /\ Len(down[v]) = 1
        BY Zenon, <2>1 DEF Sound, Turn
    <2>4. down[v] \in Seq(Nat)
        BY Zenon, <1>1
    <2>5. down'[v] = <<>> /\ Head(down[v]) = down[v][1] /\ 1 \in DOMAIN down[v]
        <3> DEFINE d == down[v]
        <3>1. d \in Seq(Nat) /\ Len(d) = 1
            BY Zenon, <2>3, <2>4
        <3> HIDE DEF d
        <3>2. Head(d) = d[1] /\ 1 \in DOMAIN d
            BY <3>1
        <3>3. Tail(d) \in Seq(Nat) /\ Len(Tail(d)) = 0
            BY <3>1
        <3>4. Tail(d) = <<>>
            BY Zenon, <3>3, NoneLeft
        <3>5. QED
            BY Zenon, <2>1, <3>2, <3>4 DEF d
    <2>6. Turn(v)'
        BY Zenon, <2>1, <2>2, <2>3, <2>5 DEF Turn
    <2>7. master' \notin Closing => work'[v] = "idle"
        BY Zenon, <2>1, <2>2, <2>5 DEF Sound
    <2>8. QED
        BY Zenon, <2>2, <2>5, <2>6, <2>7, Singles DEF Sound
<1>5. CASE Statistics(v)
    <2>1. /\ work'[v] = "done" /\ work[v] = "closing" /\ UNCHANGED <<master, down, active_>>
          /\ up'[v] = Append(up[v], "STATISTICS")
        BY Zenon, <1>1, <1>5 DEF Statistics
    <2>2. up[v] = <<>> /\ down[v] = <<>>
        BY Zenon, <2>1 DEF Sound, Turn
    <2>3. up'[v] = <<"STATISTICS">>
        BY Zenon, <2>1, <2>2, Singles
    <2>4. Turn(v)'
        BY Zenon, <2>1, <2>2, <2>3 DEF Turn
    <2>5. QED
        BY Zenon, <2>1, <2>2, <2>4 DEF Sound
<1>6. CASE GetThrows(v) \/ WorkerDies(v)
    <2>1. /\ work'[v] = "dead" /\ work[v] \in {"idle", "waiting", "closing"}
          /\ UNCHANGED <<master, up, down, active_>>
        BY Zenon, <1>1, <1>6 DEF GetThrows, WorkerDies
    <2>2. up[v] \in {<<"READY">>, <<>>}
        BY Zenon, <2>1 DEF Sound, Turn
    <2>3. QED
        BY Zenon, <2>1, <2>2 DEF Sound, Turn
<1>7. QED
    BY Zenon, <1>2, <1>3, <1>4, <1>5, <1>6 DEF Worker

\* Every step keeps every worker sound.
LEMMA StepSound == IInvT /\ [TcpNext]_tcp => \A v \in Workers : Turn(v)' /\ Linked(v)'
<1> SUFFICES ASSUME IInvT, [TcpNext]_tcp, NEW v \in Workers PROVE Turn(v)' /\ Linked(v)'
    BY Zenon
<1>0. TypesT /\ InLoop /\ \A w \in Workers : Sound(w)
    BY Zenon DEF IInvT, Linked, Sound
<1>1. SUFFICES Sound(v)'
    <2>1. active_'[v] => \E k \in DOMAIN connections_' : connections_'[k] = v
        BY Zenon, StepListed
    <2>2. QED
        BY Zenon, <2>1 DEF Sound, Linked
<1>2. master' \notin Closing => master \notin Closing
    BY Zenon, <1>0, ClosingStays
<1>3. CASE UNCHANGED <<work, up, down>> /\ (active_[v] => active_'[v])
    BY Zenon, <1>0, <1>2, <1>3, Untouched
<1>4. CASE Initialise \/ SendAccept
    BY Zenon, <1>0, <1>3, <1>4, AcceptKeeps DEF Initialise, SendAccept, worker
<1>5. CASE Produce \/ SendSelect \/ Skip \/ Resend \/ ShutdownSelect \/ ShutdownAgain \/ Return
    BY Zenon, <1>3, <1>5
    DEF Produce, SendSelect, Skip, Resend, ShutdownSelect, ShutdownAgain, Return,
        worker, socket
<1>6. CASE Serve
    BY Zenon, <1>0, <1>6, ServeSound
<1>7. CASE ServeThrows
    <2> DEFINE w == connections_[j]
    <2>1. master = "scan" /\ j > 0 /\ Throws(w) /\ up' = [up EXCEPT ![w] = <<>>] /\ UNCHANGED <<work, down>>
        BY Zenon, <1>7 DEF ServeThrows, Connection
    <2>2. active_' = [active_ EXCEPT ![w] = FALSE]
        BY Zenon, <1>7 DEF ServeThrows, Disconnect, Connection
    <2>3. w \in Workers
        BY <1>0, <2>1 DEF InLoop, TypesT
    <2> HIDE DEF w
    <2>4. work[w] \in {"dead", "done"}
        BY Zenon, <2>1 DEF Throws, Gone
    <2>5. QED
        BY Zenon, <1>0, <2>1, <2>2, <2>3, <2>4, DropSound
<1>8. CASE ShutdownOne
    BY Zenon, <1>0, <1>8, ShutdownOneSound
<1>9. ASSUME NEW w \in Workers, Connect(w) \/ Worker(w) \/ WorkerDies(w) PROVE Sound(v)'
    <2>1. CASE v = w
        BY Zenon, <1>0, <1>9, <2>1, WorkerSound
    <2>2. CASE v # w
        <3>1. /\ work \in [Workers -> {"absent", "idle", "waiting", "closing", "done", "dead"}]
              /\ up \in [Workers -> Seq({"READY", "STATISTICS"})] /\ down \in [Workers -> Seq(Nat)]
            BY Zenon, <1>0 DEF TypesT
        <3>2. /\ active_' = active_
              /\ \/ up' = up \/ \E t : up' = [up EXCEPT ![w] = t]
              /\ \/ down' = down \/ \E t : down' = [down EXCEPT ![w] = t]
              /\ \E t : work' = [work EXCEPT ![w] = t]
            BY Zenon, <1>9
            DEF Connect, Worker, SendReady, GetMessage, Statistics, GetThrows, WorkerDies, socket, Move
        <3>3. work'[v] = work[v] /\ up'[v] = up[v] /\ down'[v] = down[v]
            BY Zenon, <2>2, <3>1, <3>2
        <3>4. QED
            BY Zenon, <1>0, <1>2, <3>2, <3>3, Untouched
    <2>3. QED
        BY Zenon, <2>1, <2>2
<1>10. CASE UNCHANGED tcp
    BY Zenon, <1>3, <1>10 DEF tcp
<1>11. QED
    BY Zenon, <1>4, <1>5, <1>6, <1>7, <1>8, <1>9, <1>10 DEF TcpNext, TcpProducer

\* What is in a sequence when one is added at the end, or taken from the front.
LEMMA RangeAppend ==
    ASSUME NEW s \in Seq(Nat), NEW x \in Nat, NEW y
    PROVE  y \in Range(Append(s, x)) <=> (y \in Range(s) \/ y = x)
<1> DEFINE t == Append(s, x)
<1>1. \A k \in DOMAIN t : t[k] = x \/ (k \in DOMAIN s /\ t[k] = s[k])
    OBVIOUS
<1>2. \A k \in DOMAIN s : k \in DOMAIN t /\ t[k] = s[k]
    OBVIOUS
<1>3. \E k \in DOMAIN t : t[k] = x
    <2>1. Len(s) + 1 \in DOMAIN t /\ t[Len(s) + 1] = x
        OBVIOUS
    <2>2. QED
        BY Zenon, <2>1
<1> HIDE DEF t
<1>4. y \in Range(t) <=> (y \in Range(s) \/ y = x)
    BY Zenon, <1>1, <1>2, <1>3 DEF Range
<1>5. QED
    BY Zenon, <1>4 DEF t

\* What is taken from a sequence.
LEMMA RangeTail ==
    ASSUME NEW s \in Seq(Nat), s # <<>>, NEW y
    PROVE  y \in Range(s) <=> (y = Head(s) \/ y \in Range(Tail(s)))
<1> DEFINE t == Tail(s)
<1>1. Head(s) = s[1] /\ 1 \in DOMAIN s
    OBVIOUS
<1>2. \A k \in DOMAIN t : k + 1 \in DOMAIN s /\ t[k] = s[k + 1]
    OBVIOUS
<1>3. \A k \in DOMAIN s : k = 1 \/ (k - 1 \in DOMAIN t /\ t[k - 1] = s[k])
    OBVIOUS
<1> HIDE DEF t
<1>4. ASSUME y \in Range(s) PROVE y = Head(s) \/ y \in Range(t)
    <2>1. PICK k \in DOMAIN s : y = s[k]
        BY Zenon, <1>4 DEF Range
    <2>2. QED
        BY Zenon, <1>1, <1>3, <2>1 DEF Range
<1>5. ASSUME y \in Range(t) PROVE y \in Range(s)
    <2>1. PICK k \in DOMAIN t : y = t[k]
        BY Zenon, <1>5 DEF Range
    <2>2. QED
        BY Zenon, <1>2, <2>1 DEF Range
<1>6. Head(s) \in Range(s)
    BY Zenon, <1>1 DEF Range
<1>7. QED
    BY Zenon, <1>4, <1>5, <1>6 DEF t

\* A step that neither sends nor loses a message.
LEMMA HeldSame ==
    ASSUME Held, next' = next, next \in Nat, (master' \in Sending) <=> (master \in Sending),
           \A v \in Workers : \A m \in Nat \ {0} : Has(v, m)' <=> Has(v, m)
    PROVE  Held'
<1>1. \A m \in 1 .. next : m \in Nat \ {0}
    OBVIOUS
<1>2. QED
    BY Zenon, <1>1 DEF Held

\* Every step keeps the messages with their workers.
LEMMA StepHeld == IInvT /\ [TcpNext]_tcp => Held'
<1> SUFFICES ASSUME IInvT, [TcpNext]_tcp PROVE Held'
    OBVIOUS
<1>0. TypesT /\ InLoop /\ Held
    BY Zenon DEF IInvT
<1>1. next \in Nat /\ down \in [Workers -> Seq(Nat)] /\ consumed \subseteq Workers \X (Nat \ {0})
    BY Zenon, <1>0 DEF TypesT
<1>2. CASE UNCHANGED <<next, down, consumed>> /\ ((master' \in Sending) <=> (master \in Sending))
    <2>1. \A v \in Workers : \A m \in Nat \ {0} : Has(v, m)' <=> Has(v, m)
        BY Zenon, <1>2 DEF Has, Range
    <2>2. QED
        BY Zenon, <1>0, <1>1, <1>2, <2>1, HeldSame
<1> USE DEF MasterGoto
<1>3. CASE Produce
    <2>1. \A v \in Workers : \A m \in Nat \ {0} : Has(v, m)' <=> Has(v, m)
        BY Zenon, <1>3 DEF Produce, worker, Has, Range
    <2>2. master \notin Sending
        BY Zenon, <1>3 DEF Produce, Sending
    <2>3. CASE next' = next + 1 /\ master' = "send"
        <3>1. ASSUME NEW v \in Workers, NEW m \in Nat \ {0}, Has(v, m)' PROVE m <= next' /\ m # next'
            <4>1. Has(v, m)
                BY Zenon, <2>1, <3>1
            <4>2. m <= next
                BY Zenon, <1>0, <4>1 DEF Held
            <4>3. QED
                BY <1>1, <2>3, <4>2
        <3>2. ASSUME NEW m \in 1 .. next' PROVE m \in Nat \ {0} /\ (m = next' \/ m \in 1 .. next)
            BY <1>1, <2>3
        <3>3. \A m \in 1 .. next' : m # next' =>
                  \E w \in Workers : \A v \in Workers : Has(v, m)' <=> v = w
            BY Zenon, <1>0, <2>1, <2>2, <3>2 DEF Held
        <3>4. QED
            BY Zenon, <2>3, <3>1, <3>2, <3>3 DEF Held, Sending
    <2>4. CASE next' = next /\ master' = "shutdown"
        BY Zenon, <1>0, <1>1, <2>1, <2>2, <2>4, HeldSame DEF Sending
    <2>5. QED
        BY Zenon, <1>3, <2>3, <2>4 DEF Produce
<1>4. CASE Serve
    <2> DEFINE w == connections_[j]
    <2>1. w \in Workers
        BY Zenon, <1>0, <1>4, ServeKeeps
    <2>2. /\ master = "scan" /\ master' = "produce" /\ UNCHANGED <<next, consumed>>
          /\ down' = [down EXCEPT ![w] = Append(@, next)]
        BY Zenon, <1>4 DEF Serve, Connection
    <2> HIDE DEF w
    <2>3. ASSUME NEW v \in Workers, NEW m \in Nat \ {0}
          PROVE  Has(v, m)' <=> Has(v, m) \/ (v = w /\ m = next)
        <3>1. CASE v = w
            <4>1. down'[v] = Append(down[v], next) /\ down[v] \in Seq(Nat)
                BY Zenon, <1>1, <2>2, <3>1
            <4>2. (m \in Range(down'[v])) <=> (m \in Range(down[v]) \/ m = next)
                BY Zenon, <1>1, <4>1, RangeAppend
            <4>3. Has(v, m)' <=> (<<v, m>> \in consumed' \/ m \in Range(down'[v]))
                BY Zenon DEF Has, Range
            <4>4. QED
                BY Zenon, <2>2, <3>1, <4>2, <4>3 DEF Has
        <3>2. CASE v # w
            <4>1. down'[v] = down[v]
                BY Zenon, <1>1, <2>2, <3>2
            <4>2. QED
                BY Zenon, <2>2, <3>2, <4>1 DEF Has, Range
        <3>3. QED
            BY Zenon, <3>1, <3>2
    <2>4. next <= next
        BY <1>1
    <2>5. \A v \in Workers : \A m \in Nat \ {0} : Has(v, m)' => m <= next'
        BY Zenon, <1>0, <2>2, <2>3, <2>4 DEF Held
    <2>6. \A m \in 1 .. next : m \in Nat \ {0}
        OBVIOUS
    <2>7. ASSUME NEW m \in 1 .. next PROVE \E u \in Workers : \A v \in Workers : Has(v, m)' <=> v = u
        <3>1. CASE m = next
            <4>1. \A v \in Workers : ~Has(v, m)
                BY Zenon, <1>0, <2>2, <3>1 DEF Held, Sending
            <4>2. QED
                BY Zenon, <2>1, <2>3, <2>6, <3>1, <4>1
        <3>2. CASE m # next
            <4>1. PICK u \in Workers : \A v \in Workers : Has(v, m) <=> v = u
                BY Zenon, <1>0, <3>2 DEF Held
            <4>2. QED
                BY Zenon, <2>3, <2>6, <3>2, <4>1
        <3>3. QED
            BY Zenon, <3>1, <3>2
    <2>8. QED
        BY Zenon, <2>2, <2>5, <2>7 DEF Held, Sending

<1>5. CASE ShutdownOne
    <2> DEFINE w == connections_[j]
    <2>1. master' = master /\ UNCHANGED <<next, consumed>>
        BY Zenon, <1>5 DEF ShutdownOne
    <2>2. down' = down \/ down' = [down EXCEPT ![w] = Append(@, 0)]
        BY Zenon, <1>5 DEF ShutdownOne, Answer, Connection, Shutdown
    <2> HIDE DEF w
    <2>3. 0 \in Nat
        OBVIOUS
    <2>4. ASSUME NEW v \in Workers, NEW m \in Nat \ {0} PROVE Has(v, m)' <=> Has(v, m)
        <3>1. Has(v, m)' <=> (<<v, m>> \in consumed' \/ m \in Range(down'[v]))
            BY Zenon DEF Has, Range
        <3>2. down'[v] = down[v] \/ down'[v] = Append(down[v], 0)
            BY Zenon, <1>1, <2>2
        <3>3. down[v] \in Seq(Nat) /\ m # 0
            BY Zenon, <1>1
        <3>4. (m \in Range(down'[v])) <=> (m \in Range(down[v]))
            BY Zenon, <2>3, <3>2, <3>3, RangeAppend
        <3>5. QED
            BY Zenon, <2>1, <3>1, <3>4 DEF Has
    <2>5. QED
        BY Zenon, <1>0, <1>1, <2>1, <2>4, HeldSame
<1>6. ASSUME NEW w \in Workers, GetMessage(w) PROVE Held'
    <2>1. master' = master /\ next' = next /\ down[w] # <<>> /\ down' = [down EXCEPT ![w] = Tail(@)]
        BY Zenon, <1>6 DEF GetMessage, socket
    <2>2. \/ Head(down[w]) = 0 /\ consumed' = consumed
          \/ Head(down[w]) # 0 /\ consumed' = consumed \cup {<<w, Head(down[w])>>}
        BY Zenon, <1>6 DEF GetMessage, Shutdown
    <2>3. ASSUME NEW v \in Workers, NEW m \in Nat \ {0} PROVE Has(v, m)' <=> Has(v, m)
        <3>1. Has(v, m)' <=> (<<v, m>> \in consumed' \/ m \in Range(down'[v]))
            BY Zenon DEF Has, Range
        <3>2. CASE v # w
            <4>1. down'[v] = down[v]
                BY Zenon, <1>1, <2>1, <3>2
            <4>2. (<<v, m>> \in consumed') <=> (<<v, m>> \in consumed)
                BY <2>2, <3>2
            <4>3. QED
                BY Zenon, <3>1, <4>1, <4>2 DEF Has
        <3>3. CASE v = w
            <4>1. down'[v] = Tail(down[v]) /\ down[v] \in Seq(Nat) /\ m # 0
                BY Zenon, <1>1, <2>1, <3>3
            <4>2. (m \in Range(down[v])) <=> (m = Head(down[v]) \/ m \in Range(down'[v]))
                BY Zenon, <2>1, <3>3, <4>1, RangeTail
            <4>3. (<<v, m>> \in consumed') <=> (<<v, m>> \in consumed \/ m = Head(down[v]))
                <5> DEFINE h == Head(down[w])
                <5>1. (h = 0 /\ consumed' = consumed) \/ (h # 0 /\ consumed' = consumed \cup {<<w, h>>})
                    BY Zenon, <2>2
                <5> HIDE DEF h
                <5>2. (<<v, m>> \in consumed') <=> (<<v, m>> \in consumed \/ m = h)
                    BY <3>3, <4>1, <5>1
                <5>3. QED
                    BY Zenon, <3>3, <5>2 DEF h
            <4>4. QED
                BY Zenon, <3>1, <4>2, <4>3 DEF Has
        <3>4. QED
            BY Zenon, <3>2, <3>3
    <2>4. QED
        BY Zenon, <1>0, <1>1, <2>1, <2>3, HeldSame
<1>7. CASE Initialise \/ SendAccept \/ Skip \/ ShutdownSelect \/ ShutdownAgain \/ Return
    BY Zenon, <1>2, <1>7
    DEF Initialise, SendAccept, Skip, ShutdownSelect, ShutdownAgain, Return, worker, Sending
<1>8. CASE SendSelect \/ ServeThrows \/ Resend
    BY Zenon, <1>2, <1>8 DEF SendSelect, ServeThrows, AfterFailure, Resend, worker, Sending
<1>9. ASSUME NEW w \in Workers, Connect(w) \/ SendReady(w) \/ Statistics(w) \/ GetThrows(w) \/ WorkerDies(w)
      PROVE  Held'
    BY Zenon, <1>2, <1>9 DEF Connect, SendReady, Statistics, GetThrows, WorkerDies
<1>10. CASE UNCHANGED tcp
    BY Zenon, <1>2, <1>10 DEF tcp
<1>11. QED
    BY Zenon, <1>3, <1>4, <1>5, <1>6, <1>7, <1>8, <1>9, <1>10 DEF TcpNext, TcpProducer, Worker

\* No worker has connected yet.
LEMMA InitIInvT == TcpInit => IInvT
<1> SUFFICES ASSUME TcpInit PROVE IInvT
    OBVIOUS
<1>1. TypesT
    BY DEF TcpInit, TypesT, Sending, Closing
<1>2. \A w \in Workers : work[w] = "absent" /\ up[w] = <<>> /\ down[w] = <<>> /\ active_[w] = FALSE
    BY Zenon DEF TcpInit
<1>3. \A w \in Workers : Turn(w) /\ Linked(w)
    BY Zenon, <1>2, Singles DEF Turn, Linked
<1>4. InLoop
    BY Zenon DEF TcpInit, InLoop, Sending
<1>5. \A w \in Workers : \A m : ~Has(w, m)
    <2>1. consumed = {}
        BY Zenon DEF TcpInit
    <2>2. QED
        BY Zenon, <1>2, <2>1, Singles DEF Has, Range
<1>6. 1 .. next = {}
    BY DEF TcpInit
<1>7. QED
    BY Zenon, <1>1, <1>3, <1>4, <1>5, <1>6 DEF IInvT, Held

\* Every step of the producer and of a worker keeps the inductive invariant.
LEMMA StepIInvT == IInvT /\ [TcpNext]_tcp => IInvT'
BY Zenon, StepTypesT, StepSound, StepInLoop, StepHeld DEF IInvT

\* What the invariant says of the messages, and of the end.
LEMMA IInvSentOnce == IInvT => SentOnce
<1> SUFFICES ASSUME IInvT, NEW m \in 1 .. next
             PROVE  LET holders == {w \in Workers : Has(w, m)}
                    IN  IF m = next /\ master \in {"send", "scan", "thrown"}
                           THEN holders = {}
                           ELSE /\ \E w \in Workers : holders = {w}
                                /\ master = "done" =>
                                      \E w \in holders : <<w, m>> \in consumed \/ work[w] = "dead"
    BY Zenon DEF SentOnce, SentOnce
<1> DEFINE holders == {w \in Workers : Has(w, m)}
<1>0. TypesT /\ InLoop /\ Held /\ \A w \in Workers : Turn(w) /\ Linked(w)
    BY Zenon DEF IInvT
<1>1. CASE m = next /\ master \in {"send", "scan", "thrown"}
    <2>1. \A w \in Workers : ~Has(w, m)
        BY Zenon, <1>0, <1>1 DEF Held, Sending
    <2>2. QED
        BY Zenon, <1>1, <2>1
<1>2. CASE ~(m = next /\ master \in {"send", "scan", "thrown"})
    <2>1. PICK w \in Workers : \A v \in Workers : Has(v, m) <=> v = w
        BY Zenon, <1>0, <1>2 DEF Held, Sending
    <2>2. holders = {w}
        BY Zenon, <2>1
    <2>3. ASSUME master = "done" PROVE <<w, m>> \in consumed \/ work[w] = "dead"
        <3>1. connections_ = <<>>
            BY Zenon, <1>0, <2>3 DEF InLoop
        <3>2. ~active_[w]
            BY Zenon, <1>0, <3>1, Singles DEF Linked
        <3>3. m \in Range(down[w]) => down[w] # <<>>
            BY Zenon, Singles DEF Range
        <3>4. work[w] \in {"absent", "idle", "waiting", "closing", "done", "dead"}
            BY Zenon, <1>0 DEF TypesT
        <3>5. down[w] # <<>> => work[w] = "dead"
            BY Zenon, <1>0, <3>2, <3>4 DEF Turn, Linked
        <3>6. QED
            BY Zenon, <2>1, <3>3, <3>5 DEF Has
    <2>4. QED
        BY Zenon, <1>2, <2>1, <2>2, <2>3
<1>3. QED
    BY Zenon, <1>1, <1>2

\* However many workers connect, die and are lost, in whatever order, and however
\* many messages there are: each goes to one worker and to no other, and when the
\* producer returns that worker has consumed it or is dead.
THEOREM SentOnceHolds == TcpSpec => []SentOnce
<1>1. QED
    BY InitIInvT, StepIInvT, IInvSentOnce, PTL DEF TcpSpec

----------------------------------------------------------------------------
\* A producer, workers and writers over MPI.

Tags  == {"READY", "WORK", "SHUTDOWN", "STATISTICS", "OPEN", "WRITE", "CLOSE"}
Stops == {"writers", "collect", "barrier", "done"}   \* the producer, after the workers
Labels == {"ask", "wait", "consume", "write", "close", "get", "report", "produce", "workers"} \cup Stops
Box(s, t) == box[<<s, t>>]

TypesM ==
    /\ totalRanks_ \in 2 .. MaxRanks /\ writers \in 0 .. MaxWriters /\ Accepted
    /\ rank \in [0 .. MaxRanks - 1 -> Labels]
    /\ writer_ \in [0 .. MaxRanks - 1 -> 0 .. MaxRanks - 1]
    /\ box \in [(0 .. MaxRanks - 1) \X (0 .. MaxRanks - 1) -> Seq(Tags)]

\* A worker has asked, or was answered, or has said that it ends, and no two of
\* these; it is told to shut down after the last message, and the writers after it.
WorkerOK(r) ==
    /\ rank[r] \in {"ask", "wait", "consume", "write", "close", "report", "barrier", "done"}
    /\ rank[r] \in {"ask", "consume", "write", "close", "report"} => Box(r, 0) = <<>> /\ Box(0, r) = <<>>
    /\ rank[r] = "wait" =>
          \/ Box(r, 0) = <<"READY">> /\ Box(0, r) = <<>>
          \/ Box(r, 0) = <<>> /\ Box(0, r) \in {<<"WORK">>, <<"SHUTDOWN">>}
    /\ rank[r] \in {"barrier", "done"} => Box(r, 0) \in {<<>>, <<"STATISTICS">>} /\ Box(0, r) = <<>>
    /\ rank[0] = "produce" => rank[r] \notin {"report", "barrier", "done"} /\ Box(0, r) # <<"SHUTDOWN">>
    /\ rank[0] \in Stops => rank[r] \in {"barrier", "done"} /\ Box(r, 0) = <<>>
    /\ rank[r] \in {"write", "close"} => writer_[r] \in Writers
    /\ \A t \in Writers : Box(r, t) \in Seq({"OPEN", "WRITE", "CLOSE"})
    /\ \A t \in WorkerRanks : Box(r, t) = <<>>

\* A writer hears from the producer when all workers have ended.
WriterOK(r) ==
    /\ rank[r] \in {"get", "report", "barrier", "done"}
    /\ Box(0, r) \in Seq({"SHUTDOWN"})
    /\ Box(r, 0) \in Seq({"STATISTICS"})
    /\ rank[0] \in {"produce", "workers"} => rank[r] = "get" /\ Box(0, r) = <<>> /\ Box(r, 0) = <<>>
    /\ \A t \in Ranks \ {0} : Box(r, t) = <<>>

\* The workers whose STATISTICS the producer has not received.
Uncounted == {r \in WorkerRanks : rank[r] \notin {"barrier", "done"} \/ Box(r, 0) # <<>>}

ProducerOK ==
    /\ rank[0] \in {"produce", "workers"} \cup Stops
    /\ Box(0, 0) = <<>>
    /\ rank[0] = "workers" => count = Cardinality(Uncounted)
    /\ rank[0] = "writers" => count \in 0 .. writers

\* The inductive invariant.
IInvM ==
    /\ TypesM /\ ProducerOK
    /\ \A r \in WorkerRanks : WorkerOK(r)
    /\ \A r \in Writers : WriterOK(r)

\* Multiples of n are n apart.
LEMMA Multiples ==
    ASSUME NEW i \in Nat, NEW k \in Nat, NEW n \in Nat, i < k
    PROVE  i * n + n <= k * n
OBVIOUS

\* w times the distance between writers is at most the number of ranks.
LEMMA DistanceBound ==
    ASSUME NEW t \in Nat, NEW w \in Nat \ {0}
    PROVE  t \div w \in Nat /\ w * (t \div w) <= t
OBVIOUS

\* Counting down from the last rank by n, the constructor never gets to rank 0.
LEMMA WriterRankIs ==
    ASSUME TypesM, NEW i \in 0 .. writers - 1
    PROVE  LET n == totalRanks_ \div writers
           IN  /\ n \in Nat /\ n > 1
               /\ WriterRank(totalRanks_, writers, i) = totalRanks_ - 1 - i * n
               /\ WriterRank(totalRanks_, writers, i) \in 1 .. totalRanks_ - 1
<1> DEFINE n == totalRanks_ \div writers
           p == i * n
<1>1. totalRanks_ \in Nat /\ writers \in Nat \ {0} /\ i \in Nat /\ i < writers
    BY DEF TypesM
<1>2. n \in Nat /\ writers * n <= totalRanks_
    BY <1>1, DistanceBound
<1>3. n > 1
    BY <1>1 DEF TypesM, Accepted, Distance
<1>4. WriterRank(totalRanks_, writers, i) = IF totalRanks_ - 1 - p <= 0 THEN 1 ELSE totalRanks_ - 1 - p
    BY Zenon DEF WriterRank, Distance
<1> HIDE DEF n
<1>5. p \in Nat /\ p + n <= writers * n
    BY <1>1, <1>2, Multiples
<1> HIDE DEF p
<1>6. writers * n \in Nat
    BY <1>1, <1>2
<1>7. totalRanks_ - 1 - p \in 1 .. totalRanks_ - 1 /\ ~(totalRanks_ - 1 - p <= 0)
    BY <1>1, <1>2, <1>3, <1>5, <1>6
<1>8. WriterRank(totalRanks_, writers, i) = totalRanks_ - 1 - p
    BY Zenon, <1>4, <1>7
<1>9. QED
    BY Zenon, <1>2, <1>3, <1>7, <1>8 DEF n, p

\* Two writers have two ranks.
LEMMA WriterRanksDiffer ==
    ASSUME TypesM, NEW i \in 0 .. writers - 1, NEW k \in 0 .. writers - 1, i < k
    PROVE  WriterRank(totalRanks_, writers, i) # WriterRank(totalRanks_, writers, k)
<1> DEFINE n == totalRanks_ \div writers
           p == i * n
           q == k * n
<1>1. n \in Nat /\ n > 1 /\ totalRanks_ \in Nat /\ i \in Nat /\ k \in Nat
    BY WriterRankIs DEF TypesM
<1>2. WriterRank(totalRanks_, writers, i) = totalRanks_ - 1 - p
    BY Zenon, WriterRankIs
<1>3. WriterRank(totalRanks_, writers, k) = totalRanks_ - 1 - q
    BY Zenon, WriterRankIs
<1> HIDE DEF n
<1>4. p \in Nat /\ q \in Nat /\ p + n <= q
    BY <1>1, Multiples
<1> HIDE DEF p, q
<1>5. totalRanks_ - 1 - p # totalRanks_ - 1 - q
    BY <1>1, <1>4
<1>6. QED
    BY Zenon, <1>2, <1>3, <1>5

\* Every writer has a rank of its own, and none is the producer's.
LEMMA WritersApart ==
    ASSUME TypesM
    PROVE  /\ Writers \subseteq Ranks \ {0}
           /\ Writers = {WriterRank(totalRanks_, writers, i) : i \in 0 .. writers - 1}
           /\ \A i, k \in 0 .. writers - 1 :
                 i # k => WriterRank(totalRanks_, writers, i) # WriterRank(totalRanks_, writers, k)
<1> DEFINE R(i) == WriterRank(totalRanks_, writers, i)
           I == 0 .. writers - 1
<1>0. totalRanks_ \in Nat /\ writers \in Nat /\ totalRanks_ > 1
    BY DEF TypesM
<1>1. Writers = {R(i) : i \in I}
    <2>1. CASE writers = 0
        <3>1. I = {}
            BY <2>1
        <3>2. QED
            BY Zenon, <2>1, <3>1 DEF Writers
    <2>2. CASE writers # 0
        BY Zenon, <2>2 DEF Writers, WriterRanks
    <2>3. QED
        BY Zenon, <2>1, <2>2
<1>2. Ranks = 0 .. totalRanks_ - 1 /\ \A i \in I : R(i) \in 1 .. totalRanks_ - 1
    BY Zenon, WriterRankIs DEF Ranks
<1>3. Writers \subseteq 1 .. totalRanks_ - 1
    BY Zenon, <1>1, <1>2
<1>4. \A r \in 1 .. totalRanks_ - 1 : r \in 0 .. totalRanks_ - 1 /\ r # 0
    BY <1>0
<1>5. Writers \subseteq Ranks \ {0}
    BY Zenon, <1>2, <1>3, <1>4
<1>6. \A i, k \in I : i # k => R(i) # R(k)
    <2> SUFFICES ASSUME NEW i \in I, NEW k \in I, i # k PROVE R(i) # R(k)
        BY Zenon
    <2>1. i < k \/ k < i
        BY <1>0
    <2>2. QED
        BY Zenon, <2>1, WriterRanksDiffer
<1>7. QED
    BY Zenon, <1>1, <1>5, <1>6

\* The ranks: the producer, the workers and the writers.
LEMMA RankFacts ==
    ASSUME TypesM
    PROVE  /\ 0 \in Ranks /\ Ranks \subseteq 0 .. MaxRanks - 1
           /\ WorkerRanks \subseteq Ranks /\ Writers \subseteq Ranks
           /\ 0 \notin WorkerRanks /\ 0 \notin Writers
           /\ \A r \in WorkerRanks : r \notin Writers
           /\ \A r \in Ranks : r = 0 \/ r \in WorkerRanks \/ r \in Writers
           /\ \A s, t \in Ranks : Box(s, t) \in Seq(Tags)
<1>1. 0 \in Ranks /\ Ranks \subseteq 0 .. MaxRanks - 1
    BY RanksAssumption DEF TypesM, Ranks
<1>2. Writers \subseteq Ranks \ {0}
    BY Zenon, WritersApart
<1>3. \A s, t \in Ranks : Box(s, t) \in Seq(Tags)
    BY Zenon, <1>1 DEF TypesM, Box
<1>4. QED
    BY Zenon, <1>1, <1>2, <1>3 DEF WorkerRanks

\* The ranks and their roles do not change.
LEMMA SetupKeeps ==
    ASSUME TypesM, UNCHANGED <<totalRanks_, writers>>
    PROVE  /\ Ranks' = Ranks /\ Writers' = Writers /\ WorkerRanks' = WorkerRanks
           /\ totalRanks_' \in 2 .. MaxRanks /\ writers' \in 0 .. MaxWriters /\ Accepted'
BY Zenon DEF Ranks, Writers, WriterRanks, WriterRank, Distance, WorkerRanks, Accepted, TypesM

\* A message that is sent.
LEMMA BoxPut ==
    ASSUME TypesM, NEW s \in Ranks, NEW t \in Ranks, NEW tag \in Tags, box' = Put(box, s, t, tag)
    PROVE  /\ box' \in [(0 .. MaxRanks - 1) \X (0 .. MaxRanks - 1) -> Seq(Tags)]
           /\ Box(s, t)' = Append(Box(s, t), tag)
           /\ \A a, b \in Ranks : a # s \/ b # t => Box(a, b)' = Box(a, b)
<1> DEFINE D == (0 .. MaxRanks - 1) \X (0 .. MaxRanks - 1)
<1>1. \A a, b \in Ranks : <<a, b>> \in D
    BY Zenon, RankFacts
<1>2. box \in [D -> Seq(Tags)] /\ box' = [box EXCEPT ![<<s, t>>] = Append(@, tag)]
    BY Zenon DEF TypesM, Put
<1> HIDE DEF D
<1>3. box[<<s, t>>] \in Seq(Tags)
    BY Zenon, <1>1, <1>2
<1>4. Append(box[<<s, t>>], tag) \in Seq(Tags)
    BY <1>3
<1>5. box' \in [D -> Seq(Tags)]
    BY Zenon, <1>2, <1>4
<1>6. Box(s, t)' = Append(Box(s, t), tag)
    BY Zenon, <1>1, <1>2 DEF Box
<1>7. ASSUME NEW a \in Ranks, NEW b \in Ranks, a # s \/ b # t PROVE Box(a, b)' = Box(a, b)
    <2>1. <<a, b>> # <<s, t>>
        BY Zenon, <1>7
    <2>2. QED
        BY Zenon, <1>1, <1>2, <2>1 DEF Box
<1>8. QED
    BY Zenon, <1>5, <1>6, <1>7 DEF D

\* A message that is received.
LEMMA BoxTake ==
    ASSUME TypesM, NEW s \in Ranks, NEW t \in Ranks, Arrived(s, t), box' = Take(box, s, t)
    PROVE  /\ box' \in [(0 .. MaxRanks - 1) \X (0 .. MaxRanks - 1) -> Seq(Tags)]
           /\ Box(s, t)' = Tail(Box(s, t))
           /\ \A a, b \in Ranks : a # s \/ b # t => Box(a, b)' = Box(a, b)
<1> DEFINE D == (0 .. MaxRanks - 1) \X (0 .. MaxRanks - 1)
<1>1. \A a, b \in Ranks : <<a, b>> \in D
    BY Zenon, RankFacts
<1>2. box \in [D -> Seq(Tags)] /\ box' = [box EXCEPT ![<<s, t>>] = Tail(@)] /\ box[<<s, t>>] # <<>>
    BY Zenon DEF TypesM, Take, Arrived
<1> HIDE DEF D
<1>3. box[<<s, t>>] \in Seq(Tags)
    BY Zenon, <1>1, <1>2
<1>4. Tail(box[<<s, t>>]) \in Seq(Tags)
    BY <1>2, <1>3
<1>5. box' \in [D -> Seq(Tags)]
    BY Zenon, <1>2, <1>4
<1>6. Box(s, t)' = Tail(Box(s, t))
    BY Zenon, <1>1, <1>2 DEF Box
<1>7. ASSUME NEW a \in Ranks, NEW b \in Ranks, a # s \/ b # t PROVE Box(a, b)' = Box(a, b)
    <2>1. <<a, b>> # <<s, t>>
        BY Zenon, <1>7
    <2>2. QED
        BY Zenon, <1>1, <1>2, <2>1 DEF Box
<1>8. QED
    BY Zenon, <1>5, <1>6, <1>7 DEF D

\* A message that is received from a worker and answered.
LEMMA BoxAnswer ==
    ASSUME TypesM, NEW s \in WorkerRanks, NEW tag \in Tags, Arrived(s, 0),
           box' = Put(Take(box, s, 0), 0, s, tag)
    PROVE  /\ box' \in [(0 .. MaxRanks - 1) \X (0 .. MaxRanks - 1) -> Seq(Tags)]
           /\ Box(s, 0)' = Tail(Box(s, 0))
           /\ Box(0, s)' = Append(Box(0, s), tag)
           /\ \A a, b \in Ranks : (a # s \/ b # 0) /\ (a # 0 \/ b # s) => Box(a, b)' = Box(a, b)
<1> DEFINE D == (0 .. MaxRanks - 1) \X (0 .. MaxRanks - 1)
           m == Take(box, s, 0)
<1>0. s \in Ranks /\ 0 \in Ranks /\ s # 0
    BY Zenon, RankFacts
<1>1. \A a, b \in Ranks : <<a, b>> \in D
    BY Zenon, RankFacts
<1>2. box \in [D -> Seq(Tags)] /\ m = [box EXCEPT ![<<s, 0>>] = Tail(@)] /\ box[<<s, 0>>] # <<>>
    BY Zenon DEF TypesM, Take, Arrived
<1>3. box' = [m EXCEPT ![<<0, s>>] = Append(@, tag)]
    BY Zenon DEF Put
<1> HIDE DEF D, m
<1>4. <<s, 0>> \in D /\ <<0, s>> \in D /\ <<s, 0>> # <<0, s>>
    BY Zenon, <1>0, <1>1
<1>5. Tail(box[<<s, 0>>]) \in Seq(Tags) /\ Append(box[<<0, s>>], tag) \in Seq(Tags)
    <2>1. box[<<s, 0>>] \in Seq(Tags) /\ box[<<0, s>>] \in Seq(Tags)
        BY Zenon, <1>2, <1>4
    <2>2. QED
        BY <1>2, <2>1
<1>6. m \in [D -> Seq(Tags)] /\ m[<<s, 0>>] = Tail(box[<<s, 0>>])
    BY Zenon, <1>2, <1>4, <1>5
<1>7. \A p \in D : p # <<s, 0>> => m[p] = box[p]
    BY Zenon, <1>2
<1>8. box' \in [D -> Seq(Tags)]
    BY Zenon, <1>3, <1>4, <1>5, <1>6, <1>7
<1>9. Box(s, 0)' = Tail(Box(s, 0)) /\ Box(0, s)' = Append(Box(0, s), tag)
    BY Zenon, <1>3, <1>4, <1>6, <1>7 DEF Box
<1>10. ASSUME NEW a \in Ranks, NEW b \in Ranks, a # s \/ b # 0, a # 0 \/ b # s
       PROVE  Box(a, b)' = Box(a, b)
    <2>1. <<a, b>> \in D /\ <<a, b>> # <<s, 0>> /\ <<a, b>> # <<0, s>>
        BY Zenon, <1>1, <1>10
    <2>2. box'[<<a, b>>] = m[<<a, b>>]
        BY Zenon, <1>3, <1>6, <2>1
    <2>3. QED
        BY Zenon, <1>7, <2>1, <2>2 DEF Box
<1>11. QED
    BY Zenon, <1>8, <1>9, <1>10 DEF D

\* A step that does not touch a worker leaves it as it should be.
LEMMA WorkerFrame ==
    ASSUME TypesM, UNCHANGED <<totalRanks_, writers>>, NEW r \in WorkerRanks, WorkerOK(r),
           rank'[0] = rank[0], rank'[r] = rank[r], writer_'[r] = writer_[r],
           Box(0, r)' = Box(0, r), \A t \in Ranks : Box(r, t)' = Box(r, t)
    PROVE  WorkerOK(r)'
<1>1. Writers' = Writers /\ WorkerRanks' = WorkerRanks
    BY Zenon, SetupKeeps
<1>2. 0 \in Ranks /\ WorkerRanks \subseteq Ranks /\ Writers \subseteq Ranks
    BY Zenon, RankFacts
<1>3. Box(r, 0)' = Box(r, 0)
    BY Zenon, <1>2
<1>4. \A t \in Writers' : Box(r, t)' \in Seq({"OPEN", "WRITE", "CLOSE"})
    BY Zenon, <1>1, <1>2 DEF WorkerOK
<1>5. \A t \in WorkerRanks' : Box(r, t)' = <<>>
    BY Zenon, <1>1, <1>2 DEF WorkerOK
<1>6. QED
    BY Zenon, <1>1, <1>3, <1>4, <1>5 DEF WorkerOK

\* The same of a writer.
LEMMA WriterFrame ==
    ASSUME TypesM, UNCHANGED <<totalRanks_, writers>>, NEW r \in Writers, WriterOK(r),
           rank'[0] = rank[0], rank'[r] = rank[r],
           Box(0, r)' = Box(0, r), \A t \in Ranks : Box(r, t)' = Box(r, t)
    PROVE  WriterOK(r)'
<1>1. Ranks' = Ranks /\ 0 \in Ranks
    BY Zenon, SetupKeeps, RankFacts
<1>2. \A t \in Ranks' \ {0} : Box(r, t)' = <<>>
    BY Zenon, <1>1 DEF WriterOK
<1>3. Box(r, 0)' = Box(r, 0)
    BY Zenon, <1>1
<1>4. QED
    BY Zenon, <1>2, <1>3 DEF WriterOK

\* A step of rank r on what it sends and on what the producer sends it leaves the
\* other ranks, and the producer's count, as they should be.
LEMMA OthersKept ==
    ASSUME IInvM, NEW r \in Ranks \ {0},
           UNCHANGED <<totalRanks_, writers, count>>,
           \A q \in Ranks \ {r} : rank'[q] = rank[q] /\ writer_'[q] = writer_[q],
           \A a, b \in Ranks : a # r /\ ~(a = 0 /\ b = r) => Box(a, b)' = Box(a, b),
           r \in WorkerRanks => ((r \in Uncounted') <=> (r \in Uncounted))
    PROVE  /\ \A q \in WorkerRanks' : q # r => WorkerOK(q)'
           /\ \A q \in Writers' : q # r => WriterOK(q)'
           /\ ProducerOK'
<1>0. TypesM /\ ProducerOK
    BY Zenon DEF IInvM
<1>1. Writers' = Writers /\ WorkerRanks' = WorkerRanks
    BY Zenon, <1>0, SetupKeeps
<1>2. 0 \in Ranks /\ WorkerRanks \subseteq Ranks /\ Writers \subseteq Ranks
    BY Zenon, <1>0, RankFacts
<1>3. 0 \notin WorkerRanks /\ 0 \notin Writers
    BY Zenon, <1>0, RankFacts
<1>4. rank'[0] = rank[0] /\ Box(0, 0)' = Box(0, 0)
    BY Zenon, <1>2
<1>5. ASSUME NEW q \in Ranks, q # r, q # 0
      PROVE  Box(0, q)' = Box(0, q) /\ \A t \in Ranks : Box(q, t)' = Box(q, t)
    BY Zenon, <1>2, <1>5
<1>6. ASSUME NEW q \in WorkerRanks, q # r PROVE WorkerOK(q)'
    <2>1. WorkerOK(q) /\ q \in Ranks /\ q # 0
        BY Zenon, <1>2, <1>3 DEF IInvM
    <2>2. rank'[q] = rank[q] /\ writer_'[q] = writer_[q]
        BY Zenon, <1>6, <2>1
    <2>3. QED
        BY Zenon, <1>0, <1>4, <1>5, <1>6, <2>1, <2>2, WorkerFrame
<1>7. ASSUME NEW q \in Writers, q # r PROVE WriterOK(q)'
    <2>1. WriterOK(q) /\ q \in Ranks /\ q # 0
        BY Zenon, <1>2, <1>3 DEF IInvM
    <2>2. rank'[q] = rank[q]
        BY Zenon, <1>7, <2>1
    <2>3. QED
        BY Zenon, <1>0, <1>4, <1>5, <1>7, <2>1, <2>2, WriterFrame
<1>8. Uncounted' = Uncounted
    <2>1. ASSUME NEW q \in WorkerRanks PROVE (q \in Uncounted') <=> (q \in Uncounted)
        <3>1. CASE q = r
            BY Zenon, <3>1
        <3>2. CASE q # r
            <4>1. rank'[q] = rank[q] /\ Box(q, 0)' = Box(q, 0)
                BY Zenon, <1>2, <1>3, <1>5, <3>2
            <4>2. QED
                BY Zenon, <1>1, <4>1 DEF Uncounted
        <3>3. QED
            BY Zenon, <3>1, <3>2
    <2>2. Uncounted \subseteq WorkerRanks /\ Uncounted' \subseteq WorkerRanks
        BY Zenon, <1>1 DEF Uncounted
    <2>3. QED
        BY Zenon, <2>1, <2>2
<1>9. ProducerOK'
    BY Zenon, <1>0, <1>4, <1>8 DEF ProducerOK
<1>10. QED
    BY Zenon, <1>1, <1>6, <1>7, <1>9

\* A worker that has not ended goes on to l.
LEMMA WorkerMoved ==
    ASSUME IInvM, NEW r \in WorkerRanks, UNCHANGED <<totalRanks_, writers, count>>,
           rank[r] \notin {"barrier", "done"},
           NEW l \in {"ask", "wait", "consume", "write", "close", "report", "barrier"},
           rank' = [rank EXCEPT ![r] = l],
           box' \in [(0 .. MaxRanks - 1) \X (0 .. MaxRanks - 1) -> Seq(Tags)],
           writer_' = writer_ \/ \E t \in Writers : writer_' = [writer_ EXCEPT ![r] = t],
           \A a, b \in Ranks : a # r /\ ~(a = 0 /\ b = r) => Box(a, b)' = Box(a, b),
           l \notin {"wait", "barrier"} => Box(r, 0)' = <<>>,
           l = "wait" => Box(r, 0)' = <<"READY">>,
           l = "barrier" => Box(r, 0)' = <<"STATISTICS">>,
           Box(0, r)' = <<>>,
           l \in {"report", "barrier"} => rank[0] # "produce",
           l \in {"write", "close"} => writer_'[r] \in Writers,
           \A t \in Writers : Box(r, t)' \in Seq({"OPEN", "WRITE", "CLOSE"}),
           \A t \in WorkerRanks : Box(r, t)' = <<>>
    PROVE  IInvM'
<1>0. TypesM /\ ProducerOK /\ WorkerOK(r)
    BY Zenon DEF IInvM
<1>1. Writers' = Writers /\ WorkerRanks' = WorkerRanks
    BY Zenon, <1>0, SetupKeeps
<1>2. 0 \in Ranks /\ Ranks \subseteq 0 .. MaxRanks - 1 /\ r \in Ranks \ {0} /\ Writers \subseteq Ranks
    BY Zenon, <1>0, RankFacts
<1>3. r \notin Writers
    BY Zenon, <1>0, RankFacts
<1>4. rank' \in [0 .. MaxRanks - 1 -> Labels] /\ rank'[r] = l /\ \A q \in Ranks \ {r} : rank'[q] = rank[q]
    <2>1. l \in Labels
        BY Zenon DEF Labels, Stops
    <2>2. QED
        BY Zenon, <1>0, <1>2, <2>1 DEF TypesM
<1>5. writer_' \in [0 .. MaxRanks - 1 -> 0 .. MaxRanks - 1] /\ \A q \in Ranks \ {r} : writer_'[q] = writer_[q]
    <2> DEFINE P == 0 .. MaxRanks - 1
    <2>1. writer_ \in [P -> P] /\ r \in P /\ Ranks \subseteq P /\ Writers \subseteq P
        BY Zenon, <1>0, <1>2 DEF TypesM
    <2> HIDE DEF P
    <2>2. CASE writer_' = writer_
        BY Zenon, <2>1, <2>2 DEF P
    <2>3. ASSUME NEW t \in Writers, writer_' = [writer_ EXCEPT ![r] = t]
          PROVE  writer_' \in [P -> P] /\ \A q \in Ranks \ {r} : writer_'[q] = writer_[q]
        BY Zenon, <2>1, <2>3
    <2>4. QED
        BY Zenon, <2>2, <2>3 DEF P
<1>6. TypesM'
    BY Zenon, <1>0, <1>4, <1>5, SetupKeeps DEF TypesM
<1>7. rank'[0] = rank[0] /\ rank[0] \notin Stops
    BY Zenon, <1>0, <1>2, <1>4 DEF WorkerOK
<1>8. <<>> # <<"SHUTDOWN">> /\ <<"STATISTICS">> # <<>>
    BY Zenon, Singles
<1>9. WorkerOK(r)'
    BY Zenon, <1>1, <1>4, <1>7, <1>8 DEF WorkerOK
<1>10. r \in Uncounted /\ r \in Uncounted'
    BY Zenon, <1>1, <1>4, <1>8 DEF Uncounted
<1>11. /\ \A q \in WorkerRanks' : q # r => WorkerOK(q)'
       /\ \A q \in Writers' : q # r => WriterOK(q)'
       /\ ProducerOK'
    BY Zenon, <1>2, <1>4, <1>5, <1>10, OthersKept
<1>12. QED
    BY Zenon, <1>1, <1>3, <1>6, <1>9, <1>11 DEF IInvM

\* What a worker sends to a writer.
LEMMA WorkerWrites ==
    ASSUME IInvM, NEW r \in WorkerRanks, NEW t \in Writers, NEW tag \in {"OPEN", "WRITE", "CLOSE"},
           box' = Put(box, r, t, tag)
    PROVE  /\ box' \in [(0 .. MaxRanks - 1) \X (0 .. MaxRanks - 1) -> Seq(Tags)]
           /\ Box(r, 0)' = Box(r, 0) /\ Box(0, r)' = Box(0, r)
           /\ \A a, b \in Ranks : a # r /\ ~(a = 0 /\ b = r) => Box(a, b)' = Box(a, b)
           /\ \A u \in Writers : Box(r, u)' \in Seq({"OPEN", "WRITE", "CLOSE"})
           /\ \A u \in WorkerRanks : Box(r, u)' = <<>>
<1>0. TypesM /\ WorkerOK(r)
    BY Zenon DEF IInvM
<1>1. 0 \in Ranks /\ r \in Ranks /\ t \in Ranks /\ r # 0 /\ t # 0
    BY Zenon, <1>0, RankFacts
<1>2. Writers \subseteq Ranks /\ WorkerRanks \subseteq Ranks /\ t \notin WorkerRanks
    BY Zenon, <1>0, RankFacts
<1>3. tag \in Tags
    BY Zenon DEF Tags
<1>4. /\ box' \in [(0 .. MaxRanks - 1) \X (0 .. MaxRanks - 1) -> Seq(Tags)]
      /\ Box(r, t)' = Append(Box(r, t), tag)
      /\ \A a, b \in Ranks : a # r \/ b # t => Box(a, b)' = Box(a, b)
    BY Zenon, <1>0, <1>1, <1>3, BoxPut
<1>5. Box(r, t)' \in Seq({"OPEN", "WRITE", "CLOSE"})
    <2>1. Box(r, t) \in Seq({"OPEN", "WRITE", "CLOSE"})
        BY Zenon, <1>0 DEF WorkerOK
    <2>2. Append(Box(r, t), tag) \in Seq({"OPEN", "WRITE", "CLOSE"})
        BY <2>1
    <2>3. QED
        BY Zenon, <1>4, <2>2
<1>6. \A u \in Writers : Box(r, u)' \in Seq({"OPEN", "WRITE", "CLOSE"})
    BY Zenon, <1>0, <1>1, <1>2, <1>4, <1>5 DEF WorkerOK
<1>7. \A u \in WorkerRanks : Box(r, u)' = <<>>
    BY Zenon, <1>0, <1>1, <1>2, <1>4 DEF WorkerOK
<1>8. QED
    BY Zenon, <1>1, <1>4, <1>6, <1>7

\* Every step of a worker keeps the invariant.
LEMMA WorkerStep == ASSUME IInvM, NEW r \in WorkerRanks, Consumer(r) PROVE IInvM'
<1>0. TypesM /\ WorkerOK(r)
    BY Zenon DEF IInvM
<1>1. 0 \in Ranks /\ r \in Ranks /\ r # 0 /\ Writers \subseteq Ranks /\ WorkerRanks \subseteq Ranks
    BY Zenon, <1>0, RankFacts
<1>2. UNCHANGED <<totalRanks_, writers, count>>
    BY Zenon DEF Consumer, setup
<1>a. 0 \notin Writers /\ 0 \notin WorkerRanks
    BY Zenon, <1>0, RankFacts
<1>3. /\ \A t \in Writers : Box(r, t) \in Seq({"OPEN", "WRITE", "CLOSE"})
      /\ \A t \in WorkerRanks : Box(r, t) = <<>>
    BY Zenon, <1>0 DEF WorkerOK
<1>b. "READY" \in Tags /\ "STATISTICS" \in Tags
    BY Zenon DEF Tags
<1>4. CASE AskWork(r) /\ UNCHANGED writer_
    <2>1. rank[r] = "ask" /\ rank' = [rank EXCEPT ![r] = "wait"] /\ box' = Put(box, r, 0, "READY")
        BY Zenon, <1>4 DEF AskWork, Send, RankGoto
    <2>2. /\ box' \in [(0 .. MaxRanks - 1) \X (0 .. MaxRanks - 1) -> Seq(Tags)]
          /\ Box(r, 0)' = Append(Box(r, 0), "READY")
          /\ \A a, b \in Ranks : a # r \/ b # 0 => Box(a, b)' = Box(a, b)
        BY Zenon, <1>0, <1>1, <1>b, <2>1, BoxPut
    <2>3. Box(r, 0) = <<>> /\ Box(0, r) = <<>>
        BY Zenon, <1>0, <2>1 DEF WorkerOK
    <2>4. Box(r, 0)' = <<"READY">> /\ Box(0, r)' = <<>>
        BY Zenon, <1>1, <2>2, <2>3, Singles
    <2>5. /\ \A t \in Writers : Box(r, t)' \in Seq({"OPEN", "WRITE", "CLOSE"})
          /\ \A t \in WorkerRanks : Box(r, t)' = <<>>
        BY Zenon, <1>1, <1>3, <1>a, <2>2
    <2>6. QED
        BY Zenon, <1>2, <1>4, <2>1, <2>2, <2>4, <2>5, WorkerMoved
<1>5. CASE Report(r) /\ UNCHANGED writer_
    <2>1. rank[r] = "report" /\ rank' = [rank EXCEPT ![r] = "barrier"] /\ box' = Put(box, r, 0, "STATISTICS")
        BY Zenon, <1>5 DEF Report, Send, RankGoto
    <2>2. /\ box' \in [(0 .. MaxRanks - 1) \X (0 .. MaxRanks - 1) -> Seq(Tags)]
          /\ Box(r, 0)' = Append(Box(r, 0), "STATISTICS")
          /\ \A a, b \in Ranks : a # r \/ b # 0 => Box(a, b)' = Box(a, b)
        BY Zenon, <1>0, <1>1, <1>b, <2>1, BoxPut
    <2>3. Box(r, 0) = <<>> /\ Box(0, r) = <<>> /\ rank[0] # "produce"
        BY Zenon, <1>0, <2>1 DEF WorkerOK
    <2>4. Box(r, 0)' = <<"STATISTICS">> /\ Box(0, r)' = <<>>
        BY Zenon, <1>1, <2>2, <2>3, Singles
    <2>5. /\ \A t \in Writers : Box(r, t)' \in Seq({"OPEN", "WRITE", "CLOSE"})
          /\ \A t \in WorkerRanks : Box(r, t)' = <<>>
        BY Zenon, <1>1, <1>3, <1>a, <2>2
    <2>6. QED
        BY Zenon, <1>2, <1>5, <2>1, <2>2, <2>3, <2>4, <2>5, WorkerMoved
<1>6. CASE GetWork(r) /\ UNCHANGED writer_
    <2> DEFINE l == IF Tag(0, r) = "SHUTDOWN" THEN "report" ELSE "consume"
    <2>1. rank[r] = "wait" /\ rank' = [rank EXCEPT ![r] = l] /\ Arrived(0, r) /\ box' = Take(box, 0, r)
        BY Zenon, <1>6 DEF GetWork, RankGoto
    <2>2. /\ box' \in [(0 .. MaxRanks - 1) \X (0 .. MaxRanks - 1) -> Seq(Tags)]
          /\ Box(0, r)' = Tail(Box(0, r))
          /\ \A a, b \in Ranks : a # 0 \/ b # r => Box(a, b)' = Box(a, b)
        BY Zenon, <1>0, <1>1, <2>1, BoxTake
    <2>3. Box(0, r) # <<>> /\ Tag(0, r) = Head(Box(0, r))
        BY Zenon, <2>1 DEF Arrived, Tag, Box
    <2>4. Box(r, 0) = <<>> /\ Box(0, r) \in {<<"WORK">>, <<"SHUTDOWN">>}
        BY Zenon, <1>0, <2>1, <2>3 DEF WorkerOK
    <2>5. Box(r, 0)' = <<>> /\ Box(0, r)' = <<>>
        BY Zenon, <1>1, <2>2, <2>4, Singles
    <2>6. /\ \A t \in Writers : Box(r, t)' \in Seq({"OPEN", "WRITE", "CLOSE"})
          /\ \A t \in WorkerRanks : Box(r, t)' = <<>>
        BY Zenon, <1>1, <1>3, <1>a, <2>2
    <2>7. l \in {"report", "consume"} /\ (l = "report" => rank[0] # "produce")
        <3>1. l = "report" => Head(Box(0, r)) = "SHUTDOWN"
            BY Zenon, <2>3
        <3>2. Head(Box(0, r)) = "SHUTDOWN" => Box(0, r) = <<"SHUTDOWN">>
            <4>1. "WORK" # "SHUTDOWN" /\ Head(<<"WORK">>) = "WORK"
                BY Zenon, Singles
            <4>2. QED
                BY Zenon, <2>4, <4>1
        <3>3. QED
            BY Zenon, <1>0, <3>1, <3>2 DEF WorkerOK
    <2> HIDE DEF l
    <2>8. QED
        BY Zenon, <1>2, <1>6, <2>1, <2>2, <2>5, <2>6, <2>7, WorkerMoved
<1>7. CASE Consume(r) /\ UNCHANGED writer_
    <2>1. rank[r] = "consume" /\ rank' = [rank EXCEPT ![r] = "ask"] /\ box' = box
        BY Zenon, <1>7 DEF Consume, RankGoto
    <2>2. Box(r, 0) = <<>> /\ Box(0, r) = <<>>
        BY Zenon, <1>0, <2>1 DEF WorkerOK
    <2>3. /\ box' \in [(0 .. MaxRanks - 1) \X (0 .. MaxRanks - 1) -> Seq(Tags)]
          /\ \A a, b : Box(a, b)' = Box(a, b)
        BY Zenon, <1>0, <2>1 DEF TypesM, Box
    <2>4. QED
        BY Zenon, <1>2, <1>3, <1>7, <2>1, <2>2, <2>3, WorkerMoved
<1>8. CASE Open(r)
    <2>1. PICK t \in Writers : Send(r, t, "OPEN", "write") /\ writer_' = [writer_ EXCEPT ![r] = t]
        BY Zenon, <1>8 DEF Open
    <2>2. rank[r] = "consume" /\ rank' = [rank EXCEPT ![r] = "write"] /\ box' = Put(box, r, t, "OPEN")
        BY Zenon, <1>8, <2>1 DEF Open, Send, RankGoto
    <2>3. Box(r, 0) = <<>> /\ Box(0, r) = <<>>
        BY Zenon, <1>0, <2>2 DEF WorkerOK
    <2>4. writer_'[r] \in Writers
        <3>1. r \in 0 .. MaxRanks - 1
            BY Zenon, <1>0, <1>1, RankFacts
        <3>2. QED
            BY Zenon, <1>0, <2>1, <3>1 DEF TypesM
    <2>5. "OPEN" \in {"OPEN", "WRITE", "CLOSE"}
        BY Zenon
    <2>6. QED
        BY Zenon, <1>2, <2>1, <2>2, <2>3, <2>4, <2>5, WorkerWrites, WorkerMoved
<1>9. CASE Write(r) /\ UNCHANGED writer_
    <2>1. rank[r] = "write" /\ rank' = [rank EXCEPT ![r] = "close"] /\ box' = Put(box, r, writer_[r], "WRITE")
        BY Zenon, <1>9 DEF Write, Send, RankGoto
    <2>2. Box(r, 0) = <<>> /\ Box(0, r) = <<>> /\ writer_[r] \in Writers
        BY Zenon, <1>0, <2>1 DEF WorkerOK
    <2>3. QED
        BY Zenon, <1>2, <1>9, <2>1, <2>2, WorkerWrites, WorkerMoved
<1>10. CASE CloseFile(r) /\ UNCHANGED writer_
    <2>1. rank[r] = "close" /\ rank' = [rank EXCEPT ![r] = "ask"] /\ box' = Put(box, r, writer_[r], "CLOSE")
        BY Zenon, <1>10 DEF CloseFile, Send, RankGoto
    <2>2. Box(r, 0) = <<>> /\ Box(0, r) = <<>> /\ writer_[r] \in Writers
        BY Zenon, <1>0, <2>1 DEF WorkerOK
    <2>3. QED
        BY Zenon, <1>2, <1>10, <2>1, <2>2, WorkerWrites, WorkerMoved
<1>11. ~GetWrite(r)
    BY Zenon, <1>0 DEF GetWrite, WorkerOK
<1>12. QED
    BY Zenon, <1>4, <1>5, <1>6, <1>7, <1>8, <1>9, <1>10, <1>11 DEF Consumer

\* Every step of a writer keeps the invariant.
LEMMA WriterStep == ASSUME IInvM, NEW r \in Writers, Consumer(r) PROVE IInvM'
<1>0. TypesM /\ WriterOK(r) /\ ProducerOK
    BY Zenon DEF IInvM
<1>1. 0 \in Ranks /\ r \in Ranks \ {0} /\ Ranks \subseteq 0 .. MaxRanks - 1 /\ r \notin WorkerRanks
    BY Zenon, <1>0, RankFacts
<1>2. UNCHANGED <<totalRanks_, writers, count>>
    BY Zenon DEF Consumer, setup
<1>3. Ranks' = Ranks /\ Writers' = Writers /\ WorkerRanks' = WorkerRanks
    BY Zenon, <1>0, <1>2, SetupKeeps
<1>4. ASSUME NEW l \in Labels, rank' = [rank EXCEPT ![r] = l]
      PROVE  /\ rank' \in [0 .. MaxRanks - 1 -> Labels] /\ rank'[r] = l
             /\ \A q \in Ranks \ {r} : rank'[q] = rank[q]
    BY Zenon, <1>0, <1>1, <1>4 DEF TypesM
<1>5. CASE Report(r) /\ UNCHANGED writer_
    <2>1. rank[r] = "report" /\ rank' = [rank EXCEPT ![r] = "barrier"] /\ box' = Put(box, r, 0, "STATISTICS")
        BY Zenon, <1>5 DEF Report, Send, RankGoto
    <2>2. "STATISTICS" \in Tags
        BY Zenon DEF Tags
    <2>3. /\ box' \in [(0 .. MaxRanks - 1) \X (0 .. MaxRanks - 1) -> Seq(Tags)]
          /\ Box(r, 0)' = Append(Box(r, 0), "STATISTICS")
          /\ \A a, b \in Ranks : a # r \/ b # 0 => Box(a, b)' = Box(a, b)
        BY Zenon, <1>0, <1>1, <2>1, <2>2, BoxPut
    <2>4. rank' \in [0 .. MaxRanks - 1 -> Labels] /\ rank'[r] = "barrier" /\ \A q \in Ranks \ {r} : rank'[q] = rank[q]
        <3>1. "barrier" \in Labels
            BY Zenon DEF Labels, Stops
        <3>2. QED
            BY Zenon, <1>4, <2>1, <3>1
    <2>5. TypesM'
        BY Zenon, <1>0, <1>2, <1>5, <2>3, <2>4, SetupKeeps DEF TypesM
    <2>6. rank'[0] = rank[0] /\ rank[0] \notin {"produce", "workers"}
        BY Zenon, <1>0, <1>1, <2>1, <2>4 DEF WriterOK
    <2>7. Box(0, r)' = Box(0, r) /\ \A t \in Ranks \ {0} : Box(r, t)' = Box(r, t)
        BY Zenon, <1>1, <2>3
    <2>8. Box(r, 0)' \in Seq({"STATISTICS"})
        <3>1. Box(r, 0) \in Seq({"STATISTICS"})
            BY Zenon, <1>0 DEF WriterOK
        <3>2. Append(Box(r, 0), "STATISTICS") \in Seq({"STATISTICS"})
            BY <3>1
        <3>3. QED
            BY Zenon, <2>3, <3>2
    <2>9. WriterOK(r)'
        BY Zenon, <1>0, <1>3, <2>4, <2>6, <2>7, <2>8 DEF WriterOK
    <2>10. /\ \A q \in WorkerRanks' : q # r => WorkerOK(q)'
           /\ \A q \in Writers' : q # r => WriterOK(q)'
           /\ ProducerOK'
        BY Zenon, <1>1, <1>2, <1>5, <2>3, <2>4, OthersKept
    <2>11. QED
        BY Zenon, <1>1, <1>3, <2>5, <2>9, <2>10 DEF IInvM
<1>6. ASSUME NEW s \in Ranks, Arrived(s, r), box' = Take(box, s, r), UNCHANGED writer_,
             NEW l \in {"report", "get"}, l = "report" => Tag(s, r) = "SHUTDOWN",
             rank[r] = "get", rank' = [rank EXCEPT ![r] = l]
      PROVE  IInvM'
    <2>0. l \in Labels
        BY Zenon DEF Labels
    <2>1. /\ box' \in [(0 .. MaxRanks - 1) \X (0 .. MaxRanks - 1) -> Seq(Tags)]
          /\ Box(s, r)' = Tail(Box(s, r))
          /\ \A a, b \in Ranks : a # s \/ b # r => Box(a, b)' = Box(a, b)
        BY Zenon, <1>0, <1>1, <1>6, BoxTake
    <2>2. rank' \in [0 .. MaxRanks - 1 -> Labels] /\ rank'[r] = l /\ \A q \in Ranks \ {r} : rank'[q] = rank[q]
        BY Zenon, <1>4, <1>6, <2>0
    <2>3. TypesM'
        BY Zenon, <1>0, <1>2, <1>6, <2>1, <2>2, SetupKeeps DEF TypesM
    <2>4. Box(s, r) # <<>> /\ Tag(s, r) = Head(Box(s, r))
        BY Zenon, <1>6 DEF Arrived, Tag, Box
    <2>5. rank'[0] = rank[0]
        BY Zenon, <1>1, <2>2
    <2>6. s \notin Writers
        BY Zenon, <1>1, <2>4 DEF IInvM, WriterOK
    <2>7. s # r /\ \A t \in Ranks : Box(r, t)' = Box(r, t)
        BY Zenon, <1>1, <2>1, <2>6
    <2>8. CASE s = 0
        <3>1. rank[0] \notin {"produce", "workers"}
            BY Zenon, <1>0, <2>4, <2>8 DEF WriterOK
        <3>2. Box(0, r)' \in Seq({"SHUTDOWN"})
            <4>1. Box(0, r) \in Seq({"SHUTDOWN"}) /\ Box(0, r) # <<>>
                BY Zenon, <1>0, <2>4, <2>8 DEF WriterOK
            <4>2. Tail(Box(0, r)) \in Seq({"SHUTDOWN"})
                BY <4>1
            <4>3. QED
                BY Zenon, <2>1, <2>8, <4>2
        <3>3. Box(r, 0)' \in Seq({"STATISTICS"}) /\ \A t \in Ranks' \ {0} : Box(r, t)' = <<>>
            BY Zenon, <1>0, <1>1, <1>3, <2>7 DEF WriterOK
        <3>4. WriterOK(r)'
            BY Zenon, <1>6, <2>2, <2>5, <3>1, <3>2, <3>3 DEF WriterOK
        <3>5. /\ \A q \in WorkerRanks' : q # r => WorkerOK(q)'
              /\ \A q \in Writers' : q # r => WriterOK(q)'
              /\ ProducerOK'
            <4>1. \A a, b \in Ranks : a # r /\ ~(a = 0 /\ b = r) => Box(a, b)' = Box(a, b)
                BY Zenon, <2>1, <2>8
            <4>2. \A q \in Ranks \ {r} : rank'[q] = rank[q] /\ writer_'[q] = writer_[q]
                BY Zenon, <1>6, <2>2
            <4>3. QED
                BY Zenon, <1>1, <1>2, <4>1, <4>2, OthersKept
        <3>6. QED
            BY Zenon, <1>1, <1>3, <2>3, <3>4, <3>5 DEF IInvM
    <2>9. CASE s # 0
        <3>1. s \in WorkerRanks
            BY Zenon, <1>0, <2>6, <2>9, RankFacts
        <3>2. WorkerOK(s)
            BY Zenon, <3>1 DEF IInvM
        <3>3. Box(s, r) \in Seq({"OPEN", "WRITE", "CLOSE"}) /\ Box(s, r) # <<>>
            BY Zenon, <2>4, <3>2 DEF WorkerOK
        <3>4. Tail(Box(s, r)) \in Seq({"OPEN", "WRITE", "CLOSE"}) /\ Head(Box(s, r)) \in {"OPEN", "WRITE", "CLOSE"}
            BY <3>3
        <3>5. l = "get"
            BY Zenon, <1>6, <2>4, <3>4
        <3>6. \A q \in Ranks : rank'[q] = rank[q]
            BY Zenon, <1>6, <2>2, <3>5
        <3>7. \A a, b \in Ranks : a # s => Box(a, b)' = Box(a, b)
            BY Zenon, <2>1
        <3>8. \A q \in Writers : WriterOK(q)'
            <4> SUFFICES ASSUME NEW q \in Writers PROVE WriterOK(q)'
                BY Zenon
            <4>1. q \in Ranks /\ q # s /\ WriterOK(q)
                BY Zenon, <1>0, <2>6, RankFacts DEF IInvM
            <4>2. Box(0, q)' = Box(0, q) /\ \A t \in Ranks : Box(q, t)' = Box(q, t)
                BY Zenon, <1>1, <2>9, <3>7, <4>1
            <4>3. QED
                BY Zenon, <1>0, <1>2, <2>5, <3>6, <4>1, <4>2, WriterFrame
        <3>9. ASSUME NEW q \in WorkerRanks, q # s PROVE WorkerOK(q)'
            <4>1. q \in Ranks /\ WorkerOK(q)
                BY Zenon, <1>0, RankFacts DEF IInvM
            <4>2. Box(0, q)' = Box(0, q) /\ \A t \in Ranks : Box(q, t)' = Box(q, t)
                BY Zenon, <1>1, <2>9, <3>7, <3>9, <4>1
            <4>3. QED
                BY Zenon, <1>0, <1>2, <1>6, <2>5, <3>6, <4>1, <4>2, WorkerFrame
        <3>10. WorkerOK(s)'
            <4>1. Box(s, 0)' = Box(s, 0) /\ Box(0, s)' = Box(0, s)
                BY Zenon, <1>1, <2>1, <2>9
            <4>2. \A t \in Writers' : Box(s, t)' \in Seq({"OPEN", "WRITE", "CLOSE"})
                <5> SUFFICES ASSUME NEW t \in Writers PROVE Box(s, t)' \in Seq({"OPEN", "WRITE", "CLOSE"})
                    BY Zenon, <1>3
                <5>1. CASE t = r
                    BY Zenon, <2>1, <3>4, <5>1
                <5>2. CASE t # r
                    <6>1. t \in Ranks
                        BY Zenon, <1>0, RankFacts
                    <6>2. QED
                        BY Zenon, <2>1, <3>2, <5>2, <6>1 DEF WorkerOK
                <5>3. QED
                    BY Zenon, <5>1, <5>2
            <4>3. \A t \in WorkerRanks' : Box(s, t)' = <<>>
                <5>1. WorkerRanks \subseteq Ranks
                    BY Zenon, <1>0, RankFacts
                <5>2. QED
                    BY Zenon, <1>1, <1>3, <2>1, <3>2, <5>1 DEF WorkerOK
            <4>4. QED
                BY Zenon, <1>3, <1>6, <2>5, <3>2, <3>6, <4>1, <4>2, <4>3 DEF WorkerOK
        <3>11. Uncounted' = Uncounted
            <4>1. \A q \in WorkerRanks : rank'[q] = rank[q] /\ Box(q, 0)' = Box(q, 0)
                <5>1. WorkerRanks \subseteq Ranks
                    BY Zenon, <1>0, RankFacts
                <5>2. QED
                    BY Zenon, <1>1, <2>1, <3>6, <5>1
            <4>2. QED
                BY Zenon, <1>3, <4>1 DEF Uncounted
        <3>12. ProducerOK'
            <4>1. Box(0, 0)' = Box(0, 0)
                BY Zenon, <1>1, <2>9, <3>7
            <4>2. QED
                BY Zenon, <1>0, <1>2, <2>5, <3>11, <4>1 DEF ProducerOK
        <3>13. QED
            BY Zenon, <1>3, <2>3, <3>8, <3>9, <3>10, <3>12 DEF IInvM
    <2>10. QED
        BY Zenon, <2>8, <2>9
<1>7. CASE GetWrite(r) /\ UNCHANGED writer_
    <2>1. PICK s \in Ranks :
             /\ Arrived(s, r) /\ box' = Take(box, s, r)
             /\ rank' = [rank EXCEPT ![r] = IF Tag(s, r) = "SHUTDOWN" THEN "report" ELSE "get"]
        BY Zenon, <1>7 DEF GetWrite, RankGoto
    <2>2. rank[r] = "get"
        BY Zenon, <1>7 DEF GetWrite
    <2>3. CASE Tag(s, r) = "SHUTDOWN"
        <3>1. rank' = [rank EXCEPT ![r] = "report"]
            BY Zenon, <2>1, <2>3
        <3>2. QED
            BY Zenon, <1>6, <1>7, <2>1, <2>2, <2>3, <3>1
    <2>4. CASE Tag(s, r) # "SHUTDOWN"
        <3>1. rank' = [rank EXCEPT ![r] = "get"]
            BY Zenon, <2>1, <2>4
        <3>2. QED
            BY Zenon, <1>6, <1>7, <2>1, <2>2, <2>4, <3>1
    <2>5. QED
        BY Zenon, <2>3, <2>4
<1>8. rank[r] \in {"get", "report", "barrier", "done"}
    BY Zenon, <1>0 DEF WriterOK
<1>9. QED
    BY Zenon, <1>5, <1>7, <1>8
    DEF Consumer, AskWork, GetWork, Consume, Open, Write, CloseFile

\* The producer hears from a worker, and answers it.
LEMMA AnswerKeeps ==
    ASSUME IInvM, NEW s \in WorkerRanks, NEW tag \in {"WORK", "SHUTDOWN"},
           UNCHANGED <<totalRanks_, writers, rank, writer_>>,
           rank[0] = "workers" => count' = count,
           Arrived(s, 0), Box(s, 0) = <<"READY">>,
           rank[0] \in {"produce", "workers"}, tag = "SHUTDOWN" => rank[0] = "workers",
           box' = Put(Take(box, s, 0), 0, s, tag)
    PROVE  IInvM'
<1>0. TypesM /\ ProducerOK /\ WorkerOK(s)
    BY Zenon DEF IInvM
<1>1. Ranks' = Ranks /\ Writers' = Writers /\ WorkerRanks' = WorkerRanks
    BY Zenon, <1>0, SetupKeeps
<1>2. 0 \in Ranks /\ WorkerRanks \subseteq Ranks /\ Writers \subseteq Ranks
    BY Zenon, <1>0, RankFacts
<1>a. 0 \notin WorkerRanks /\ 0 \notin Writers /\ s \notin Writers
    BY Zenon, <1>0, RankFacts
<1>3. tag \in Tags
    BY Zenon DEF Tags
<1>4. /\ box' \in [(0 .. MaxRanks - 1) \X (0 .. MaxRanks - 1) -> Seq(Tags)]
      /\ Box(s, 0)' = Tail(Box(s, 0))
      /\ Box(0, s)' = Append(Box(0, s), tag)
      /\ \A a, b \in Ranks : (a # s \/ b # 0) /\ (a # 0 \/ b # s) => Box(a, b)' = Box(a, b)
    BY Zenon, <1>0, <1>3, BoxAnswer
<1>5. TypesM'
    BY Zenon, <1>0, <1>4, SetupKeeps DEF TypesM
<1>6. rank[s] = "wait" /\ Box(0, s) = <<>>
    <2>1. <<"READY">> # <<>> /\ <<"READY">> # <<"STATISTICS">>
        <3>1. Head(<<"READY">>) = "READY" /\ Head(<<"STATISTICS">>) = "STATISTICS" /\ "READY" # "STATISTICS"
            BY Zenon, Singles
        <3>2. QED
            BY Zenon, <3>1, Singles
    <2>2. QED
        BY Zenon, <1>0, <2>1 DEF WorkerOK
<1>7. Box(s, 0)' = <<>> /\ Box(0, s)' = <<tag>>
    BY Zenon, <1>4, <1>6, Singles
<1>8. rank[0] # "produce" \/ <<tag>> # <<"SHUTDOWN">>
    <2>1. Head(<<"SHUTDOWN">>) = "SHUTDOWN" /\ Head(<<tag>>) = tag
        BY Zenon, Singles
    <2>2. QED
        BY Zenon, <2>1
<1>9. /\ \A t \in Writers' : Box(s, t)' \in Seq({"OPEN", "WRITE", "CLOSE"})
      /\ \A t \in WorkerRanks' : Box(s, t)' = <<>>
    BY Zenon, <1>0, <1>1, <1>2, <1>4, <1>a DEF WorkerOK
<1>10. WorkerOK(s)'
    <2>1. <<tag>> \in {<<"WORK">>, <<"SHUTDOWN">>}
        BY Zenon
    <2>2. rank[0] \notin Stops
        BY Zenon DEF Stops
    <2>3. QED
        BY Zenon, <1>6, <1>7, <1>8, <1>9, <2>1, <2>2 DEF WorkerOK
<1>11. ASSUME NEW q \in Ranks, q # s, q # 0
       PROVE  Box(0, q)' = Box(0, q) /\ \A t \in Ranks : Box(q, t)' = Box(q, t)
    BY Zenon, <1>2, <1>4, <1>11, <1>a
<1>12. ASSUME NEW q \in WorkerRanks, q # s PROVE WorkerOK(q)'
    <2>1. q \in Ranks /\ q # 0 /\ WorkerOK(q)
        BY Zenon, <1>2, <1>a DEF IInvM
    <2>2. QED
        BY Zenon, <1>0, <1>11, <1>12, <2>1, WorkerFrame
<1>13. ASSUME NEW q \in Writers PROVE WriterOK(q)'
    <2>1. q \in Ranks /\ q # 0 /\ q # s /\ WriterOK(q)
        BY Zenon, <1>2, <1>a DEF IInvM
    <2>2. QED
        BY Zenon, <1>0, <1>11, <2>1, WriterFrame
<1>14. Uncounted' = Uncounted
    <2>1. ASSUME NEW q \in WorkerRanks PROVE (q \in Uncounted') <=> (q \in Uncounted)
        <3>1. CASE q = s
            BY Zenon, <1>1, <1>6, <3>1 DEF Uncounted
        <3>2. CASE q # s
            <4>1. Box(q, 0)' = Box(q, 0)
                BY Zenon, <1>2, <1>a, <1>11, <3>2
            <4>2. QED
                BY Zenon, <1>1, <4>1 DEF Uncounted
        <3>3. QED
            BY Zenon, <3>1, <3>2
    <2>2. Uncounted \subseteq WorkerRanks /\ Uncounted' \subseteq WorkerRanks
        BY Zenon, <1>1 DEF Uncounted
    <2>3. QED
        BY Zenon, <2>1, <2>2
<1>15. ProducerOK'
    <2>1. Box(0, 0)' = Box(0, 0)
        BY Zenon, <1>2, <1>4, <1>a
    <2>2. rank[0] # "writers"
        BY Zenon
    <2>3. QED
        BY Zenon, <1>0, <1>14, <2>1, <2>2 DEF ProducerOK
<1>16. QED
    BY Zenon, <1>1, <1>5, <1>10, <1>12, <1>13, <1>15 DEF IInvM

\* The producer goes on, from its messages to the workers' ends and to the writers.
LEMMA ProducerMoved ==
    ASSUME IInvM, UNCHANGED <<totalRanks_, writers, box, writer_>>,
           NEW l \in {"workers"} \cup Stops, rank' = [rank EXCEPT ![0] = l],
           l = "workers" => rank[0] = "produce" /\ count' = Cardinality(Uncounted),
           l = "writers" => count' \in 0 .. writers,
           l \in Stops => \A r \in WorkerRanks : rank[r] \in {"barrier", "done"} /\ Box(r, 0) = <<>>
    PROVE  IInvM'
<1>0. TypesM /\ ProducerOK
    BY Zenon DEF IInvM
<1>1. Ranks' = Ranks /\ Writers' = Writers /\ WorkerRanks' = WorkerRanks
    BY Zenon, <1>0, SetupKeeps
<1>2. 0 \in Ranks /\ WorkerRanks \subseteq Ranks /\ Writers \subseteq Ranks /\ Ranks \subseteq 0 .. MaxRanks - 1
    BY Zenon, <1>0, RankFacts
<1>3. 0 \notin WorkerRanks /\ 0 \notin Writers
    BY Zenon, <1>0, RankFacts
<1>4. rank' \in [0 .. MaxRanks - 1 -> Labels] /\ rank'[0] = l /\ \A q \in Ranks \ {0} : rank'[q] = rank[q]
    <2>1. l \in Labels
        BY Zenon DEF Labels
    <2>2. QED
        BY Zenon, <1>0, <1>2, <2>1 DEF TypesM
<1>5. \A a, b : Box(a, b)' = Box(a, b)
    BY Zenon DEF Box
<1>6. TypesM'
    BY Zenon, <1>0, <1>4, SetupKeeps DEF TypesM
<1>7. ASSUME NEW r \in WorkerRanks PROVE WorkerOK(r)'
    <2>1. WorkerOK(r) /\ rank'[r] = rank[r] /\ l # "produce"
        BY Zenon, <1>2, <1>3, <1>4 DEF IInvM, Stops
    <2>2. QED
        BY Zenon, <1>1, <1>4, <1>5, <2>1 DEF WorkerOK
<1>8. ASSUME NEW r \in Writers PROVE WriterOK(r)'
    <2>1. WriterOK(r) /\ rank'[r] = rank[r] /\ l # "produce"
        BY Zenon, <1>2, <1>3, <1>4 DEF IInvM, Stops
    <2>2. QED
        BY Zenon, <1>1, <1>4, <1>5, <2>1 DEF WriterOK
<1>9. Uncounted' = Uncounted
    <2>1. \A q \in WorkerRanks : (q \in Uncounted') <=> (q \in Uncounted)
        BY Zenon, <1>1, <1>2, <1>3, <1>4, <1>5 DEF Uncounted
    <2>2. Uncounted \subseteq WorkerRanks /\ Uncounted' \subseteq WorkerRanks
        BY Zenon, <1>1 DEF Uncounted
    <2>3. QED
        BY Zenon, <2>1, <2>2
<1>10. ProducerOK'
    BY Zenon, <1>0, <1>4, <1>5, <1>9 DEF ProducerOK
<1>11. QED
    BY Zenon, <1>1, <1>6, <1>7, <1>8, <1>10 DEF IInvM

\* The producer tells a writer to end.
LEMMA ShutWriterKeeps ==
    ASSUME IInvM, UNCHANGED <<totalRanks_, writers, rank, writer_>>, rank[0] = "writers",
           NEW t \in Writers, box' = Put(box, 0, t, "SHUTDOWN"), count' \in 0 .. writers
    PROVE  IInvM'
<1>0. TypesM /\ ProducerOK /\ WriterOK(t)
    BY Zenon DEF IInvM
<1>1. Ranks' = Ranks /\ Writers' = Writers /\ WorkerRanks' = WorkerRanks
    BY Zenon, <1>0, SetupKeeps
<1>2. 0 \in Ranks /\ WorkerRanks \subseteq Ranks /\ Writers \subseteq Ranks
    BY Zenon, <1>0, RankFacts
<1>3. 0 \notin WorkerRanks /\ 0 \notin Writers /\ \A r \in WorkerRanks : r # t
    BY Zenon, <1>0, RankFacts
<1>4. "SHUTDOWN" \in Tags
    BY Zenon DEF Tags
<1>5. /\ box' \in [(0 .. MaxRanks - 1) \X (0 .. MaxRanks - 1) -> Seq(Tags)]
      /\ Box(0, t)' = Append(Box(0, t), "SHUTDOWN")
      /\ \A a, b \in Ranks : a # 0 \/ b # t => Box(a, b)' = Box(a, b)
    BY Zenon, <1>0, <1>2, <1>4, BoxPut
<1>6. TypesM'
    BY Zenon, <1>0, <1>5, SetupKeeps DEF TypesM
<1>7. ASSUME NEW q \in Ranks, q # t, q # 0
      PROVE  Box(0, q)' = Box(0, q) /\ \A b \in Ranks : Box(q, b)' = Box(q, b)
    BY Zenon, <1>2, <1>5, <1>7
<1>8. ASSUME NEW q \in WorkerRanks PROVE WorkerOK(q)'
    <2>1. q \in Ranks /\ q # 0 /\ q # t /\ WorkerOK(q)
        BY Zenon, <1>2, <1>3 DEF IInvM
    <2>2. QED
        BY Zenon, <1>0, <1>7, <2>1, WorkerFrame
<1>9. ASSUME NEW q \in Writers, q # t PROVE WriterOK(q)'
    <2>1. q \in Ranks /\ q # 0 /\ WriterOK(q)
        BY Zenon, <1>2, <1>3 DEF IInvM
    <2>2. QED
        BY Zenon, <1>0, <1>7, <1>9, <2>1, WriterFrame
<1>10. WriterOK(t)'
    <2>1. Box(0, t) \in Seq({"SHUTDOWN"})
        BY Zenon, <1>0 DEF WriterOK
    <2>2. Append(Box(0, t), "SHUTDOWN") \in Seq({"SHUTDOWN"})
        BY <2>1
    <2>3. t # 0 /\ \A b \in Ranks : Box(t, b)' = Box(t, b)
        BY Zenon, <1>2, <1>3, <1>5
    <2>4. QED
        BY Zenon, <1>0, <1>1, <1>2, <1>5, <2>2, <2>3 DEF WriterOK
<1>11. ProducerOK'
    <2>1. Box(0, 0)' = Box(0, 0)
        BY Zenon, <1>2, <1>3, <1>5
    <2>2. QED
        BY Zenon, <1>0, <2>1 DEF ProducerOK
<1>12. QED
    BY Zenon, <1>1, <1>6, <1>8, <1>9, <1>10, <1>11 DEF IInvM

\* Whom the producer hears from, in each of its loops.
LEMMA HeardFrom ==
    ASSUME IInvM, NEW s \in Ranks, Arrived(s, 0)
    PROVE  /\ s # 0
           /\ rank[0] = "produce" => s \in WorkerRanks /\ Box(s, 0) = <<"READY">>
           /\ rank[0] = "workers" => s \in WorkerRanks
           /\ s \in WorkerRanks => Box(s, 0) \in {<<"READY">>, <<"STATISTICS">>}
           /\ rank[0] \in Stops => s \in Writers
<1>0. TypesM /\ ProducerOK /\ Box(s, 0) # <<>>
    BY Zenon DEF IInvM, Arrived, Box
<1>1. s # 0
    BY Zenon, <1>0 DEF ProducerOK
<1>2. s \in WorkerRanks \/ s \in Writers
    BY Zenon, <1>0, <1>1, RankFacts
<1>3. s \in Writers => rank[0] \notin {"produce", "workers"}
    BY Zenon, <1>0 DEF IInvM, WriterOK
<1>4. s \in WorkerRanks => WorkerOK(s)
    BY Zenon DEF IInvM
<1>5. s \in WorkerRanks => Box(s, 0) \in {<<"READY">>, <<"STATISTICS">>}
    BY Zenon, <1>0, <1>4 DEF WorkerOK
<1>6. s \in WorkerRanks /\ rank[0] = "produce" => Box(s, 0) = <<"READY">>
    BY Zenon, <1>0, <1>4 DEF WorkerOK
<1>7. s \in WorkerRanks => rank[0] \notin Stops
    BY Zenon, <1>0, <1>4 DEF WorkerOK
<1>8. QED
    BY Zenon, <1>1, <1>2, <1>3, <1>5, <1>6, <1>7

\* The barrier opens when every rank is at it.
LEMMA SynchroniseStep ==
    ASSUME IInvM, Synchronise
    PROVE  IInvM'
<1>0. TypesM /\ ProducerOK
    BY Zenon DEF IInvM
<1>1. /\ UNCHANGED <<totalRanks_, writers, count, box, writer_>> /\ rank' = [r \in DOMAIN rank |-> "done"]
      /\ \A r \in Ranks : rank[r] = "barrier"
    BY Zenon DEF Synchronise, setup
<1>2. Ranks' = Ranks /\ Writers' = Writers /\ WorkerRanks' = WorkerRanks
    BY Zenon, <1>0, <1>1, SetupKeeps
<1>3. 0 \in Ranks /\ WorkerRanks \subseteq Ranks /\ Writers \subseteq Ranks /\ Ranks \subseteq 0 .. MaxRanks - 1
    BY Zenon, <1>0, RankFacts
<1>4. rank' \in [0 .. MaxRanks - 1 -> Labels] /\ \A q \in Ranks : rank'[q] = "done"
    BY Zenon, <1>0, <1>1, <1>3 DEF TypesM, Labels, Stops
<1>5. \A a, b : Box(a, b)' = Box(a, b)
    BY Zenon, <1>1 DEF Box
<1>6. TypesM'
    BY Zenon, <1>0, <1>1, <1>4, SetupKeeps DEF TypesM
<1>7. rank[0] = "barrier" /\ rank'[0] = "done" /\ "barrier" \in Stops /\ "done" \in Stops
    BY Zenon, <1>1, <1>3, <1>4 DEF Stops
<1>8. ASSUME NEW r \in WorkerRanks PROVE WorkerOK(r)'
    <2>1. WorkerOK(r) /\ rank[r] = "barrier" /\ rank'[r] = "done"
        BY Zenon, <1>1, <1>3, <1>4 DEF IInvM
    <2>2. QED
        BY Zenon, <1>2, <1>5, <1>7, <2>1 DEF WorkerOK
<1>9. ASSUME NEW r \in Writers PROVE WriterOK(r)'
    <2>1. WriterOK(r) /\ rank[r] = "barrier" /\ rank'[r] = "done"
        BY Zenon, <1>1, <1>3, <1>4 DEF IInvM
    <2>2. QED
        BY Zenon, <1>2, <1>5, <1>7, <2>1 DEF WriterOK
<1>10. ProducerOK'
    BY Zenon, <1>0, <1>5, <1>7 DEF ProducerOK
<1>11. QED
    BY Zenon, <1>2, <1>6, <1>8, <1>9, <1>10 DEF IInvM

\* Before the first message every worker is about to ask.
LEMMA InitIInvM == MpiInit => IInvM
<1> SUFFICES ASSUME MpiInit PROVE IInvM
    BY Zenon
<1>1. /\ totalRanks_ \in 2 .. MaxRanks /\ writers \in 0 .. MaxWriters /\ Accepted
      /\ rank = [r \in 0 .. MaxRanks - 1 |->
                    IF r = 0 THEN "produce"
                    ELSE IF r >= totalRanks_ THEN "done" ELSE IF r \in Writers THEN "get" ELSE "ask"]
      /\ box = [p \in (0 .. MaxRanks - 1) \X (0 .. MaxRanks - 1) |-> <<>>]
      /\ writer_ = [r \in 0 .. MaxRanks - 1 |-> 0]
    BY Zenon DEF MpiInit
<1>2. 0 \in 0 .. MaxRanks - 1
    BY <1>1, RanksAssumption
<1>3. <<>> \in Seq(Tags)
    OBVIOUS
<1>4. TypesM
    BY Zenon, <1>1, <1>2, <1>3 DEF TypesM, Labels, Stops
<1>5. 0 \in Ranks /\ WorkerRanks \subseteq Ranks /\ Writers \subseteq Ranks /\ Ranks \subseteq 0 .. MaxRanks - 1
    BY Zenon, <1>4, RankFacts
<1>6. /\ 0 \notin WorkerRanks /\ 0 \notin Writers
      /\ \A r \in WorkerRanks : r \notin Writers
    BY Zenon, <1>4, RankFacts
<1>7. \A r \in Ranks : ~(r >= totalRanks_)
    BY <1>1 DEF Ranks
<1>8. \A a, b \in Ranks : Box(a, b) = <<>>
    BY Zenon, <1>1, <1>5 DEF Box
<1>9. /\ rank[0] = "produce" /\ \A r \in WorkerRanks : rank[r] = "ask"
      /\ \A r \in Writers : rank[r] = "get"
    BY Zenon, <1>1, <1>2, <1>5, <1>6, <1>7
<1>10. ASSUME NEW r \in WorkerRanks PROVE WorkerOK(r)
    <2>1. <<>> \in Seq({"OPEN", "WRITE", "CLOSE"})
        OBVIOUS
    <2>2. <<>> # <<"SHUTDOWN">> /\ rank[0] \notin Stops
        BY Zenon, <1>9, Singles DEF Stops
    <2>3. /\ \A t \in Writers : Box(r, t) \in Seq({"OPEN", "WRITE", "CLOSE"})
          /\ \A t \in WorkerRanks : Box(r, t) = <<>>
          /\ Box(r, 0) = <<>> /\ Box(0, r) = <<>>
        BY Zenon, <1>5, <1>8, <2>1
    <2>4. QED
        BY Zenon, <1>9, <2>2, <2>3 DEF WorkerOK
<1>11. ASSUME NEW r \in Writers PROVE WriterOK(r)
    <2>1. <<>> \in Seq({"SHUTDOWN"}) /\ <<>> \in Seq({"STATISTICS"})
        OBVIOUS
    <2>2. r \in Ranks
        BY Zenon, <1>5
    <2>3. QED
        BY Zenon, <1>5, <1>8, <1>9, <2>1, <2>2 DEF WriterOK
<1>12. ProducerOK
    BY Zenon, <1>5, <1>8, <1>9 DEF ProducerOK
<1>13. QED
    BY Zenon, <1>4, <1>10, <1>11, <1>12 DEF IInvM

\* What has arrived at the producer, a worker or a writer that receives is what its
\* ASSERTs expect.
LEMMA IInvTagsExpected == IInvM => TagsExpected
<1> SUFFICES ASSUME IInvM PROVE TagsExpected
    BY Zenon
<1>0. TypesM
    BY Zenon DEF IInvM
<1>1. /\ Writers \subseteq Ranks \ {0}
      /\ \A i, k \in 0 .. writers - 1 :
            i # k => WriterRank(totalRanks_, writers, i) # WriterRank(totalRanks_, writers, k)
    BY Zenon, <1>0, WritersApart
<1>2. ASSUME NEW s \in Ranks, Arrived(s, 0)
      PROVE  /\ rank[0] = "produce" /\ count > 0 => s \in WorkerRanks /\ Tag(s, 0) = "READY"
             /\ rank[0] = "workers" /\ count > 0 => s \in WorkerRanks
             /\ rank[0] = "collect" /\ count > 0 => s \in Writers /\ Tag(s, 0) = "STATISTICS"
    <2>1. Tag(s, 0) = Head(Box(s, 0)) /\ Box(s, 0) # <<>>
        BY Zenon, <1>2 DEF Tag, Arrived, Box
    <2>2. ASSUME s \in Writers PROVE Tag(s, 0) = "STATISTICS"
        <3>1. Box(s, 0) \in Seq({"STATISTICS"})
            BY Zenon, <2>2 DEF IInvM, WriterOK
        <3>2. QED
            BY <2>1, <3>1
    <2>3. "collect" \in Stops
        BY Zenon DEF Stops
    <2>4. QED
        BY Zenon, <1>2, <2>1, <2>2, <2>3, HeardFrom, Singles
<1>3. ASSUME NEW s \in Ranks, NEW r \in Ranks, Arrived(s, r), rank[r] = "wait"
      PROVE  s = 0 /\ Tag(s, r) \in {"WORK", "SHUTDOWN"}
    <2>1. Tag(s, r) = Head(Box(s, r)) /\ Box(s, r) # <<>>
        BY Zenon, <1>3 DEF Tag, Arrived, Box
    <2>2. r \in WorkerRanks
        BY Zenon, <1>0, <1>3, RankFacts DEF IInvM, ProducerOK, WriterOK, Stops
    <2>3. s \notin WorkerRanks
        BY Zenon, <2>1, <2>2 DEF IInvM, WorkerOK
    <2>4. s \notin Writers
        <3>1. r # 0
            BY Zenon, <1>0, <2>2, RankFacts
        <3>2. QED
            BY Zenon, <2>1, <3>1 DEF IInvM, WriterOK
    <2>5. s = 0
        BY Zenon, <1>0, <2>3, <2>4, RankFacts
    <2>6. Box(0, r) \in {<<"WORK">>, <<"SHUTDOWN">>}
        BY Zenon, <1>3, <2>1, <2>2, <2>5 DEF IInvM, WorkerOK
    <2>7. QED
        BY Zenon, <2>1, <2>5, <2>6, Singles
<1>4. ASSUME NEW s \in Ranks, NEW r \in Ranks, Arrived(s, r), rank[r] = "get"
      PROVE  s \notin Writers /\ Tag(s, r) \in {"OPEN", "WRITE", "CLOSE", "SHUTDOWN"}
    <2>1. Tag(s, r) = Head(Box(s, r)) /\ Box(s, r) # <<>>
        BY Zenon, <1>4 DEF Tag, Arrived, Box
    <2>2. r \in Writers
        BY Zenon, <1>0, <1>4, RankFacts DEF IInvM, ProducerOK, WorkerOK, Stops
    <2>3. s \notin Writers
        <3>1. r # 0
            BY Zenon, <1>0, <2>2, RankFacts
        <3>2. QED
            BY Zenon, <2>1, <3>1 DEF IInvM, WriterOK
    <2>4. CASE s = 0
        <3>1. Box(s, r) \in Seq({"SHUTDOWN"})
            BY Zenon, <2>2, <2>4 DEF IInvM, WriterOK
        <3>2. Head(Box(s, r)) = "SHUTDOWN"
            BY <2>1, <3>1
        <3>3. QED
            BY Zenon, <2>1, <2>3, <3>2
    <2>5. CASE s \in WorkerRanks
        <3>1. Box(s, r) \in Seq({"OPEN", "WRITE", "CLOSE"})
            BY Zenon, <2>2, <2>5 DEF IInvM, WorkerOK
        <3>2. Head(Box(s, r)) \in {"OPEN", "WRITE", "CLOSE"}
            BY <2>1, <3>1
        <3>3. QED
            BY Zenon, <2>1, <2>3, <3>2
    <2>6. QED
        BY Zenon, <1>0, <2>3, <2>4, <2>5, RankFacts
<1>5. \A s \in Ranks : Arrived(s, 0) =>
          /\ rank[0] = "produce" /\ count > 0 => s \in WorkerRanks /\ Tag(s, 0) = "READY"
          /\ rank[0] = "workers" /\ count > 0 => s \in WorkerRanks
          /\ rank[0] = "collect" /\ count > 0 => s \in Writers /\ Tag(s, 0) = "STATISTICS"
    BY Zenon, <1>2
<1>6. \A s, r \in Ranks : Arrived(s, r) =>
          /\ rank[r] = "wait" => s = 0 /\ Tag(s, r) \in {"WORK", "SHUTDOWN"}
          /\ rank[r] = "get" => s \notin Writers /\ Tag(s, r) \in {"OPEN", "WRITE", "CLOSE", "SHUTDOWN"}
    BY Zenon, <1>3, <1>4
<1>7. QED
    BY Zenon, <1>1, <1>5, <1>6 DEF TagsExpected, TagsExpected

----------------------------------------------------------------------------
\* How many workers there are, and how many are left.

INSTANCE FiniteSetTheorems

\* There are as many workers as the producer counts.
LEMMA WorkersCounted ==
    ASSUME TypesM
    PROVE  IsFiniteSet(WorkerRanks) /\ Cardinality(WorkerRanks) = totalRanks_ - writers - 1
<1> DEFINE R(i) == WriterRank(totalRanks_, writers, i)
           I == 0 .. writers - 1
           A == 1 .. totalRanks_ - 1
           W == Writers
<1>0. totalRanks_ \in Nat /\ writers \in Nat /\ totalRanks_ > 1
    BY DEF TypesM
<1>1. W = {R(i) : i \in I} /\ \A i, k \in I : i # k => R(i) # R(k)
    BY Zenon, WritersApart
<1>2. Ranks \ {0} = A
    BY <1>0 DEF Ranks
<1>3. A \cap W = W /\ WorkerRanks = A \ W
    BY Zenon, <1>2, WritersApart DEF WorkerRanks
<1>4. IsFiniteSet(I) /\ Cardinality(I) = writers
    BY SMTT(60), <1>0, FS_Interval
<1>5. IsFiniteSet(A) /\ Cardinality(A) = totalRanks_ - 1
    BY SMTT(60), <1>0, FS_Interval
<1> HIDE DEF R, I, A, W
<1>6. Cardinality(W) = writers
    <2> DEFINE f == [i \in I |-> R(i)]
    <2>1. f \in Injection(I, W)
        BY Zenon, <1>1 DEF Injection, IsInjective
    <2>2. f \in Surjection(I, W)
        BY Zenon, <1>1 DEF Surjection
    <2>3. ExistsBijection(I, W)
        BY Zenon, <2>1, <2>2 DEF ExistsBijection, Bijection
    <2>4. QED
        BY Zenon, <1>4, <2>3, FS_Bijection
<1>7. IsFiniteSet(A \ W) /\ Cardinality(A \ W) = Cardinality(A) - Cardinality(A \cap W)
    BY Zenon, <1>5, FS_Difference
<1>8. totalRanks_ - 1 - writers = totalRanks_ - writers - 1
    BY SMTT(60), <1>0
<1>9. QED
    BY Zenon, <1>3, <1>5, <1>6, <1>7, <1>8

\* The producer receives the last message of rank s, and does not answer.
LEMMA TakeKeeps ==
    ASSUME IInvM, NEW s \in Ranks \ {0}, UNCHANGED <<totalRanks_, writers, rank, writer_>>,
           Arrived(s, 0), box' = Take(box, s, 0),
           rank[0] \notin {"produce", "writers"},
           s \in WorkerRanks => Box(s, 0) = <<"STATISTICS">>,
           rank[0] = "workers" => s \in WorkerRanks /\ count' = count - 1
    PROVE  IInvM'
<1>0. TypesM /\ ProducerOK
    BY Zenon DEF IInvM
<1>1. Ranks' = Ranks /\ Writers' = Writers /\ WorkerRanks' = WorkerRanks
    BY Zenon, <1>0, SetupKeeps
<1>2. 0 \in Ranks /\ WorkerRanks \subseteq Ranks /\ Writers \subseteq Ranks
    BY Zenon, <1>0, RankFacts
<1>a. 0 \notin WorkerRanks /\ 0 \notin Writers
    BY Zenon, <1>0, RankFacts
<1>3. /\ box' \in [(0 .. MaxRanks - 1) \X (0 .. MaxRanks - 1) -> Seq(Tags)]
      /\ Box(s, 0)' = Tail(Box(s, 0))
      /\ \A a, b \in Ranks : a # s \/ b # 0 => Box(a, b)' = Box(a, b)
    BY Zenon, <1>0, <1>2, BoxTake
<1>4. TypesM'
    BY Zenon, <1>0, <1>3, SetupKeeps DEF TypesM
<1>5. ASSUME NEW q \in Ranks, q # s, q # 0
      PROVE  Box(0, q)' = Box(0, q) /\ \A t \in Ranks : Box(q, t)' = Box(q, t)
    BY Zenon, <1>2, <1>3, <1>5
<1>6. ASSUME NEW q \in WorkerRanks, q # s PROVE WorkerOK(q)'
    <2>1. q \in Ranks /\ q # 0 /\ WorkerOK(q)
        BY Zenon, <1>2, <1>a DEF IInvM
    <2>2. QED
        BY Zenon, <1>0, <1>5, <1>6, <2>1, WorkerFrame
<1>7. ASSUME NEW q \in Writers, q # s PROVE WriterOK(q)'
    <2>1. q \in Ranks /\ q # 0 /\ WriterOK(q)
        BY Zenon, <1>2, <1>a DEF IInvM
    <2>2. QED
        BY Zenon, <1>0, <1>5, <1>7, <2>1, WriterFrame
<1>8. Box(0, s)' = Box(0, s) /\ \A t \in Ranks \ {0} : Box(s, t)' = Box(s, t)
    BY Zenon, <1>2, <1>3
<1>9. ASSUME s \in WorkerRanks
      PROVE  WorkerOK(s)' /\ rank[s] \in {"barrier", "done"} /\ Box(s, 0)' = <<>> /\ Box(s, 0) # <<>>
    <2>1. WorkerOK(s) /\ Box(s, 0)' = <<>> /\ Box(s, 0) # <<>>
        BY Zenon, <1>3, <1>9, Singles DEF IInvM
    <2>2. rank[s] \in {"barrier", "done"}
        <3>1. Head(<<"READY">>) = "READY" /\ Head(<<"STATISTICS">>) = "STATISTICS" /\ "READY" # "STATISTICS"
            BY Zenon, Singles
        <3>2. QED
            BY Zenon, <1>9, <2>1, <3>1 DEF WorkerOK
    <2>3. /\ \A t \in Writers' : Box(s, t)' \in Seq({"OPEN", "WRITE", "CLOSE"})
          /\ \A t \in WorkerRanks' : Box(s, t)' = <<>>
        BY Zenon, <1>1, <1>2, <1>8, <1>a, <2>1 DEF WorkerOK
    <2>4. WorkerOK(s)'
        BY Zenon, <1>8, <2>1, <2>2, <2>3 DEF WorkerOK
    <2>5. QED
        BY Zenon, <2>1, <2>2, <2>4
<1>10. ASSUME s \in Writers PROVE WriterOK(s)'
    <2>1. WriterOK(s) /\ Box(s, 0) # <<>> /\ s \notin WorkerRanks
        BY Zenon, <1>0, <1>10, RankFacts DEF IInvM, Arrived, Box
    <2>2. Box(s, 0) \in Seq({"STATISTICS"})
        BY Zenon, <2>1 DEF WriterOK
    <2>3. Tail(Box(s, 0)) \in Seq({"STATISTICS"})
        BY <2>1, <2>2
    <2>4. rank[0] \notin {"produce", "workers"}
        BY Zenon, <2>1
    <2>5. \A t \in Ranks' \ {0} : Box(s, t)' = <<>>
        BY Zenon, <1>1, <1>8, <2>1 DEF WriterOK
    <2>6. QED
        BY Zenon, <1>3, <1>8, <2>1, <2>3, <2>4, <2>5 DEF WriterOK
<1>11. Box(0, 0)' = Box(0, 0)
    BY Zenon, <1>2, <1>3
<1>12. ASSUME rank[0] = "workers" PROVE count' = Cardinality(Uncounted')
    <2>1. Uncounted' = Uncounted \ {s} /\ s \in Uncounted
        <3>1. s \in Uncounted /\ s \notin Uncounted'
            BY Zenon, <1>9, <1>12 DEF Uncounted
        <3>2. ASSUME NEW q \in WorkerRanks, q # s PROVE (q \in Uncounted') <=> (q \in Uncounted)
            <4>1. Box(q, 0)' = Box(q, 0)
                BY Zenon, <1>2, <1>a, <1>5, <3>2
            <4>2. QED
                BY Zenon, <1>1, <4>1 DEF Uncounted
        <3>3. Uncounted \subseteq WorkerRanks /\ Uncounted' \subseteq WorkerRanks
            BY Zenon, <1>1 DEF Uncounted
        <3>4. QED
            BY Zenon, <3>1, <3>2, <3>3
    <2>2. IsFiniteSet(Uncounted)
        <3>1. Uncounted \in SUBSET WorkerRanks /\ IsFiniteSet(WorkerRanks)
            BY Zenon, <1>0, WorkersCounted DEF Uncounted
        <3>2. QED
            BY Zenon, <3>1, FS_Subset
    <2>3. Cardinality(Uncounted \ {s}) = Cardinality(Uncounted) - 1
        BY Zenon, <2>1, <2>2, FS_RemoveElement
    <2>4. count = Cardinality(Uncounted) /\ count' = count - 1
        BY Zenon, <1>0, <1>12 DEF ProducerOK
    <2>5. QED
        BY Zenon, <2>1, <2>3, <2>4
<1>13. ProducerOK'
    BY Zenon, <1>0, <1>11, <1>12 DEF ProducerOK
<1>14. QED
    BY Zenon, <1>1, <1>4, <1>6, <1>7, <1>9, <1>10, <1>13 DEF IInvM

\* Every step of the producer: its messages, the ends of the workers, then of the
\* writers.
LEMMA ProducerStep ==
    ASSUME IInvM, MpiProducer, UNCHANGED writer_
    PROVE  IInvM'
<1>0. TypesM /\ ProducerOK
    BY Zenon DEF IInvM
<1>1. ASSUME NEW s \in Ranks, SendMessage(s) PROVE IInvM'
    <2>1. /\ rank[0] = "produce" /\ Arrived(s, 0) /\ box' = Put(Take(box, s, 0), 0, s, "WORK")
          /\ UNCHANGED <<totalRanks_, writers, rank>>
        BY Zenon, <1>1 DEF SendMessage, setup
    <2>2. s \in WorkerRanks /\ Box(s, 0) = <<"READY">>
        BY Zenon, <2>1, HeardFrom
    <2>3. QED
        BY Zenon, <2>1, <2>2, AnswerKeeps
<1>2. ASSUME NEW s \in Ranks, ShutWorker(s) PROVE IInvM'
    <2>1. /\ rank[0] = "workers" /\ Arrived(s, 0) /\ UNCHANGED <<totalRanks_, writers, rank>>
          /\ count' = IF Tag(s, 0) = "STATISTICS" THEN count - 1 ELSE count
          /\ box' = IF Tag(s, 0) = "READY" THEN Put(Take(box, s, 0), 0, s, "SHUTDOWN") ELSE Take(box, s, 0)
        BY Zenon, <1>2 DEF ShutWorker, Left, setup
    <2>2. s # 0 /\ s \in WorkerRanks /\ Box(s, 0) \in {<<"READY">>, <<"STATISTICS">>}
        BY Zenon, <2>1, HeardFrom
    <2>3. Tag(s, 0) = Head(Box(s, 0))
        BY Zenon DEF Tag, Box
    <2>4. CASE Box(s, 0) = <<"READY">>
        <3>1. Tag(s, 0) = "READY" /\ "READY" # "STATISTICS"
            BY Zenon, <2>3, <2>4, Singles
        <3>2. count' = count /\ box' = Put(Take(box, s, 0), 0, s, "SHUTDOWN")
            BY Zenon, <2>1, <3>1
        <3>3. QED
            BY Zenon, <2>1, <2>2, <2>4, <3>2, AnswerKeeps
    <2>5. CASE Box(s, 0) = <<"STATISTICS">>
        <3>1. Tag(s, 0) = "STATISTICS" /\ "READY" # "STATISTICS"
            BY Zenon, <2>3, <2>5, Singles
        <3>2. count' = count - 1 /\ box' = Take(box, s, 0)
            BY Zenon, <2>1, <3>1
        <3>3. QED
            BY Zenon, <2>1, <2>2, <2>5, <3>2, TakeKeeps
    <2>6. QED
        BY Zenon, <2>2, <2>4, <2>5
<1>3. ASSUME NEW s \in Ranks, CollectWriter(s) PROVE IInvM'
    <2>1. /\ rank[0] = "collect" /\ Arrived(s, 0) /\ UNCHANGED <<totalRanks_, writers, rank>>
          /\ box' = Take(box, s, 0)
        BY Zenon, <1>3 DEF CollectWriter, setup
    <2>2. s # 0 /\ s \in Writers
        BY Zenon, <2>1, HeardFrom DEF Stops
    <2>3. s \notin WorkerRanks
        BY Zenon, <1>0, <2>2, RankFacts
    <2>4. QED
        BY Zenon, <2>1, <2>2, <2>3, TakeKeeps
<1>4. CASE AllSent
    <2>1. /\ rank[0] = "produce" /\ rank' = [rank EXCEPT ![0] = "workers"]
          /\ count' = totalRanks_ - writers - 1 /\ UNCHANGED <<totalRanks_, writers, box>>
        BY Zenon, <1>4 DEF AllSent, WorkerCount, RankGoto, setup
    <2>2. Uncounted = WorkerRanks
        BY Zenon, <2>1 DEF IInvM, WorkerOK, Uncounted
    <2>3. count' = Cardinality(Uncounted)
        BY Zenon, <1>0, <2>1, <2>2, WorkersCounted
    <2>4. QED
        BY Zenon, <2>1, <2>3, ProducerMoved DEF Stops
<1>5. CASE WorkersShut
    <2>1. /\ rank[0] = "workers" /\ rank' = [rank EXCEPT ![0] = "writers"]
          /\ count = 0 /\ UNCHANGED <<totalRanks_, writers, count, box>>
        BY Zenon, <1>5 DEF WorkersShut, RankGoto, setup
    <2>2. Uncounted = {}
        <3>1. Uncounted \in SUBSET WorkerRanks /\ IsFiniteSet(WorkerRanks)
            BY Zenon, <1>0, WorkersCounted DEF Uncounted
        <3>2. IsFiniteSet(Uncounted) /\ Cardinality(Uncounted) = 0
            BY Zenon, <1>0, <2>1, <3>1, FS_Subset DEF ProducerOK
        <3>3. QED
            BY Zenon, <3>2, FS_EmptySet
    <2>3. \A r \in WorkerRanks : rank[r] \in {"barrier", "done"} /\ Box(r, 0) = <<>>
        BY Zenon, <2>2 DEF Uncounted
    <2>4. count' \in 0 .. writers
        <3>1. writers \in Nat
            BY <1>0 DEF TypesM
        <3>2. QED
            BY <2>1, <3>1
    <2>5. "writers" \in Stops
        BY Zenon DEF Stops
    <2>6. QED
        BY Zenon, <2>1, <2>3, <2>4, <2>5, ProducerMoved
<1>6. CASE ShutWriter
    <2> DEFINE t == WriterRank(totalRanks_, writers, count)
    <2>1. /\ rank[0] = "writers" /\ count < writers /\ box' = Put(box, 0, t, "SHUTDOWN")
          /\ count' = count + 1 /\ UNCHANGED <<totalRanks_, writers, rank>>
        BY Zenon, <1>6 DEF ShutWriter, setup
    <2>2. writers \in Nat /\ count \in 0 .. writers
        BY <1>0, <2>1 DEF TypesM, ProducerOK
    <2>3. count \in 0 .. writers - 1 /\ writers # 0 /\ count' \in 0 .. writers
        BY <2>1, <2>2
    <2>4. t \in Writers
        BY Zenon, <2>3 DEF Writers, WriterRanks
    <2> HIDE DEF t
    <2>5. QED
        BY Zenon, <2>1, <2>3, <2>4, ShutWriterKeeps
<1>7. CASE WritersShut \/ Collected
    <2>1. /\ rank[0] \in Stops /\ UNCHANGED <<totalRanks_, writers, count, box>>
          /\ \E l \in {"collect", "barrier"} : rank' = [rank EXCEPT ![0] = l]
        BY Zenon, <1>7 DEF WritersShut, Collected, RankGoto, setup, Stops
    <2>2. PICK l \in {"collect", "barrier"} : rank' = [rank EXCEPT ![0] = l]
        BY Zenon, <2>1
    <2>3. \A r \in WorkerRanks : rank[r] \in {"barrier", "done"} /\ Box(r, 0) = <<>>
        BY Zenon, <2>1 DEF IInvM, WorkerOK
    <2>4. l \in Stops /\ l # "workers" /\ l # "writers"
        BY Zenon DEF Stops
    <2>5. QED
        BY Zenon, <2>1, <2>2, <2>3, <2>4, ProducerMoved
<1>8. QED
    BY Zenon, <1>1, <1>2, <1>3, <1>4, <1>5, <1>6, <1>7 DEF MpiProducer

\* Every step of every rank, and the barrier, keeps the inductive invariant.
LEMMA StepIInvM == IInvM /\ [MpiNext]_mpi => IInvM'
<1> SUFFICES ASSUME IInvM, [MpiNext]_mpi PROVE IInvM'
    BY Zenon
<1>0. TypesM
    BY Zenon DEF IInvM
<1>1. CASE MpiProducer /\ UNCHANGED writer_
    BY Zenon, <1>1, ProducerStep
<1>2. ASSUME NEW r \in Ranks, Consumer(r) PROVE IInvM'
    <2>1. r \in WorkerRanks \/ r \in Writers
        BY Zenon, <1>0, <1>2, RankFacts DEF Consumer
    <2>2. QED
        BY Zenon, <1>2, <2>1, WorkerStep, WriterStep
<1>3. CASE Synchronise
    BY Zenon, <1>3, SynchroniseStep
<1>4. CASE UNCHANGED mpi
    <2>1. UNCHANGED <<totalRanks_, writers, count, rank, box, writer_>>
        BY Zenon, <1>4 DEF mpi
    <2>2. Writers' = Writers /\ WorkerRanks' = WorkerRanks /\ TypesM'
        BY Zenon, <1>0, <2>1, SetupKeeps DEF TypesM
    <2>3. \A a, b : Box(a, b)' = Box(a, b)
        BY Zenon, <2>1 DEF Box
    <2>4. ASSUME NEW r \in WorkerRanks PROVE WorkerOK(r)'
        <3>1. WorkerOK(r)
            BY Zenon DEF IInvM
        <3>2. QED
            BY Zenon, <1>0, <2>1, <2>3, <3>1, WorkerFrame
    <2>5. ASSUME NEW r \in Writers PROVE WriterOK(r)'
        <3>1. WriterOK(r)
            BY Zenon DEF IInvM
        <3>2. QED
            BY Zenon, <1>0, <2>1, <2>3, <3>1, WriterFrame
    <2>6. Uncounted' = Uncounted
        BY Zenon, <2>1, <2>2, <2>3 DEF Uncounted
    <2>7. ProducerOK'
        BY Zenon, <2>1, <2>3, <2>6 DEF IInvM, ProducerOK
    <2>8. QED
        BY Zenon, <2>2, <2>4, <2>5, <2>7 DEF IInvM
<1>5. QED
    BY Zenon, <1>1, <1>2, <1>3, <1>4 DEF MpiNext

\* Whatever message comes first, no ASSERT of MPITransport on a rank or on a tag
\* fails, for every number of ranks and of writers that the constructor accepts,
\* and every number of messages.
THEOREM TagsExpectedHolds == MpiSpec => []TagsExpected
<1>1. MpiSpec => []IInvM
    BY PTL, InitIInvM, StepIInvM DEF MpiSpec
<1>2. QED
    BY PTL, <1>1, IInvTagsExpected
=============================================================================
