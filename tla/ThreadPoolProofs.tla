-------------------------- MODULE ThreadPoolProofs --------------------------
(***************************************************************************)
(* CountersExact, WaitIsBarrier and JoinIsClean of ThreadPool, for any     *)
(* number of workers, clients, tasks, lists and calls of the owner.        *)
(*                                                                         *)
(* The argument: a task is at one place (with the thread that pushes it,   *)
(* in the queue once, or with one worker), and its stage says which.  So a *)
(* step that changes a counter moves exactly one task, worker or null in   *)
(* or out of the set that the counter counts.                              *)
(***************************************************************************)
EXTENDS ThreadPool, FiniteSetTheorems, TLAPS

Stages == {"new", "counted", "queued", "taken", "done"}
Busy   == {"run", "report", "delete", "reportDelete", "end"}
Places == {"none", "created", "next", "exit"} \cup Busy

Types ==
    /\ queue_ \in Seq(Tasks \cup {Null})
    /\ count_ \in Int /\ posted \in Int /\ error_ \in BOOLEAN
    /\ wpc \in [Workers -> Places]
    /\ holds \in [Workers -> Tasks \cup {Null}]
    /\ pending \in [Actors -> Tasks \cup {Null}]
    /\ stage \in [Tasks -> Stages]
    /\ listed \subseteq Tasks

\* The thread that pushes a task has it until it is queued.
InHand ==
    /\ \A a \in Actors : pending[a] # Null => stage[pending[a]] = "counted"
    /\ \A a, b \in Actors : pending[a] # Null /\ pending[a] = pending[b] => a = b

\* A task is in the queue once.
InQueue ==
    /\ \A i \in DOMAIN queue_ : queue_[i] # Null => stage[queue_[i]] = "queued"
    /\ \A i, j \in DOMAIN queue_ : queue_[i] # Null /\ queue_[i] = queue_[j] => i = j

\* A worker that is busy has one task, and every task that was taken has its worker.
AtWork ==
    /\ \A w \in Workers : holds[w] # Null <=> wpc[w] \in Busy
    /\ \A w \in Workers : holds[w] # Null => stage[holds[w]] = "taken"
    /\ \A v, w \in Workers : holds[v] # Null /\ holds[v] = holds[w] => v = w
    /\ \A r \in Tasks : stage[r] = "taken" => \E w \in Workers : holds[w] = r

\* A list is queued as a whole.
InList == \A r \in listed : stage[r] \in {"queued", "taken", "done"}

\* A failure is reported, or its worker is about to report it.
Reports ==
    /\ error_ => failed # {}
    /\ \A w \in Workers : wpc[w] \in {"report", "reportDelete"} => failed # {}
    /\ failed # {} => error_ \/ \E w \in Workers : wpc[w] \in {"report", "reportDelete"}

\* The inductive invariant.
IInv == Types /\ InHand /\ InQueue /\ AtWork /\ InList /\ Reports /\ CountersExact

-----------------------------------------------------------------------------
\* What % gives for numbers of less than one turn.
LEMMA OneTurn ==
    ASSUME NEW S \in Nat \ {0}, NEW d \in Int, -S < d, d < S
    PROVE  d % S = IF d >= 0 THEN d ELSE d + S
    OBVIOUS

\* A size_t that counts below zero and back is exact.
LEMMA CountUp ==
    ASSUME NEW S \in Nat \ {0}, NEW d \in Int, -S < d, d + 1 < S
    PROVE  ((d % S) + 1) % S = (d + 1) % S
<1>1. d < S /\ d + 1 \in Int /\ -S < d + 1
    OBVIOUS
<1>2. d % S = IF d >= 0 THEN d ELSE d + S
    BY Zenon, <1>1, OneTurn
<1>3. (d + 1) % S = IF d + 1 >= 0 THEN d + 1 ELSE d + 1 + S
    BY Zenon, <1>1, OneTurn
<1>4. CASE d = -1
    BY <1>2, <1>3, <1>4
<1>5. CASE d # -1
    <2>1. (d % S) + 1 \in Int /\ -S < (d % S) + 1 /\ 0 <= (d % S) + 1 /\ (d % S) + 1 < S
        BY <1>1, <1>2, <1>5
    <2>2. ((d % S) + 1) % S = (d % S) + 1
        BY Zenon, <2>1, OneTurn
    <2>3. QED
        BY <1>2, <1>3, <1>5, <2>2
<1>6. QED
    BY Zenon, <1>4, <1>5

\* ... and the other way round: it counts down to what it should be.
LEMMA CountDown ==
    ASSUME NEW S \in Nat \ {0}, NEW d \in Int, -S < d - 1, d < S
    PROVE  ((d % S) - 1) % S = (d - 1) % S
<1>1. -S < d /\ d - 1 \in Int /\ d - 1 < S
    OBVIOUS
<1>2. d % S = IF d >= 0 THEN d ELSE d + S
    BY Zenon, <1>1, OneTurn
<1>3. (d - 1) % S = IF d - 1 >= 0 THEN d - 1 ELSE d - 1 + S
    BY Zenon, <1>1, OneTurn
<1>4. (d % S) - 1 \in Int /\ -S < (d % S) - 1 /\ (d % S) - 1 < S
    BY <1>1, <1>2
<1>5. ((d % S) - 1) % S = IF (d % S) - 1 >= 0 THEN (d % S) - 1 ELSE (d % S) - 1 + S
    BY Zenon, <1>4, OneTurn
<1>6. QED
    BY <1>2, <1>3, <1>5

\* The nulls of a queue, as it grows at the back and shrinks at the front.
NullsIn(q) == {i \in DOMAIN q : q[i] = Null}

\* The places in the queue that hold a null are finitely many.
LEMMA NullsFinite ==
    ASSUME NEW q \in Seq(Tasks \cup {Null})
    PROVE  IsFiniteSet(NullsIn(q)) /\ Cardinality(NullsIn(q)) \in Nat
<1>1. IsFiniteSet(1 .. Len(q))
    BY FS_Interval
<1>2. NullsIn(q) \in SUBSET (1 .. Len(q))
    BY DEF NullsIn
<1>3. IsFiniteSet(NullsIn(q))
    BY Zenon, <1>1, <1>2, FS_Subset
<1>4. QED
    BY Zenon, <1>3, FS_CardinalityType

\* A null put at the back of the queue is one more null in it, a task none.
LEMMA NullsOfAppend ==
    ASSUME NEW q \in Seq(Tasks \cup {Null}), NEW x \in Tasks \cup {Null}
    PROVE  Cardinality(NullsIn(Append(q, x))) = Cardinality(NullsIn(q)) + (IF x = Null THEN 1 ELSE 0)
<1>1. CASE x = Null
    <2>1. NullsIn(Append(q, x)) = NullsIn(q) \cup {Len(q) + 1}
        BY <1>1 DEF NullsIn
    <2>2. Len(q) + 1 \notin NullsIn(q)
        BY DEF NullsIn
    <2>3. QED
        BY Zenon, <1>1, <2>1, <2>2, NullsFinite, FS_AddElement
<1>2. CASE x # Null
    <2>1. NullsIn(Append(q, x)) = NullsIn(q)
        BY <1>2 DEF NullsIn
    <2>2. QED
        BY <1>2, <2>1, NullsFinite
<1>3. QED
    BY Zenon, <1>1, <1>2

\* What is taken from the front is one null less if it is a null.
LEMMA NullsOfTail ==
    ASSUME NEW q \in Seq(Tasks \cup {Null}), q # << >>
    PROVE  Cardinality(NullsIn(Tail(q))) = Cardinality(NullsIn(q)) - (IF Head(q) = Null THEN 1 ELSE 0)
<1> DEFINE R == NullsIn(q) \ {1}
<1> DEFINE f == [i \in R |-> i - 1]
<1>1. Tail(q) \in Seq(Tasks \cup {Null}) /\ Len(q) \in Nat \ {0} /\ Len(Tail(q)) = Len(q) - 1
    OBVIOUS
<1>2. \A i \in 1 .. Len(q) - 1 : Tail(q)[i] = q[i + 1]
    OBVIOUS
<1>3. IsFiniteSet(R) /\ Cardinality(R) = Cardinality(NullsIn(q)) - (IF Head(q) = Null THEN 1 ELSE 0)
    <2>1. 1 \in NullsIn(q) <=> Head(q) = Null
        BY <1>1 DEF NullsIn
    <2>2. QED
        BY <2>1, NullsFinite, FS_RemoveElement
<1>4. f \in Bijection(R, NullsIn(Tail(q)))
    <2>1. \A i \in R : f[i] \in NullsIn(Tail(q))
        BY <1>1, <1>2 DEF NullsIn
    <2>2. \A i, j \in R : f[i] = f[j] => i = j
        BY DEF NullsIn
    <2>3. ASSUME NEW k \in NullsIn(Tail(q)) PROVE k + 1 \in R /\ f[k + 1] = k
        <3>1. k \in 1 .. Len(q) - 1 /\ q[k + 1] = Null
            BY <1>1, <1>2 DEF NullsIn
        <3>2. k + 1 \in R /\ (k + 1) - 1 = k
            BY <1>1, <3>1 DEF NullsIn
        <3>3. QED
            BY Zenon, <3>2
    <2>4. QED
        BY Zenon, <2>1, <2>2, <2>3 DEF Bijection, Injection, Surjection, IsInjective
<1>5. Cardinality(NullsIn(Tail(q))) = Cardinality(R)
    BY <1>3, <1>4, FS_Bijection DEF ExistsBijection
<1>6. QED
    BY Zenon, <1>3, <1>5

\* A list of tasks, put at the back in one go, brings no null.
LEMMA NullsOfConcat ==
    ASSUME NEW q \in Seq(Tasks \cup {Null}), NEW l \in Seq(Tasks)
    PROVE  NullsIn(q \o l) = NullsIn(q)
<1>1. Len(q \o l) = Len(q) + Len(l) /\ \A i \in 1 .. Len(q) : (q \o l)[i] = q[i]
    OBVIOUS
<1>2. \A i \in Len(q) + 1 .. Len(q) + Len(l) : (q \o l)[i] \in Tasks
    OBVIOUS
<1>3. DOMAIN (q \o l) = 1 .. Len(q) + Len(l) /\ DOMAIN q = 1 .. Len(q)
    OBVIOUS
<1>4. QED
    BY <1>1, <1>2, <1>3, NullAssumption DEF NullsIn
-----------------------------------------------------------------------------
\* The sets that the counters count are finite, and tasks_ is within one turn.
LEMMA Counted ==
    ASSUME IInv
    PROVE  /\ IsFiniteSet(Outstanding) /\ IsFiniteSet(ListsDone)
           /\ IsFiniteSet(Started) /\ IsFiniteSet(Live)
           /\ Cardinality(Outstanding) \in Nat /\ Cardinality(Outstanding) < SizeT
           /\ Cardinality(ListsDone) \in Nat /\ Cardinality(ListsDone) < SizeT
           /\ Cardinality(Started) \in Nat /\ Cardinality(Started) < SizeT
           /\ Cardinality(Live) \in Nat
           /\ Cardinality(Nulls) \in Nat
           /\ SizeT \in Nat \ {0}
<1>1. Outstanding \in SUBSET Tasks /\ ListsDone \in SUBSET Tasks
    BY Zenon DEF IInv, Types, Outstanding, ListsDone
<1>2. Started \in SUBSET Workers /\ Live \in SUBSET Workers
    BY Zenon DEF Started, Live
<1>3. Cardinality(Tasks) \in Nat /\ Cardinality(Workers) \in Nat
    BY Zenon, FiniteAssumption, FS_CardinalityType
<1>4. IsFiniteSet(Outstanding) /\ Cardinality(Outstanding) <= Cardinality(Tasks)
    BY Zenon, <1>1, FiniteAssumption, FS_Subset
<1>5. IsFiniteSet(ListsDone) /\ Cardinality(ListsDone) <= Cardinality(Tasks)
    BY Zenon, <1>1, FiniteAssumption, FS_Subset
<1>6. IsFiniteSet(Started) /\ Cardinality(Started) <= Cardinality(Workers) /\ IsFiniteSet(Live)
    BY Zenon, <1>2, FiniteAssumption, FS_Subset
<1>7. /\ Cardinality(Outstanding) \in Nat /\ Cardinality(ListsDone) \in Nat
      /\ Cardinality(Started) \in Nat /\ Cardinality(Live) \in Nat
    BY Zenon, <1>4, <1>5, <1>6, FS_CardinalityType
<1>8. Cardinality(Nulls) \in Nat
    BY Zenon, NullsFinite DEF IInv, Types, Nulls, NullsIn
<1>9. QED
    BY <1>3, <1>4, <1>5, <1>6, <1>7, <1>8, SizeTAssumption

\* A pool as it is constructed.
LEMMA InitIInv == ASSUME Init PROVE IInv
<1>1. Types
    <2>1. count_ \in Int
        BY FiniteAssumption, FS_Subset, FS_CardinalityType DEF Init
    <2>2. wpc \in [Workers -> Places]
        BY Zenon DEF Init, Places
    <2>3. QED
        <3>1. queue_ \in Seq(Tasks \cup {Null}) /\ posted \in Int /\ error_ \in BOOLEAN /\ listed \subseteq Tasks
            <4>1. queue_ = << >> /\ posted = 0 /\ listed = {}
                BY Zenon DEF Init
            <4>2. error_ \in BOOLEAN
                BY Zenon DEF Init
            <4>3. QED
                BY <4>1, <4>2
        <3>2. holds \in [Workers -> Tasks \cup {Null}] /\ pending \in [Actors -> Tasks \cup {Null}]
            BY Zenon DEF Init, None
        <3>3. stage \in [Tasks -> Stages]
            BY Zenon DEF Init, Stages
        <3>4. QED
            BY Zenon, <2>1, <2>2, <3>1, <3>2, <3>3 DEF Types
<1>2. InHand /\ InQueue /\ AtWork /\ InList /\ Reports
    BY DEF Init, InHand, InQueue, AtWork, InList, Reports, None, Busy
<1>3. Outstanding = {} /\ ListsDone = {} /\ Started = {} /\ Nulls = {}
    BY DEF Init, Outstanding, ListsDone, Started, Nulls
<1>4. Cardinality(Live) = count_ /\ count_ \in Int
    <2>1. PICK W \in SUBSET Workers : /\ count_ = Cardinality(W)
                                      /\ wpc = [w \in Workers |-> IF w \in W THEN "created" ELSE "none"]
        BY Zenon DEF Init
    <2>2. Live = W
        BY Zenon, <2>1 DEF Live
    <2>3. Cardinality(W) \in Nat
        BY Zenon, FiniteAssumption, FS_Subset, FS_CardinalityType
    <2>4. QED
        BY <2>1, <2>2, <2>3
<1>5. CountersExact
    <2>1. Cardinality({}) = 0
        BY Zenon, FS_EmptySet
    <2>2. tasks_ = 0 /\ running_ = 0 /\ posted = 0
        BY Zenon DEF Init
    <2>3. (0 - 0) % SizeT = 0
        BY SizeTAssumption, FiniteAssumption, FS_CardinalityType
    <2>4. QED
        BY Zenon, <1>3, <1>4, <2>1, <2>2, <2>3 DEF CountersExact
<1>6. QED
    BY Zenon, <1>1, <1>2, <1>5 DEF IInv

\* Steps that change no task, worker or counter: waiting, waking and the calls of
\* the owner.
LEMMA QuietIInv ==
    ASSUME IInv,
           UNCHANGED <<queue_, count_, running_, tasks_, error_, wpc, holds, pending, posted, stage,
                       listed, failed>>
    PROVE  IInv'
<1>1. Types' /\ InHand' /\ InQueue' /\ AtWork' /\ InList' /\ Reports'
    BY DEF IInv, Types, InHand, InQueue, AtWork, InList, Reports
<1>2. CountersExact'
    BY Zenon DEF IInv, CountersExact, Outstanding, ListsDone, Started, Live, Nulls
<1>3. QED
    BY Zenon, <1>1, <1>2 DEF IInv

\* push(): startTask() counts the task.
LEMMA StartTaskIInv == ASSUME IInv, NEW a \in Actors, NEW r \in Tasks, StartTask(a, r) PROVE IInv'
<1>a. /\ UNCHANGED <<queue_, count_, running_, error_, wpc, holds, posted, listed, failed>>
      /\ stage[r] = "new" /\ r # Null /\ pending[a] = Null
    BY Zenon, NullAssumption DEF StartTask, MayPush, owner, None
<1>b. \A x \in Tasks : stage'[x] = IF x = r THEN "counted" ELSE stage[x]
    BY Zenon DEF StartTask, IInv, Types
<1>c. \A x \in Actors : pending'[x] = IF x = a THEN r ELSE pending[x]
    BY Zenon DEF StartTask, IInv, Types
<1>Types. Types'
    BY Zenon, <1>a DEF StartTask, IInv, Types, Stages
<1>InHand. InHand'
    BY <1>a, <1>b, <1>c DEF IInv, Types, InHand
<1>InQueue. InQueue'
    BY <1>a, <1>b DEF IInv, Types, InQueue
<1>AtWork. AtWork'
    BY <1>a, <1>b DEF IInv, Types, AtWork
<1>InList. InList'
    BY Zenon, <1>a, <1>b DEF IInv, Types, InList
<1>Reports. Reports'
    BY Zenon, <1>a DEF IInv, Reports
<1>CountersExact. CountersExact'
    <2>1. r \notin listed /\ r \notin Outstanding
        BY Zenon, <1>a DEF IInv, InList, Outstanding
    <2>2. Outstanding' = Outstanding \cup {r} /\ ListsDone' = ListsDone
        BY <1>a, <1>b, <2>1 DEF IInv, Types, Outstanding, ListsDone
    <2>3. Cardinality(Outstanding') = Cardinality(Outstanding) + 1
        BY Zenon, <2>1, <2>2, Counted, FS_AddElement
    <2>4. Cardinality(Outstanding) + 1 < SizeT
        <3>1. Outstanding' \in SUBSET Tasks
            BY Zenon DEF Outstanding
        <3>2. Cardinality(Outstanding') <= Cardinality(Tasks) /\ Cardinality(Tasks) \in Nat
            BY Zenon, <3>1, FiniteAssumption, FS_Subset, FS_CardinalityType
        <3>3. QED
            BY <2>3, <3>2, Counted, SizeTAssumption
    <2>5. tasks_' = (Cardinality(Outstanding') - Cardinality(ListsDone')) % SizeT
        <3> DEFINE d == Cardinality(Outstanding) - Cardinality(ListsDone)
        <3>1. d \in Int /\ -SizeT < d /\ d + 1 < SizeT /\ SizeT \in Nat \ {0}
            BY <2>4, Counted
        <3>2. tasks_' = ((d % SizeT) + 1) % SizeT
            BY Zenon DEF StartTask, IInv, CountersExact
        <3>3. Cardinality(Outstanding') - Cardinality(ListsDone') = d + 1
            BY <2>2, <2>3, Counted
        <3> HIDE DEF d
        <3>4. QED
            BY Zenon, <3>1, <3>2, <3>3, CountUp
    <2>6. UNCHANGED <<running_, Started, Live, Nulls, count_, posted>>
        BY Zenon, <1>a DEF Started, Live, Nulls
    <2>7. QED
        BY Zenon, <2>5, <2>6 DEF IInv, CountersExact
<1>q. QED
    BY Zenon, <1>Types, <1>InHand, <1>InQueue, <1>AtWork, <1>InList, <1>Reports, <1>CountersExact DEF IInv

\* push(): the task goes to the back of the queue.
LEMMA EnqueueIInv == ASSUME IInv, NEW a \in Actors, Enqueue(a) PROVE IInv'
<1> DEFINE r == pending[a]
<1>a. /\ UNCHANGED <<count_, running_, tasks_, error_, wpc, holds, posted, listed, failed>>
      /\ r # Null /\ r \in Tasks /\ stage[r] = "counted" /\ queue_' = Append(queue_, r)
    BY Zenon DEF Enqueue, IInv, Types, InHand, owner, None
<1>b. \A x \in Tasks : stage'[x] = IF x = r THEN "queued" ELSE stage[x]
    BY Zenon DEF Enqueue, IInv, Types
<1>c. \A x \in Actors : pending'[x] = IF x = a THEN Null ELSE pending[x]
    BY Zenon DEF Enqueue, IInv, Types, None
<1>d. /\ queue_ \in Seq(Tasks \cup {Null}) /\ Len(queue_') = Len(queue_) + 1
      /\ \A i \in 1 .. Len(queue_) : queue_'[i] = queue_[i]
      /\ queue_'[Len(queue_) + 1] = r
      /\ DOMAIN queue_' = 1 .. Len(queue_) + 1 /\ DOMAIN queue_ = 1 .. Len(queue_)
      /\ Len(queue_) \in Nat
    BY <1>a DEF IInv, Types
<1>Types. Types'
    BY <1>a DEF Enqueue, IInv, Types, Stages, None
<1>InHand. InHand'
    BY <1>a, <1>b, <1>c DEF IInv, Types, InHand
<1> HIDE DEF r
<1>InQueue. InQueue'
    <2>1. \A i \in 1 .. Len(queue_) : queue_[i] # r
        BY Zenon, <1>a, <1>d DEF IInv, InQueue
    <2>2. \A i \in 1 .. Len(queue_) : queue_[i] # Null => queue_[i] \in Tasks
        BY <1>d
    <2>3. \A i \in DOMAIN queue_' : i \in 1 .. Len(queue_) \/ i = Len(queue_) + 1
        BY <1>d
    <2>4. QED
        BY <1>a, <1>b, <1>d, <2>1, <2>2, <2>3 DEF IInv, InQueue
<1>AtWork. AtWork'
    BY SMTT(60), <1>a, <1>b DEF IInv, Types, AtWork
<1>InList. InList'
    BY Zenon, <1>a, <1>b DEF IInv, Types, InList
<1>Reports. Reports'
    BY Zenon, <1>a DEF IInv, Reports
<1>CountersExact. CountersExact'
    <2>1. Outstanding' = Outstanding /\ ListsDone' = ListsDone
        BY Zenon, <1>a, <1>b DEF IInv, Types, Outstanding, ListsDone
    <2>2. Cardinality(Nulls') = Cardinality(Nulls)
        <3>1. Cardinality(NullsIn(Append(queue_, r))) = Cardinality(NullsIn(queue_)) + 0
            BY Zenon, <1>a, <1>d, NullsOfAppend
        <3>2. Nulls' = NullsIn(Append(queue_, r)) /\ Nulls = NullsIn(queue_)
            BY Zenon, <1>a DEF Nulls, NullsIn
        <3>3. Cardinality(Nulls) \in Nat
            BY Zenon, Counted
        <3>4. QED
            BY <3>1, <3>2, <3>3
    <2>3. UNCHANGED <<Started, Live>>
        BY Zenon, <1>a DEF Started, Live
    <2>4. QED
        BY Zenon, <1>a, <2>1, <2>2, <2>3 DEF IInv, CountersExact
<1>q. QED
    BY Zenon, <1>Types, <1>InHand, <1>InQueue, <1>AtWork, <1>InList, <1>Reports, <1>CountersExact DEF IInv

\* push() of a list: its tasks are new, each once, and counted nowhere.
LEMMA PushListIInv == ASSUME IInv, NEW a \in Actors, NEW l \in Lists, PushList(a, l) PROVE IInv'
<1> DEFINE T == {l[i] : i \in DOMAIN l}
<1>a. /\ UNCHANGED <<count_, running_, tasks_, error_, wpc, holds, pending, posted, failed>>
      /\ listed' = listed \cup T /\ queue_' = queue_ \o l
    BY Zenon DEF PushList, owner
<1>b. /\ l \in Seq(Tasks) /\ T \subseteq Tasks /\ \A x \in T : stage[x] = "new"
      /\ \A i, j \in DOMAIN l : l[i] = l[j] => i = j
    BY ListsAssumption DEF PushList
<1>c. stage' = [x \in Tasks |-> IF x \in T THEN "queued" ELSE stage[x]]
    BY Zenon DEF PushList
<1>d. /\ queue_ \in Seq(Tasks \cup {Null}) /\ Len(queue_') = Len(queue_) + Len(l)
      /\ \A i \in 1 .. Len(queue_) : queue_'[i] = queue_[i]
      /\ \A i \in 1 .. Len(l) : queue_'[Len(queue_) + i] = l[i]
      /\ DOMAIN queue_' = 1 .. Len(queue_) + Len(l) /\ DOMAIN queue_ = 1 .. Len(queue_)
      /\ DOMAIN l = 1 .. Len(l) /\ Len(queue_) \in Nat /\ Len(l) \in Nat
      /\ queue_' \in Seq(Tasks \cup {Null})
    BY <1>a, <1>b DEF IInv, Types
<1> HIDE DEF T
<1>Types. Types'
    BY Zenon, <1>a, <1>b, <1>c, <1>d DEF IInv, Types, Stages
<1>InHand. InHand'
    BY Zenon, <1>a, <1>b, <1>c DEF IInv, Types, InHand
<1>InQueue. InQueue'
    <2>1. \A i \in 1 .. Len(queue_) : queue_[i] \in Tasks \cup {Null} /\ queue_[i] \notin T
        BY <1>b, <1>d, NullAssumption DEF IInv, InQueue
    <2>2. \A i \in 1 .. Len(l) : l[i] \in T
        BY Zenon, <1>d DEF T
    <2>3. \A i \in DOMAIN queue_' :
             i \in 1 .. Len(queue_) \/ \E k \in 1 .. Len(l) : i = Len(queue_) + k
        <3>1. ASSUME NEW i \in DOMAIN queue_', i \notin 1 .. Len(queue_)
              PROVE  i - Len(queue_) \in 1 .. Len(l) /\ i = Len(queue_) + (i - Len(queue_))
            BY <1>d, <3>1
        <3>2. QED
            BY Zenon, <3>1
    <2>4. \A i \in DOMAIN queue_' : queue_'[i] # Null => stage'[queue_'[i]] = "queued"
        BY <1>b, <1>c, <1>d, <2>1, <2>2, <2>3 DEF IInv, InQueue
    <2>5. \A i, j \in DOMAIN queue_' : queue_'[i] # Null /\ queue_'[i] = queue_'[j] => i = j
        <3>1. SUFFICES ASSUME NEW i \in DOMAIN queue_', NEW j \in DOMAIN queue_',
                              queue_'[i] # Null, queue_'[i] = queue_'[j]
                       PROVE  i = j
            BY Zenon
        <3>2. CASE i \in 1 .. Len(queue_) /\ j \in 1 .. Len(queue_)
            BY Zenon, <1>d, <3>1, <3>2 DEF IInv, InQueue
        <3>3. CASE i \in 1 .. Len(queue_) /\ j \notin 1 .. Len(queue_)
            BY <1>d, <2>1, <2>2, <2>3, <3>1, <3>3
        <3>4. CASE i \notin 1 .. Len(queue_) /\ j \in 1 .. Len(queue_)
            BY <1>d, <2>1, <2>2, <2>3, <3>1, <3>4
        <3>5. CASE i \notin 1 .. Len(queue_) /\ j \notin 1 .. Len(queue_)
            <4>1. PICK k \in 1 .. Len(l) : i = Len(queue_) + k
                BY Zenon, <2>3, <3>5
            <4>2. PICK m \in 1 .. Len(l) : j = Len(queue_) + m
                BY Zenon, <2>3, <3>5
            <4>3. l[k] = l[m]
                BY Zenon, <1>d, <3>1, <4>1, <4>2
            <4>4. QED
                BY Zenon, <1>b, <1>d, <4>1, <4>2, <4>3
        <3>6. QED
            BY Zenon, <3>2, <3>3, <3>4, <3>5
    <2>6. QED
        BY Zenon, <2>4, <2>5 DEF InQueue
<1>AtWork. AtWork'
    BY <1>a, <1>b, <1>c DEF IInv, Types, AtWork
<1>InList. InList'
    BY Zenon, <1>a, <1>b, <1>c DEF IInv, Types, InList
<1>Reports. Reports'
    BY Zenon, <1>a DEF IInv, Reports
<1>CountersExact. CountersExact'
    <2>1. Outstanding' = Outstanding /\ ListsDone' = ListsDone
        BY Zenon, <1>a, <1>b, <1>c DEF IInv, Types, Outstanding, ListsDone
    <2>2. Nulls' = Nulls
        BY ZenonT(60), <1>a, <1>b, <1>d, NullsOfConcat DEF Nulls, NullsIn
    <2>3. UNCHANGED <<Started, Live>>
        BY Zenon, <1>a DEF Started, Live
    <2>4. QED
        BY Zenon, <1>a, <2>1, <2>2, <2>3 DEF IInv, CountersExact
<1>q. QED
    BY Zenon, <1>Types, <1>InHand, <1>InQueue, <1>AtWork, <1>InList, <1>Reports, <1>CountersExact DEF IInv
\* notifyStart() counts the worker in running_.
LEMMA NotifyStartIInv == ASSUME IInv, NEW w \in Workers, NotifyStart(w) PROVE IInv'
<1>a. /\ UNCHANGED <<queue_, count_, tasks_, error_, holds, pending, posted, stage, listed, failed>>
      /\ wpc[w] = "created" /\ running_' = (running_ + 1) % SizeT
    BY Zenon DEF NotifyStart
<1>b. \A v \in Workers : wpc'[v] = IF v = w THEN "next" ELSE wpc[v]
    BY Zenon DEF NotifyStart, Goto, IInv, Types
<1>Types. Types'
    BY Zenon, <1>a DEF NotifyStart, Goto, IInv, Types, Places
<1>InHand. InHand'
    BY Zenon, <1>a DEF IInv, InHand
<1>InQueue. InQueue'
    BY Zenon, <1>a DEF IInv, InQueue
<1>AtWork. AtWork'
    BY Zenon, <1>a, <1>b DEF IInv, AtWork, Busy
<1>InList. InList'
    BY Zenon, <1>a DEF IInv, InList
<1>Reports. Reports'
    BY Zenon, <1>a, <1>b DEF IInv, Reports
<1>CountersExact. CountersExact'
    <2>1. Started' = Started \cup {w} /\ w \notin Started /\ Live' = Live
        BY Zenon, <1>a, <1>b DEF Started, Live
    <2>2. Cardinality(Started') = Cardinality(Started) + 1
        BY Zenon, <2>1, Counted, FS_AddElement
    <2>3. Cardinality(Started') < SizeT
        <3>1. Started' \in SUBSET Workers
            BY Zenon DEF Started
        <3>2. Cardinality(Started') <= Cardinality(Workers) /\ Cardinality(Workers) \in Nat
            BY Zenon, <3>1, FiniteAssumption, FS_Subset, FS_CardinalityType
        <3>3. QED
            BY <2>2, <3>2, Counted, SizeTAssumption
    <2>4. running_' = Cardinality(Started')
        <3>1. running_ = Cardinality(Started)
            BY Zenon DEF IInv, CountersExact
        <3>2. Cardinality(Started) + 1 \in Int /\ -SizeT < Cardinality(Started) + 1
              /\ Cardinality(Started) + 1 < SizeT /\ Cardinality(Started) + 1 >= 0
            BY <2>2, <2>3, Counted
        <3>3. (Cardinality(Started) + 1) % SizeT = Cardinality(Started) + 1
            BY Zenon, <3>2, Counted, OneTurn
        <3>4. QED
            BY Zenon, <1>a, <2>2, <3>1, <3>3
    <2>5. UNCHANGED <<Outstanding, ListsDone, Nulls>>
        BY Zenon, <1>a DEF Outstanding, ListsDone, Nulls
    <2>6. QED
        BY Zenon, <1>a, <2>1, <2>4, <2>5 DEF IInv, CountersExact
<1>q. QED
    BY Zenon, <1>Types, <1>InHand, <1>InQueue, <1>AtWork, <1>InList, <1>Reports, <1>CountersExact DEF IInv

\* notifyEnd() takes it out again.
LEMMA NotifyEndIInv == ASSUME IInv, NEW w \in Workers, NotifyEnd(w) PROVE IInv'
<1>a. /\ UNCHANGED <<queue_, count_, tasks_, error_, holds, pending, posted, stage, listed, failed>>
      /\ wpc[w] = "exit" /\ running_' = (running_ - 1) % SizeT
    BY Zenon DEF NotifyEnd
<1>b. \A v \in Workers : wpc'[v] = IF v = w THEN "none" ELSE wpc[v]
    BY Zenon DEF NotifyEnd, Goto, IInv, Types
<1>Types. Types'
    BY Zenon, <1>a DEF NotifyEnd, Goto, IInv, Types, Places
<1>InHand. InHand'
    BY Zenon, <1>a DEF IInv, InHand
<1>InQueue. InQueue'
    BY Zenon, <1>a DEF IInv, InQueue
<1>AtWork. AtWork'
    BY <1>a, <1>b DEF IInv, AtWork, Busy
<1>InList. InList'
    BY Zenon, <1>a DEF IInv, InList
<1>Reports. Reports'
    BY Zenon, <1>a, <1>b DEF IInv, Reports
<1>CountersExact. CountersExact'
    <2>1. Started' = Started \ {w} /\ w \in Started /\ Live' = Live
        BY Zenon, <1>a, <1>b DEF Started, Live
    <2>2. Cardinality(Started') = Cardinality(Started) - 1 /\ Cardinality(Started') \in Nat
        BY Zenon, <2>1, Counted, FS_RemoveElement, FS_CardinalityType
    <2>3. running_' = Cardinality(Started')
        <3>1. running_ = Cardinality(Started)
            BY Zenon DEF IInv, CountersExact
        <3>2. Cardinality(Started) - 1 \in Int /\ -SizeT < Cardinality(Started) - 1
              /\ Cardinality(Started) - 1 < SizeT /\ Cardinality(Started) - 1 >= 0
            BY <2>2, Counted
        <3>3. (Cardinality(Started) - 1) % SizeT = Cardinality(Started) - 1
            BY Zenon, <3>2, Counted, OneTurn
        <3>4. QED
            BY Zenon, <1>a, <2>2, <3>1, <3>3
    <2>4. UNCHANGED <<Outstanding, ListsDone, Nulls>>
        BY Zenon, <1>a DEF Outstanding, ListsDone, Nulls
    <2>5. QED
        BY Zenon, <1>a, <2>1, <2>3, <2>4 DEF IInv, CountersExact
<1>q. QED
    BY Zenon, <1>Types, <1>InHand, <1>InQueue, <1>AtWork, <1>InList, <1>Reports, <1>CountersExact DEF IInv

\* next() takes a task, or the null that ends the worker.
LEMMA TakeIInv == ASSUME IInv, NEW w \in Workers, Take(w) PROVE IInv'
<1> DEFINE r == Head(queue_)
<1>a. /\ UNCHANGED <<count_, running_, tasks_, error_, pending, posted, listed, failed>>
      /\ wpc[w] = "next" /\ holds[w] = Null /\ queue_' = Tail(queue_) /\ queue_ # << >>
    BY Zenon DEF Take, owner, IInv, AtWork, Busy
<1>b. /\ queue_ \in Seq(Tasks \cup {Null}) /\ Len(queue_) \in Nat \ {0}
      /\ Len(queue_') = Len(queue_) - 1 /\ DOMAIN queue_ = 1 .. Len(queue_)
      /\ DOMAIN queue_' = 1 .. Len(queue_) - 1 /\ queue_' \in Seq(Tasks \cup {Null})
      /\ \A i \in 1 .. Len(queue_) - 1 : queue_'[i] = queue_[i + 1]
      /\ r = queue_[1] /\ r \in Tasks \cup {Null}
    BY <1>a DEF IInv, Types
<1>c. Cardinality(Nulls') = Cardinality(Nulls) - (IF r = Null THEN 1 ELSE 0)
    BY Zenon, <1>a, <1>b, NullsOfTail DEF Nulls, NullsIn
<1>d. Started' = Started
    BY Zenon DEF Take, Goto, Started, IInv, Types
<1>1. CASE r = Null
    <2>a. UNCHANGED <<holds, stage>>
        BY Zenon, <1>1 DEF Take
    <2>b. \A v \in Workers : wpc'[v] = IF v = w THEN "exit" ELSE wpc[v]
        BY Zenon, <1>1 DEF Take, Goto, IInv, Types
    <2>Types. Types'
        BY Zenon, <1>1, <1>a, <1>b DEF Take, Goto, IInv, Types, Places
    <2>InQueue. InQueue'
        BY SMTT(60), <1>a, <1>b, <2>a DEF IInv, InQueue
    <2>AtWork. AtWork'
        BY Zenon, <1>a, <2>a, <2>b DEF IInv, AtWork, Busy
    <2>Reports. Reports'
        BY Zenon, <1>a, <2>b DEF IInv, Reports
    <2>others. InHand' /\ InList'
        BY Zenon, <1>a, <2>a DEF IInv, InHand, InList
    <2>CountersExact. CountersExact'
        <3>1. Live' = Live \ {w} /\ w \in Live
            BY Zenon, <1>a, <2>b DEF Live
        <3>2. Cardinality(Live') = Cardinality(Live) - 1
            BY Zenon, <3>1, Counted, FS_RemoveElement
        <3>3. UNCHANGED <<Outstanding, ListsDone>>
            BY Zenon, <1>a, <2>a DEF Outstanding, ListsDone
        <3>4. Cardinality(Live') - Cardinality(Nulls') = count_' - posted'
            BY SMTT(60), <1>1, <1>a, <1>c, <3>2, Counted DEF IInv, CountersExact
        <3>5. QED
            BY Zenon, <1>a, <1>d, <3>3, <3>4 DEF IInv, CountersExact
    <2>q. QED
        BY Zenon, <2>Types, <2>InQueue, <2>AtWork, <2>Reports, <2>others, <2>CountersExact DEF IInv
<1>2. CASE r # Null
    <2>a. r \in Tasks /\ stage[r] = "queued"
        BY <1>2, <1>b DEF IInv, InQueue
    <2>b. \A v \in Workers : /\ wpc'[v] = IF v = w THEN "run" ELSE wpc[v]
                             /\ holds'[v] = IF v = w THEN r ELSE holds[v]
        BY Zenon, <1>2 DEF Take, Goto, IInv, Types
    <2>c. \A x \in Tasks : stage'[x] = IF x = r THEN "taken" ELSE stage[x]
        BY Zenon, <1>2 DEF Take, IInv, Types
    <2>t. /\ wpc' = [wpc EXCEPT ![w] = "run"] /\ holds' = [holds EXCEPT ![w] = r]
          /\ stage' = [stage EXCEPT ![r] = "taken"]
        BY Zenon, <1>2 DEF Take, Goto
    <2>d. wpc' \in [Workers -> Places]
        <3>1. wpc \in [Workers -> Places]
            BY Zenon DEF IInv, Types
        <3>2. "run" \in Places
            BY Zenon DEF Places, Busy
        <3>3. QED
            BY Zenon, <2>t, <3>1, <3>2
    <2>e. holds' \in [Workers -> Tasks \cup {Null}]
        BY Zenon, <2>t, <2>a DEF IInv, Types
    <2>f. stage' \in [Tasks -> Stages]
        BY Zenon, <2>t, <2>a DEF IInv, Types, Stages
    <2>Types. Types'
        BY Zenon, <1>a, <1>b, <2>d, <2>e, <2>f DEF IInv, Types
    <2>InHand. InHand'
        BY Zenon, <1>a, <2>a, <2>c DEF IInv, Types, InHand
    <2>InQueue. InQueue'
        <3>1. \A i \in 1 .. Len(queue_) - 1 : queue_[i + 1] # r
            BY <1>2, <1>b DEF IInv, InQueue
        <3>2. \A i \in 1 .. Len(queue_) - 1 : queue_[i + 1] \in Tasks \cup {Null}
            BY <1>b
        <3>3. QED
            <4>1. \A i \in DOMAIN queue_' : queue_'[i] # Null => stage'[queue_'[i]] = "queued"
                <5>1. SUFFICES ASSUME NEW i \in 1 .. Len(queue_) - 1, queue_[i + 1] # Null
                               PROVE  stage'[queue_[i + 1]] = "queued"
                    BY Zenon, <1>b
                <5>2. i + 1 \in DOMAIN queue_
                    BY <1>b
                <5>3. stage[queue_[i + 1]] = "queued"
                    BY Zenon, <5>1, <5>2 DEF IInv, InQueue
                <5>4. QED
                    BY Zenon, <2>c, <3>1, <3>2, <5>1, <5>3
            <4>2. \A i, j \in DOMAIN queue_' : queue_'[i] # Null /\ queue_'[i] = queue_'[j] => i = j
                <5>1. SUFFICES ASSUME NEW i \in 1 .. Len(queue_) - 1, NEW j \in 1 .. Len(queue_) - 1,
                                      queue_[i + 1] # Null, queue_[i + 1] = queue_[j + 1]
                               PROVE  i = j
                    BY Zenon, <1>b
                <5>2. i + 1 \in DOMAIN queue_ /\ j + 1 \in DOMAIN queue_
                    BY <1>b
                <5>3. i + 1 = j + 1
                    BY Zenon, <5>1, <5>2 DEF IInv, InQueue
                <5>4. QED
                    BY <5>3
            <4>3. QED
                BY Zenon, <4>1, <4>2 DEF InQueue
    <2>AtWork. AtWork'
        <3>1. \A v \in Workers : holds[v] # r
            BY Zenon, <1>2, <2>a DEF IInv, AtWork
        <3>2. \A v \in Workers : holds[v] # Null => holds[v] \in Tasks
            BY Zenon DEF IInv, Types
        <3>3. \A x \in Tasks : stage[x] = "taken" => \E v \in Workers : v # w /\ holds[v] = x
            BY Zenon, <1>a, NullAssumption DEF IInv, AtWork
        <3>4. QED
            BY SMTT(60), <1>2, <1>a, <2>a, <2>b, <2>c, <3>1, <3>2, <3>3 DEF IInv, AtWork, Busy
    <2>InList. InList'
        BY Zenon, <1>a, <2>a, <2>c DEF IInv, Types, InList
    <2>Reports. Reports'
        BY Zenon, <1>a, <2>b DEF IInv, Reports
    <2>CountersExact. CountersExact'
        <3>1. Live' = Live
            BY Zenon, <1>a, <2>b DEF Live
        <3>2. UNCHANGED <<Outstanding, ListsDone>>
            BY Zenon, <1>a, <2>a, <2>c DEF IInv, Types, Outstanding, ListsDone
        <3>3. Cardinality(Nulls') = Cardinality(Nulls)
            BY <1>2, <1>c, Counted
        <3>4. QED
            BY Zenon, <1>a, <1>d, <3>1, <3>2, <3>3 DEF IInv, CountersExact
    <2>q. QED
        BY Zenon, <2>Types, <2>InHand, <2>InQueue, <2>AtWork, <2>InList, <2>Reports, <2>CountersExact DEF IInv
<1>3. QED
    BY Zenon, <1>1, <1>2
\* execute(), delete and the two handlers: the worker stays busy with its task.
LEMMA BusyIInv ==
    ASSUME IInv, NEW w \in Workers, wpc[w] \in Busy, wpc'[w] \in Busy,
           wpc' \in [Workers -> Places], \A v \in Workers \ {w} : wpc'[v] = wpc[v],
           error_' \in BOOLEAN, Reports',
           UNCHANGED <<queue_, count_, running_, tasks_, holds, pending, posted, stage, listed>>
    PROVE  IInv'
<1>Types. Types'
    BY Zenon DEF IInv, Types
<1>InHand. InHand'
    BY Zenon DEF IInv, InHand
<1>InQueue. InQueue'
    BY Zenon DEF IInv, InQueue
<1>AtWork. AtWork'
    BY Zenon DEF IInv, AtWork
<1>InList. InList'
    BY Zenon DEF IInv, InList
<1>CountersExact. CountersExact'
    <2>1. Started' = Started /\ Live' = Live
        BY Zenon DEF Started, Live, Busy
    <2>2. UNCHANGED <<Outstanding, ListsDone, Nulls>>
        BY Zenon DEF Outstanding, ListsDone, Nulls
    <2>3. QED
        BY Zenon, <2>1, <2>2 DEF IInv, CountersExact
<1>q. QED
    BY Zenon, <1>Types, <1>InHand, <1>InQueue, <1>AtWork, <1>InList, <1>CountersExact DEF IInv

\* The same, step by step: execute(), delete, and error() for a task that throws.
LEMMA RunIInv == ASSUME IInv, NEW w \in Workers, Execute(w) \/ Delete(w) \/ Error(w) PROVE IInv'
<1>1. CASE Execute(w) \/ Delete(w)
    <2>1. /\ UNCHANGED <<queue_, count_, running_, tasks_, error_, holds, pending, posted, stage, listed>>
          /\ wpc[w] \in {"run", "delete"}
          /\ \/ wpc' = [wpc EXCEPT ![w] = "delete"] /\ failed' = failed
             \/ wpc' = [wpc EXCEPT ![w] = "end"] /\ failed' = failed
             \/ wpc' = [wpc EXCEPT ![w] = "report"] /\ failed' = failed \cup {holds[w]}
             \/ wpc' = [wpc EXCEPT ![w] = "reportDelete"] /\ failed' = failed \cup {holds[w]}
        BY Zenon, <1>1 DEF Execute, Delete, Goto, pool, owner
    <2>2. wpc' \in [Workers -> Places] /\ wpc'[w] \in Busy /\ \A v \in Workers \ {w} : wpc'[v] = wpc[v]
        BY Zenon, <2>1 DEF IInv, Types, Places, Busy
    <2>3. Reports'
        <3>1. CASE failed' = failed /\ wpc'[w] \notin {"report", "reportDelete"}
            BY Zenon, <2>1, <2>2, <3>1 DEF IInv, Reports
        <3>2. CASE failed' = failed \cup {holds[w]} /\ wpc'[w] \in {"report", "reportDelete"}
            BY Zenon, <2>1, <2>2, <3>2 DEF IInv, Reports
        <3>3. QED
            BY Zenon, <2>1, <3>1, <3>2 DEF IInv, Types
    <2>4. QED
        BY Zenon, <2>1, <2>2, <2>3, BusyIInv DEF IInv, Types, Busy
<1>2. CASE Error(w)
    <2>1. /\ UNCHANGED <<queue_, count_, running_, tasks_, holds, pending, posted, stage, listed, failed>>
          /\ wpc[w] \in {"report", "reportDelete"} /\ error_' = TRUE
          /\ wpc' = [wpc EXCEPT ![w] = IF wpc[w] = "report" THEN "delete" ELSE "end"]
        BY Zenon, <1>2 DEF Error, Goto, owner
    <2>2. wpc' \in [Workers -> Places] /\ wpc'[w] \in Busy /\ \A v \in Workers \ {w} : wpc'[v] = wpc[v]
        BY Zenon, <2>1 DEF IInv, Types, Places, Busy
    <2>3. failed # {}
        BY Zenon, <2>1 DEF IInv, Reports
    <2>4. Reports'
        BY Zenon, <2>1, <2>3 DEF Reports
    <2>5. QED
        BY Zenon, <2>1, <2>2, <2>4, BusyIInv DEF Busy
<1>3. QED
    BY Zenon, <1>1, <1>2

\* endTask(): the task, whether it was counted or came in a list, is done.
LEMMA EndTaskIInv == ASSUME IInv, NEW w \in Workers, EndTask(w) PROVE IInv'
<1> DEFINE r == holds[w]
<1>a. /\ UNCHANGED <<queue_, count_, running_, error_, pending, posted, listed, failed>>
      /\ wpc[w] = "end" /\ r # Null /\ r \in Tasks /\ stage[r] = "taken"
    BY DEF EndTask, owner, IInv, Types, AtWork, Busy
<1>b. \A v \in Workers : /\ wpc'[v] = IF v = w THEN "next" ELSE wpc[v]
                         /\ holds'[v] = IF v = w THEN Null ELSE holds[v]
    BY Zenon DEF EndTask, Goto, IInv, Types, None
<1>c. \A x \in Tasks : stage'[x] = IF x = r THEN "done" ELSE stage[x]
    BY Zenon DEF EndTask, IInv, Types
<1>Types. Types'
    BY Zenon, <1>a DEF EndTask, Goto, IInv, Types, Places, Stages, None
<1> HIDE DEF r
<1>InHand. InHand'
    BY Zenon, <1>a, <1>c DEF IInv, Types, InHand
<1>InQueue. InQueue'
    <2>1. \A i \in DOMAIN queue_ : queue_[i] # Null => queue_[i] \in Tasks
        BY SMTT(60) DEF IInv, Types
    <2>2. QED
        BY Zenon, <1>a, <1>c, <2>1 DEF IInv, InQueue
<1>AtWork. AtWork'
    <2>1. \A v \in Workers \ {w} : holds[v] # r
        BY Zenon, <1>a DEF IInv, AtWork, r
    <2>2. \A v \in Workers : holds[v] # Null => holds[v] \in Tasks
        BY Zenon DEF IInv, Types
    <2>3. \A x \in Tasks \ {r} : stage[x] = "taken" => \E v \in Workers \ {w} : holds[v] = x
        BY Zenon DEF IInv, AtWork, r
    <2>4. QED
        BY <1>a, <1>b, <1>c, <2>1, <2>2, <2>3 DEF IInv, AtWork, Busy
<1>InList. InList'
    BY Zenon, <1>a, <1>c DEF IInv, Types, InList
<1>Reports. Reports'
    BY Zenon, <1>a, <1>b DEF IInv, Reports
<1>CountersExact. CountersExact'
    <2>1. /\ r \in listed => /\ Outstanding' = Outstanding
                             /\ ListsDone' = ListsDone \cup {r} /\ r \notin ListsDone
          /\ r \notin listed => /\ Outstanding' = Outstanding \ {r} /\ r \in Outstanding
                                /\ ListsDone' = ListsDone
        BY Zenon, <1>a, <1>c DEF IInv, Types, Outstanding, ListsDone
    <2>2. /\ Cardinality(Outstanding') \in Nat /\ Cardinality(ListsDone') \in Nat
          /\ Cardinality(Outstanding') - Cardinality(ListsDone')
                = Cardinality(Outstanding) - Cardinality(ListsDone) - 1
        BY SMTT(60), <2>1, Counted, FS_AddElement, FS_RemoveElement, FS_CardinalityType
    <2>3. Cardinality(ListsDone') < SizeT
        <3>1. ListsDone' \in SUBSET Tasks
            BY Zenon, <1>Types DEF ListsDone, Types
        <3>2. Cardinality(ListsDone') <= Cardinality(Tasks) /\ Cardinality(Tasks) \in Nat
            BY Zenon, <3>1, FiniteAssumption, FS_Subset, FS_CardinalityType
        <3>3. QED
            BY <2>2, <3>2, SizeTAssumption
    <2>4. tasks_' = (Cardinality(Outstanding') - Cardinality(ListsDone')) % SizeT
        <3> DEFINE d == Cardinality(Outstanding) - Cardinality(ListsDone)
        <3>1. d \in Int /\ -SizeT < d - 1 /\ d < SizeT /\ SizeT \in Nat \ {0}
            BY <2>2, <2>3, Counted
        <3>2. tasks_' = ((d % SizeT) - 1) % SizeT
            BY Zenon DEF EndTask, IInv, CountersExact
        <3>3. Cardinality(Outstanding') - Cardinality(ListsDone') = d - 1
            BY Zenon, <2>2
        <3> HIDE DEF d
        <3>4. QED
            BY Zenon, <3>1, <3>2, <3>3, CountDown
    <2>5. UNCHANGED <<Started, Live, Nulls>>
        BY Zenon, <1>a, <1>b DEF Started, Live, Nulls
    <2>6. QED
        BY Zenon, <1>a, <2>4, <2>5 DEF IInv, CountersExact
<1>q. QED
    BY Zenon, <1>Types, <1>InHand, <1>InQueue, <1>AtWork, <1>InList, <1>Reports, <1>CountersExact DEF IInv

\* The owner pushes a null: resize() makes count_ smaller by it, waitForThreads()
\* leaves count_ as it is.
LEMMA PostNullIInv ==
    ASSUME IInv, PostNull,
           (count_' = count_ - 1 /\ posted' = posted) \/ (count_' = count_ /\ posted' = posted + 1),
           UNCHANGED <<running_, tasks_, error_, wpc, holds, pending, stage, listed, failed>>
    PROVE  IInv'
<1>a. /\ queue_ \in Seq(Tasks \cup {Null}) /\ queue_' = Append(queue_, Null)
      /\ Len(queue_') = Len(queue_) + 1 /\ DOMAIN queue_ = 1 .. Len(queue_) /\ Len(queue_) \in Nat
      /\ DOMAIN queue_' = 1 .. Len(queue_) + 1
      /\ \A i \in 1 .. Len(queue_) : queue_'[i] = queue_[i]
      /\ queue_'[Len(queue_) + 1] = Null
    <2>1. queue_ \in Seq(Tasks \cup {Null}) /\ queue_' = Append(queue_, Null)
        BY Zenon DEF PostNull, IInv, Types
    <2>2. QED
        BY <2>1
<1>Types. Types'
    BY SMTT(60), <1>a DEF IInv, Types
<1>InHand. InHand'
    BY Zenon DEF IInv, InHand
<1>InQueue. InQueue'
    <2>1. \A i \in DOMAIN queue_' : queue_'[i] # Null => i \in 1 .. Len(queue_)
        BY <1>a
    <2>2. QED
        BY <1>a, <2>1 DEF IInv, InQueue
<1>AtWork. AtWork'
    BY Zenon DEF IInv, AtWork
<1>InList. InList'
    BY Zenon DEF IInv, InList
<1>Reports. Reports'
    BY Zenon DEF IInv, Reports
<1>CountersExact. CountersExact'
    <2>1. Cardinality(Nulls') = Cardinality(Nulls) + 1
        BY Zenon, <1>a, NullsOfAppend DEF Nulls, NullsIn
    <2>2. UNCHANGED <<Outstanding, ListsDone, Started, Live>>
        BY Zenon DEF Outstanding, ListsDone, Started, Live
    <2>3. Cardinality(Live') - Cardinality(Nulls') = count_' - posted'
        <3>1. /\ Cardinality(Live) - Cardinality(Nulls) = count_ - posted
              /\ count_ \in Int /\ posted \in Int
            BY Zenon DEF IInv, Types, CountersExact
        <3>2. Cardinality(Live) \in Nat /\ Cardinality(Nulls) \in Nat
            BY Zenon, Counted
        <3>3. Cardinality(Live') = Cardinality(Live)
            BY Zenon, <2>2
        <3>4. Cardinality(Live) - (Cardinality(Nulls) + 1) = count_' - posted'
            BY <3>1, <3>2
        <3>5. QED
            BY Zenon, <2>1, <3>3, <3>4
    <2>4. QED
        BY Zenon, <2>2, <2>3 DEF IInv, CountersExact
<1>q. QED
    BY Zenon, <1>Types, <1>InHand, <1>InQueue, <1>AtWork, <1>InList, <1>Reports, <1>CountersExact DEF IInv

\* resize() starts a worker.
LEMMA GrowIInv == ASSUME IInv, Grow PROVE IInv'
<1>a. /\ UNCHANGED <<queue_, running_, tasks_, error_, holds, pending, posted, stage, listed, failed>>
      /\ count_' = count_ + 1
    BY Zenon DEF Grow, owner
<1>w. PICK w \in Workers : wpc[w] = "none" /\ wpc' = [wpc EXCEPT ![w] = "created"]
    BY Zenon DEF Grow, Goto
<1>b. \A v \in Workers : wpc'[v] = IF v = w THEN "created" ELSE wpc[v]
    BY Zenon, <1>w DEF IInv, Types
<1>Types. Types'
    BY <1>a, <1>w DEF IInv, Types, Places
<1>InHand. InHand'
    BY Zenon, <1>a DEF IInv, InHand
<1>InQueue. InQueue'
    BY Zenon, <1>a DEF IInv, InQueue
<1>AtWork. AtWork'
    BY <1>a, <1>b, <1>w DEF IInv, AtWork, Busy
<1>InList. InList'
    BY Zenon, <1>a DEF IInv, InList
<1>Reports. Reports'
    BY <1>a, <1>b, <1>w DEF IInv, Reports
<1>CountersExact. CountersExact'
    <2>1. Live' = Live \cup {w} /\ w \notin Live /\ Started' = Started
        BY <1>b, <1>w DEF Live, Started
    <2>2. Cardinality(Live') = Cardinality(Live) + 1
        BY Zenon, <2>1, Counted, FS_AddElement
    <2>3. UNCHANGED <<Outstanding, ListsDone, Nulls>>
        BY Zenon, <1>a DEF Outstanding, ListsDone, Nulls
    <2>4. Cardinality(Live') - Cardinality(Nulls') = count_' - posted'
        <3>1. /\ Cardinality(Live) - Cardinality(Nulls) = count_ - posted
              /\ count_ \in Int /\ posted \in Int
            BY Zenon DEF IInv, Types, CountersExact
        <3>2. Cardinality(Live) \in Nat /\ Cardinality(Nulls) \in Nat
            BY Zenon, Counted
        <3>3. QED
            BY <1>a, <2>2, <2>3, <3>1, <3>2
    <2>5. QED
        BY Zenon, <1>a, <2>1, <2>3, <2>4 DEF IInv, CountersExact
<1>q. QED
    BY Zenon, <1>Types, <1>InHand, <1>InQueue, <1>AtWork, <1>InList, <1>Reports, <1>CountersExact DEF IInv

\* A worker that has not ended is in running_.
LEMMA NoneRuns == ASSUME IInv, running_ = 0 PROVE \A w \in Workers : wpc[w] \in {"none", "created"}
<1>1. Started = {}
    BY Zenon, Counted, FS_EmptySet DEF IInv, CountersExact
<1>2. QED
    BY Zenon, <1>1 DEF Started

\* waitForThreads() returns and forgets the failures it has reported.
LEMMA JoinReturnIInv == ASSUME IInv, JoinReturn PROVE IInv'
<1>a. /\ UNCHANGED <<queue_, count_, running_, tasks_, wpc, holds, pending, posted, stage, listed>>
      /\ running_ = 0 /\ error_' = FALSE /\ failed' = IF error_ THEN {} ELSE failed
    BY Zenon DEF JoinReturn
<1>1. InHand' /\ InQueue' /\ AtWork' /\ InList'
    BY ZenonT(60), <1>a DEF IInv, InHand, InQueue, AtWork, InList
<1>t. Types'
    BY Zenon, <1>a DEF IInv, Types
<1>2. Reports'
    <2>1. \A w \in Workers : wpc[w] \notin {"report", "reportDelete"}
        BY Zenon, <1>a, NoneRuns
    <2>2. failed' = {}
        BY Zenon, <1>a, <2>1 DEF IInv, Reports
    <2>3. QED
        BY Zenon, <1>a, <2>1, <2>2 DEF Reports
<1>3. CountersExact'
    BY Zenon, <1>a DEF IInv, CountersExact, Outstanding, ListsDone, Started, Live, Nulls
<1>4. QED
    BY Zenon, <1>t, <1>1, <1>2, <1>3 DEF IInv

\* Every step keeps the inductive invariant.
LEMMA StepIInv == ASSUME IInv, [Next]_vars PROVE IInv'
<1>1. ASSUME NEW a \in Actors, NEW r \in Tasks, StartTask(a, r) PROVE IInv'
    BY Zenon, <1>1, StartTaskIInv
<1>2. ASSUME NEW a \in Actors, NEW l \in Lists, PushList(a, l) PROVE IInv'
    BY Zenon, <1>2, PushListIInv
<1>3. ASSUME NEW a \in Actors, Enqueue(a) PROVE IInv'
    BY Zenon, <1>3, EnqueueIInv
<1>4. ASSUME NEW c \in Clients, CallWait(c) \/ WaitSleep(c) \/ WaitReturn(c) PROVE IInv'
    BY Zenon, <1>4, QuietIInv DEF CallWait, WaitSleep, WaitReturn, pool, owner
<1>5. ASSUME NEW w \in Workers, Work(w) PROVE IInv'
    <2>1. CASE NextSleep(w)
        BY Zenon, <2>1, QuietIInv DEF NextSleep, pool, owner
    <2>2. CASE NotifyStart(w) \/ Take(w) \/ EndTask(w) \/ NotifyEnd(w)
        BY Zenon, <2>2, NotifyStartIInv, TakeIInv, EndTaskIInv, NotifyEndIInv
    <2>3. CASE Execute(w) \/ Delete(w) \/ Error(w)
        BY Zenon, <2>3, RunIInv
    <2>4. QED
        BY Zenon, <1>5, <2>1, <2>2, <2>3 DEF Work
<1>6. ASSUME NEW n \in PoolSizes, Resize(n) PROVE IInv'
    BY Zenon, <1>6, QuietIInv DEF Resize, pool
<1>7. CASE WaitForThreads \/ SpuriousWake
    BY Zenon, <1>7, QuietIInv DEF WaitForThreads, SpuriousWake, pool
<1>8. CASE Own
    <2>1. CASE Shrink
        BY Zenon, <2>1, PostNullIInv DEF Shrink, OneTold, owner, IInv, Types
    <2>2. CASE Stop
        BY Zenon, <2>2, PostNullIInv DEF Stop, IInv, Types
    <2>3. CASE Grow \/ JoinReturn
        BY Zenon, <2>3, GrowIInv, JoinReturnIInv
    <2>4. CASE ResizeReturn \/ Stopped \/ JoinSleep
        BY Zenon, <2>4, QuietIInv DEF ResizeReturn, Stopped, JoinSleep, pool
    <2>5. QED
        BY Zenon, <1>8, <2>1, <2>2, <2>3, <2>4 DEF Own
<1>9. CASE UNCHANGED vars
    BY Zenon, <1>9, QuietIInv DEF vars, pool, owner
<1>10. QED
    BY Zenon, <1>1, <1>2, <1>3, <1>4, <1>5, <1>6, <1>7, <1>8, <1>9 DEF Next

\* The invariant holds of every behaviour of the pool.
THEOREM Invariance == Spec => []IInv
<1>1. Init => IInv
    BY Zenon, InitIInv
<1>2. IInv /\ [Next]_vars => IInv'
    BY Zenon, StepIInv
<1>3. QED
    BY <1>1, <1>2, PTL DEF Spec

\* tasks_, running_ and count_ are exact in every state (ThreadPool.cc:28, 74-166).
THEOREM CountersExactHolds == Spec => []CountersExact
<1>1. IInv => CountersExact
    BY Zenon DEF IInv
<1>2. QED
    BY <1>1, Invariance, PTL

\* wait() is a barrier for tasks pushed one by one (ThreadPool.cc:131).
THEOREM WaitIsBarrierHolds == Spec => WaitIsBarrier
<1> DEFINE A == listed = {} /\ waiting' # waiting /\ waiting' \subseteq waiting
                  => \A r \in Tasks : stage[r] \in {"new", "done"}
<1>1. ASSUME IInv, [Next]_vars PROVE [A]_vars
    <2>1. SUFFICES ASSUME listed = {}, waiting' # waiting, waiting' \subseteq waiting
                   PROVE  \A r \in Tasks : stage[r] \in {"new", "done"}
        BY Zenon
    <2>2. NoTasks
        BY Zenon, <1>1, <2>1
        DEF Next, StartTask, PushList, Enqueue, CallWait, WaitSleep, WaitReturn, Work, NotifyStart,
            NextSleep, Take, Execute, Delete, Error, EndTask, NotifyEnd, Resize, WaitForThreads, Own,
            Shrink, Grow, ResizeReturn, Stop, Stopped, JoinSleep, JoinReturn, SpuriousWake, vars
    <2>3. ListsDone = {} /\ Cardinality(ListsDone) = 0
        BY Zenon, <2>1, FS_EmptySet DEF ListsDone
    <2>4. Cardinality(Outstanding) % SizeT = 0
        BY <1>1, <2>2, <2>3, Counted DEF NoTasks, IInv, CountersExact
    <2>5. Cardinality(Outstanding) = 0
        <3>1. /\ Cardinality(Outstanding) \in Int /\ -SizeT < Cardinality(Outstanding)
              /\ Cardinality(Outstanding) < SizeT /\ Cardinality(Outstanding) >= 0 /\ SizeT \in Nat \ {0}
            BY <1>1, Counted
        <3>2. Cardinality(Outstanding) % SizeT = Cardinality(Outstanding)
            BY Zenon, <3>1, OneTurn
        <3>3. QED
            BY Zenon, <2>4, <3>2
    <2>6. Outstanding = {}
        BY Zenon, <1>1, <2>5, Counted, FS_EmptySet
    <2>7. QED
        BY Zenon, <1>1, <2>1, <2>6 DEF Outstanding, IInv, Types, Stages
<1>2. IInv /\ [Next]_vars => [A]_vars
    BY Zenon, <1>1
<1> HIDE DEF A
<1>3. Spec => [][A]_vars
    BY <1>2, Invariance, PTL DEF Spec
<1>4. QED
    BY Zenon, <1>3 DEF WaitIsBarrier, A

\* waitForThreads() returns with no task running and no failure unreported
\* (ThreadPool.cc:96).
THEOREM JoinIsCleanHolds == Spec => JoinIsClean
<1> DEFINE A == opc = "joining" /\ opc' = "idle"
                  => /\ \A r \in Tasks : stage[r] # "taken"
                     /\ error_ <=> failed # {}
<1>1. ASSUME IInv, [Next]_vars PROVE [A]_vars
    <2>1. SUFFICES ASSUME opc = "joining", opc' = "idle"
                   PROVE  (\A r \in Tasks : stage[r] # "taken") /\ (error_ <=> failed # {})
        BY Zenon
    <2>2. running_ = 0
        BY Zenon, <1>1, <2>1
        DEF Next, StartTask, PushList, Enqueue, CallWait, WaitSleep, WaitReturn, Work, NotifyStart,
            NextSleep, Take, Execute, Delete, Error, EndTask, NotifyEnd, Resize, WaitForThreads, Own,
            Shrink, Grow, ResizeReturn, Stop, Stopped, JoinSleep, JoinReturn, SpuriousWake, vars, owner
    <2>3. \A w \in Workers : wpc[w] \in {"none", "created"}
        BY Zenon, <1>1, <2>2, NoneRuns
    <2>4. \A w \in Workers : holds[w] = Null
        BY Zenon, <1>1, <2>3 DEF IInv, AtWork, Busy
    <2>5. \A r \in Tasks : stage[r] # "taken"
        BY Zenon, <1>1, <2>4, NullAssumption DEF IInv, AtWork
    <2>6. error_ <=> failed # {}
        BY Zenon, <1>1, <2>3 DEF IInv, Types, Reports
    <2>7. QED
        BY Zenon, <2>5, <2>6
<1>2. IInv /\ [Next]_vars => [A]_vars
    BY Zenon, <1>1
<1> HIDE DEF A
<1>3. Spec => [][A]_vars
    BY <1>2, Invariance, PTL DEF Spec
<1>4. QED
    BY Zenon, <1>3 DEF JoinIsClean, A
=============================================================================
