--------------------------- MODULE FilePoolProofs ---------------------------
(* The pools of open files, for any threads, paths, objects, handles and
   capacities: ReadsOwnPlace of PooledFiles, OneUser and SignalChain of FilePool,
   and EntriesKept of CacheLRU. *)
EXTENDS MCFilePool, Sequences, TLAPS

-----------------------------------------------------------------------------
(* PooledFiles *)

Types ==
    /\ kind \in {"file", "handle"}
    /\ path \in [Users -> Paths \cup {None}]
    /\ opened_ \in [Users -> BOOLEAN]
    /\ position_ = [u \in Users |-> position_[u]]
    /\ own = [u \in Users |-> own[u]]
    /\ file \in [Paths -> {"null", "open", "unopened"}]

\* What u sees of the file it has open.
Good(u) ==
    /\ path[u] \in Paths
    /\ file[path[u]] # "null"
    /\ position_[u] = own[u]

\* The inductive invariant.  An object that has its file open has a path, which
\* is what keeps the entry from being the last one's or nobody's; and only a
\* PooledHandle leaves a handle that is not open.
IInv ==
    /\ Types
    /\ \A u \in Users : opened_[u] => Good(u)
    /\ kind = "file" => \A p \in Paths : file[p] # "unopened"

\* No object has its file open, and the pool is empty.
LEMMA InitIInv == Init => IInv
BY DEF Init, IInv, Types, Good

\* The invariant is stronger than the property.
LEMMA IInvReads == IInv => ReadsOwnPlace
BY Zenon DEF IInv, Types, Good, ReadsOwnPlace, ReadFrom

\* checkMaxPooledHandles closes no file that some object has open.
LEMMA CheckKeeps ==
    ASSUME IInv
    PROVE  /\ AfterCheck \in [Paths -> {"null", "open", "unopened"}]
           /\ \A p \in Paths : AfterCheck[p] \in {"null", file[p]}
           /\ \A u \in Users : opened_[u] => AfterCheck[path[u]] = file[path[u]]
BY Zenon DEF IInv, Types, Good, AfterCheck, CanClose, Of

\* Every operation of a PooledFile keeps the inductive invariant.
LEMMA StepIInv == IInv /\ [Next]_vars => IInv'
<1> SUFFICES ASSUME IInv, [Next]_vars PROVE IInv'
    BY Zenon
<1> USE DEF IInv, Types, Good
<1>1. ASSUME NEW u \in Users, NEW p \in Paths, Construct(u, p) PROVE IInv'
    BY Zenon, <1>1 DEF Construct
<1>2. ASSUME NEW u \in Users, Destroy(u) PROVE IInv'
    <2>1. Types'
        BY Zenon, <1>2 DEF Destroy
    <2>2. \A v \in Users : opened_'[v] => v # u /\ opened_[v] /\ path'[v] = path[v]
        BY Zenon, <1>2 DEF Destroy
    <2>3. \A v \in Users : opened_'[v] => file'[path[v]] = file[path[v]]
        BY Zenon, <1>2, <2>2 DEF Destroy, Of
    <2>4. QED
        BY <1>2, <2>1, <2>2, <2>3 DEF Destroy
<1>3. ASSUME NEW u \in Users, OpenShared(u) PROVE IInv'
    <2>1. path[u] \in Paths
        BY Zenon, <1>3 DEF OpenShared, CanOpen
    <2>2. Types'
        BY Zenon, <1>3 DEF OpenShared, Start
    <2>3. \A v \in Users : opened_'[v] => Good(v)'
        BY Zenon, <1>3, <2>1 DEF OpenShared, Start
    <2>4. QED
        BY Zenon, <1>3, <2>2, <2>3 DEF OpenShared
<1>4. ASSUME NEW u \in Users, OpenFirst(u) PROVE IInv'
    <2>1. path[u] \in Paths
        BY <1>4 DEF OpenFirst, CanOpen
    <2>2. Types'
        BY Zenon, <1>4, <2>1, CheckKeeps DEF OpenFirst, Start
    <2>3. \A v \in Users : opened_'[v] => Good(v)'
        BY Zenon, <1>4, <2>1, CheckKeeps DEF OpenFirst, Start
    <2>4. QED
        BY <1>4, <2>1, <2>2, <2>3, CheckKeeps DEF OpenFirst, Start
<1>5. ASSUME NEW u \in Users, OpenThrows(u) PROVE IInv'
    <2>1. path[u] \in Paths
        BY <1>5 DEF OpenThrows, CanOpen
    <2>2. Types'
        BY Zenon, <1>5, <2>1, CheckKeeps DEF OpenThrows
    <2>3. \A v \in Users : opened_'[v] => Good(v)'
        BY Zenon, <1>5, <2>1, CheckKeeps DEF OpenThrows
    <2>4. QED
        BY <1>5, <2>1, <2>2, <2>3, CheckKeeps DEF OpenThrows
<1>6. ASSUME NEW u \in Users, Close(u) PROVE IInv'
    BY Zenon, <1>6 DEF Close
<1>7. ASSUME NEW u \in Users, NEW n \in 1 .. Size + 1, Read(u, n) PROVE IInv'
    BY Zenon, <1>7 DEF Read, CanRead, ReadFrom
<1>8. ASSUME NEW u \in Users, NEW o, SeekTo(u, o) PROVE IInv'
    BY Zenon, <1>8 DEF SeekTo, CanRead
<1>9. ASSUME NEW p \in Paths, Appear(p) PROVE IInv'
    BY Zenon, <1>9 DEF Appear
<1>10. CASE UNCHANGED vars
    BY Zenon, <1>10 DEF vars
<1>11. QED
    BY Zenon, <1>1, <1>2, <1>3, <1>4, <1>5, <1>6, <1>7, <1>8, <1>9, <1>10 DEF Next, Seek, SeekEnd

\* However many PooledFile and PooledHandle objects share however many files, in
\* a pool of any size, each of them reads as if the file were its own.
THEOREM ReadsOwnPlaceHolds == Spec => []ReadsOwnPlace
BY InitIInv, IInvReads, StepIInv, PTL DEF Spec

-----------------------------------------------------------------------------
(* The lists of entries *)

\* The entries of a list have keys, and values, of their own.
Distinct(s) ==
    \A m, n \in DOMAIN s : m # n => s[m][1] # s[n][1] /\ s[m][2] # s[n][2]

ValuesOf(s) == {s[n][2] : n \in DOMAIN s}

\* w is what is left of s when some entries have gone.
Part(w, s) ==
    /\ \A i \in DOMAIN w : \E m \in DOMAIN s : w[i] = s[m]
    /\ \A i, j \in DOMAIN w : i < j =>
          \E m, n \in DOMAIN s : m < n /\ w[i] = s[m] /\ w[j] = s[n]

\* Without of CacheLRU, in whichever instance.
Erased(s, k) ==
    IF k \in {s[n][1] : n \in DOMAIN s}
    THEN LET m == CHOOSE n \in DOMAIN s : s[n][1] = k
         IN  SubSeq(s, 1, m - 1) \o SubSeq(s, m + 1, Len(s))
    ELSE s

\* erase() takes the entry of k out, and leaves the others in their order.
LEMMA EraseKeeps ==
    ASSUME NEW E, NEW s \in Seq(E), NEW k, Distinct(s)
    PROVE  /\ Erased(s, k) \in Seq(E)
           /\ Part(Erased(s, k), s)
           /\ \A i \in DOMAIN Erased(s, k) : Erased(s, k)[i][1] # k
           /\ \A m \in DOMAIN s : s[m][1] # k => s[m][2] \in ValuesOf(Erased(s, k))
           /\ Len(Erased(s, k)) = IF k \in {s[n][1] : n \in DOMAIN s} THEN Len(s) - 1 ELSE Len(s)
<1> DEFINE w == Erased(s, k)
<1>1. CASE k \notin {s[n][1] : n \in DOMAIN s}
    BY Zenon, <1>1 DEF Erased, Part, ValuesOf
<1>2. CASE k \in {s[n][1] : n \in DOMAIN s}
    <2> DEFINE m == CHOOSE n \in DOMAIN s : s[n][1] = k
    <2>1. m \in 1 .. Len(s) /\ s[m][1] = k
        BY <1>2
    <2>2. w = SubSeq(s, 1, m - 1) \o SubSeq(s, m + 1, Len(s))
        BY Zenon, <1>2 DEF Erased
    <2> HIDE DEF m
    <2>3. /\ w \in Seq(E)
          /\ Len(w) = Len(s) - 1
          /\ \A i \in 1 .. Len(s) - 1 : w[i] = IF i < m THEN s[i] ELSE s[i + 1]
        <3> DEFINE a == SubSeq(s, 1, m - 1)
                   b == SubSeq(s, m + 1, Len(s))
        <3>1. a \in Seq(E) /\ Len(a) = m - 1 /\ \A i \in 1 .. m - 1 : a[i] = s[i]
            BY <2>1
        <3>2. /\ b \in Seq(E) /\ Len(b) = Len(s) - m
              /\ \A i \in 1 .. Len(s) - m : b[i] = s[i + m]
            BY <2>1
        <3>3. w = a \o b
            BY Zenon, <2>2
        <3> HIDE DEF a, b, w
        <3>4. w \in Seq(E) /\ Len(w) = Len(s) - 1
            BY <2>1, <3>1, <3>2, <3>3
        <3>5. ASSUME NEW i \in 1 .. Len(s) - 1
              PROVE  w[i] = IF i < m THEN s[i] ELSE s[i + 1]
            <4>1. CASE i < m
                BY <2>1, <3>1, <3>2, <3>3, <4>1
            <4>2. CASE ~(i < m)
                <5>1. w[i] = b[i - (m - 1)]
                    BY SMTT(60), <2>1, <3>1, <3>2, <3>3, <4>2
                <5>2. i - (m - 1) \in 1 .. Len(s) - m /\ (i - (m - 1)) + m = i + 1
                    BY <2>1, <4>2
                <5>3. QED
                    BY Zenon, <3>2, <4>2, <5>1, <5>2
            <4>3. QED
                BY Zenon, <4>1, <4>2
        <3>6. QED
            BY Zenon, <3>4, <3>5
    <2> HIDE DEF w
    <2>4. ASSUME NEW i \in DOMAIN w PROVE \E n \in DOMAIN s : n # m /\ w[i] = s[n]
        <3> DEFINE n == IF i < m THEN i ELSE i + 1
        <3>1. n \in DOMAIN s /\ n # m /\ w[i] = s[n]
            BY <2>1, <2>3
        <3>2. QED
            BY Zenon, <3>1
    <2>5. \A i \in DOMAIN w : w[i][1] # k
        BY <2>1, <2>4 DEF Distinct
    <2>6. Part(w, s)
        <3>1. ASSUME NEW i \in DOMAIN w, NEW j \in DOMAIN w, i < j
              PROVE  \E a, b \in DOMAIN s : a < b /\ w[i] = s[a] /\ w[j] = s[b]
            <4> DEFINE a == IF i < m THEN i ELSE i + 1
                       b == IF j < m THEN j ELSE j + 1
            <4>1. a \in DOMAIN s /\ b \in DOMAIN s /\ a < b /\ w[i] = s[a] /\ w[j] = s[b]
                BY SMTT(60), <2>1, <2>3, <3>1
            <4> HIDE DEF a, b
            <4>2. QED
                BY Zenon, <4>1
        <3>2. QED
            BY Zenon, <2>4, <3>1 DEF Part
    <2>7. ASSUME NEW n \in DOMAIN s, s[n][1] # k PROVE s[n][2] \in ValuesOf(w)
        <3> DEFINE i == IF n < m THEN n ELSE n - 1
        <3>1. i \in DOMAIN w /\ w[i] = s[n]
            BY <2>1, <2>3, <2>7
        <3>2. QED
            BY Zenon, <3>1 DEF ValuesOf
    <2>8. QED
        BY Zenon, <1>2, <2>3, <2>5, <2>6, <2>7 DEF w
<1>3. QED
    BY Zenon, <1>1, <1>2

\* At and Stored of CacheLRU, in whichever instance.
AtIn(s, k)     == CHOOSE n \in DOMAIN s : s[n][1] = k
StoredIn(s, k) == IF k \in {s[n][1] : n \in DOMAIN s} THEN {s[AtIn(s, k)][2]} ELSE {}

\* The value that goes with the entry of k is the one stored under k.
LEMMA EraseValue ==
    ASSUME NEW E, NEW s \in Seq(E), NEW k, Distinct(s)
    PROVE  StoredIn(s, k) = ValuesOf(s) \ ValuesOf(Erased(s, k))
<1> DEFINE w == Erased(s, k)
<1>1. /\ Part(w, s)
      /\ \A i \in DOMAIN w : w[i][1] # k
      /\ \A m \in DOMAIN s : s[m][1] # k => s[m][2] \in ValuesOf(w)
    BY Zenon, EraseKeeps
<1>2. CASE k \notin {s[n][1] : n \in DOMAIN s}
    BY Zenon, <1>2 DEF StoredIn, Erased
<1>3. CASE k \in {s[n][1] : n \in DOMAIN s}
    <2> DEFINE n == AtIn(s, k)
    <2>1. n \in DOMAIN s /\ s[n][1] = k /\ StoredIn(s, k) = {s[n][2]}
        BY Zenon, <1>3 DEF AtIn, StoredIn
    <2> HIDE DEF w, n
    <2>2. s[n][2] \notin ValuesOf(w)
        <3>1. ASSUME NEW i \in DOMAIN w, w[i][2] = s[n][2] PROVE FALSE
            <4>1. PICK m \in DOMAIN s : w[i] = s[m]
                BY Zenon, <1>1 DEF Part
            <4>2. m # n
                BY Zenon, <1>1, <2>1, <4>1
            <4>3. QED
                BY Zenon, <2>1, <3>1, <4>1, <4>2 DEF Distinct
        <3>2. QED
            BY Zenon, <3>1 DEF ValuesOf
    <2>3. \A v \in ValuesOf(s) \ ValuesOf(w) : v = s[n][2]
        <3>1. ASSUME NEW m \in DOMAIN s, s[m][2] \notin ValuesOf(w) PROVE m = n
            BY Zenon, <1>1, <2>1, <3>1 DEF Distinct
        <3>2. QED
            BY Zenon, <3>1 DEF ValuesOf
    <2>4. s[n][2] \in ValuesOf(s)
        BY Zenon, <2>1 DEF ValuesOf
    <2>5. QED
        BY Zenon, <2>1, <2>2, <2>3, <2>4 DEF w
<1>4. QED
    BY Zenon, <1>2, <1>3

\* What is left of a list, by erase() or by trim(), is no less distinct.
LEMMA PartOf ==
    ASSUME NEW E, NEW s \in Seq(E), NEW w \in Seq(E), Part(w, s), Distinct(s)
    PROVE  Distinct(w) /\ ValuesOf(w) \subseteq ValuesOf(s)
<1>1. \A i, j \in DOMAIN w : i < j => w[i][1] # w[j][1] /\ w[i][2] # w[j][2]
    BY DEF Part, Distinct
<1>2. Distinct(w)
    BY <1>1 DEF Distinct
<1>3. QED
    BY <1>2 DEF ValuesOf, Part

\* trim() leaves the front of the list.
LEMMA TrimKeeps ==
    ASSUME NEW E, NEW s \in Seq(E), NEW n \in 0 .. Len(s)
    PROVE  /\ SubSeq(s, 1, n) \in Seq(E) /\ Len(SubSeq(s, 1, n)) = n
           /\ Part(SubSeq(s, 1, n), s)
<1> DEFINE w == SubSeq(s, 1, n)
<1>1. w \in Seq(E) /\ Len(w) = n /\ \A i \in 1 .. n : w[i] = s[i]
    OBVIOUS
<1> HIDE DEF w
<1>2. DOMAIN w \subseteq DOMAIN s
    BY <1>1
<1>3. Part(w, s)
    BY <1>1, <1>2 DEF Part
<1>4. QED
    BY Zenon, <1>1, <1>3 DEF w

\* An entry of a key and a value that are not in the list, in front of it.
LEMMA PushFront ==
    ASSUME NEW E, NEW s \in Seq(E), Distinct(s), NEW e \in E,
           \A i \in DOMAIN s : s[i][1] # e[1], e[2] \notin ValuesOf(s)
    PROVE  /\ <<e>> \o s \in Seq(E) /\ Len(<<e>> \o s) = Len(s) + 1
           /\ Distinct(<<e>> \o s)
           /\ ValuesOf(<<e>> \o s) = ValuesOf(s) \cup {e[2]}
           /\ (<<e>> \o s)[1] = e
           /\ \A i \in 2 .. Len(s) + 1 : (<<e>> \o s)[i] = s[i - 1]
<1> DEFINE w == <<e>> \o s
<1>1. /\ w \in Seq(E) /\ Len(w) = Len(s) + 1 /\ w[1] = e
      /\ \A i \in 2 .. Len(s) + 1 : w[i] = s[i - 1]
    OBVIOUS
<1> HIDE DEF w
<1>2. \A i \in DOMAIN w : i = 1 \/ (i - 1 \in DOMAIN s /\ w[i] = s[i - 1])
    BY <1>1
<1>3. \A j \in DOMAIN s : j + 1 \in DOMAIN w /\ w[j + 1] = s[j]
    BY <1>1
<1>4. Distinct(w)
    <2>1. ASSUME NEW i \in DOMAIN w, i # 1 PROVE w[i][1] # e[1] /\ w[i][2] # e[2]
        BY Zenon, <1>2, <2>1 DEF ValuesOf
    <2>2. ASSUME NEW i \in DOMAIN w, NEW j \in DOMAIN w, i # 1, j # 1, i # j
          PROVE  w[i][1] # w[j][1] /\ w[i][2] # w[j][2]
        <3>1. i - 1 \in DOMAIN s /\ j - 1 \in DOMAIN s /\ i - 1 # j - 1
            BY <1>1, <1>2, <2>2
        <3>2. QED
            BY <1>2, <2>2, <3>1 DEF Distinct
    <2>3. QED
        BY Zenon, <1>1, <2>1, <2>2 DEF Distinct
<1>5. ValuesOf(w) \subseteq ValuesOf(s) \cup {e[2]}
    BY <1>1, <1>2 DEF ValuesOf
<1>6. ValuesOf(s) \cup {e[2]} \subseteq ValuesOf(w)
    <2>1. 1 \in DOMAIN w
        BY <1>1
    <2>2. QED
        BY <1>1, <1>3, <2>1 DEF ValuesOf
<1>7. QED
    BY Zenon, <1>1, <1>4, <1>5, <1>6 DEF w

-----------------------------------------------------------------------------
(* FilePool *)

PoolTypes ==
    /\ storage_ \in Seq(Paths \X Handles)
    /\ capacity_ \in Nat
    /\ inUse_ \in [Paths -> Handles \cup {NoHandle}]
    /\ op \in [Threads -> {"idle", "checkout", "remove", "using"}]
    /\ arg \in [Threads -> Paths]
    /\ holds \in [Threads -> Handles \cup {NoHandle}]
    /\ asleep \subseteq Threads
    /\ dropped \in BOOLEAN /\ closeThrew \in BOOLEAN

\* What a thread uses is its own, and is not in the cache.
Lent ==
    \A t \in Threads : op[t] = "using" =>
        /\ inUse_[arg[t]] = holds[t]
        /\ holds[t] \in Handles \ closed
        /\ holds[t] \notin F!Cache!Values(storage_)
        /\ \A u \in Threads \ {t} : op[u] = "using" => arg[u] # arg[t]

\* No handle is in use under two paths, nor in use under one and cached under
\* another.
OnePath ==
    /\ \A p, q \in Paths : inUse_[p] = inUse_[q] /\ inUse_[p] # NoHandle => p = q
    /\ \A n \in DOMAIN storage_, p \in Paths : inUse_[p] = storage_[n][2] => p = storage_[n][1]

\* The inductive invariant of OneUser.
UserInv ==
    /\ PoolTypes
    /\ Distinct(storage_)
    /\ Lent
    /\ OnePath
    /\ F!Cache!Values(storage_) \cap closed = {}
    /\ ~closeThrew => \A p \in Paths : inUse_[p] # NoHandle => ~F!Cache!Exists(p)

\* The inductive invariant of SignalChain.  As long as nobody has left without
\* a checkin(), a path that is in use has a user, who is awake.
ChainInv ==
    /\ PoolTypes
    /\ \A t \in asleep : op[t] \in {"checkout", "remove"}
    /\ ~dropped => \A p \in Paths : inUse_[p] # NoHandle =>
                      \E t \in Threads : op[t] = "using" /\ arg[t] = p
    /\ SignalChain

\* CacheLRU as FilePool uses it, in terms of the lists above.
LEMMA CacheIs ==
    /\ \A s : F!Cache!Values(s) = ValuesOf(s)
    /\ \A s, k : F!Cache!Without(s, k) = Erased(s, k)
    /\ \A s, k, v : F!Cache!Front(s, k, v) = << <<k, v>> >> \o Erased(s, k)
<1>1. \A s : F!Cache!Values(s) = ValuesOf(s)
    BY Zenon DEF F!Cache!Values, ValuesOf
<1>2. \A s, k : F!Cache!Without(s, k) = Erased(s, k)
    BY Zenon DEF F!Cache!Without, F!Cache!At, F!Cache!Keys, Erased
<1>3. \A s, k, v : F!Cache!Front(s, k, v) = << <<k, v>> >> \o F!Cache!Without(s, k)
    BY Zenon DEF F!Cache!Front
<1>4. QED
    BY Zenon, <1>1, <1>2, <1>3

\* trim(), also by the number of entries that are left.
LEMMA TrimIs ==
    ASSUME NEW E, NEW s \in Seq(E), NEW n \in Nat
    PROVE  \E m \in 0 .. Len(s) : F!Cache!Trim(s, n) = SubSeq(s, 1, m)
<1> DEFINE m == IF n < Len(s) THEN n ELSE Len(s)
<1>1. m \in 0 .. Len(s)
    OBVIOUS
<1>2. F!Cache!Trim(s, n) = SubSeq(s, 1, m)
    BY Zenon DEF F!Cache!Trim
<1>3. QED
    BY Zenon, <1>1, <1>2

\* remove() and extract(): the entry of k is gone, its value with it, and no other.
LEMMA EraseStored ==
    ASSUME UserInv, NEW k
    PROVE  /\ Erased(storage_, k) \in Seq(Paths \X Handles)
           /\ Part(Erased(storage_, k), storage_)
           /\ \A i \in DOMAIN Erased(storage_, k) : Erased(storage_, k)[i][1] # k
           /\ F!Cache!Stored(k) = ValuesOf(storage_) \ ValuesOf(Erased(storage_, k))
           /\ F!Cache!Exists(k) =>
                 \E n \in DOMAIN storage_ :
                    /\ storage_[n][1] = k
                    /\ storage_[F!Cache!At(storage_, k)] = storage_[n]
                    /\ F!Cache!Stored(k) = {storage_[n][2]}
<1>1. storage_ \in Seq(Paths \X Handles) /\ Distinct(storage_)
    BY Zenon DEF UserInv, PoolTypes
<1>2. F!Cache!At(storage_, k) = AtIn(storage_, k) /\ F!Cache!Stored(k) = StoredIn(storage_, k)
    BY Zenon DEF F!Cache!At, F!Cache!Stored, F!Cache!Exists, F!Cache!Keys, AtIn, StoredIn
<1>3. F!Cache!Exists(k) =>
          /\ AtIn(storage_, k) \in DOMAIN storage_ /\ storage_[AtIn(storage_, k)][1] = k
          /\ StoredIn(storage_, k) = {storage_[AtIn(storage_, k)][2]}
    BY Zenon DEF F!Cache!Exists, F!Cache!Keys, AtIn, StoredIn
<1>4. QED
    BY SMTT(60), <1>1, <1>2, <1>3, EraseKeeps, EraseValue

\* A cache that only loses entries, closing some of their handles, and threads of
\* which none starts to use one.
LEMMA ShrinkInv ==
    ASSUME UserInv, PoolTypes', Part(storage_', storage_),
           closed' \subseteq closed \cup (ValuesOf(storage_) \ ValuesOf(storage_')),
           UNCHANGED <<inUse_, arg, holds>>,
           \A t \in Threads : op'[t] = "using" => op[t] = "using",
           closeThrew => closeThrew'
    PROVE  UserInv'
<1>1. /\ storage_ \in Seq(Paths \X Handles) /\ Distinct(storage_)
      /\ storage_' \in Seq(Paths \X Handles)
    BY Zenon DEF UserInv, PoolTypes
<1>2. Distinct(storage_)' /\ ValuesOf(storage_') \subseteq ValuesOf(storage_)
    BY Zenon, <1>1, PartOf DEF Distinct
<1>3. Lent'
    BY Zenon, <1>2, CacheIs DEF UserInv, Lent
<1>4. OnePath'
    BY DEF UserInv, OnePath, Part
<1>5. (F!Cache!Values(storage_) \cap closed = {})'
    BY Zenon, <1>2, CacheIs DEF UserInv
<1>6. (~closeThrew => \A p \in Paths : inUse_[p] # NoHandle => ~F!Cache!Exists(p))'
    BY DEF UserInv, Part, F!Cache!Exists, F!Cache!Keys
<1>7. QED
    BY Zenon, <1>2, <1>3, <1>4, <1>5, <1>6 DEF UserInv

\* A handle that is in use under no path, not closed and no longer cached is lent
\* to a thread whose path is free.
LEMMA LendInv ==
    ASSUME UserInv, PoolTypes', NEW t \in Threads, NEW h \in Handles, op[t] = "checkout",
           F!Free(t), F!Lend(t, h), storage_' = Erased(storage_, arg[t]),
           \A p \in Paths : inUse_[p] # h, h \notin ValuesOf(storage_'), h \notin closed',
           closed' \subseteq closed \cup (ValuesOf(storage_) \ ValuesOf(storage_'))
    PROVE  UserInv'
<1>1. /\ storage_ \in Seq(Paths \X Handles) /\ Distinct(storage_)
      /\ storage_' \in Seq(Paths \X Handles)
      /\ Part(storage_', storage_)
      /\ \A i \in DOMAIN storage_' : storage_'[i][1] # arg[t]
    BY Zenon, EraseStored DEF UserInv, PoolTypes
<1>2. Distinct(storage_)' /\ ValuesOf(storage_') \subseteq ValuesOf(storage_)
    BY <1>1, PartOf DEF Distinct
<1>3. /\ arg[t] \in Paths /\ inUse_[arg[t]] = NoHandle /\ NoHandle \notin Handles
      /\ inUse_'[arg[t]] = h /\ \A p \in Paths \ {arg[t]} : inUse_'[p] = inUse_[p]
      /\ holds'[t] = h /\ \A u \in Threads \ {t} : holds'[u] = holds[u]
      /\ op'[t] = "using" /\ \A u \in Threads \ {t} : op'[u] = op[u]
      /\ arg' = arg /\ closeThrew' = closeThrew
    BY NullAssumption DEF UserInv, PoolTypes, F!Free, F!Lend, F!Goto, F!past
<1>4. \A u \in Threads : op[u] = "using" => u # t /\ arg[u] # arg[t] /\ arg[u] \in Paths
    BY Zenon, <1>3 DEF UserInv, PoolTypes, Lent
<1>5. Lent'
    <2>1. ASSUME NEW u \in Threads, op'[u] = "using", u # t
          PROVE  /\ inUse_'[arg'[u]] = holds'[u] /\ holds'[u] \in Handles \ closed'
                 /\ holds'[u] \notin ValuesOf(storage_') /\ arg'[u] # arg'[t]
        BY <1>2, <1>3, <1>4, <2>1, CacheIs DEF UserInv, Lent
    <2>2. inUse_'[arg'[t]] = holds'[t] /\ holds'[t] \in Handles \ closed'
        BY Zenon, <1>3
    <2>3. holds'[t] \notin ValuesOf(storage_')
        BY Zenon, <1>3
    <2>4. \A u, v \in Threads : op'[u] = "using" /\ op'[v] = "using" /\ u # v => arg'[u] # arg'[v]
        <3>1. ASSUME NEW u \in Threads \ {t}, NEW v \in Threads \ {t}, u # v,
                     op'[u] = "using", op'[v] = "using"
              PROVE  arg'[u] # arg'[v]
            BY <1>3, <3>1 DEF UserInv, Lent
        <3>2. QED
            BY Zenon, <2>1, <3>1
    <2>5. QED
        BY Zenon, <2>1, <2>2, <2>3, <2>4, CacheIs DEF Lent
<1>6. OnePath'
    <2>1. \A p, q \in Paths : inUse_'[p] = inUse_'[q] /\ inUse_'[p] # NoHandle => p = q
        BY <1>3 DEF UserInv, OnePath
    <2>2. ASSUME NEW n \in DOMAIN storage_', NEW p \in Paths, inUse_'[p] = storage_'[n][2]
          PROVE  p = storage_'[n][1]
        <3>1. p # arg[t]
            BY <1>3, <2>2 DEF ValuesOf
        <3>2. QED
            BY SMTT(60), <1>1, <1>3, <2>2, <3>1 DEF UserInv, OnePath, Part
    <2>3. QED
        BY Zenon, <2>1, <2>2 DEF OnePath
<1>7. (F!Cache!Values(storage_) \cap closed = {})'
    BY Zenon, <1>2, CacheIs DEF UserInv
<1>8. (~closeThrew => \A p \in Paths : inUse_[p] # NoHandle => ~F!Cache!Exists(p))'
    BY <1>1, <1>3 DEF UserInv, Part, F!Cache!Exists, F!Cache!Keys
<1>9. QED
    BY Zenon, <1>2, <1>5, <1>6, <1>7, <1>8 DEF UserInv

\* A handle goes back to the front of the cache, and what is then trimmed is
\* closed: by checkin(), which forgets that the path is in use, or by one that
\* throws before it does.
LEMMA ReturnInv ==
    ASSUME UserInv, PoolTypes', NEW t \in Threads, op[t] = "using",
           NEW s, s = F!Cache!Front(storage_, arg[t], holds[t]),
           NEW m \in 0 .. Len(s), storage_' = SubSeq(s, 1, m),
           closed' = closed \cup (ValuesOf(s) \ ValuesOf(storage_')),
           F!Goto(t, "idle"), UNCHANGED arg, holds' = [holds EXCEPT ![t] = NoHandle],
           \/ inUse_' = [inUse_ EXCEPT ![arg[t]] = NoHandle] /\ UNCHANGED closeThrew
           \/ UNCHANGED inUse_ /\ closeThrew' = TRUE
    PROVE  UserInv' /\ s \in Seq(Paths \X Handles)
<1> DEFINE w == Erased(storage_, arg[t])
           e == <<arg[t], holds[t]>>
<1>1. /\ arg[t] \in Paths /\ inUse_[arg[t]] = holds[t] /\ holds[t] \in Handles \ closed
      /\ holds[t] \notin ValuesOf(storage_)
      /\ NoHandle \notin Handles /\ e \in Paths \X Handles
    BY Zenon, NullAssumption, CacheIs DEF UserInv, PoolTypes, Lent
<1>2. /\ storage_ \in Seq(Paths \X Handles) /\ Distinct(storage_)
      /\ w \in Seq(Paths \X Handles) /\ Part(w, storage_)
      /\ \A i \in DOMAIN w : w[i][1] # arg[t]
    BY Zenon, EraseStored DEF UserInv, PoolTypes
<1>3. s = <<e>> \o w
    BY Zenon, CacheIs
<1> HIDE DEF w
<1>4. Distinct(w) /\ ValuesOf(w) \subseteq ValuesOf(storage_)
    BY Zenon, <1>2, PartOf
<1>5. /\ s \in Seq(Paths \X Handles) /\ Len(s) = Len(w) + 1
      /\ Distinct(s) /\ ValuesOf(s) = ValuesOf(w) \cup {holds[t]}
      /\ s[1] = e /\ \A i \in 2 .. Len(w) + 1 : s[i] = w[i - 1]
    <2>1. \A i \in DOMAIN w : w[i][1] # e[1]
        BY Zenon, <1>2
    <2>2. e[2] \notin ValuesOf(w)
        BY Zenon, <1>1, <1>4
    <2> HIDE DEF e
    <2>3. /\ s \in Seq(Paths \X Handles) /\ Len(s) = Len(w) + 1
          /\ Distinct(s) /\ ValuesOf(s) = ValuesOf(w) \cup {e[2]}
          /\ s[1] = e /\ \A i \in 2 .. Len(w) + 1 : s[i] = w[i - 1]
        <3> DEFINE E == Paths \X Handles
        <3>1. w \in Seq(E) /\ e \in E
            BY Zenon, <1>1, <1>2
        <3> HIDE DEF E
        <3>2. /\ <<e>> \o w \in Seq(E) /\ Len(<<e>> \o w) = Len(w) + 1
              /\ Distinct(<<e>> \o w)
              /\ ValuesOf(<<e>> \o w) = ValuesOf(w) \cup {e[2]}
              /\ (<<e>> \o w)[1] = e
              /\ \A i \in 2 .. Len(w) + 1 : (<<e>> \o w)[i] = w[i - 1]
            BY SMTT(60), <1>4, <2>1, <2>2, <3>1, PushFront
        <3>3. QED
            BY Zenon, <1>3, <3>2 DEF E
    <2>4. QED
        BY Zenon, <2>3 DEF e
<1>6. \A i \in DOMAIN s : s[i] = e \/ \E n \in DOMAIN storage_ : s[i] = storage_[n]
    <2>1. \A i \in DOMAIN s : i = 1 \/ (i \in 2 .. Len(w) + 1 /\ i - 1 \in DOMAIN w)
        BY SMTT(60), <1>2, <1>5
    <2>2. \A i \in DOMAIN w : \E n \in DOMAIN storage_ : w[i] = storage_[n]
        BY Zenon, <1>2 DEF Part
    <2>3. QED
        BY ZenonT(60), <1>5, <2>1, <2>2
<1>7. /\ Part(storage_', s) /\ storage_' \in Seq(Paths \X Handles)
    BY Zenon, <1>5, TrimKeeps
<1>8. Distinct(storage_)' /\ ValuesOf(storage_') \subseteq ValuesOf(storage_) \cup {holds[t]}
    <2>1. Distinct(storage_') /\ ValuesOf(storage_') \subseteq ValuesOf(s)
        BY ZenonT(60), <1>5, <1>7, PartOf
    <2>2. QED
        BY Zenon, <1>4, <1>5, <2>1 DEF Distinct
<1>9. \A i \in DOMAIN storage_' :
          storage_'[i] = e \/ \E n \in DOMAIN storage_ : storage_'[i] = storage_[n]
    BY <1>6, <1>7 DEF Part
<1>10. /\ op'[t] = "idle" /\ \A u \in Threads \ {t} : op'[u] = op[u] /\ holds'[u] = holds[u]
       /\ arg' = arg
    BY Zenon DEF UserInv, PoolTypes, F!Goto
<1>11. \A p \in Paths \ {arg[t]} : inUse_'[p] = inUse_[p]
    BY Zenon, <1>1 DEF UserInv, PoolTypes
<1>12. inUse_'[arg[t]] \in {NoHandle, holds[t]}
    BY Zenon, <1>1 DEF UserInv, PoolTypes
<1>13. Lent'
    <2>1. ASSUME NEW u \in Threads, op'[u] = "using"
          PROVE  /\ u # t /\ op[u] = "using" /\ arg[u] # arg[t] /\ arg[u] \in Paths
                 /\ holds[u] # holds[t] /\ inUse_'[arg[u]] = holds'[u] /\ holds'[u] = holds[u]
        <3>1. u # t /\ op[u] = "using" /\ holds'[u] = holds[u]
            BY Zenon, <1>10, <2>1
        <3>2. arg[u] # arg[t] /\ arg[u] \in Paths /\ inUse_[arg[u]] = holds[u] /\ holds[u] \in Handles
            BY ZenonT(60), <3>1 DEF UserInv, PoolTypes, Lent
        <3>3. holds[u] # holds[t]
            BY <1>1, <3>2 DEF UserInv, OnePath
        <3>4. QED
            BY Zenon, <1>11, <3>1, <3>2, <3>3
    <2>2. QED
        BY SMTT(60), <1>4, <1>5, <1>8, <1>10, <2>1, CacheIs DEF UserInv, Lent
<1>14. OnePath'
    <2>1. \A p, q \in Paths : inUse_'[p] = inUse_'[q] /\ inUse_'[p] # NoHandle => p = q
        BY <1>1, <1>11, <1>12 DEF UserInv, OnePath
    <2>2. ASSUME NEW n \in DOMAIN storage_', NEW p \in Paths, inUse_'[p] = storage_'[n][2]
          PROVE  p = storage_'[n][1]
        <3>1. CASE storage_'[n] = e
            <4>1. inUse_'[p] = holds[t] /\ storage_'[n][1] = arg[t]
                BY <2>2, <3>1
            <4>2. inUse_[p] = holds[t] \/ p = arg[t]
                BY Zenon, <1>11, <4>1
            <4>3. QED
                BY SMTT(60), <1>1, <4>1, <4>2 DEF UserInv, OnePath
        <3>2. CASE \E k \in DOMAIN storage_ : storage_'[n] = storage_[k]
            <4>1. PICK k \in DOMAIN storage_ : storage_'[n] = storage_[k]
                BY Zenon, <3>2
            <4>2. storage_[k][2] \in Handles
                BY <1>2
            <4>3. inUse_'[p] = inUse_[p]
                BY Zenon, <1>1, <1>11, <1>12, <2>2, <4>1, <4>2
            <4>4. QED
                BY <2>2, <4>1, <4>3 DEF UserInv, OnePath
        <3>3. QED
            BY Zenon, <1>9, <3>1, <3>2
    <2>3. QED
        BY Zenon, <2>1, <2>2 DEF OnePath
<1>15. (F!Cache!Values(storage_) \cap closed = {})'
    BY Zenon, <1>1, <1>8, CacheIs DEF UserInv
<1>16. (~closeThrew => \A p \in Paths : inUse_[p] # NoHandle => ~F!Cache!Exists(p))'
    <2>1. ASSUME ~closeThrew', NEW p \in Paths, inUse_'[p] # NoHandle,
                 NEW n \in DOMAIN storage_', storage_'[n][1] = p
          PROVE  FALSE
        <3>1. ~closeThrew /\ inUse_' = [inUse_ EXCEPT ![arg[t]] = NoHandle]
            BY <2>1
        <3>2. p # arg[t] /\ inUse_[p] # NoHandle
            BY ZenonT(60), <1>1, <2>1, <3>1 DEF UserInv, PoolTypes
        <3>3. \E k \in DOMAIN storage_ : storage_[k][1] = p
            BY <1>9, <2>1, <3>2
        <3>4. QED
            BY ZenonT(60), <3>1, <3>2, <3>3 DEF UserInv, F!Cache!Exists, F!Cache!Keys
    <2>2. QED
        BY Zenon, <2>1 DEF F!Cache!Exists, F!Cache!Keys
<1>17. QED
    BY Zenon, <1>5, <1>8, <1>13, <1>14, <1>15, <1>16 DEF UserInv

\* A pool as it is constructed.
LEMMA InitUserInv == F!Init => UserInv /\ ChainInv
<1> SUFFICES ASSUME F!Init PROVE UserInv /\ ChainInv
    BY Zenon
<1>1. PoolTypes
    <2>1. dropped \in BOOLEAN /\ closeThrew \in BOOLEAN
        BY Zenon DEF F!Init
    <2>2. /\ storage_ = << >> /\ capacity_ \in Nat
          /\ inUse_ \in [Paths -> Handles \cup {NoHandle}]
          /\ op \in [Threads -> {"idle", "checkout", "remove", "using"}]
          /\ arg \in [Threads -> Paths]
          /\ holds \in [Threads -> Handles \cup {NoHandle}]
          /\ asleep = {}
        BY Zenon, CapacityAssumption DEF F!Init
    <2>3. QED
        BY <2>1, <2>2 DEF PoolTypes
<1>2. Distinct(storage_) /\ F!Cache!Values(storage_) = {} /\ \A p : ~F!Cache!Exists(p)
    BY DEF F!Init, Distinct, F!Cache!Values, F!Cache!Exists, F!Cache!Keys
<1>3. Lent /\ OnePath
    BY DEF F!Init, Lent, OnePath
<1>4. QED
    BY Zenon, <1>1, <1>2, <1>3 DEF F!Init, UserInv, ChainInv, SignalChain, F!SignalChain

\* checkout() lends a handle that it has taken out of the cache, or has just
\* opened, and then the path has a user.
LEMMA CheckoutInv ==
    ASSUME UserInv, ChainInv, NEW t \in Threads, F!CheckoutCached(t) \/ F!CheckoutOpen(t)
    PROVE  UserInv' /\ ChainInv'
<1>1. /\ op[t] = "checkout" /\ t \notin asleep /\ F!Free(t)
      /\ arg[t] \in Paths /\ inUse_[arg[t]] = NoHandle
    BY Zenon DEF F!CheckoutCached, F!CheckoutOpen, F!Awake, F!Free, UserInv, PoolTypes
<1> DEFINE w == Erased(storage_, arg[t])
<1>2. w \in Seq(Paths \X Handles) /\ Part(w, storage_)
    BY Zenon, EraseStored
<1>3. ASSUME F!CheckoutCached(t)
      PROVE  /\ \E h \in Handles : /\ F!Lend(t, h) /\ h \notin ValuesOf(w) /\ h \notin closed
                                   /\ \A p \in Paths : inUse_[p] # h
             /\ storage_' = w /\ closed' = closed /\ capacity_' = capacity_
    <2>1. F!Cache!Exists(arg[t]) /\ F!Cache!Extract(arg[t])
        BY Zenon, <1>3 DEF F!CheckoutCached
    <2>2. PICK n \in DOMAIN storage_ :
              /\ storage_[n][1] = arg[t]
              /\ storage_[F!Cache!At(storage_, arg[t])] = storage_[n]
              /\ F!Cache!Stored(arg[t]) = {storage_[n][2]}
        BY Zenon, <2>1, EraseStored
    <2>3. F!Lend(t, storage_[n][2])
        BY Zenon, <1>3, <2>2 DEF F!CheckoutCached
    <2>4. storage_[n][2] \in Handles /\ storage_[n][2] \in ValuesOf(storage_)
        BY DEF UserInv, PoolTypes, ValuesOf
    <2>5. storage_[n][2] \notin ValuesOf(w)
        BY Zenon, <2>2, EraseStored
    <2>6. storage_[n][2] \notin closed
        BY Zenon, <2>4, CacheIs DEF UserInv
    <2>7. \A p \in Paths : inUse_[p] # storage_[n][2]
        BY Zenon, <1>1, <2>2, <2>4, NullAssumption DEF UserInv, OnePath
    <2>8. storage_' = w /\ closed' = closed /\ capacity_' = capacity_
        BY Zenon, <2>1, CacheIs DEF F!Cache!Extract
    <2>9. QED
        BY Zenon, <2>3, <2>4, <2>5, <2>6, <2>7, <2>8
<1>4. ASSUME F!CheckoutOpen(t)
      PROVE  /\ \E h \in Handles : /\ F!Lend(t, h) /\ h \notin ValuesOf(w) /\ h \notin closed'
                                   /\ \A p \in Paths : inUse_[p] # h
             /\ storage_' = w /\ capacity_' = capacity_
             /\ closed' \subseteq closed \cup (ValuesOf(storage_) \ ValuesOf(w))
    <2>1. PICK h \in F!Unopened :
              /\ F!Lend(t, h)
              /\ storage_' = F!Cache!Without(storage_, arg[t])
              /\ closed' = (closed \cup F!Cache!Stored(arg[t])) \ {h}
              /\ UNCHANGED capacity_
        BY Zenon, <1>4 DEF F!CheckoutOpen, F!Reopen
    <2>2. h \in Handles /\ h \notin ValuesOf(storage_) /\ \A p \in Paths : inUse_[p] # h
        BY Zenon, CacheIs, NullAssumption DEF F!Unopened, F!Used
    <2>3. storage_' = w
        BY Zenon, <2>1, CacheIs
    <2>4. ValuesOf(w) \subseteq ValuesOf(storage_)
        BY <1>2 DEF Part, ValuesOf
    <2>5. closed' \subseteq closed \cup (ValuesOf(storage_) \ ValuesOf(w)) /\ h \notin closed'
        BY Zenon, <2>1, EraseStored
    <2>6. QED
        BY Zenon, <2>1, <2>2, <2>3, <2>4, <2>5
<1> HIDE DEF w
<1>5. PICK h \in Handles : F!Lend(t, h) /\ h \notin ValuesOf(w) /\ h \notin closed'
                            /\ \A p \in Paths : inUse_[p] # h
    BY Zenon, <1>3, <1>4
<1>6. /\ storage_' = w /\ capacity_' = capacity_
      /\ closed' \subseteq closed \cup (ValuesOf(storage_) \ ValuesOf(w))
    BY Zenon, <1>3, <1>4
<1>7. PoolTypes'
    BY Zenon, <1>1, <1>2, <1>5, <1>6 DEF UserInv, PoolTypes, F!Lend, F!Goto, F!past
<1>8. UserInv'
    BY Zenon, <1>1, <1>5, <1>6, <1>7, LendInv DEF w
<1>9. op' = [op EXCEPT ![t] = "using"] /\ asleep' = asleep /\ dropped' = dropped
      /\ arg' = arg /\ inUse_' = [inUse_ EXCEPT ![arg[t]] = h]
    BY Zenon, <1>5 DEF F!Lend, F!Goto, F!past
<1>10. ChainInv'
    <2>1. \A u \in asleep' : op'[u] \in {"checkout", "remove"}
        BY Zenon, <1>1, <1>9 DEF ChainInv, PoolTypes
    <2>2. op'[t] = "using"
        BY Zenon, <1>9 DEF ChainInv, PoolTypes
    <2>3. SignalChain'
        BY Zenon, <1>1, <1>9, <2>2 DEF SignalChain, F!SignalChain
    <2>4. ASSUME ~dropped', NEW p \in Paths, inUse_'[p] # NoHandle
          PROVE  \E u \in Threads : op'[u] = "using" /\ arg'[u] = p
        <3>1. CASE p = arg[t]
            BY Zenon, <1>9, <2>2, <3>1
        <3>2. CASE p # arg[t]
            <4>1. PICK u \in Threads : op[u] = "using" /\ arg[u] = p
                BY Zenon, <1>9, <2>4, <3>2 DEF ChainInv, PoolTypes
            <4>2. op'[u] = "using"
                BY Zenon, <1>1, <1>9, <4>1 DEF ChainInv, PoolTypes
            <4>3. QED
                BY Zenon, <1>9, <4>1, <4>2
        <3>3. QED
            BY Zenon, <3>1, <3>2
    <2>5. QED
        BY Zenon, <1>7, <2>1, <2>3, <2>4 DEF ChainInv
<1>11. QED
    BY Zenon, <1>8, <1>10

\* checkin(): the path is free again, and the thread that is woken carries the
\* chain on; one that throws breaks it.
LEMMA CheckinInv ==
    ASSUME UserInv, ChainInv, NEW t \in Threads, F!Checkin(t) \/ F!CheckinThrows(t)
    PROVE  UserInv' /\ ChainInv'
<1> DEFINE s == F!Cache!Front(storage_, arg[t], holds[t])
<1>1. /\ op[t] = "using" /\ F!Goto(t, "idle") /\ arg' = arg /\ capacity_' = capacity_
      /\ holds' = [holds EXCEPT ![t] = NoHandle]
    BY Zenon DEF F!Checkin, F!CheckinThrows, F!Cache!Insert
<1>2. \/ /\ inUse_' = [inUse_ EXCEPT ![arg[t]] = NoHandle]
         /\ F!Signal /\ dropped' = dropped /\ closeThrew' = closeThrew
      \/ UNCHANGED <<inUse_, asleep>> /\ dropped' = TRUE /\ closeThrew' = TRUE
    BY Zenon DEF F!Checkin, F!CheckinThrows, F!TrimThrows, F!CloseThrows, F!past
<1>3. s \in Seq(Paths \X Handles)
    <2>1. Erased(storage_, arg[t]) \in Seq(Paths \X Handles)
        BY Zenon, EraseStored
    <2> DEFINE e == <<arg[t], holds[t]>>
    <2>2. e \in Paths \X Handles
        BY Zenon, <1>1 DEF UserInv, PoolTypes, Lent
    <2>3. s = <<e>> \o Erased(storage_, arg[t])
        BY Zenon, CacheIs
    <2> HIDE DEF e, s
    <2>4. QED
        BY <2>1, <2>2, <2>3
<1>4. \E m \in 0 .. Len(s) : /\ storage_' = SubSeq(s, 1, m)
                             /\ closed' = closed \cup (ValuesOf(s) \ ValuesOf(storage_'))
    <2>1. CASE F!Checkin(t)
        <3>1. /\ storage_' = F!Cache!Trim(s, capacity_)
              /\ closed' = closed \cup (ValuesOf(s) \ ValuesOf(storage_'))
            BY Zenon, <2>1, CacheIs DEF F!Checkin, F!Cache!Insert, F!Cache!Over
        <3>2. capacity_ \in Nat
            BY Zenon DEF UserInv, PoolTypes
        <3> HIDE DEF s
        <3>3. PICK m \in 0 .. Len(s) : storage_' = SubSeq(s, 1, m)
            BY Zenon, <1>3, <3>1, <3>2, TrimIs
        <3>4. QED
            BY Zenon, <3>1, <3>3
    <2>2. CASE F!CheckinThrows(t)
        <3>1. PICK m \in capacity_ + 1 .. Len(s) :
                  /\ storage_' = SubSeq(s, 1, m)
                  /\ closed' = closed \cup (ValuesOf(s) \ ValuesOf(SubSeq(s, 1, m)))
            BY Zenon, <2>2, CacheIs DEF F!CheckinThrows, F!TrimThrows
        <3>2. capacity_ \in Nat
            BY Zenon DEF UserInv, PoolTypes
        <3> HIDE DEF s
        <3>3. Len(s) \in Nat
            BY <1>3
        <3>4. m \in 0 .. Len(s)
            BY <3>2, <3>3
        <3>5. QED
            BY Zenon, <3>1, <3>4
    <2>3. QED
        BY Zenon, <2>1, <2>2
<1>5. PICK m \in 0 .. Len(s) : /\ storage_' = SubSeq(s, 1, m)
                               /\ closed' = closed \cup (ValuesOf(s) \ ValuesOf(storage_'))
    BY Zenon, <1>4
<1> HIDE DEF s
<1>6. PoolTypes'
    <2>1. storage_' \in Seq(Paths \X Handles)
        BY Zenon, <1>3, <1>5, TrimKeeps
    <2>2. inUse_' \in [Paths -> Handles \cup {NoHandle}]
        BY Zenon, <1>2 DEF UserInv, PoolTypes
    <2>3. asleep' \subseteq Threads
        BY Zenon, <1>2 DEF UserInv, PoolTypes, F!Signal
    <2>4. dropped' \in BOOLEAN /\ closeThrew' \in BOOLEAN
        BY <1>2, Zenon DEF UserInv, PoolTypes
    <2>5. QED
        BY Zenon, <1>1, <2>1, <2>2, <2>3, <2>4 DEF UserInv, PoolTypes, F!Goto
<1>7. UserInv'
    <2>1. \/ inUse_' = [inUse_ EXCEPT ![arg[t]] = NoHandle] /\ UNCHANGED closeThrew
          \/ UNCHANGED inUse_ /\ closeThrew' = TRUE
        BY Zenon, <1>2
    <2>2. QED
        BY Zenon, <1>1, <1>5, <1>6, <2>1, ReturnInv DEF s
<1>8. op'[t] = "idle" /\ \A u \in Threads \ {t} : op'[u] = op[u]
    BY Zenon, <1>1 DEF UserInv, PoolTypes, F!Goto
<1>9. asleep' \subseteq asleep /\ t \notin asleep
    BY Zenon, <1>1, <1>2 DEF F!Signal, ChainInv
<1>10. ChainInv'
    <2>1. \A u \in asleep' : op'[u] \in {"checkout", "remove"}
        BY SMTT(60), <1>8, <1>9 DEF ChainInv, PoolTypes
    <2>2. ASSUME ~dropped', NEW p \in Paths, inUse_'[p] # NoHandle
          PROVE  \E u \in Threads : op'[u] = "using" /\ arg'[u] = p
        <3>1. p # arg[t] /\ inUse_[p] # NoHandle /\ ~dropped
            BY Zenon, <1>2, <2>2 DEF UserInv, PoolTypes
        <3>2. PICK u \in Threads : op[u] = "using" /\ arg[u] = p
            BY Zenon, <3>1 DEF ChainInv
        <3>3. QED
            BY Zenon, <1>1, <1>8, <3>1, <3>2
    <2>3. SignalChain'
        <3>1. ASSUME ~dropped', asleep' # {}
              PROVE  \E u \in Threads \ asleep' : op'[u] \in {"checkout", "remove", "using"}
            <4>1. PICK u \in asleep : asleep' = asleep \ {u}
                BY Zenon, <1>2, <3>1 DEF F!Signal
            <4>2. u \in Threads /\ u # t /\ op[u] \in {"checkout", "remove"}
                BY Zenon, <1>9 DEF ChainInv, PoolTypes
            <4>3. QED
                BY Zenon, <1>8, <4>1, <4>2
        <3>2. QED
            BY Zenon, <3>1 DEF SignalChain, F!SignalChain
    <2>4. QED
        BY Zenon, <1>6, <2>1, <2>2, <2>3 DEF ChainInv
<1>11. QED
    BY Zenon, <1>7, <1>10

\* A checkout() that throws, and a remove(), take the stale entry out, or leave it
\* there when its close() throws.
LEMMA LeaveInv ==
    ASSUME UserInv, ChainInv, NEW t \in Threads, F!CheckoutThrows(t) \/ F!Remove(t)
    PROVE  UserInv' /\ ChainInv'
<1>1. /\ op[t] \in {"checkout", "remove"} /\ t \notin asleep /\ F!Goto(t, "idle")
      /\ dropped' = TRUE /\ UNCHANGED <<inUse_, arg, holds, asleep>>
    BY Zenon DEF F!CheckoutThrows, F!Remove, F!Awake
<1>2. \/ F!Cache!Remove(arg[t]) /\ closeThrew' = closeThrew
      \/ closeThrew' = TRUE /\ UNCHANGED <<storage_, capacity_, closed>>
    BY Zenon DEF F!CheckoutThrows, F!Remove, F!CloseThrows, F!cache
<1>3. /\ storage_' \in Seq(Paths \X Handles) /\ Part(storage_', storage_)
      /\ closed' \subseteq closed \cup (ValuesOf(storage_) \ ValuesOf(storage_'))
      /\ capacity_' = capacity_
    <2>1. CASE F!Cache!Remove(arg[t])
        <3>1. /\ storage_' = Erased(storage_, arg[t]) /\ capacity_' = capacity_
              /\ closed' = closed \cup F!Cache!Stored(arg[t])
            BY Zenon, <2>1, CacheIs DEF F!Cache!Remove
        <3>2. QED
            BY Zenon, <3>1, EraseStored
    <2>2. CASE UNCHANGED <<storage_, capacity_, closed>>
        BY Zenon, <2>2 DEF UserInv, PoolTypes, Part
    <2>3. QED
        BY Zenon, <1>2, <2>1, <2>2
<1>4. PoolTypes'
    <2>1. dropped' \in BOOLEAN /\ closeThrew' \in BOOLEAN
        BY <1>1, <1>2, Zenon DEF UserInv, PoolTypes
    <2>2. QED
        BY Zenon, <1>1, <1>3, <2>1 DEF UserInv, PoolTypes, F!Goto
<1>5. op'[t] = "idle" /\ \A u \in Threads \ {t} : op'[u] = op[u]
    BY Zenon, <1>1 DEF UserInv, PoolTypes, F!Goto
<1>6. UserInv'
    <2>1. \A u \in Threads : op'[u] = "using" => op[u] = "using"
        BY Zenon, <1>5
    <2>2. closeThrew => closeThrew'
        BY Zenon, <1>2
    <2>3. QED
        BY Zenon, <1>1, <1>3, <1>4, <2>1, <2>2, ShrinkInv
<1>7. ChainInv'
    BY Zenon, <1>1, <1>4, <1>5 DEF ChainInv, PoolTypes, SignalChain, F!SignalChain
<1>8. QED
    BY Zenon, <1>6, <1>7

\* capacity(size) trims the cache, up to a close() that throws.
LEMMA CapacityInv ==
    ASSUME UserInv, ChainInv, NEW n \in Capacities, F!SetCapacity(n)
    PROVE  UserInv' /\ ChainInv'
<1>1. UNCHANGED <<inUse_, op, arg, holds, asleep, dropped>>
    BY Zenon DEF F!SetCapacity
<1>2. closeThrew' = closeThrew \/ closeThrew' = TRUE
    BY Zenon DEF F!SetCapacity, F!TrimThrows, F!CloseThrows
<1>3. n \in Nat /\ capacity_' = n
    BY Zenon, CapacityAssumption DEF F!SetCapacity, F!Cache!Capacity
<1>4. storage_ \in Seq(Paths \X Handles) /\ Len(storage_) \in Nat
    BY DEF UserInv, PoolTypes
<1>5. \E m \in 0 .. Len(storage_) :
          /\ storage_' = SubSeq(storage_, 1, m)
          /\ closed' = closed \cup (ValuesOf(storage_) \ ValuesOf(storage_'))
    <2>1. CASE F!Cache!Capacity(n)
        <3>1. /\ storage_' = F!Cache!Trim(storage_, n)
              /\ closed' = closed \cup (ValuesOf(storage_) \ ValuesOf(storage_'))
            BY Zenon, <2>1, CacheIs DEF F!Cache!Capacity, F!Cache!Over
        <3>2. QED
            BY Zenon, <1>3, <1>4, <3>1, TrimIs
    <2>2. CASE F!TrimThrows(storage_, n)
        <3>1. PICK m \in n + 1 .. Len(storage_) :
                  /\ storage_' = SubSeq(storage_, 1, m)
                  /\ closed' = closed \cup (ValuesOf(storage_) \ ValuesOf(SubSeq(storage_, 1, m)))
            BY Zenon, <2>2, CacheIs DEF F!TrimThrows
        <3>2. m \in 0 .. Len(storage_)
            BY <1>3, <1>4
        <3>3. QED
            BY Zenon, <3>1, <3>2
    <2>3. QED
        BY Zenon, <2>1, <2>2 DEF F!SetCapacity
<1>6. /\ storage_' \in Seq(Paths \X Handles) /\ Part(storage_', storage_)
    BY Zenon, <1>4, <1>5, TrimKeeps
<1>7. PoolTypes'
    <2>1. closeThrew' \in BOOLEAN
        BY <1>2, Zenon DEF UserInv, PoolTypes
    <2>2. QED
        BY Zenon, <1>1, <1>3, <1>6, <2>1 DEF UserInv, PoolTypes
<1>8. UserInv'
    BY <1>1, <1>2, <1>5, <1>6, <1>7, ShrinkInv
<1>9. ChainInv'
    BY Zenon, <1>1, <1>7 DEF ChainInv, SignalChain, F!SignalChain
<1>10. QED
    BY Zenon, <1>8, <1>9

\* A thread waits only for a path that is in use, and then its user is awake.
LEMMA WaitInv ==
    ASSUME UserInv, ChainInv, NEW t \in Threads, F!Wait(t)
    PROVE  UserInv' /\ ChainInv'
<1>1. /\ op[t] \in {"checkout", "remove"} /\ inUse_[arg[t]] # NoHandle /\ arg[t] \in Paths
      /\ asleep' = asleep \cup {t}
      /\ UNCHANGED <<inUse_, storage_, capacity_, closed, op, arg, holds, closeThrew, dropped>>
    BY Zenon DEF F!Wait, F!Free, F!cache, F!past, UserInv, PoolTypes
<1>2. PoolTypes'
    BY Zenon, <1>1 DEF UserInv, PoolTypes
<1>3. UserInv'
    BY Zenon, <1>1, <1>2, ShrinkInv DEF Part
<1>4. SignalChain'
    <2>1. ASSUME ~dropped
          PROVE  \E u \in Threads \ asleep' : op'[u] \in {"checkout", "remove", "using"}
        <3>1. PICK u \in Threads : op[u] = "using" /\ arg[u] = arg[t]
            BY Zenon, <1>1, <2>1 DEF ChainInv
        <3>2. u # t /\ u \notin asleep
            BY Zenon, <1>1, <3>1 DEF ChainInv
        <3>3. QED
            BY Zenon, <1>1, <3>1, <3>2
    <2>2. QED
        BY Zenon, <1>1, <2>1 DEF SignalChain, F!SignalChain
<1>5. ChainInv'
    BY Zenon, <1>1, <1>2, <1>4 DEF ChainInv
<1>6. QED
    BY Zenon, <1>3, <1>5

\* A call begins, or a thread wakes without a signal.
LEMMA QuietInv ==
    ASSUME UserInv, ChainInv, NEW t \in Threads,
           \/ \E kd \in {"checkout", "remove"}, p \in Paths : F!Call(t, kd, p)
           \/ F!SpuriousWake(t)
    PROVE  UserInv' /\ ChainInv'
<1>1. UNCHANGED <<inUse_, storage_, capacity_, closed, holds, closeThrew, dropped>>
    BY Zenon DEF F!Call, F!SpuriousWake, F!cache, F!past
<1>2. ASSUME NEW kd \in {"checkout", "remove"}, NEW p \in Paths, F!Call(t, kd, p)
      PROVE  UserInv' /\ ChainInv'
    <2>1. /\ op[t] = "idle" /\ op' = [op EXCEPT ![t] = kd] /\ arg' = [arg EXCEPT ![t] = p]
          /\ asleep' = asleep
        BY Zenon, <1>2 DEF F!Call, F!Goto
    <2>2. PoolTypes'
        BY Zenon, <1>1, <2>1 DEF UserInv, PoolTypes
    <2>3. /\ op'[t] = kd
          /\ \A u \in Threads \ {t} : op'[u] = op[u] /\ arg'[u] = arg[u]
          /\ \A u \in Threads : op[u] = "using" \/ op'[u] = "using" => u # t
        BY Zenon, <2>1 DEF UserInv, PoolTypes
    <2>4. Lent'
        BY ZenonT(60), <1>1, <2>3, CacheIs DEF UserInv, Lent
    <2>5. UserInv'
        BY <1>1, <2>2, <2>4, CacheIs
           DEF UserInv, OnePath, Distinct, F!Cache!Exists, F!Cache!Keys
    <2>6. t \notin asleep
        BY Zenon, <2>1 DEF ChainInv
    <2>7. ASSUME ~dropped, NEW q \in Paths, inUse_[q] # NoHandle
          PROVE  \E u \in Threads : op'[u] = "using" /\ arg'[u] = q
        <3>1. PICK u \in Threads : op[u] = "using" /\ arg[u] = q
            BY Zenon, <2>7 DEF ChainInv
        <3>2. QED
            BY Zenon, <2>3, <3>1
    <2>8. SignalChain'
        BY Zenon, <1>1, <2>1, <2>3, <2>6 DEF SignalChain, F!SignalChain
    <2>9. \A u \in asleep' : op'[u] \in {"checkout", "remove"}
        BY Zenon, <2>1, <2>3, <2>6 DEF ChainInv, PoolTypes
    <2>10. QED
        BY Zenon, <1>1, <2>2, <2>5, <2>7, <2>8, <2>9 DEF ChainInv
<1>3. ASSUME F!SpuriousWake(t) PROVE UserInv' /\ ChainInv'
    <2>1. t \in asleep /\ asleep' = asleep \ {t} /\ UNCHANGED <<op, arg>>
        BY Zenon, <1>3 DEF F!SpuriousWake
    <2>2. PoolTypes'
        BY Zenon, <1>1, <2>1 DEF UserInv, PoolTypes
    <2>3. UserInv'
        BY Zenon, <1>1, <2>1, <2>2, ShrinkInv DEF Part
    <2>4. SignalChain'
        BY Zenon, <2>1 DEF ChainInv, SignalChain, F!SignalChain
    <2>5. QED
        BY Zenon, <1>1, <2>1, <2>2, <2>3, <2>4 DEF ChainInv
<1>4. QED
    BY Zenon, <1>2, <1>3

\* Every step of the pool keeps both invariants.
LEMMA StepPool == UserInv /\ ChainInv /\ [F!Next]_F!vars => (UserInv /\ ChainInv)'
<1> SUFFICES ASSUME UserInv, ChainInv, [F!Next]_F!vars PROVE UserInv' /\ ChainInv'
    BY ZenonT(60)
<1>1. CASE UNCHANGED F!vars
    BY <1>1 DEF F!vars, F!cache, F!past, UserInv, ChainInv, PoolTypes, Distinct, Lent, OnePath,
        SignalChain, F!SignalChain, F!Cache!Values, F!Cache!Exists, F!Cache!Keys
<1>2. CASE \E t \in Threads : F!Step(t)
    BY Zenon, <1>2, WaitInv, CheckoutInv, LeaveInv, CheckinInv DEF F!Step
<1>3. QED
    BY Zenon, <1>1, <1>2, QuietInv, CapacityInv DEF F!Next

\* The handle a thread has checked out is its own, however many threads and files
\* share the pool, whatever capacity(), remove() and failures do meanwhile
\* (FilePool.cc:45, 74, 89).
THEOREM OneUserHolds == F!Spec => []OneUser
<1>1. UserInv => OneUser
    BY Zenon DEF UserInv, Lent, OneUser, F!OneUser
<1>2. QED
    BY <1>1, InitUserInv, StepPool, PTL DEF F!Spec

\* Nobody sleeps in cond_.wait() without a thread that will signal, or pass the
\* signal on, unless one has left without a checkin() (FilePool.cc:49, 82).
THEOREM SignalChainHolds == F!Spec => []SignalChain
<1>1. ChainInv => SignalChain
    BY Zenon DEF ChainInv
<1>2. QED
    BY <1>1, InitUserInv, StepPool, PTL DEF F!Spec

-----------------------------------------------------------------------------
(* CacheLRU *)

\* The entries of s are in order of last use, the latest first, and no value is
\* there twice.
Ordered(s, use) ==
    \A m, n \in DOMAIN s : m < n => use[s[m][1]] > use[s[n][1]] /\ s[m][2] # s[n][2]

\* A value that has left the cache has not come back, and has left it one way.
OneFate ==
    /\ ValuesOf(entries) \cap (purged \cup extracted \cup overwritten) = {}
    /\ purged \cap (extracted \cup overwritten) = {}
    /\ extracted \cap overwritten = {}

\* The inductive invariant of EntriesKept: its state part, and the types.
LruInv ==
    /\ entries \in Seq(Handles \X Threads) /\ size \in Nat
    /\ now \in Nat /\ lastUse \in [Handles -> 0 .. now]
    /\ Len(entries) <= size
    /\ Ordered(entries, lastUse)
    /\ OneFate

\* No value is forgotten.
Accounted == ValuesOf(entries) \ ValuesOf(entries') \subseteq (purged \cup extracted \cup overwritten)'

\* The operators of this instance of CacheLRU.
LEMMA LruIs ==
    /\ \A s : L!Values(s) = ValuesOf(s)
    /\ \A s, k : L!Without(s, k) = Erased(s, k)
    /\ \A s, k, v : L!Front(s, k, v) = << <<k, v>> >> \o Erased(s, k)
    /\ \A k : L!Stored(k) = StoredIn(entries, k)
    /\ \A k : L!Exists(k) => entries[L!At(entries, k)][2] \in StoredIn(entries, k)
    /\ \A k : L!Exists(k) <=> k \in {entries[n][1] : n \in DOMAIN entries}
<1>1. \A s : L!Values(s) = ValuesOf(s)
    BY Zenon DEF L!Values, ValuesOf
<1>2. \A s, k : L!Without(s, k) = Erased(s, k)
    BY Zenon DEF L!Without, L!At, L!Keys, Erased
<1>3. \A s, k, v : L!Front(s, k, v) = << <<k, v>> >> \o L!Without(s, k)
    BY Zenon DEF L!Front
<1>4. /\ \A k : L!Stored(k) = StoredIn(entries, k)
      /\ \A k : L!Exists(k) => entries[L!At(entries, k)][2] \in StoredIn(entries, k)
    BY DEF L!Stored, L!Exists, L!Keys, L!At, StoredIn, AtIn
<1>5. \A k : L!Exists(k) <=> k \in {entries[n][1] : n \in DOMAIN entries}
    BY Zenon DEF L!Exists, L!Keys
<1>6. QED
    BY Zenon, <1>1, <1>2, <1>3, <1>4, <1>5

\* An ordered list has no key twice, and what is left of it is ordered.
LEMMA OrderedPart ==
    ASSUME NEW use \in [Handles -> Nat], NEW s \in Seq(Handles \X Threads), Ordered(s, use)
    PROVE  /\ Distinct(s)
           /\ \A w \in Seq(Handles \X Threads) : Part(w, s) => Ordered(w, use)
<1>1. \A m \in DOMAIN s : use[s[m][1]] \in Nat
    OBVIOUS
<1>2. \A m, n \in DOMAIN s : m < n => s[m][1] # s[n][1] /\ s[m][2] # s[n][2]
    BY <1>1 DEF Ordered
<1>3. Distinct(s)
    BY SMTT(60), <1>2 DEF Distinct
<1>4. ASSUME NEW w \in Seq(Handles \X Threads), Part(w, s) PROVE Ordered(w, use)
    <2>1. ASSUME NEW i \in DOMAIN w, NEW j \in DOMAIN w, i < j
          PROVE  use[w[i][1]] > use[w[j][1]] /\ w[i][2] # w[j][2]
        <3>1. PICK m, n \in DOMAIN s : m < n /\ w[i] = s[m] /\ w[j] = s[n]
            BY Zenon, <1>4, <2>1 DEF Part
        <3>2. QED
            BY <3>1 DEF Ordered
    <2>2. QED
        BY Zenon, <2>1 DEF Ordered
<1>5. QED
    BY Zenon, <1>3, <1>4

\* What is left of the entries when k has gone, with the value under k apart.
LEMMA EraseEntry ==
    ASSUME LruInv, NEW k
    PROVE  /\ Erased(entries, k) \in Seq(Handles \X Threads)
           /\ Part(Erased(entries, k), entries)
           /\ Ordered(Erased(entries, k), lastUse) /\ Distinct(Erased(entries, k))
           /\ \A i \in DOMAIN Erased(entries, k) : Erased(entries, k)[i][1] # k
           /\ StoredIn(entries, k) = ValuesOf(entries) \ ValuesOf(Erased(entries, k))
           /\ ValuesOf(Erased(entries, k)) \subseteq ValuesOf(entries)
           /\ Len(Erased(entries, k)) <= Len(entries)
           /\ L!Exists(k) => Len(Erased(entries, k)) = Len(entries) - 1
<1> DEFINE w == Erased(entries, k)
<1>1. /\ entries \in Seq(Handles \X Threads) /\ Len(entries) \in Nat
      /\ Ordered(entries, lastUse) /\ lastUse \in [Handles -> Nat]
    BY DEF LruInv
<1>2. Distinct(entries) /\ \A x \in Seq(Handles \X Threads) : Part(x, entries) => Ordered(x, lastUse)
    BY Zenon, <1>1, OrderedPart
<1>3. /\ w \in Seq(Handles \X Threads) /\ Part(w, entries)
      /\ \A i \in DOMAIN w : w[i][1] # k
      /\ Len(w) = IF k \in {entries[n][1] : n \in DOMAIN entries} THEN Len(entries) - 1 ELSE Len(entries)
    BY Zenon, <1>1, <1>2, EraseKeeps
<1>4. StoredIn(entries, k) = ValuesOf(entries) \ ValuesOf(w)
    BY Zenon, <1>1, <1>2, EraseValue
<1>5. Distinct(w) /\ ValuesOf(w) \subseteq ValuesOf(entries)
    BY Zenon, <1>1, <1>2, <1>3, PartOf
<1>6. Len(w) <= Len(entries) /\ (L!Exists(k) => Len(w) = Len(entries) - 1)
    BY <1>1, <1>3, LruIs
<1>7. QED
    BY Zenon, <1>2, <1>3, <1>4, <1>5, <1>6

\* insert() and access(): the entry in front is the one used last.
LEMMA UseFront ==
    ASSUME LruInv, NEW k \in Handles, NEW v \in Threads, L!Uses(k),
           v \notin ValuesOf(Erased(entries, k))
    PROVE  /\ L!Front(entries, k, v) \in Seq(Handles \X Threads)
           /\ Len(L!Front(entries, k, v)) = Len(Erased(entries, k)) + 1
           /\ Ordered(L!Front(entries, k, v), lastUse')
           /\ ValuesOf(L!Front(entries, k, v)) = ValuesOf(Erased(entries, k)) \cup {v}
           /\ now' \in Nat /\ lastUse' \in [Handles -> 0 .. now']
<1> DEFINE w == Erased(entries, k)
           e == <<k, v>>
           s == <<e>> \o w
<1>1. /\ w \in Seq(Handles \X Threads) /\ Ordered(w, lastUse) /\ Distinct(w)
      /\ \A i \in DOMAIN w : w[i][1] # k
    BY Zenon, EraseEntry
<1>2. /\ now \in Nat /\ now' = now + 1
      /\ lastUse \in [Handles -> 0 .. now] /\ lastUse' = [lastUse EXCEPT ![k] = now + 1]
    BY Zenon DEF LruInv, L!Uses
<1>3. now' \in Nat /\ lastUse' \in [Handles -> 0 .. now']
    BY <1>2
<1>4. L!Front(entries, k, v) = s
    BY Zenon, LruIs
<1> HIDE DEF w
<1>5. /\ s \in Seq(Handles \X Threads) /\ Len(s) = Len(w) + 1
      /\ Distinct(s) /\ ValuesOf(s) = ValuesOf(w) \cup {v}
      /\ s[1] = <<k, v>> /\ \A i \in 2 .. Len(w) + 1 : s[i] = w[i - 1]
    <2>1. e \in Handles \X Threads /\ e[1] = k /\ e[2] = v /\ e = <<k, v>>
        BY Zenon
    <2>2. v \notin ValuesOf(w)
        BY Zenon DEF w
    <2> HIDE DEF e
    <2>3. QED
        BY <1>1, <2>1, <2>2, PushFront
<1> HIDE DEF s
<1>6. ASSUME NEW m \in DOMAIN s, NEW n \in DOMAIN s, m < n
      PROVE  lastUse'[s[m][1]] > lastUse'[s[n][1]] /\ s[m][2] # s[n][2]
    <2>1. n - 1 \in DOMAIN w /\ s[n] = w[n - 1] /\ w[n - 1] \in Handles \X Threads
        BY <1>1, <1>5, <1>6
    <2>2. lastUse'[s[n][1]] = lastUse[w[n - 1][1]] /\ lastUse[w[n - 1][1]] \in 0 .. now
        BY Zenon, <1>1, <1>2, <2>1
    <2>3. s[m][2] # s[n][2]
        BY SMTT(60), <1>5, <1>6 DEF Distinct
    <2>4. CASE m = 1
        BY <1>2, <1>5, <2>2, <2>3, <2>4
    <2>5. CASE m # 1
        <3>1. /\ m - 1 \in DOMAIN w /\ s[m] = w[m - 1] /\ w[m - 1] \in Handles \X Threads
              /\ m - 1 < n - 1
            <4>1. m \in 2 .. Len(w) + 1 /\ m - 1 \in DOMAIN w /\ m - 1 < n - 1
                BY <1>1, <1>5, <1>6, <2>5
            <4>2. w[m - 1] \in Handles \X Threads
                BY <1>1, <4>1
            <4>3. QED
                BY Zenon, <1>5, <4>1, <4>2
        <3>2. lastUse'[s[m][1]] = lastUse[w[m - 1][1]]
            BY Zenon, <1>1, <1>2, <3>1
        <3>3. lastUse[w[m - 1][1]] > lastUse[w[n - 1][1]]
            BY Zenon, <1>1, <2>1, <3>1 DEF Ordered
        <3>4. QED
            BY Zenon, <2>2, <2>3, <3>2, <3>3
    <2>6. QED
        BY Zenon, <2>4, <2>5
<1>7. Ordered(s, lastUse')
    BY Zenon, <1>6 DEF Ordered
<1>8. QED
    BY Zenon, <1>3, <1>4, <1>5, <1>7 DEF w

\* trim() of a list to n entries.
LEMMA TrimEntries ==
    ASSUME NEW s \in Seq(Handles \X Threads), NEW use \in [Handles -> Nat], Ordered(s, use),
           NEW n \in Nat
    PROVE  /\ L!Trim(s, n) \in Seq(Handles \X Threads) /\ Len(L!Trim(s, n)) <= n
           /\ Ordered(L!Trim(s, n), use)
           /\ ValuesOf(L!Trim(s, n)) \subseteq ValuesOf(s)
           /\ L!Over(s, n) = ValuesOf(s) \ ValuesOf(L!Trim(s, n))
<1> DEFINE m == IF n < Len(s) THEN n ELSE Len(s)
<1>1. Len(s) \in Nat /\ m \in 0 .. Len(s) /\ m <= n
    OBVIOUS
<1>2. L!Trim(s, n) = SubSeq(s, 1, m)
    BY Zenon DEF L!Trim
<1> HIDE DEF m
<1>3. /\ L!Trim(s, n) \in Seq(Handles \X Threads) /\ Len(L!Trim(s, n)) = m
      /\ Part(L!Trim(s, n), s)
    BY <1>1, <1>2, TrimKeeps
<1>4. Distinct(s) /\ Ordered(L!Trim(s, n), use)
    BY Zenon, <1>3, OrderedPart
<1>5. ValuesOf(L!Trim(s, n)) \subseteq ValuesOf(s)
    BY Zenon, <1>3, <1>4, PartOf
<1>6. L!Over(s, n) = ValuesOf(s) \ ValuesOf(L!Trim(s, n))
    BY Zenon, LruIs DEF L!Over
<1>7. QED
    BY Zenon, <1>1, <1>3, <1>4, <1>5, <1>6

\* insert(): what was under the key is overwritten, what is over capacity purged.
LEMMA InsertLru ==
    ASSUME LruInv, NEW k \in Handles, L!Uses(k), NEW v \in L!Fresh, L!Insert(k, v),
           overwritten' = overwritten \cup L!Stored(k), UNCHANGED extracted
    PROVE  LruInv' /\ Accounted
<1> DEFINE w == Erased(entries, k)
           s == L!Front(entries, k, v)
<1>1. /\ v \in Threads /\ v \notin ValuesOf(entries)
      /\ v \notin purged \cup extracted \cup overwritten
    BY Zenon, LruIs DEF L!Fresh
<1>2. /\ StoredIn(entries, k) = ValuesOf(entries) \ ValuesOf(w)
      /\ ValuesOf(w) \subseteq ValuesOf(entries)
    BY Zenon, EraseEntry
<1>3. /\ s \in Seq(Handles \X Threads) /\ Ordered(s, lastUse')
      /\ ValuesOf(s) = ValuesOf(w) \cup {v}
      /\ now' \in Nat /\ lastUse' \in [Handles -> 0 .. now']
    BY Zenon, <1>1, <1>2, UseFront
<1>4. /\ size \in Nat /\ size' = size /\ entries' = L!Trim(s, size)
      /\ purged' = purged \cup L!Over(s, size)
      /\ overwritten' = overwritten \cup StoredIn(entries, k)
    BY Zenon, LruIs DEF LruInv, L!Insert
<1> HIDE DEF w, s
<1>5. /\ entries' \in Seq(Handles \X Threads) /\ Len(entries') <= size
      /\ Ordered(entries', lastUse')
      /\ ValuesOf(entries') \subseteq ValuesOf(s)
      /\ purged' = purged \cup (ValuesOf(s) \ ValuesOf(entries'))
    <2>1. lastUse' \in [Handles -> Nat]
        BY <1>3
    <2>2. QED
        BY Zenon, <1>3, <1>4, <2>1, TrimEntries
<1>6. OneFate'
    <2>1. (ValuesOf(entries))' = ValuesOf(entries')
        BY Zenon DEF ValuesOf
    <2>2. OneFate
        BY Zenon DEF LruInv
    <2>3. QED
        BY <1>1, <1>2, <1>3, <1>4, <1>5, <2>1, <2>2 DEF OneFate
<1>7. Accounted
    BY Zenon, <1>2, <1>3, <1>4, <1>5 DEF Accounted
<1>8. Ordered(entries, lastUse)'
    BY Zenon, <1>5 DEF Ordered
<1>9. QED
    BY Zenon, <1>3, <1>4, <1>5, <1>6, <1>7, <1>8 DEF LruInv

\* access(): the same values, in another order.
LEMMA AccessLru ==
    ASSUME LruInv, NEW k \in Handles, L!Uses(k), L!Access(k), UNCHANGED <<extracted, overwritten>>
    PROVE  LruInv' /\ Accounted
<1> DEFINE w == Erased(entries, k)
           v == entries[L!At(entries, k)][2]
<1>1. /\ L!Exists(k) /\ entries' = L!Front(entries, k, v)
      /\ UNCHANGED <<size, purged>>
    BY Zenon DEF L!Access
<1>2. StoredIn(entries, k) = {v}
    BY Zenon, <1>1, LruIs DEF StoredIn
<1>3. /\ StoredIn(entries, k) = ValuesOf(entries) \ ValuesOf(w)
      /\ ValuesOf(w) \subseteq ValuesOf(entries)
      /\ Len(w) = Len(entries) - 1
    BY Zenon, <1>1, EraseEntry
<1> HIDE DEF v
<1>4. v \in Threads /\ v \notin ValuesOf(w) /\ v \in ValuesOf(entries)
    <2>1. v \notin ValuesOf(w) /\ v \in ValuesOf(entries)
        BY Zenon, <1>2, <1>3
    <2>2. \A x \in ValuesOf(entries) : x \in Threads
        BY DEF LruInv, ValuesOf
    <2>3. QED
        BY Zenon, <2>1, <2>2
<1>5. /\ entries' \in Seq(Handles \X Threads) /\ Ordered(entries', lastUse')
      /\ ValuesOf(entries') = ValuesOf(w) \cup {v} /\ Len(entries') = Len(w) + 1
      /\ now' \in Nat /\ lastUse' \in [Handles -> 0 .. now']
    BY Zenon, <1>1, <1>4, UseFront
<1> HIDE DEF w
<1>6. ValuesOf(entries') = ValuesOf(entries)
    BY Zenon, <1>2, <1>3, <1>4, <1>5
<1>7. OneFate' /\ Accounted
    BY Zenon, <1>1, <1>6 DEF LruInv, OneFate, Accounted, ValuesOf
<1>8. Ordered(entries, lastUse)'
    BY Zenon, <1>5 DEF Ordered
<1>9. Len(entries') <= size'
    <2>1. Len(entries) \in Nat /\ Len(entries) <= size
        BY DEF LruInv
    <2>2. QED
        BY <1>1, <1>3, <1>5, <2>1
<1>10. QED
    BY Zenon, <1>1, <1>5, <1>7, <1>8, <1>9 DEF LruInv

\* extract() and remove(): the value goes to the caller, or to the purge handler.
LEMMA EraseLru ==
    ASSUME LruInv, NEW k \in Handles,
           \/ L!Extract(k) /\ extracted' = extracted \cup L!Stored(k)
           \/ L!Remove(k) /\ UNCHANGED extracted,
           UNCHANGED <<overwritten, lastUse, now>>
    PROVE  LruInv' /\ Accounted
<1> DEFINE w == Erased(entries, k)
<1>1. /\ w \in Seq(Handles \X Threads) /\ Ordered(w, lastUse)
      /\ StoredIn(entries, k) = ValuesOf(entries) \ ValuesOf(w)
      /\ ValuesOf(w) \subseteq ValuesOf(entries) /\ Len(w) <= Len(entries)
    BY Zenon, EraseEntry
<1>2. /\ entries' = w /\ size' = size
      /\ \/ purged' = purged /\ extracted' = extracted \cup StoredIn(entries, k)
         \/ purged' = purged \cup StoredIn(entries, k) /\ extracted' = extracted
    BY Zenon, LruIs DEF L!Extract, L!Remove
<1> HIDE DEF w
<1>3. OneFate'
    <2>1. (ValuesOf(entries))' = ValuesOf(w)
        BY Zenon, <1>2 DEF ValuesOf
    <2>2. OneFate
        BY Zenon DEF LruInv
    <2>3. QED
        BY Zenon, <1>1, <1>2, <2>1, <2>2 DEF OneFate
<1>4. Accounted
    BY ZenonT(60), <1>1, <1>2 DEF Accounted
<1>5. Ordered(entries, lastUse)'
    BY <1>1, <1>2 DEF Ordered
<1>6. Len(entries') <= size'
    <2>1. Len(entries) \in Nat /\ Len(entries) <= size /\ size \in Nat /\ Len(w) \in Nat
        BY <1>1 DEF LruInv
    <2>2. QED
        BY <1>1, <1>2, <2>1
<1>7. QED
    BY Zenon, <1>1, <1>2, <1>3, <1>4, <1>5, <1>6 DEF LruInv

\* clear() and capacity(): what goes is purged.
LEMMA PurgeLru ==
    ASSUME LruInv, L!Clear \/ \E n \in Capacities : L!Capacity(n),
           UNCHANGED <<extracted, overwritten, lastUse, now>>
    PROVE  LruInv' /\ Accounted
<1>1. /\ entries' \in Seq(Handles \X Threads) /\ Ordered(entries', lastUse)
      /\ size' \in Nat /\ Len(entries') <= size'
      /\ ValuesOf(entries') \subseteq ValuesOf(entries)
      /\ purged' = purged \cup (ValuesOf(entries) \ ValuesOf(entries'))
    <2>1. CASE L!Clear
        <3>1. entries' = << >> /\ size' = size /\ purged' = purged \cup ValuesOf(entries)
            BY Zenon, <2>1, LruIs DEF L!Clear
        <3>2. ValuesOf(entries') = {} /\ Ordered(entries', lastUse)
            BY <3>1 DEF ValuesOf, Ordered
        <3>3. entries' \in Seq(Handles \X Threads) /\ size \in Nat /\ Len(entries') <= size
            BY <3>1 DEF LruInv
        <3>4. QED
            BY Zenon, <3>1, <3>2, <3>3
    <2>2. ASSUME NEW n \in Capacities, L!Capacity(n)
          PROVE  /\ entries' \in Seq(Handles \X Threads) /\ Ordered(entries', lastUse)
                 /\ size' \in Nat /\ Len(entries') <= size'
                 /\ ValuesOf(entries') \subseteq ValuesOf(entries)
                 /\ purged' = purged \cup (ValuesOf(entries) \ ValuesOf(entries'))
        <3>1. /\ n \in Nat /\ size' = n /\ entries' = L!Trim(entries, n)
              /\ purged' = purged \cup L!Over(entries, n)
            BY Zenon, <2>2, CapacityAssumption DEF L!Capacity
        <3>2. /\ entries \in Seq(Handles \X Threads) /\ lastUse \in [Handles -> Nat]
              /\ Ordered(entries, lastUse)
            BY DEF LruInv
        <3>3. QED
            BY Zenon, <3>1, <3>2, TrimEntries
    <2>3. QED
        BY Zenon, <2>1, <2>2
<1>2. OneFate'
    <2>1. (ValuesOf(entries))' = ValuesOf(entries')
        BY Zenon DEF ValuesOf
    <2>2. OneFate
        BY Zenon DEF LruInv
    <2>3. QED
        BY Zenon, <1>1, <2>1, <2>2 DEF OneFate
<1>3. Ordered(entries, lastUse)'
    BY Zenon, <1>1 DEF Ordered
<1>4. QED
    BY Zenon, <1>1, <1>2, <1>3 DEF LruInv, Accounted

\* The cache keeps its entries: in order of last use, within its capacity, each
\* value with one fate and none forgotten, for any capacity and any sequence of
\* calls (CacheLRU.cc:26-141).
THEOREM EntriesKeptHolds == L!Spec => EntriesKept
<1>1. L!Init => LruInv
    <2> SUFFICES ASSUME L!Init PROVE LruInv
        BY Zenon
    <2>1. /\ entries = << >> /\ size \in Nat /\ now = 0 /\ lastUse = [k \in Handles |-> 0]
          /\ purged = {} /\ extracted = {} /\ overwritten = {}
        BY Zenon, CapacityAssumption DEF L!Init
    <2>2. OneFate /\ Ordered(entries, lastUse)
        BY <2>1 DEF OneFate, Ordered
    <2>3. QED
        BY <2>1, <2>2 DEF LruInv
<1>2. ASSUME LruInv, L!Next PROVE LruInv' /\ Accounted
    BY Zenon, <1>2, InsertLru, AccessLru, EraseLru, PurgeLru DEF L!Next
<1>3. ASSUME LruInv, UNCHANGED L!vars PROVE LruInv'
    BY SMTT(60), <1>3 DEF L!vars, LruInv, OneFate, Ordered, ValuesOf
<1>4. LruInv /\ [L!Next]_L!vars => LruInv' /\ [Accounted]_L!vars
    BY Zenon, <1>2, <1>3
<1> DEFINE Kept == /\ Len(entries) <= size
                   /\ \A m, n \in DOMAIN entries : m < n =>
                         /\ lastUse[entries[m][1]] > lastUse[entries[n][1]]
                         /\ entries[m][2] # entries[n][2]
                   /\ L!Values(entries) \cap (purged \cup extracted \cup overwritten) = {}
                   /\ purged \cap (extracted \cup overwritten) = {} /\ extracted \cap overwritten = {}
           Leaves == L!Values(entries) \ L!Values(entries)'
                         \subseteq (purged \cup extracted \cup overwritten)'
<1>5. LruInv => Kept
    BY Zenon, LruIs DEF LruInv, Ordered, OneFate
<1>6. Accounted => Leaves
    BY Zenon DEF Accounted, L!Values, ValuesOf
<1>7. [Accounted]_L!vars => [Leaves]_L!vars
    BY Zenon, <1>6
<1> HIDE DEF Kept, Leaves
<1>8. L!Spec => []Kept /\ [][Leaves]_L!vars
    BY <1>1, <1>4, <1>5, <1>7, PTL DEF L!Spec
<1>9. QED
    BY Zenon, <1>8 DEF EntriesKept, L!EntriesKept, Kept, Leaves
=============================================================================
