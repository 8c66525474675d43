---------------------------- MODULE TxnLogProofs ----------------------------
(***************************************************************************)
(* NothingLost, AssertionsHold, RecoveryComplete and RepeatsAreLeftovers   *)
(* of TxnLog, for any number of threads, events, updates and restarts.     *)
(*                                                                         *)
(* The argument: every ID has one owner at most, be it an event that a     *)
(* thread is at, one that is queued or kept, or one found in the file or   *)
(* the .tmp of that name; and IDs in use are not beyond the counter.  Only the      *)
(* owner's thread writes the files of an ID, hence no lock is needed.  And *)
(* of what was in the directory when recover() listed it, all that is not  *)
(* queued yet is still there and still to come.                            *)
(***************************************************************************)
EXTENDS TxnLog, WellFoundedInduction, TLAPS

Places == {"idle", "named", "logging", "running", "updating", "renaming", "ending"}

AtWork(e) == e \in queued \/ \E t \in Threads : job[t] = e
Active(e) == AtWork(e) \/ e \in kept

Types ==
    /\ nextID_ \in Nat
    /\ file \in [IDs -> Whole \cup {None, Partial}]
    /\ tmp \in [IDs -> Whole \cup {None, Partial}]
    /\ pc \in [Threads -> Places]
    /\ job \in [Threads -> Events \cup {None}]
    /\ id \in [Events -> 0 .. MaxID]
    /\ version \in [Events -> 0 .. MaxUpdates]
    /\ saved \in [Events -> 0 .. MaxUpdates]
    /\ result_ \subseteq Names /\ queued \subseteq Events /\ kept \subseteq Events
    /\ begun \subseteq Events /\ ended \subseteq Events
    /\ \A t \in Threads : pc[t] = "idle" <=> job[t] = None
    /\ \A e \in Events : Active(e) \/ e \in begun => id[e] \in IDs

\* After a crash nothing is left in memory.
OffIsEmpty == rpc = "off" => queued = {} /\ kept = {} /\ result_ = {} /\ \A t \in Threads : job[t] = None

\* e is found in the file or in the .tmp of ID i, or is in memory under it.
Owner(i, e) ==
    \/ file[i] \in Whole /\ file[i][1] = e
    \/ tmp[i] \in Whole /\ tmp[i][1] = e
    \/ Active(e) /\ id[e] = i

OneOwner == \A i \in IDs : \A d, e \in Events : Owner(i, d) /\ Owner(i, e) => d = e

\* An event found under an ID has that ID.
Named == \A i \in IDs : /\ file[i] \in Whole => id[file[i][1]] = i
                        /\ tmp[i] \in Whole => id[tmp[i][1]] = i

\* No ID beyond the counter is in use.
Drawn ==
    /\ rpc # "off" =>
          /\ \A i \in IDs : file[i] # None \/ tmp[i] # None => i <= nextID_
          /\ \A e \in Events : Active(e) => id[e] <= nextID_
    /\ \A n \in result_ : n[1] < nextID_

\* An event is at one place in memory.
OneJob ==
    /\ \A t, u \in Threads : job[t] = job[u] /\ job[t] # None => t = u
    /\ \A t \in Threads : job[t] \notin queued \cup kept
    /\ queued \cap kept = {}

\* What a thread finds under its ID.
Found ==
    \A t \in Threads :
        /\ pc[t] = "named" => file[id[job[t]]] = None
        /\ pc[t] = "logging" => file[id[job[t]]] = Partial
        /\ pc[t] = "renaming" => tmp[id[job[t]]] = <<job[t], version[job[t]]>>

\* An event that has ended, and is in memory still, has no file.
KeptGone == \A e \in kept : file[id[e]] = None

\* The inductive invariant.
IInv ==
    /\ Types /\ OffIsEmpty
    /\ OneOwner /\ Named /\ Drawn /\ OneJob /\ Found /\ KeptGone
    /\ NothingLost

\* A transaction that is logged has been dealt with by recover(), is at work, or
\* is still to be read.
Covered ==
    rpc \in {"on", "done"} /\ crashes > 0 =>
        \A e \in begun \ ended :
            \/ e \in recovered \cup skipped
            \/ \E t \in Threads : job[t] = e
            \/ rpc = "on" /\ <<id[e], 0>> \in result_

\* Nobody is at work on a file that recover() has yet to read, unless it came
\* from a .tmp.
Untouched ==
    /\ ~leftover => \A n \in result_ :
          n[2] = 0 /\ file[n[1]] # None /\ \A e \in Events : Active(e) => id[e] # n[1]
    /\ rpc = "thrown" => leftover

\* A file is pushed once, and an event that has ended leaves no file.
PushedOnce ==
    /\ recovered \subseteq Events
    /\ \A e \in recovered : id[e] \in IDs /\ <<id[e], 0>> \notin result_
    /\ \A e \in ended : id[e] \in IDs
    /\ \A e \in ended \ revived : ~AtWork(e) /\ \A i \in IDs : file[i] \in Whole => file[i][1] # e

\* The invariant of recovery, inductive beside IInv.
RInv == Covered /\ Untouched /\ PushedOnce

-----------------------------------------------------------------------------
\* A nonempty set of numbers up to N has a greatest element.
LEMMA GreatestOf ==
    ASSUME NEW N \in Nat, NEW T, T \subseteq 1 .. N, T # {}
    PROVE  \E m \in T : \A i \in T : i <= m
<1> DEFINE R == OpToRel(<, Nat)
<1> DEFINE U == {N - i : i \in T}
<1>1. U \subseteq Nat
    OBVIOUS
<1>2. U # {}
    <2>1. PICK i \in T : TRUE
        BY Zenon
    <2>2. N - i \in U
        BY Zenon
    <2>3. QED
        BY Zenon, <2>2
<1>3. IsWellFoundedOn(R, Nat)
    BY Zenon, NatLessThanWellFounded
<1>4. \A x, y \in Nat : y < x => <<y, x>> \in R
    BY Zenon DEF OpToRel
<1> HIDE DEF R, U
<1>5. PICK x \in U : \A y \in U : ~(<<y, x>> \in R)
    <2>1. \E x \in U : \A y \in U : ~(<<y, x>> \in R)
        BY Zenon, <1>1, <1>2, <1>3, WFMin
    <2>2. QED
        BY Zenon, <2>1
<1>6. ASSUME NEW y \in U PROVE x <= y
    <2>1. x \in Nat /\ y \in Nat
        BY Zenon, <1>1
    <2>2. ~(y < x)
        BY Zenon, <1>4, <1>5, <2>1
    <2>3. QED
        BY <2>1, <2>2
<1>7. PICK m \in T : x = N - m
    BY Zenon DEF U
<1>8. ASSUME NEW i \in T PROVE i <= m
    <2>1. N - i \in U
        BY Zenon DEF U
    <2>2. N - m <= N - i
        BY Zenon, <1>6, <1>7, <2>1
    <2>3. QED
        BY <2>2
<1>9. QED
    BY Zenon, <1>8

\* The counter is moved beyond every name that is listed.
LEMMA BeyondListing ==
    ASSUME Types
    PROVE  /\ Beyond(nextID_) \in Nat /\ nextID_ <= Beyond(nextID_)
           /\ \A n \in Listing : n[1] < Beyond(nextID_)
<1>1. CASE Listing = {}
    <2>1. Last = {}
        BY Zenon, <1>1 DEF Last
    <2>2. QED
        BY <1>1, <2>1 DEF Beyond, Types
<1>2. CASE Listing # {}
    <2> DEFINE T == {n[1] : n \in Listing}
    <2>1. T \subseteq 1 .. MaxID /\ T # {}
        BY Zenon, <1>2 DEF Listing, Names, IDs
    <2>2. MaxID \in Nat
        BY Zenon, BoundsAssumption
    <2>3. PICK m \in T : \A i \in T : i <= m
        <3> HIDE DEF T
        <3> QED
            BY Zenon, <2>1, <2>2, GreatestOf
    <2>4. m \in Nat
        BY <2>1, <2>2
    <2>5. Last = {m}
        <3>1. m \in Last
            BY Zenon, <2>3 DEF Last
        <3>2. ASSUME NEW i \in Last PROVE i = m
            <4>1. i \in T /\ \A j \in T : j <= i
                BY Zenon DEF Last
            <4>2. i \in Nat
                BY <2>1, <2>2, <4>1
            <4>3. m <= i /\ i <= m
                BY Zenon, <2>3, <4>1
            <4>4. QED
                BY <2>4, <4>2, <4>3
        <3>3. QED
            BY Zenon, <3>1, <3>2
    <2>6. (CHOOSE i \in Last : TRUE) = m
        BY Zenon, <2>5
    <2>7. nextID_ \in Nat
        BY Zenon DEF Types
    <2>8. Beyond(nextID_) = IF m >= nextID_ THEN 1 + m ELSE nextID_
        BY Zenon, <2>5, <2>6 DEF Beyond
    <2>9. ASSUME NEW n \in Listing PROVE n[1] < Beyond(nextID_)
        <3>1. n[1] \in Nat /\ n[1] <= m
            BY <2>1, <2>2, <2>3
        <3>2. QED
            BY <2>4, <2>7, <2>8, <3>1
    <2>10. QED
        BY <2>4, <2>7, <2>8, <2>9
<1>3. QED
    BY Zenon, <1>1, <1>2

\* A log in an empty directory.
LEMMA InitIInv == ASSUME Init PROVE IInv
<1>1. Types
    BY BoundsAssumption, NoneAssumption DEF Init, Types, Active, AtWork, Places, Names
<1>2. OffIsEmpty /\ OneJob /\ Found /\ KeptGone /\ NothingLost
    BY Zenon DEF Init, OffIsEmpty, OneJob, Found, KeptGone, NothingLost
<1>3. Named /\ OneOwner /\ Drawn
    BY ContentAssumption DEF Init, Named, OneOwner, Drawn, Owner, Active, AtWork, Whole
<1>4. QED
    BY Zenon, <1>1, <1>2, <1>3 DEF IInv

\* Steps of recover() that push nothing, and stuttering.
LEMMA QuietIInv ==
    ASSUME IInv, result_' \subseteq result_, rpc' = rpc \/ (rpc # "off" /\ rpc' # "off"),
           UNCHANGED <<nextID_, file, tmp, pc, job, id, version, queued, kept, begun, ended, saved>>
    PROVE  IInv'
<1>1. Types' /\ OffIsEmpty'
    BY Zenon DEF IInv, Types, OffIsEmpty, Active, AtWork
<1>2. OneOwner' /\ Named' /\ OneJob' /\ Found' /\ KeptGone' /\ NothingLost'
    BY SMTT(60) DEF IInv, OneOwner, Owner, Active, AtWork, Named, OneJob, Found, KeptGone, NothingLost
<1>3. Drawn'
    BY Zenon DEF IInv, Drawn, Active, AtWork
<1>4. QED
    BY Zenon, <1>1, <1>2, <1>3 DEF IInv

\* begin() draws an ID nobody uses.
LEMMA BeginIInv == ASSUME IInv, NEW t \in Threads, NEW e \in Events, Begin(t, e) PROVE IInv'
<1>a. job[t] = None /\ e # None /\ ~Active(e) /\ rpc # "off" /\ nextID_ + 1 \in IDs
    BY NoneAssumption, BoundsAssumption DEF Begin, IInv, Types, IDs
<1>b. \A u \in Threads : job'[u] = IF u = t THEN e ELSE job[u]
    BY Zenon DEF Begin, IInv, Types
<1>c. \A d \in Events : id'[d] = IF d = e THEN nextID_ + 1 ELSE id[d]
    BY Zenon, <1>a DEF Begin, IInv, Types
<1>d. UNCHANGED <<file, tmp, queued, kept>>
    BY Zenon DEF Begin, disk
<1>Types. Types'
    BY SMTT(60), BoundsAssumption, NoneAssumption, ContentAssumption
    DEF Begin, IInv, Types, OffIsEmpty, Active, AtWork, Places, IDs, Goto, disk, recover, past
<1>OffIsEmpty. OffIsEmpty'
    BY Zenon DEF Begin, IInv, OffIsEmpty, memory, recover
<1>OneOwner. OneOwner'
    <2>1. \A d \in Events : ~Owner(nextID_ + 1, d)
        BY <1>a, ContentAssumption DEF IInv, Types, Drawn, Owner, Whole
    <2>2. ASSUME NEW i \in IDs, NEW d \in Events, Owner(i, d)' PROVE Owner(i, d) \/ (d = e /\ i = nextID_ + 1)
        BY Zenon, <1>b, <1>c, <1>d, <2>2 DEF Owner, Active, AtWork
    <2>3. QED
        BY <2>1, <2>2 DEF IInv, OneOwner
<1>Named. Named'
    BY DEF Begin, IInv, Named, IDs, disk
<1>Drawn. Drawn'
    BY SMTT(60) DEF Begin, IInv, Types, Drawn, Active, AtWork, IDs, Whole, Names, disk, recover
<1>OneJob. OneJob'
    BY Zenon, <1>a, <1>b, <1>d DEF IInv, OneJob, Active, AtWork
<1>Found. Found'
    BY SMTT(60), <1>Types DEF Begin, IInv, Types, Found, Active, AtWork, Drawn, IDs, Goto, disk
<1>NothingLost. NothingLost'
    BY DEF Begin, IInv, Types, NothingLost, IDs, disk, past
<1>KeptGone. KeptGone'
    BY <1>a, <1>c, <1>d DEF Begin, IInv, Types, Active, AtWork, KeptGone, IDs
<1>q. QED
    BY Zenon, <1>Types, <1>OffIsEmpty, <1>OneOwner, <1>Named, <1>Drawn, <1>OneJob, <1>Found, <1>KeptGone,
       <1>NothingLost DEF IInv

\* begin() of an event that has ended keeps the ID, which is nobody else's.
LEMMA BeginAgainIInv == ASSUME IInv, NEW t \in Threads, NEW e \in Events, BeginAgain(t, e) PROVE IInv'
<1>a. job[t] = None /\ e # None /\ e \in kept /\ rpc # "off" /\ id[e] \in IDs
    BY Zenon, NoneAssumption DEF BeginAgain, IInv, Types, Active
<1>b. \A u \in Threads : job'[u] = IF u = t THEN e ELSE job[u]
    BY Zenon DEF BeginAgain, IInv, Types
<1>c. /\ UNCHANGED <<nextID_, file, tmp, id, version, queued, result_, rpc, saved>>
      /\ kept' = kept \ {e} /\ begun' = begun \ {e} /\ ended' = ended \ {e}
    BY Zenon DEF BeginAgain, disk, recover
<1>d. \A d \in Events : Active(d)' => Active(d)
    BY Zenon, <1>a, <1>b, <1>c DEF Active, AtWork
<1>e. \A u \in Threads : pc'[u] = IF u = t THEN "named" ELSE pc[u]
    BY Zenon DEF BeginAgain, IInv, Types, Goto
<1>Types. Types'
    <2>1. pc' \in [Threads -> Places] /\ job' \in [Threads -> Events \cup {None}]
        BY Zenon DEF BeginAgain, IInv, Types, Places, Goto
    <2>2. \A u \in Threads : pc'[u] = "idle" <=> job'[u] = None
        BY <1>a, <1>b, <1>e DEF IInv, Types
    <2>3. \A d \in Events : Active(d)' \/ d \in begun' => id'[d] \in IDs
        BY Zenon, <1>c, <1>d DEF IInv, Types
    <2>4. QED
        BY Zenon, <1>c, <2>1, <2>2, <2>3 DEF IInv, Types
<1>OffIsEmpty. OffIsEmpty'
    BY Zenon, <1>a, <1>c DEF OffIsEmpty
<1>OneOwner. OneOwner'
    <2>1. ASSUME NEW i \in IDs, NEW d \in Events, Owner(i, d)' PROVE Owner(i, d)
        BY Zenon, <1>c, <1>d, <2>1 DEF Owner
    <2>2. QED
        BY Zenon, <2>1 DEF IInv, OneOwner
<1>Named. Named'
    BY Zenon, <1>c DEF IInv, Named
<1>Drawn. Drawn'
    BY Zenon, <1>c, <1>d DEF IInv, Drawn
<1>OneJob. OneJob'
    BY ZenonT(60), <1>a, <1>b, <1>c DEF IInv, OneJob
<1>Found. Found'
    BY <1>a, <1>b, <1>c, <1>e DEF IInv, Found, KeptGone
<1>NothingLost. NothingLost'
    BY Zenon, <1>c DEF IInv, NothingLost
<1>KeptGone. KeptGone'
    BY Zenon, <1>c DEF IInv, KeptGone
<1>q. QED
    BY Zenon, <1>Types, <1>OffIsEmpty, <1>OneOwner, <1>Named, <1>Drawn, <1>OneJob, <1>Found, <1>KeptGone,
       <1>NothingLost DEF IInv

\* begin() opens the file of that ID, which is still incomplete.
LEMMA BeginOpenIInv == ASSUME IInv, NEW t \in Threads, BeginOpen(t) PROVE IInv'
<1> DEFINE i == id[job[t]]
<1>a. job[t] \in Events /\ i \in IDs /\ file[i] = None
    BY Zenon DEF BeginOpen, IInv, Types, Found, Active, AtWork
<1>b. /\ file' = [file EXCEPT ![i] = Partial] /\ Goto(t, "logging")
      /\ UNCHANGED <<tmp, job, id, version, nextID_, queued, kept, recover, past>>
    BY Zenon, <1>a DEF BeginOpen
<1> HIDE DEF i
<1>Types. Types'
    BY Zenon, <1>a, <1>b, NoneAssumption DEF IInv, Types, Active, AtWork, Goto, recover, past, Places, i
<1>OffIsEmpty. OffIsEmpty'
    BY Zenon DEF BeginOpen, IInv, Types, OffIsEmpty, memory, disk, recover
<1>OneOwner. OneOwner'
    BY <1>a, <1>b, ContentAssumption DEF IInv, OneOwner, Owner, Active, AtWork, Whole, i
<1>Named. Named'
    BY <1>a, <1>b, ContentAssumption DEF IInv, Named, Whole, i
<1>Drawn. Drawn'
    BY <1>a, <1>b DEF IInv, Drawn, Active, AtWork, recover, i
<1>OneJob. OneJob'
    BY Zenon, <1>a, <1>b DEF IInv, OneJob, i
<1>Found. Found'
    <2>1. \A u \in Threads : u # t /\ job[u] # None => id[job[u]] # i
        <3>1. SUFFICES ASSUME NEW u \in Threads, u # t, job[u] # None PROVE id[job[u]] # i
            BY Zenon
        <3>2. job[u] \in Events /\ job[u] # job[t]
            BY Zenon, <1>a, <3>1, NoneAssumption DEF IInv, Types, OneJob
        <3>3. Owner(i, job[t]) /\ (id[job[u]] = i => Owner(i, job[u]))
            BY Zenon DEF Owner, Active, AtWork, i
        <3>4. QED
            BY Zenon, <1>a, <3>2, <3>3 DEF IInv, OneOwner
    <2>2. \A j \in IDs : file'[j] = IF j = i THEN Partial ELSE file[j]
        BY Zenon, <1>b DEF IInv, Types
    <2>3. \A u \in Threads : pc'[u] = IF u = t THEN "logging" ELSE pc[u]
        BY Zenon, <1>b DEF IInv, Types, Goto
    <2>4. \A u \in Threads : pc[u] # "idle" => id[job[u]] \in IDs /\ job[u] # None
        BY Zenon DEF IInv, Types, Active, AtWork
    <2>5. QED
        BY SMTT(60), <1>a, <1>b, <2>1, <2>2, <2>3, <2>4 DEF IInv, Found, i
<1>NothingLost. NothingLost'
    <2>1. \A e \in begun \ ended : id[e] \in IDs /\ id[e] # i
        <3>1. SUFFICES ASSUME NEW e \in begun \ ended PROVE id[e] \in IDs /\ id[e] # i
            BY Zenon
        <3>2. e \in Events /\ id[e] \in IDs /\ file[id[e]] = <<e, saved[e]>> /\ saved[e] \in 0 .. MaxUpdates
            BY Zenon DEF IInv, Types, NothingLost
        <3>3. file[id[e]] \in Whole
            BY <3>2 DEF Whole
        <3>4. QED
            BY Zenon, <1>a, <3>2, <3>3, ContentAssumption DEF Whole
    <2>2. \A j \in IDs : file'[j] = IF j = i THEN Partial ELSE file[j]
        BY Zenon, <1>b DEF IInv, Types
    <2>3. QED
        BY Zenon, <1>b, <2>1, <2>2 DEF IInv, NothingLost, past
<1>KeptGone. KeptGone'
    <2>1. job[t] \in Events /\ Active(job[t]) /\ id[job[t]] \in IDs
        BY Zenon DEF BeginOpen, IInv, Types, Active, AtWork
    <2>2. ASSUME NEW e \in kept PROVE e \in Events /\ id[e] \in IDs /\ id[e] # id[job[t]]
        <3>1. e \in Events /\ Active(e) /\ id[e] \in IDs /\ e # job[t]
            BY Zenon DEF IInv, Types, Active, OneJob
        <3>2. QED
            BY Zenon, <2>1, <3>1 DEF IInv, OneOwner, Owner
    <2>3. QED
        BY <2>1, <2>2 DEF BeginOpen, IInv, Types, KeptGone
<1>q. QED
    BY Zenon, <1>Types, <1>OffIsEmpty, <1>OneOwner, <1>Named, <1>Drawn, <1>OneJob, <1>Found, <1>KeptGone,
       <1>NothingLost DEF IInv

\* begin() completes the file.
LEMMA BeginReturnIInv == ASSUME IInv, NEW t \in Threads, BeginReturn(t) PROVE IInv'
<1>Types. Types'
    BY Zenon DEF BeginReturn, IInv, Types, Active, AtWork, Places, Whole, Goto, recover
<1>OffIsEmpty. OffIsEmpty'
    BY Zenon DEF BeginReturn, IInv, OffIsEmpty, memory, disk, recover, past
<1>OneOwner. OneOwner'
    BY DEF BeginReturn, IInv, OneOwner, Owner, Active, AtWork
<1>Named. Named'
    BY DEF BeginReturn, IInv, Named
<1>Drawn. Drawn'
    <2>1. job[t] \in Events /\ Active(job[t]) /\ id[job[t]] \in IDs
        BY Zenon DEF BeginReturn, IInv, Types, Active, AtWork
    <2>2. \A j \in IDs : file'[j] # None => file[j] # None \/ j = id[job[t]]
        BY <2>1 DEF BeginReturn, IInv
    <2>3. rpc # "off" => id[job[t]] <= nextID_
        BY Zenon, <2>1 DEF IInv, Drawn
    <2>4. UNCHANGED <<tmp, job, id, nextID_, queued, kept, recover>>
        BY Zenon DEF BeginReturn
    <2>5. QED
        BY Zenon, <2>2, <2>3, <2>4 DEF IInv, Drawn, Active, AtWork, recover
<1>OneJob. OneJob'
    BY Zenon DEF BeginReturn, IInv, OneJob
<1>Found. Found'
    BY DEF BeginReturn, IInv, Types, Found, OneOwner, Owner, Active, AtWork, OneJob, Goto
<1>NothingLost. NothingLost'
    BY ContentAssumption DEF BeginReturn, IInv, Types, NothingLost, Active, AtWork, Found
<1>KeptGone. KeptGone'
    <2>1. job[t] \in Events /\ Active(job[t]) /\ id[job[t]] \in IDs
        BY Zenon DEF BeginReturn, IInv, Types, Active, AtWork
    <2>2. ASSUME NEW e \in kept PROVE e \in Events /\ id[e] \in IDs /\ id[e] # id[job[t]]
        <3>1. e \in Events /\ Active(e) /\ id[e] \in IDs /\ e # job[t]
            BY Zenon DEF IInv, Types, Active, OneJob
        <3>2. QED
            BY Zenon, <2>1, <3>1 DEF IInv, OneOwner, Owner
    <2>3. QED
        BY SMTT(60), <2>1, <2>2 DEF BeginReturn, IInv, Types, KeptGone
<1>q. QED
    BY Zenon, <1>Types, <1>OffIsEmpty, <1>OneOwner, <1>Named, <1>Drawn, <1>OneJob, <1>Found, <1>KeptGone,
       <1>NothingLost DEF IInv

\* update() opens the .tmp of its ID.
LEMMA UpdateIInv == ASSUME IInv, NEW t \in Threads, Update(t) PROVE IInv'
<1>Types. Types'
    BY BoundsAssumption DEF Update, OpenNext, IInv, Types, Active, AtWork, Places, Goto, recover, past
<1>OffIsEmpty. OffIsEmpty'
    BY Zenon DEF Update, OpenNext, IInv, OffIsEmpty, memory, disk, recover
<1>OneOwner. OneOwner'
    <2>1. ASSUME NEW i \in IDs, NEW d \in Events, Owner(i, d)' PROVE Owner(i, d)
        BY <2>1, ContentAssumption DEF Update, OpenNext, IInv, Owner, Active, AtWork, Whole
    <2>2. QED
        BY Zenon, <2>1 DEF IInv, OneOwner
<1>Named. Named'
    BY ContentAssumption DEF Update, OpenNext, IInv, Named, Whole
<1>Drawn. Drawn'
    BY ZenonT(60) DEF Update, OpenNext, IInv, Types, Drawn, Active, AtWork, recover
<1>OneJob. OneJob'
    BY Zenon DEF Update, OpenNext, IInv, OneJob
<1>Found. Found'
    BY SMTT(60) DEF Update, OpenNext, IInv, Types, Found, OneOwner, Owner, Active, AtWork, OneJob, Goto
<1>NothingLost. NothingLost'
    BY Zenon DEF Update, OpenNext, IInv, NothingLost, past
<1>KeptGone. KeptGone'
    BY Zenon DEF Update, OpenNext, IInv, KeptGone
<1>q. QED
    BY Zenon, <1>Types, <1>OffIsEmpty, <1>OneOwner, <1>Named, <1>Drawn, <1>OneJob, <1>Found, <1>KeptGone,
       <1>NothingLost DEF IInv

\* update() completes the .tmp.
LEMMA UpdateCloseIInv == ASSUME IInv, NEW t \in Threads, UpdateClose(t) PROVE IInv'
<1>Types. Types'
    BY Zenon DEF UpdateClose, IInv, Types, Active, AtWork, Places, Whole, Goto, recover, past
<1>OffIsEmpty. OffIsEmpty'
    BY Zenon DEF UpdateClose, IInv, OffIsEmpty, memory, disk, recover
<1>OneOwner. OneOwner'
    BY DEF UpdateClose, IInv, OneOwner, Owner, Active, AtWork
<1>Named. Named'
    BY DEF UpdateClose, IInv, Named
<1>Drawn. Drawn'
    <2>1. job[t] \in Events /\ Active(job[t]) /\ id[job[t]] \in IDs
        BY Zenon DEF UpdateClose, IInv, Types, Active, AtWork
    <2>2. \A j \in IDs : tmp'[j] # None => tmp[j] # None \/ j = id[job[t]]
        BY <2>1 DEF UpdateClose, IInv
    <2>3. rpc # "off" => id[job[t]] <= nextID_
        BY Zenon, <2>1 DEF IInv, Drawn
    <2>4. UNCHANGED <<file, job, id, nextID_, queued, kept, recover>>
        BY Zenon DEF UpdateClose
    <2>5. QED
        BY Zenon, <2>2, <2>3, <2>4 DEF IInv, Drawn, Active, AtWork, recover
<1>OneJob. OneJob'
    BY Zenon DEF UpdateClose, IInv, OneJob
<1>Found. Found'
    BY DEF UpdateClose, IInv, Types, Found, OneOwner, Owner, Active, AtWork, Goto
<1>NothingLost. NothingLost'
    BY Zenon DEF UpdateClose, IInv, NothingLost, past
<1>KeptGone. KeptGone'
    BY Zenon DEF UpdateClose, IInv, KeptGone
<1>q. QED
    BY Zenon, <1>Types, <1>OffIsEmpty, <1>OneOwner, <1>Named, <1>Drawn, <1>OneJob, <1>Found, <1>KeptGone,
       <1>NothingLost DEF IInv

\* update() renames the .tmp to the file, whose owner it is.
LEMMA UpdateReturnIInv == ASSUME IInv, NEW t \in Threads, UpdateReturn(t) PROVE IInv'
<1>Types. Types'
    BY ZenonT(60) DEF UpdateReturn, IInv, Types, Active, AtWork, Places, Goto, recover
<1>OffIsEmpty. OffIsEmpty'
    BY Zenon DEF UpdateReturn, IInv, OffIsEmpty, memory, disk, recover, past
<1>OneOwner. OneOwner'
    BY SMTT(60), ContentAssumption DEF UpdateReturn, IInv, OneOwner, Owner, Active, AtWork, Whole
<1>Named. Named'
    BY ContentAssumption DEF UpdateReturn, IInv, Named, Whole
<1>Drawn. Drawn'
    BY DEF UpdateReturn, IInv, Drawn, Active, AtWork, recover
<1>OneJob. OneJob'
    BY Zenon DEF UpdateReturn, IInv, OneJob
<1>Found. Found'
    BY DEF UpdateReturn, IInv, Types, Found, OneOwner, Owner, Active, AtWork, OneJob, Goto
<1>NothingLost. NothingLost'
    <2>1. job[t] \in Events /\ Active(job[t]) /\ id[job[t]] \in IDs
        BY Zenon DEF UpdateReturn, IInv, Types, Active, AtWork
    <2>2. ASSUME NEW e \in begun' \ ended', e # job[t] PROVE id[e] # id[job[t]]
        <3>1. e \in Events /\ file[id[e]] = <<e, saved[e]>> /\ saved[e] \in 0 .. MaxUpdates /\ id[e] \in IDs
            BY Zenon, <2>2 DEF UpdateReturn, IInv, Types, NothingLost
        <3>2. Owner(id[e], e)
            BY <3>1 DEF Owner, Whole
        <3>3. id[e] = id[job[t]] => Owner(id[e], job[t])
            BY Zenon, <2>1 DEF Owner
        <3>4. QED
            BY Zenon, <2>1, <2>2, <3>1, <3>2, <3>3 DEF IInv, OneOwner
    <2>3. ASSUME NEW e \in begun' \ ended', e # job[t] PROVE file'[id'[e]] = <<e, saved'[e]>>
        BY SMTT(60), <2>1, <2>2, <2>3 DEF UpdateReturn, IInv, NothingLost
    <2>4. job[t] \in begun' \ ended' => file'[id'[job[t]]] = <<job[t], saved'[job[t]]>>
        BY Zenon, <2>1 DEF UpdateReturn, IInv, Types, Found
    <2>5. QED
        BY Zenon, <2>3, <2>4 DEF NothingLost
<1>KeptGone. KeptGone'
    <2>1. job[t] \in Events /\ Active(job[t]) /\ id[job[t]] \in IDs
        BY Zenon DEF UpdateReturn, IInv, Types, Active, AtWork
    <2>2. ASSUME NEW e \in kept PROVE e \in Events /\ id[e] \in IDs /\ id[e] # id[job[t]]
        <3>1. e \in Events /\ Active(e) /\ id[e] \in IDs /\ e # job[t]
            BY Zenon DEF IInv, Types, Active, OneJob
        <3>2. QED
            BY Zenon, <2>1, <3>1 DEF IInv, OneOwner, Owner
    <2>3. QED
        BY <2>1, <2>2 DEF UpdateReturn, IInv, Types, KeptGone
<1>q. QED
    BY Zenon, <1>Types, <1>OffIsEmpty, <1>OneOwner, <1>Named, <1>Drawn, <1>OneJob, <1>Found, <1>KeptGone,
       <1>NothingLost DEF IInv

\* end() is called.
LEMMA EndIInv == ASSUME IInv, NEW t \in Threads, NEW b \in BOOLEAN, End(t, b) PROVE IInv'
<1>Types. Types'
    BY Zenon DEF End, IInv, Types, Active, AtWork, Places, Goto, recover, past
<1>OffIsEmpty. OffIsEmpty'
    BY Zenon DEF End, IInv, OffIsEmpty, memory, disk, recover
<1>OneOwner. OneOwner'
    BY DEF End, IInv, OneOwner, Owner, Active, AtWork
<1>Named. Named'
    BY Zenon DEF End, IInv, Named
<1>Drawn. Drawn'
    BY Zenon DEF End, IInv, Drawn, Active, AtWork, recover
<1>OneJob. OneJob'
    BY Zenon DEF End, IInv, OneJob
<1>Found. Found'
    BY DEF End, IInv, Found, Goto
<1>NothingLost. NothingLost'
    BY Zenon DEF End, IInv, NothingLost, past
<1>KeptGone. KeptGone'
    BY Zenon DEF End, IInv, KeptGone
<1>q. QED
    BY Zenon, <1>Types, <1>OffIsEmpty, <1>OneOwner, <1>Named, <1>Drawn, <1>OneJob, <1>Found, <1>KeptGone,
       <1>NothingLost DEF IInv

\* end() removes the file of its own ID, hence no other event's.
LEMMA EndReturnIInv == ASSUME IInv, NEW t \in Threads, EndReturn(t) PROVE IInv'
<1>Types. Types'
    BY ZenonT(60), NoneAssumption DEF EndReturn, Unlink, IInv, Types, Active, AtWork, Places, Goto, recover
<1>OffIsEmpty. OffIsEmpty'
    BY Zenon DEF EndReturn, Unlink, IInv, Types, OffIsEmpty, memory, disk, recover, past
<1>OneOwner. OneOwner'
    BY NoneAssumption, ContentAssumption DEF EndReturn, Unlink, IInv, OneOwner, Owner, Active, AtWork, Whole
<1>Named. Named'
    BY ContentAssumption DEF EndReturn, Unlink, IInv, Named, Whole
<1>Drawn. Drawn'
    BY NoneAssumption DEF EndReturn, Unlink, IInv, Drawn, Active, AtWork, recover
<1>OneJob. OneJob'
    <2>1. job[t] \in Events /\ None \notin Events /\ None \notin queued \cup kept
        BY Zenon, NoneAssumption DEF EndReturn, IInv, Types
    <2>2. \A u \in Threads : job'[u] = IF u = t THEN None ELSE job[u]
        BY Zenon DEF EndReturn, IInv, Types
    <2>3. kept' = kept \cup {job[t]} /\ queued' = queued
        BY Zenon DEF EndReturn
    <2>4. \A u \in Threads : u # t => job[u] # job[t]
        BY Zenon, <2>1 DEF IInv, OneJob
    <2>5. QED
        BY SMTT(60), <2>1, <2>2, <2>3, <2>4 DEF IInv, OneJob
<1>Found. Found'
    BY DEF EndReturn, Unlink, IInv, Types, Found, OneOwner, Owner, Active, AtWork, OneJob, Goto
<1>NothingLost. NothingLost'
    <2>1. job[t] \in Events /\ Active(job[t]) /\ id[job[t]] \in IDs
        BY ZenonT(60) DEF EndReturn, IInv, Types, Active, AtWork
    <2>2. ASSUME NEW e \in begun' \ ended', e # job[t] PROVE id[e] # id[job[t]]
        <3>1. e \in Events /\ file[id[e]] = <<e, saved[e]>> /\ saved[e] \in 0 .. MaxUpdates /\ id[e] \in IDs
            BY Zenon, <2>2 DEF EndReturn, IInv, Types, NothingLost
        <3>2. Owner(id[e], e)
            BY <3>1 DEF Owner, Whole
        <3>3. id[e] = id[job[t]] => Owner(id[e], job[t])
            BY Zenon, <2>1 DEF Owner
        <3>4. QED
            BY Zenon, <2>1, <2>2, <3>1, <3>2, <3>3 DEF IInv, OneOwner
    <2>3. ASSUME NEW e \in begun' \ ended', e # job[t] PROVE file'[id'[e]] = <<e, saved'[e]>>
        BY SMTT(60), <2>1, <2>2, <2>3 DEF EndReturn, Unlink, IInv, NothingLost
    <2>4. job[t] \in begun' \ ended' => file'[id'[job[t]]] = <<job[t], saved'[job[t]]>>
        BY Zenon, <2>1 DEF EndReturn, IInv
    <2>5. QED
        BY Zenon, <2>3, <2>4 DEF NothingLost
<1>KeptGone. KeptGone'
    <2>1. job[t] \in Events /\ Active(job[t]) /\ id[job[t]] \in IDs
        BY Zenon DEF EndReturn, IInv, Types, Active, AtWork
    <2>2. ASSUME NEW e \in kept PROVE e \in Events /\ id[e] \in IDs /\ id[e] # id[job[t]]
        <3>1. e \in Events /\ Active(e) /\ id[e] \in IDs /\ e # job[t]
            BY Zenon DEF IInv, Types, Active, OneJob
        <3>2. QED
            BY Zenon, <2>1, <3>1 DEF IInv, OneOwner, Owner
    <2>3. QED
        BY <2>1, <2>2 DEF EndReturn, Unlink, IInv, Types, KeptGone
<1>q. QED
    BY Zenon, <1>Types, <1>OffIsEmpty, <1>OneOwner, <1>Named, <1>Drawn, <1>OneJob, <1>Found, <1>KeptGone,
       <1>NothingLost DEF IInv

\* A crash keeps what is on the disk.
LEMMA CrashIInv == ASSUME IInv, Crash PROVE IInv'
<1>Types. Types'
    BY NoneAssumption DEF Crash, IInv, Types, Active, AtWork, Places, disk, past
<1>OffIsEmpty. OffIsEmpty'
    BY Zenon DEF Crash, IInv, OffIsEmpty
<1>OneOwner. OneOwner'
    BY NoneAssumption DEF Crash, IInv, OneOwner, Owner, Active, AtWork, disk
<1>Named. Named'
    BY Zenon DEF Crash, IInv, Named, disk
<1>Drawn. Drawn'
    BY Zenon DEF Crash, IInv, Drawn
<1>OneJob. OneJob'
    BY Zenon DEF Crash, IInv, OneJob
<1>Found. Found'
    BY Zenon DEF Crash, IInv, Found
<1>NothingLost. NothingLost'
    BY Zenon DEF Crash, IInv, NothingLost, disk, past
<1>KeptGone. KeptGone'
    BY Zenon DEF Crash, KeptGone
<1>q. QED
    BY Zenon, <1>Types, <1>OffIsEmpty, <1>OneOwner, <1>Named, <1>Drawn, <1>OneJob, <1>Found, <1>KeptGone,
       <1>NothingLost DEF IInv

\* RecoverThread() moves the counter beyond every name in the directory.
LEMMA RestartIInv == ASSUME IInv, Restart PROVE IInv'
<1>Types. Types'
    BY Zenon, BeyondListing DEF Restart, IInv, Types, Active, AtWork, Listing, disk, memory
<1>OffIsEmpty. OffIsEmpty'
    BY Zenon DEF Restart, IInv, OffIsEmpty
<1>OneOwner. OneOwner'
    BY <1>Types DEF Restart, IInv, Types, OneOwner, Owner, Active, AtWork, memory, disk
<1>Named. Named'
    BY Zenon DEF Restart, IInv, Named, memory, disk
<1>Drawn. Drawn'
    <2>1. UNCHANGED <<file, tmp, queued, kept, job, id>> /\ nextID_' = Beyond(nextID_) /\ result_' = Listing
        BY Zenon DEF Restart, disk, memory
    <2>2. \A e \in Events : ~Active(e)'
        BY Zenon, <2>1, NoneAssumption DEF Restart, IInv, OffIsEmpty, Active, AtWork
    <2>3. ASSUME NEW i \in IDs, file[i] # None \/ tmp[i] # None PROVE i <= Beyond(nextID_)
        <3>1. <<i, 0>> \in Listing \/ <<i, 1>> \in Listing
            BY <2>3 DEF Listing, Names, Content
        <3>2. i < Beyond(nextID_) /\ Beyond(nextID_) \in Nat /\ i \in Nat
            BY <3>1, BeyondListing DEF IInv, IDs
        <3>3. QED
            BY <3>2
    <2>4. QED
        BY Zenon, <2>1, <2>2, <2>3, BeyondListing DEF IInv, Drawn
<1>OneJob. OneJob'
    BY Zenon, <1>Types, BoundsAssumption, NoneAssumption, ContentAssumption
    DEF Restart, IInv, Types, OneJob, OffIsEmpty, Places, IDs, Whole, Names, Goto, memory, disk, recover, past
<1>Found. Found'
    BY Zenon DEF Restart, IInv, Found, memory, disk
<1>NothingLost. NothingLost'
    BY Zenon DEF Restart, IInv, NothingLost, memory, disk
<1>KeptGone. KeptGone'
    BY Zenon DEF Restart, IInv, KeptGone, memory, disk
<1>q. QED
    BY Zenon, <1>Types, <1>OffIsEmpty, <1>OneOwner, <1>Named, <1>Drawn, <1>OneJob, <1>Found, <1>KeptGone,
       <1>NothingLost DEF IInv

\* recover() queues the event it has read, under the ID of the name.
LEMMA RecoverPushIInv == ASSUME IInv, NEW n \in Names, RecoverPush(n) PROVE IInv'
<1> DEFINE e == Content(n)[1]
<1>a. n \in result_ /\ n[1] \in IDs /\ Content(n) \in Whole /\ e \in Events /\ Content(n)[2] \in 0 .. MaxUpdates
    BY Zenon DEF RecoverPush, First, Names, Whole
<1>b. id[e] = n[1] /\ Owner(n[1], e)
    BY Zenon, <1>a DEF IInv, Named, Content, Owner
<1>c. id' = id
    BY <1>a, <1>b DEF RecoverPush, IInv, Types
<1>d. /\ UNCHANGED <<file, tmp, nextID_, job, pc, rpc, begun, ended, saved>>
      /\ result_' = result_ \ {n} /\ rpc = "on"
    BY Zenon DEF RecoverPush, First, disk
<1>e. \/ UNCHANGED <<queued, kept, version>>
      \/ /\ \A t \in Threads : job[t] # e
         /\ queued' = queued \cup {e} /\ kept' = kept \ {e} /\ version' = [version EXCEPT ![e] = Content(n)[2]]
    BY Zenon DEF RecoverPush
<1> HIDE DEF e
<1>Types. Types'
    BY Zenon, <1>a, <1>b, <1>c, <1>d, <1>e DEF IInv, Types, Active, AtWork
<1>OffIsEmpty. OffIsEmpty'
    BY Zenon DEF RecoverPush, First, IInv, OffIsEmpty
<1>OneOwner. OneOwner'
    <2>1. ASSUME NEW i \in IDs, NEW d \in Events, Owner(i, d)' PROVE Owner(i, d)
        BY Zenon, <2>1, <1>a, <1>b, <1>c, <1>d, <1>e DEF Owner, Active, AtWork
    <2>2. QED
        BY Zenon, <2>1 DEF IInv, OneOwner
<1>Named. Named'
    BY Zenon, <1>c, <1>d DEF IInv, Named
<1>Drawn. Drawn'
    <2>1. n[1] <= nextID_ /\ \A d \in Events : Active(d)' => Active(d) \/ d = e
        BY <1>a, <1>b, <1>c, <1>d, <1>e DEF RecoverPush, IInv, Types, Active, AtWork
    <2>2. QED
        BY Zenon, <1>a, <1>b, <1>c, <1>d, <2>1 DEF IInv, Drawn
<1>OneJob. OneJob'
    BY Zenon, <1>a, <1>b, <1>c, <1>d, <1>e DEF IInv, OneJob
<1>Found. Found'
    BY Zenon, <1>a, <1>b, <1>c, <1>d, <1>e DEF IInv, Types, Found
<1>NothingLost. NothingLost'
    BY Zenon, <1>c, <1>d DEF IInv, NothingLost
<1>KeptGone. KeptGone'
    BY Zenon, <1>c, <1>d, <1>e DEF IInv, KeptGone
<1>q. QED
    BY Zenon, <1>Types, <1>OffIsEmpty, <1>OneOwner, <1>Named, <1>Drawn, <1>OneJob, <1>Found, <1>KeptGone,
       <1>NothingLost DEF IInv

\* A thread takes an event that recover() has queued.
LEMMA ResumeIInv == ASSUME IInv, NEW t \in Threads, NEW e \in Events, Resume(t, e) PROVE IInv'
<1>Types. Types'
    BY Zenon, NoneAssumption DEF Resume, IInv, Types, Active, AtWork, Places, Goto, disk, recover, past
<1>OffIsEmpty. OffIsEmpty'
    BY Zenon DEF Resume, IInv, OffIsEmpty, memory, recover
<1>OneOwner. OneOwner'
    BY DEF Resume, IInv, Types, OneOwner, Owner, Active, AtWork, disk
<1>Named. Named'
    BY Zenon DEF Resume, IInv, Named, disk
<1>Drawn. Drawn'
    BY DEF Resume, IInv, Drawn, Active, AtWork, disk, recover
<1>OneJob. OneJob'
    BY DEF Resume, IInv, OneJob
<1>Found. Found'
    BY Zenon, <1>Types DEF Resume, IInv, Types, Found, Goto, disk
<1>NothingLost. NothingLost'
    BY Zenon DEF Resume, IInv, NothingLost, disk, past
<1>KeptGone. KeptGone'
    BY Zenon DEF Resume, IInv, KeptGone, disk
<1>q. QED
    BY Zenon, <1>Types, <1>OffIsEmpty, <1>OneOwner, <1>Named, <1>Drawn, <1>OneJob, <1>Found, <1>KeptGone,
       <1>NothingLost DEF IInv

\* Every step keeps the inductive invariant.
LEMMA StepIInv == ASSUME IInv, [Next]_vars PROVE IInv'
<1>1. ASSUME NEW t \in Threads, NEW e \in Events, Begin(t, e) \/ BeginAgain(t, e) \/ Resume(t, e) PROVE IInv'
    BY Zenon, <1>1, BeginIInv, BeginAgainIInv, ResumeIInv
<1>2. ASSUME NEW t \in Threads, BeginOpen(t) \/ BeginReturn(t) PROVE IInv'
    BY Zenon, <1>2, BeginOpenIInv, BeginReturnIInv
<1>3. ASSUME NEW t \in Threads, Update(t) \/ UpdateClose(t) \/ UpdateReturn(t) PROVE IInv'
    BY Zenon, <1>3, UpdateIInv, UpdateCloseIInv, UpdateReturnIInv
<1>4. ASSUME NEW t \in Threads, NEW backup \in BOOLEAN, End(t, backup) PROVE IInv'
    BY Zenon, <1>4, EndIInv
<1>5. ASSUME NEW t \in Threads, EndReturn(t) PROVE IInv'
    BY Zenon, <1>5, EndReturnIInv
<1>6. ASSUME NEW n \in Names, RecoverPush(n) PROVE IInv'
    BY Zenon, <1>6, RecoverPushIInv
<1>7. ASSUME NEW n \in Names, RecoverSkip(n) \/ RecoverThrows(n) PROVE IInv'
    BY Zenon, <1>7, QuietIInv DEF RecoverSkip, RecoverThrows, First, disk, memory, past
<1>8. CASE RecoverReturn
    BY Zenon, <1>8, QuietIInv DEF RecoverReturn, disk, memory, past
<1>9. CASE Crash \/ Restart
    BY Zenon, <1>9, CrashIInv, RestartIInv
<1>10. CASE UNCHANGED vars
    BY Zenon, <1>10, QuietIInv DEF vars, disk, memory, recover, past
<1>11. QED
    BY Zenon, <1>1, <1>2, <1>3, <1>4, <1>5, <1>6, <1>7, <1>8, <1>9, <1>10 DEF Next

\* The invariant holds of every behaviour of TxnLog.cc, crashes and restarts
\* included.
THEOREM Invariance == Spec => []IInv
<1>1. Init => IInv
    BY Zenon, InitIInv
<1>2. IInv /\ [Next]_vars => IInv'
    BY Zenon, StepIInv
<1>3. QED
    BY <1>1, <1>2, PTL DEF Spec

\* No transaction whose begin() has returned is lost before end(), wherever the
\* process dies (TxnLog.cc:139, 154, 168).
THEOREM NothingLostHolds == Spec => []NothingLost
<1>1. IInv => NothingLost
    BY Zenon DEF IInv
<1>2. QED
    BY <1>1, Invariance, PTL

\* The assertions of begin() and of recover() never fail (TxnLog.cc:146, 248), and
\* the ID under which an event begins is that of no other event in memory or in a
\* .tmp, even if the counter was lost with the machine.
THEOREM AssertionsHoldHolds == Spec => []AssertionsHold
<1>1. ASSUME IInv PROVE AssertionsHold
    <2>1. ASSUME NEW t \in Threads, pc[t] = "named", NEW e \in Events \ {job[t]} PROVE ~Uses(e, id[job[t]])
        <3>1. job[t] \in Events /\ Active(job[t]) /\ id[job[t]] \in IDs
            BY Zenon, <1>1, <2>1 DEF IInv, Types, Active, AtWork
        <3>2. ~Owner(id[job[t]], e)
            BY Zenon, <1>1, <2>1, <3>1 DEF IInv, OneOwner, Owner
        <3>3. QED
            BY Zenon, <3>2 DEF Uses, Owner, Active, AtWork
    <2>2. QED
        BY Zenon, <1>1, <2>1 DEF IInv, Found, Drawn, AssertionsHold
<1>2. QED
    BY <1>1, Invariance, PTL

-----------------------------------------------------------------------------
\* begin() draws an ID beyond every name that is still to be read.
LEMMA BeginRInv == ASSUME IInv, RInv, NEW t \in Threads, NEW e \in Events, Begin(t, e) PROVE RInv'
<1>a. /\ UNCHANGED <<file, queued, kept, result_, rpc, crashes, begun, ended, recovered, skipped, leftover, revived>>
      /\ job[t] = None /\ nextID_ \in Nat
    BY Zenon DEF Begin, IInv, Types, disk, recover, past
<1>b. \A u \in Threads : job'[u] = IF u = t THEN e ELSE job[u]
    BY Zenon DEF Begin, IInv, Types
<1>c. \A d \in Events : id'[d] = IF d = e THEN nextID_ + 1 ELSE id[d]
    BY Zenon DEF Begin, IInv, Types
<1>d. e \notin begun /\ e \notin ended /\ e \notin recovered
    <2>1. id[e] \notin IDs
        BY DEF Begin, IDs
    <2>2. e \notin begun
        BY Zenon, <2>1 DEF IInv, Types
    <2>3. e \notin ended /\ e \notin recovered
        BY Zenon, <2>1 DEF RInv, PushedOnce
    <2>4. QED
        BY Zenon, <2>2, <2>3
<1>Covered. Covered'
    <2>1. \A d \in begun \ ended : d \in Events /\ d # None /\ id'[d] = id[d]
        BY Zenon, <1>c, <1>d, NoneAssumption DEF IInv, Types
    <2>2. \A d \in begun \ ended : (\E u \in Threads : job[u] = d) => \E u \in Threads : job'[u] = d
        BY Zenon, <1>a, <1>b, <2>1
    <2>3. QED
        BY Zenon, <1>a, <2>1, <2>2 DEF RInv, Covered
<1>Untouched. Untouched'
    <2>1. \A d \in Events : Active(d)' => Active(d) \/ d = e
        BY Zenon, <1>a, <1>b DEF Active, AtWork
    <2>2. \A n \in result_ : n[1] < nextID_ /\ n[1] \in Nat
        BY DEF IInv, Types, Drawn, Names, IDs
    <2>3. QED
        BY <1>a, <1>c, <2>1, <2>2 DEF RInv, Untouched
<1>PushedOnce. PushedOnce'
    <2>1. \A d \in Events : AtWork(d)' => AtWork(d) \/ d = e
        BY Zenon, <1>a, <1>b DEF AtWork
    <2>2. ended \subseteq Events /\ recovered \subseteq Events
        BY Zenon DEF IInv, RInv, Types, PushedOnce
    <2>3. QED
        BY Zenon, <1>a, <1>c, <1>d, <2>1, <2>2 DEF RInv, PushedOnce
<1>q. QED
    BY Zenon, <1>Covered, <1>Untouched, <1>PushedOnce DEF RInv

\* begin() of an event that has ended: it is in memory already, and starts over.
LEMMA BeginAgainRInv ==
    ASSUME IInv, RInv, NEW t \in Threads, NEW e \in Events, BeginAgain(t, e) PROVE RInv'
<1>a. /\ UNCHANGED <<file, id, queued, result_, rpc, crashes, recovered, skipped, leftover, revived>>
      /\ kept' = kept \ {e} /\ begun' = begun \ {e} /\ ended' = ended \ {e}
      /\ e \in kept /\ job[t] = None
    BY Zenon DEF BeginAgain, IInv, Types, disk, recover
<1>b. \A u \in Threads : job'[u] = IF u = t THEN e ELSE job[u]
    BY Zenon DEF BeginAgain, IInv, Types
<1>c. \A d \in Events : Active(d)' => Active(d)
    BY Zenon, <1>a, <1>b DEF Active, AtWork
<1>Covered. Covered'
    <2>1. \A d \in begun : d # None
        BY Zenon, NoneAssumption DEF IInv, Types
    <2>2. \A d \in begun : (\E u \in Threads : job[u] = d) => \E u \in Threads : job'[u] = d
        BY Zenon, <1>a, <1>b, <2>1
    <2>3. begun' \ ended' \subseteq begun \ ended
        BY Zenon, <1>a
    <2>4. QED
        BY Zenon, <1>a, <2>2, <2>3 DEF RInv, Covered
<1>Untouched. Untouched'
    BY Zenon, <1>a, <1>c DEF RInv, Untouched
<1>PushedOnce. PushedOnce'
    <2>1. \A d \in ended' : d \in ended /\ d # e /\ (AtWork(d)' => AtWork(d))
        BY Zenon, <1>a, <1>b DEF AtWork
    <2>2. QED
        BY Zenon, <1>a, <2>1 DEF RInv, PushedOnce
<1>q. QED
    BY Zenon, <1>Covered, <1>Untouched, <1>PushedOnce DEF RInv

\* begin() creates the file.
LEMMA BeginOpenRInv == ASSUME IInv, RInv, NEW t \in Threads, BeginOpen(t) PROVE RInv'
<1>a. job[t] \in Events /\ id[job[t]] \in IDs /\ file[id[job[t]]] = None
    BY Zenon DEF BeginOpen, IInv, Types, Found, Active, AtWork
<1>b. /\ UNCHANGED <<id, job, queued, kept, result_, rpc, crashes, begun, ended, recovered, skipped, leftover, revived>>
      /\ file' = [file EXCEPT ![id[job[t]]] = Partial]
    BY Zenon, <1>a DEF BeginOpen, recover, past
<1>c. \A i \in IDs : file'[i] = IF i = id[job[t]] THEN Partial ELSE file[i]
    BY Zenon, <1>a, <1>b DEF IInv, Types
<1>Covered. Covered'
    BY Zenon, <1>b DEF RInv, Covered
<1>Untouched. Untouched'
    <2>1. \A n \in result_ : n[1] \in IDs
        BY Zenon DEF IInv, Types, Names
    <2>2. QED
        BY <1>b, ContentAssumption DEF RInv, Untouched, Active, AtWork
<1>PushedOnce. PushedOnce'
    BY <1>b, <1>c, ContentAssumption DEF RInv, PushedOnce, Active, AtWork, Whole
<1>q. QED
    BY Zenon, <1>Covered, <1>Untouched, <1>PushedOnce DEF RInv

\* begin() completes it: the event is at work from now on.
LEMMA BeginReturnRInv == ASSUME IInv, RInv, NEW t \in Threads, BeginReturn(t) PROVE RInv'
<1>Covered. Covered'
    BY Zenon DEF BeginReturn, RInv, Covered, recover
<1>Untouched. Untouched'
    BY SMTT(60), ContentAssumption, NoneAssumption
    DEF BeginReturn, IInv, RInv, Untouched, Types, Drawn, Active, AtWork, OneOwner, Owner, Whole, Goto,
       disk, memory, recover, past
<1>PushedOnce. PushedOnce'
    BY ContentAssumption, NoneAssumption
    DEF BeginReturn, IInv, RInv, PushedOnce, Types, Active, AtWork, Named, OneJob, Whole, Goto, disk,
       memory, recover, past
<1>q. QED
    BY Zenon, <1>Covered, <1>Untouched, <1>PushedOnce DEF RInv

\* update() opens the .tmp.
LEMMA UpdateRInv == ASSUME IInv, RInv, NEW t \in Threads, Update(t) PROVE RInv'
<1>Covered. Covered'
    BY Zenon DEF Update, RInv, Covered, recover, past
<1>Untouched. Untouched'
    BY Zenon DEF Update, OpenNext, RInv, Untouched, Active, AtWork, recover, past
<1>PushedOnce. PushedOnce'
    BY Zenon DEF Update, OpenNext, RInv, PushedOnce, Active, AtWork, recover, past
<1>q. QED
    BY Zenon, <1>Covered, <1>Untouched, <1>PushedOnce DEF RInv

\* update() completes the .tmp.
LEMMA UpdateCloseRInv == ASSUME IInv, RInv, NEW t \in Threads, UpdateClose(t) PROVE RInv'
<1>Covered. Covered'
    BY Zenon DEF UpdateClose, RInv, Covered, recover, past
<1>Untouched. Untouched'
    BY Zenon DEF UpdateClose, RInv, Untouched, Active, AtWork, recover, past
<1>PushedOnce. PushedOnce'
    BY Zenon DEF UpdateClose, RInv, PushedOnce, Active, AtWork, recover, past
<1>q. QED
    BY Zenon, <1>Covered, <1>Untouched, <1>PushedOnce DEF RInv

\* update() renames it: an event that has ended is not at work, unless it was revived.
LEMMA UpdateReturnRInv == ASSUME IInv, RInv, NEW t \in Threads, UpdateReturn(t) PROVE RInv'
<1>Covered. Covered'
    BY Zenon DEF UpdateReturn, RInv, Covered, recover
<1>Untouched. Untouched'
    BY ContentAssumption, NoneAssumption
    DEF UpdateReturn, IInv, RInv, Untouched, Types, Drawn, Active, AtWork, OneOwner, Owner, Whole, Goto,
       disk, memory, recover, past
<1>PushedOnce. PushedOnce'
    <2>1. job[t] \in Events /\ AtWork(job[t]) /\ id[job[t]] \in IDs
        BY ZenonT(60) DEF UpdateReturn, IInv, Types, AtWork, Active
    <2>2. \A i \in IDs : file'[i] = IF i = id[job[t]] THEN tmp[i] ELSE file[i]
        BY Zenon, <2>1 DEF UpdateReturn, IInv, Types
    <2>3. tmp[id[job[t]]] = <<job[t], version[job[t]]>>
        BY Zenon DEF UpdateReturn, IInv, Found
    <2>4. UNCHANGED <<id, job, queued, kept, result_, ended, recovered, revived>>
        BY Zenon DEF UpdateReturn, recover
    <2>5. job[t] \notin ended \ revived
        BY Zenon, <2>1 DEF RInv, PushedOnce
    <2>6. \A e \in ended \ revived : \A i \in IDs : file'[i] \in Whole => file'[i][1] # e
        BY <2>2, <2>3, <2>5 DEF RInv, PushedOnce
    <2>7. \A e \in Events : AtWork(e)' <=> AtWork(e)
        BY Zenon, <2>4 DEF AtWork
    <2>8. ended \subseteq Events
        BY Zenon DEF IInv, Types
    <2>9. QED
        BY Zenon, <2>4, <2>6, <2>7, <2>8 DEF RInv, PushedOnce
<1>q. QED
    BY Zenon, <1>Covered, <1>Untouched, <1>PushedOnce DEF RInv

\* end() is called.
LEMMA EndRInv == ASSUME IInv, RInv, NEW t \in Threads, NEW b \in BOOLEAN, End(t, b) PROVE RInv'
<1>Covered. Covered'
    BY Zenon DEF End, RInv, Covered, recover, past
<1>Untouched. Untouched'
    BY ContentAssumption, NoneAssumption
    DEF End, IInv, RInv, Untouched, Types, Drawn, Active, AtWork, OneOwner, Owner, Whole, Goto, disk,
       memory, recover, past
<1>PushedOnce. PushedOnce'
    BY ZenonT(60) DEF End, RInv, PushedOnce, Active, AtWork, recover, past
<1>q. QED
    BY Zenon, <1>Covered, <1>Untouched, <1>PushedOnce DEF RInv

\* end() removes the file of an event at work, hence none that is still to be read.
LEMMA EndReturnRInv == ASSUME IInv, RInv, NEW t \in Threads, EndReturn(t) PROVE RInv'
<1>Covered. Covered'
    BY SMTT(60) DEF EndReturn, RInv, Covered, recover
<1>Untouched. Untouched'
    BY SMTT(60), ContentAssumption, NoneAssumption
    DEF EndReturn, Unlink, IInv, RInv, Untouched, Types, Drawn, Active, AtWork, OneOwner, Owner, Whole,
       Goto, disk, memory, recover, past
<1>PushedOnce. PushedOnce'
    BY ContentAssumption, NoneAssumption
    DEF EndReturn, Unlink, IInv, RInv, PushedOnce, Types, Active, AtWork, Named, OneJob, Whole, Goto,
       disk, memory, recover, past
<1>q. QED
    BY Zenon, <1>Covered, <1>Untouched, <1>PushedOnce DEF RInv

\* A queued event is at work already.
LEMMA ResumeRInv == ASSUME IInv, RInv, NEW t \in Threads, NEW e \in Events, Resume(t, e) PROVE RInv'
<1>Covered. Covered'
    <2>1. \A u \in Threads : job'[u] = IF u = t THEN e ELSE job[u]
        BY Zenon DEF Resume, IInv, Types
    <2>2. job[t] = None /\ \A d \in begun : d # None
        BY Zenon, NoneAssumption DEF Resume, IInv, Types
    <2>3. UNCHANGED <<id, result_, rpc, crashes, begun, ended, recovered, skipped>>
        BY Zenon DEF Resume, recover, past
    <2>4. \A d \in begun \ ended : (\E u \in Threads : job[u] = d) => \E u \in Threads : job'[u] = d
        BY Zenon, <2>1, <2>2
    <2>5. QED
        BY Zenon, <2>3, <2>4 DEF RInv, Covered
<1>Untouched. Untouched'
    BY SMTT(60), ContentAssumption, NoneAssumption
    DEF Resume, IInv, RInv, Untouched, Types, Drawn, Active, AtWork, OneOwner, Owner, Whole, Goto, disk,
       memory, recover, past
<1>PushedOnce. PushedOnce'
    BY ContentAssumption, NoneAssumption
    DEF Resume, IInv, RInv, PushedOnce, Types, Active, AtWork, Named, OneJob, Whole, Goto, disk, memory,
       recover, past
<1>q. QED
    BY Zenon, <1>Covered, <1>Untouched, <1>PushedOnce DEF RInv

\* A crash leaves nothing to read.
LEMMA CrashRInv == ASSUME IInv, RInv, Crash PROVE RInv'
<1>Covered. Covered'
    BY Zenon DEF Crash, Covered
<1>Untouched. Untouched'
    BY Zenon DEF Crash, Untouched
<1>PushedOnce. PushedOnce'
    <2>1. UNCHANGED <<id, file, ended, recovered, revived>> /\ result_' = {}
        BY Zenon DEF Crash, disk, past
    <2>2. \A e \in Events : ~AtWork(e)'
        BY Zenon, NoneAssumption DEF Crash, AtWork
    <2>3. ended \subseteq Events
        BY Zenon DEF IInv, Types
    <2>4. QED
        BY Zenon, <2>1, <2>2, <2>3 DEF RInv, PushedOnce
<1>q. QED
    BY Zenon, <1>Covered, <1>Untouched, <1>PushedOnce DEF RInv

\* Every transaction that is logged has a name in the listing.
LEMMA RestartRInv == ASSUME IInv, RInv, Restart PROVE RInv'
<1>Covered. Covered'
    <2>1. ASSUME NEW e \in begun \ ended PROVE <<id[e], 0>> \in Listing
        <3>1. id[e] \in IDs /\ file[id[e]] = <<e, saved[e]>> /\ e \in Events /\ saved[e] \in 0 .. MaxUpdates
            BY Zenon DEF IInv, Types, NothingLost
        <3>2. file[id[e]] # None
            BY <3>1, ContentAssumption DEF Whole
        <3>3. QED
            BY Zenon, <3>1, <3>2 DEF Listing, Names, Content
    <2>2. QED
        BY Zenon, <2>1 DEF Restart, Covered, memory
<1>Untouched. Untouched'
    <2>1. UNCHANGED <<file, queued, kept, job>> /\ rpc' = "on" /\ result_' = Listing
        BY Zenon DEF Restart, disk, memory
    <2>2. \A e \in Events : ~Active(e)'
        BY Zenon, <2>1, NoneAssumption DEF Restart, IInv, OffIsEmpty, Active, AtWork
    <2>3. ~leftover' => \A n \in Listing : n[2] = 0
        BY Zenon DEF Restart, Listing, Names
    <2>4. QED
        BY Zenon, <2>1, <2>2, <2>3 DEF Untouched, Listing, Content
<1>PushedOnce. PushedOnce'
    BY Zenon DEF Restart, RInv, PushedOnce, Active, AtWork, disk, memory
<1>q. QED
    BY Zenon, <1>Covered, <1>Untouched, <1>PushedOnce DEF RInv

\* A name is read, and the event it holds is queued or known already.
LEMMA RecoverPushRInv == ASSUME IInv, RInv, NEW n \in Names, RecoverPush(n) PROVE RInv'
<1> DEFINE e == Content(n)[1]
<1>a. /\ n \in result_ /\ n[1] \in IDs /\ n[2] \in {0, 1} /\ n = <<n[1], n[2]>>
      /\ Content(n) \in Whole /\ e \in Events
    BY DEF RecoverPush, First, Names, Whole
<1>b. id[e] = n[1]
    BY Zenon, <1>a DEF IInv, Named, Content
<1>c. id' = id
    BY <1>a, <1>b DEF RecoverPush, IInv, Types
<1>d. /\ UNCHANGED <<file, job, rpc, crashes, begun, ended, skipped, leftover>>
      /\ result_' = result_ \ {n} /\ recovered' = recovered \cup {e} /\ rpc = "on"
    BY Zenon DEF RecoverPush, First, disk
<1>e. \/ UNCHANGED <<queued, kept, revived>>
      \/ /\ queued' = queued \cup {e} /\ kept' = kept \ {e}
         /\ revived' = IF n[2] = 1 THEN revived \cup {e} ELSE revived
    BY Zenon DEF RecoverPush
<1>f. \A d \in Events : Active(d)' => Active(d) \/ (d = e /\ queued' = queued \cup {e} /\ ~UNCHANGED queued)
    BY Zenon, <1>d, <1>e DEF Active, AtWork
<1>g. \A d \in Events : AtWork(d)' => AtWork(d) \/ (d = e /\ queued' = queued \cup {e} /\ ~UNCHANGED queued)
    BY Zenon, <1>d, <1>e DEF AtWork
<1> HIDE DEF e
<1>Covered. Covered'
    <2>1. ASSUME NEW d \in begun \ ended, <<id[d], 0>> = n PROVE d = e
        <3>1. d \in Events /\ id[d] \in IDs /\ file[id[d]] = <<d, saved[d]>>
            BY Zenon DEF IInv, Types, NothingLost
        <3>2. Content(n) = <<d, saved[d]>>
            BY Zenon, <2>1, <3>1 DEF Content
        <3>3. QED
            BY <3>2 DEF e
    <2>2. QED
        BY Zenon, <1>c, <1>d, <2>1 DEF RInv, Covered
<1>Untouched. Untouched'
    <2>1. ASSUME ~leftover, NEW m \in result_ \ {n} PROVE m[1] # n[1]
        <3>1. m[2] = 0 /\ n[2] = 0 /\ m = <<m[1], m[2]>>
            BY <1>a, <2>1 DEF IInv, RInv, Types, Untouched, Names
        <3>2. QED
            BY Zenon, <1>a, <2>1, <3>1
    <2>2. QED
        BY Zenon, <1>b, <1>c, <1>d, <1>f, <2>1 DEF RInv, Untouched
<1>PushedOnce. PushedOnce'
    <2>1. <<id[e], 0>> \notin result_'
        <3>1. CASE n[2] = 0
            BY Zenon, <1>a, <1>b, <1>d, <3>1
        <3>2. CASE n[2] = 1
            <4>1. \A m \in result_ : n[1] < m[1] \/ (n[1] = m[1] /\ n[2] <= m[2])
                BY Zenon DEF RecoverPush, First
            <4>2. \A m \in result_ : m[1] = n[1] => m[2] # 0
                BY <1>a, <3>2, <4>1 DEF IDs
            <4>3. QED
                BY Zenon, <1>b, <1>d, <4>2
        <3>3. QED
            BY Zenon, <1>a, <3>1, <3>2
    <2>2. ASSUME e \in ended \ revived', ~UNCHANGED queued PROVE FALSE
        <3>1. e \in ended \ revived /\ n[2] = 0
            BY Zenon, <1>a, <1>e, <2>2
        <3>2. file[n[1]] \in Whole /\ file[n[1]][1] = e
            BY Zenon, <1>a, <3>1 DEF Content, e
        <3>3. QED
            BY Zenon, <1>a, <3>1, <3>2 DEF RInv, PushedOnce
    <2>3. ended \subseteq Events /\ revived \subseteq revived'
        BY Zenon, <1>e DEF IInv, Types
    <2>4. QED
        BY SMTT(60), <1>a, <1>b, <1>c, <1>d, <1>g, <2>1, <2>2, <2>3 DEF RInv, PushedOnce
<1>q. QED
    BY Zenon, <1>Covered, <1>Untouched, <1>PushedOnce DEF RInv

\* A name is read, and what it holds is too young or not whole.
LEMMA RecoverSkipRInv == ASSUME IInv, RInv, NEW n \in Names, RecoverSkip(n) PROVE RInv'
<1>Covered. Covered'
    <2>1. ASSUME NEW e \in begun \ ended, <<id[e], 0>> = n PROVE e \in skipped'
        <3>1. e \in Events /\ id[e] \in IDs /\ file[id[e]] = <<e, saved[e]>> /\ saved[e] \in 0 .. MaxUpdates
            BY Zenon DEF IInv, Types, NothingLost
        <3>2. Content(n) = <<e, saved[e]>> /\ Content(n) \in Whole
            BY <2>1, <3>1 DEF Content, Whole
        <3>3. QED
            BY <3>2 DEF RecoverSkip
    <2>2. UNCHANGED <<id, job, rpc, crashes, begun, ended, recovered>> /\ skipped \subseteq skipped'
        BY Zenon DEF RecoverSkip, memory
    <2>3. result_' = result_ \ {n}
        BY ZenonT(60) DEF RecoverSkip
    <2>4. QED
        BY Zenon, <2>1, <2>2, <2>3 DEF RInv, Covered
<1>Untouched. Untouched'
    BY ContentAssumption, NoneAssumption
    DEF RecoverSkip, IInv, RInv, Untouched, Types, Drawn, Active, AtWork, OneOwner, Owner, Whole, Goto,
       disk, memory, recover, past, First
<1>PushedOnce. PushedOnce'
    BY Zenon DEF RecoverSkip, RInv, PushedOnce, Active, AtWork, disk, memory
<1>q. QED
    BY Zenon, <1>Covered, <1>Untouched, <1>PushedOnce DEF RInv

\* Only a .tmp can be gone when it is to be read.
LEMMA RecoverThrowsRInv == ASSUME IInv, RInv, NEW n \in Names, RecoverThrows(n) PROVE RInv'
<1>Covered. Covered'
    BY Zenon DEF RecoverThrows, Covered
<1>Untouched. Untouched'
    <2>1. n \in result_ /\ Content(n) = None
        BY Zenon DEF RecoverThrows, First, Stops
    <2>2. ~leftover => n[2] = 0 /\ file[n[1]] # None
        BY Zenon, <2>1 DEF RInv, Untouched
    <2>3. leftover
        BY Zenon, <2>1, <2>2 DEF Content
    <2>4. leftover' = leftover
        BY Zenon DEF RecoverThrows, past
    <2>5. QED
        BY Zenon, <2>3, <2>4 DEF Untouched
<1>PushedOnce. PushedOnce'
    BY Zenon DEF RecoverThrows, RInv, PushedOnce, Active, AtWork, disk, memory, past
<1>q. QED
    BY Zenon, <1>Covered, <1>Untouched, <1>PushedOnce DEF RInv

\* All names are read.
LEMMA RecoverReturnRInv == ASSUME IInv, RInv, RecoverReturn PROVE RInv'
<1>Covered. Covered'
    BY Zenon DEF RecoverReturn, RInv, Covered, memory, past
<1>Untouched. Untouched'
    BY Zenon DEF RecoverReturn, Untouched
<1>PushedOnce. PushedOnce'
    BY Zenon DEF RecoverReturn, RInv, PushedOnce, Active, AtWork, disk, memory, past
<1>q. QED
    BY Zenon, <1>Covered, <1>Untouched, <1>PushedOnce DEF RInv
\* Every step keeps the invariant of recovery.
LEMMA StepRInv == ASSUME IInv, RInv, [Next]_vars PROVE RInv'
<1>1. ASSUME NEW t \in Threads, NEW e \in Events, Begin(t, e) \/ BeginAgain(t, e) \/ Resume(t, e) PROVE RInv'
    BY Zenon, <1>1, BeginRInv, BeginAgainRInv, ResumeRInv
<1>2. ASSUME NEW t \in Threads, BeginOpen(t) \/ BeginReturn(t) PROVE RInv'
    BY Zenon, <1>2, BeginOpenRInv, BeginReturnRInv
<1>3. ASSUME NEW t \in Threads, Update(t) \/ UpdateClose(t) \/ UpdateReturn(t) PROVE RInv'
    BY Zenon, <1>3, UpdateRInv, UpdateCloseRInv, UpdateReturnRInv
<1>4. ASSUME NEW t \in Threads, NEW backup \in BOOLEAN, End(t, backup) PROVE RInv'
    BY Zenon, <1>4, EndRInv
<1>5. ASSUME NEW t \in Threads, EndReturn(t) PROVE RInv'
    BY Zenon, <1>5, EndReturnRInv
<1>6. ASSUME NEW n \in Names, RecoverPush(n) \/ RecoverSkip(n) \/ RecoverThrows(n) PROVE RInv'
    BY Zenon, <1>6, RecoverPushRInv, RecoverSkipRInv, RecoverThrowsRInv
<1>7. CASE RecoverReturn \/ Crash \/ Restart
    BY Zenon, <1>7, RecoverReturnRInv, CrashRInv, RestartRInv
<1>8. CASE UNCHANGED vars
    BY Zenon, <1>8 DEF vars, disk, memory, recover, past, RInv, Covered, Untouched, PushedOnce, Active, AtWork
<1>9. QED
    BY Zenon, <1>1, <1>2, <1>3, <1>4, <1>5, <1>6, <1>7, <1>8 DEF Next

\* Recovery, too, is described by its invariant in every behaviour.
THEOREM RecoveryInvariance == Spec => [](IInv /\ RInv)
<1>1. Init => RInv
    BY Zenon DEF Init, RInv, Covered, Untouched, PushedOnce
<1>2. IInv /\ RInv /\ [Next]_vars => RInv'
    BY Zenon, StepRInv
<1>3. QED
    BY <1>1, <1>2, Invariance, PTL DEF Spec

\* When recover() returns it has gone through every transaction that had not
\* ended, and it throws half-way only where update() has left a .tmp
\* (TxnLog.cc:211-257).
THEOREM RecoveryCompleteHolds == Spec => []RecoveryComplete
<1>1. RInv => RecoveryComplete
    BY Zenon DEF RInv, Covered, Untouched, RecoveryComplete
<1>2. QED
    BY <1>1, RecoveryInvariance, PTL

\* What has ended, or was pushed already, is pushed again only from a .tmp, or
\* from what such an event has written since (TxnLog.cc:168, 234).
THEOREM RepeatsAreLeftoversHolds == Spec => RepeatsAreLeftovers
<1> DEFINE Rep == \A n \in result_ \ result_' :
                      (rpc = "on" /\ Content(n) \in Whole /\ Content(n)[1] \in ended \cup recovered
                         /\ queued' # queued) => n[2] = 1 \/ Content(n)[1] \in revived
<1>1. ASSUME IInv, RInv PROVE Rep
    <2>1. SUFFICES ASSUME NEW n \in result_, Content(n) \in Whole, Content(n)[1] \in ended \cup recovered,
                          n[2] # 1, Content(n)[1] \notin revived
                   PROVE FALSE
        BY Zenon
    <2>2. n[1] \in IDs /\ n[2] = 0 /\ n = <<n[1], 0>>
        BY <2>1, <1>1 DEF IInv, Types, Names
    <2>3. Content(n) = file[n[1]]
        BY Zenon, <2>2 DEF Content
    <2>4. id[Content(n)[1]] = n[1]
        BY Zenon, <1>1, <2>1, <2>2, <2>3 DEF IInv, Named
    <2>5. Content(n)[1] \notin recovered
        BY Zenon, <1>1, <2>2, <2>4 DEF RInv, PushedOnce
    <2>6. Content(n)[1] \notin ended
        BY Zenon, <1>1, <2>1, <2>2, <2>3 DEF RInv, PushedOnce
    <2>7. QED
        BY Zenon, <2>1, <2>5, <2>6
<1>2. IInv /\ RInv => Rep
    BY Zenon, <1>1
<1> HIDE DEF Rep
<1>3. Spec => [][Rep]_vars
    BY <1>2, RecoveryInvariance, PTL
<1>4. QED
    BY Zenon, <1>3 DEF RepeatsAreLeftovers, Rep
=============================================================================
