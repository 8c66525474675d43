------------------------------- MODULE FamMap -------------------------------
(***************************************************************************)
(* A hash map in fabric-attached memory, shared by processes on several    *)
(* hosts: io/fam/FamMap.cc, for the keys of one bucket.                    *)
(*                                                                         *)
(* The bucket is created by the first process that needs it, which marks   *)
(* the slot CREATING and publishes it by writing the head of its           *)
(* descriptor last.  Entries are only added here, with FamList::pushFront, *)
(* so that a scan finds what was in the list when it began (module         *)
(* FamList).  The lock of the whole map is in module FamLock.              *)
(***************************************************************************)
EXTENDS Integers, Sequences, FiniteSets

CONSTANTS
    Procs,     \* the processes
    Keys,      \* keys of one bucket
    MaxCalls,  \* insert(), forceInsert() and find() calls of one process
    MaxSpin    \* max_spin

VARIABLES
    head,      \* the slot's head: "0", "creating" or "list"
    fields,    \* the slot's other fields are written
    entries,   \* the keys in the list, from the front
    count_,    \* the counter
    pc,        \* process -> where it is
    call,      \* process -> [op, key, known]: its call, and whether a find must succeed
    spin,      \* process -> turns in getOrCreateBucket
    calls,     \* process -> calls made
    added,     \* history: the keys whose insert() or forceInsert() returned
    wrong      \* history: a find() missed a key, or a bucket was used too early

map == <<head, fields, entries, count_, pc, call, spin, calls, added, wrong>>

NoCall == [op |-> "none", key |-> CHOOSE k \in Keys : TRUE, known |-> FALSE]

Init ==
    /\ head = "0"
    /\ fields = FALSE
    /\ entries = <<>>
    /\ count_ = 0
    /\ pc = [p \in Procs |-> "idle"]
    /\ call = [p \in Procs |-> NoCall]
    /\ spin = [p \in Procs |-> 0]
    /\ calls = [p \in Procs |-> 0]
    /\ added = {}
    /\ wrong = FALSE

Goto(p, l) == pc' = [pc EXCEPT ![p] = l]
In(k) == \E i \in 1 .. Len(entries) : entries[i] = k

\* A call of insert(), forceInsert() or find() begins.
Call(p, op, k) ==
    /\ pc[p] = "idle"
    /\ calls[p] < MaxCalls
    /\ calls' = [calls EXCEPT ![p] = @ + 1]
    /\ call' = [call EXCEPT ![p] = [op |-> op, key |-> k, known |-> k \in added]]
    /\ spin' = [spin EXCEPT ![p] = 0]
    /\ Goto(p, "get")
    /\ UNCHANGED <<head, fields, entries, count_, added, wrong>>

Return(p) == Goto(p, "idle") /\ call' = [call EXCEPT ![p] = NoCall]

\* getBucket: the head; find() returns end() when there is no bucket
GetBucket(p) ==
    /\ pc[p] = "get"
    /\ \/ head = "list" /\ Goto(p, "describe") /\ UNCHANGED <<call, wrong>>
       \/ head # "list" /\ call[p].op # "find" /\ Goto(p, "claim") /\ UNCHANGED <<call, wrong>>
       \/ head # "list" /\ call[p].op = "find" /\ Return(p) /\ wrong' = (wrong \/ call[p].known)
    /\ UNCHANGED <<head, fields, entries, count_, spin, calls, added>>

\* getOrCreateBucket: compareSwap from 0 to CREATING
Claim(p) ==
    /\ pc[p] = "claim"
    /\ head' = IF head = "0" THEN "creating" ELSE head
    /\ Goto(p, CASE head = "0" -> "create" [] head = "list" -> "describe" [] OTHER -> "spin")
    /\ UNCHANGED <<fields, entries, count_, call, spin, calls, added, wrong>>

\* Mutant: the head is written with the rest, not last.
CreatedHead_First == "list"

\* getOrCreateBucket, while the list is created: the slot's head
CreatedHead == head

\* getOrCreateBucket: the FamList is made ...
Create(p) ==
    /\ pc[p] = "create"
    /\ head' = CreatedHead
    /\ Goto(p, "fields")
    /\ UNCHANGED <<fields, entries, count_, call, spin, calls, added, wrong>>

\* ... and described: region, tail and size ...
WriteFields(p) ==
    /\ pc[p] = "fields"
    /\ fields' = TRUE
    /\ Goto(p, "publish")
    /\ UNCHANGED <<head, entries, count_, call, spin, calls, added, wrong>>

\* ... and the head
Publish(p) ==
    /\ pc[p] = "publish"
    /\ head' = "list"
    /\ Goto(p, "scan")
    /\ UNCHANGED <<fields, entries, count_, call, spin, calls, added, wrong>>

\* Mutant: no bound.
Stalled_Never(p) == FALSE

\* ASSERT_MSG(spin < max_spin)
Stalled(p) == spin[p] = MaxSpin

\* getOrCreateBucket: another creates the bucket; wait, or throw
Spin(p) ==
    /\ pc[p] = "spin"
    /\ ~Stalled(p)
    /\ IF head = "list"
          THEN Goto(p, "describe") /\ UNCHANGED spin
          ELSE UNCHANGED pc /\ spin' = [spin EXCEPT ![p] = IF @ < MaxSpin THEN @ + 1 ELSE @]
    /\ UNCHANGED <<head, fields, entries, count_, call, calls, added, wrong>>

SpinThrows(p) ==
    /\ pc[p] = "spin"
    /\ Stalled(p)
    /\ Return(p)
    /\ UNCHANGED <<head, fields, entries, count_, spin, calls, added, wrong>>

\* getBucketDescriptor
Describe(p) ==
    /\ pc[p] = "describe"
    /\ wrong' = (wrong \/ ~fields)
    /\ Goto(p, "scan")
    /\ UNCHANGED <<head, fields, entries, count_, call, spin, calls, added>>

\* findInBucket: find() and insert() of a key that is there return
Scan(p) ==
    LET op == call[p].op
        k  == call[p].key
    IN  /\ pc[p] = "scan"
        /\ IF op = "find" \/ (op = "insert" /\ In(k))
              THEN Return(p) /\ wrong' = (wrong \/ (call[p].known /\ ~In(k)))
              ELSE Goto(p, "push") /\ UNCHANGED <<call, wrong>>
        /\ UNCHANGED <<head, fields, entries, count_, spin, calls, added>>

\* FamList::pushFront
Push(p) ==
    /\ pc[p] = "push"
    /\ entries' = <<call[p].key>> \o entries
    /\ Goto(p, "count")
    /\ UNCHANGED <<head, fields, count_, call, spin, calls, added, wrong>>

\* count_.add; the entry is found again and returned
Count(p) ==
    /\ pc[p] = "count"
    /\ count_' = count_ + 1
    /\ added' = added \cup {call[p].key}
    /\ Return(p)
    /\ UNCHANGED <<head, fields, entries, spin, calls, wrong>>

\* The process dies.
Crash(p) ==
    /\ pc[p] \notin {"idle", "dead"}
    /\ Goto(p, "dead")
    /\ call' = [call EXCEPT ![p] = NoCall]
    /\ UNCHANGED <<head, fields, entries, count_, spin, calls, added, wrong>>

Step(p) ==
    \/ GetBucket(p) \/ Claim(p) \/ Create(p) \/ WriteFields(p) \/ Publish(p) \/ Spin(p)
    \/ SpinThrows(p) \/ Describe(p) \/ Scan(p) \/ Push(p) \/ Count(p)

Next ==
    \E p \in Procs :
        \/ \E op \in {"insert", "forceInsert", "find"}, k \in Keys : Call(p, op, k)
        \/ Step(p)
        \/ Crash(p)

Spec == Init /\ [][Next]_map

\* A process in the middle of a call goes on, unless it dies.
FairSpec == Spec /\ \A p \in Procs : WF_map(Step(p))

----------------------------------------------------------------------------
\* Nobody uses the bucket before its descriptor is complete, and find() finds a
\* key that was inserted, by any process, before it was called.
FindsInserted == ~wrong

\* Every call ends: when the process that creates the bucket dies, the others
\* throw rather than wait for ever.
MapCallsReturn == \A p \in Procs : pc[p] # "idle" ~> pc[p] \in {"idle", "dead"}
=============================================================================
