------------------------------- MODULE TxnLog -------------------------------
(***************************************************************************)
(* transaction/TxnLog.cc: a directory with one file per running            *)
(* transaction, a counter of IDs shared under a semaphore, and recovery.   *)
(* Threads of one process begin, update and end transactions; the process  *)
(* may die between any two operations on files and is then restarted, when *)
(* recover() goes through the files while new transactions already run.    *)
(*                                                                         *)
(* A file holds a whole event or a part of one.  The client of recover()   *)
(* is outside: it queues what it is given, unless it has it already.       *)
(***************************************************************************)
EXTENDS Naturals, FiniteSets

CONSTANTS
    Threads, Events,
    MaxUpdates,    \* bound on update() per transaction
    MaxCrashes,    \* bound on restarts
    MaxID,         \* bound on the counter
    None, Partial

ASSUME BoundsAssumption == MaxUpdates \in Nat /\ MaxCrashes \in Nat /\ MaxID \in Nat
ASSUME NoneAssumption   == None \notin Events \cup Threads
ASSUME ContentAssumption ==
    None # Partial /\ {None, Partial} \cap (Events \X (0..MaxUpdates)) = {}

VARIABLES
    kind,          \* txnArrayType: a shared memory counter is lost with the machine
    nextID_,
    file, tmp,     \* what is in "<id>" and in "<id>.tmp"
    done,          \* the events in done/
    lock,          \* the thread that holds the semaphore of nextID_
    pc, job,       \* where each thread is, and with which event
    id, version,   \* the members of an event: its transactionID and the rest
    result_,       \* names recover() has yet to read: <<id, 0>>, or <<id, 1>> for .tmp
    rpc,           \* "off", "on", or how recover() ended: "done", "thrown"
    queued,        \* events in the queue of the client of recover()
    kept,          \* events that have ended and are still in memory, with their ID
    crashes,
    begun, ended,  \* history: events whose last begin() returned, whose file end() removed
    saved,         \* history: the version last begun or updated
    recovered,     \* history: events pushed since the restart
    skipped,       \* history: events found to be too young since the restart
    leftover,      \* history: a .tmp was there at the restart
    revived        \* history: events recover() has queued from a .tmp

memory  == <<lock, pc, job, id, version, queued, kept>>
disk    == <<file, tmp, done>>
recover == <<result_, rpc>>
past    == <<begun, ended, saved, recovered, skipped, leftover, revived>>
vars    == <<kind, nextID_, disk, memory, recover, crashes, past>>

IDs   == 1..MaxID
Whole == Events \X (0..MaxUpdates)
Names == IDs \X {0, 1}

Content(n) == IF n[2] = 0 THEN file[n[1]] ELSE tmp[n[1]]
Goto(t, s) == pc' = [pc EXCEPT ![t] = s]

Init ==
    /\ kind \in {"MemoryMapped", "SharedMemory"}
    /\ nextID_ = 0
    /\ file = [i \in IDs |-> None] /\ tmp = [i \in IDs |-> None] /\ done = {}
    /\ lock = None
    /\ pc = [t \in Threads |-> "idle"] /\ job = [t \in Threads |-> None]
    /\ id = [e \in Events |-> 0] /\ version = [e \in Events |-> 0]
    /\ result_ = {} /\ rpc = "done" /\ queued = {} /\ kept = {}
    /\ crashes = 0
    /\ begun = {} /\ ended = {} /\ saved = [e \in Events |-> 0]
    /\ recovered = {} /\ skipped = {} /\ leftover = FALSE /\ revived = {}

-----------------------------------------------------------------------------
\* begin(): the lock and, as the event has no ID yet, the next one
Begin(t, e) ==
    /\ pc[t] = "idle" /\ rpc # "off" /\ lock = None
    /\ id[e] = 0 /\ nextID_ < MaxID
    /\ lock' = t
    /\ nextID_' = nextID_ + 1
    /\ id' = [id EXCEPT ![e] = nextID_ + 1]
    /\ job' = [job EXCEPT ![t] = e]
    /\ Goto(t, "named")
    /\ UNCHANGED <<kind, disk, version, queued, kept, recover, crashes, past>>

\* begin() of an event that has ended: it has its ID, and starts over.  (begin()
\* of one that is logged fails the assertion and changes nothing.)
BeginAgain(t, e) ==
    /\ pc[t] = "idle" /\ rpc # "off" /\ lock = None
    /\ e \in kept
    /\ lock' = t
    /\ kept' = kept \ {e}
    /\ job' = [job EXCEPT ![t] = e]
    /\ Goto(t, "named")
    /\ begun' = begun \ {e} /\ ended' = ended \ {e}
    /\ UNCHANGED <<kind, nextID_, disk, id, version, queued, recover, crashes,
                   saved, recovered, skipped, leftover, revived>>

\* ASSERT(!path.exists()), and the file is created
BeginOpen(t) ==
    /\ pc[t] = "named"
    /\ LET i == id[job[t]] IN
          IF file[i] = None
            THEN file' = [file EXCEPT ![i] = Partial] /\ Goto(t, "logging") /\ UNCHANGED <<lock, job>>
            ELSE Goto(t, "idle") /\ lock' = None /\ job' = [job EXCEPT ![t] = None] /\ UNCHANGED file
    /\ UNCHANGED <<kind, nextID_, tmp, done, id, version, queued, kept, recover, crashes, past>>

\* the file is written and closed (with fsync), the lock released
BeginReturn(t) ==
    /\ pc[t] = "logging"
    /\ LET e == job[t] IN
          /\ file' = [file EXCEPT ![id[e]] = <<e, version[e]>>]
          /\ begun' = begun \cup {e}
          /\ saved' = [saved EXCEPT ![e] = version[e]]
    /\ lock' = None
    /\ Goto(t, "running")
    /\ UNCHANGED <<kind, nextID_, tmp, done, job, id, version, queued, kept, recover, crashes,
                   ended, recovered, skipped, leftover, revived>>

\* Mutant: the file is rewritten in place.
OpenNext_InPlace(i) == file' = [file EXCEPT ![i] = Partial] /\ UNCHANGED tmp

OpenNext(i) == tmp' = [tmp EXCEPT ![i] = Partial] /\ UNCHANGED file

\* update(), without the lock: the event, changed since, goes to .tmp
Update(t) ==
    /\ pc[t] = "running" /\ version[job[t]] < MaxUpdates
    /\ version' = [version EXCEPT ![job[t]] = @ + 1]
    /\ OpenNext(id[job[t]])
    /\ Goto(t, "updating")
    /\ UNCHANGED <<kind, nextID_, done, lock, job, id, queued, kept, recover, crashes, past>>

UpdateClose(t) ==
    /\ pc[t] = "updating"
    /\ tmp' = [tmp EXCEPT ![id[job[t]]] = <<job[t], version[job[t]]>>]
    /\ Goto(t, "renaming")
    /\ UNCHANGED <<kind, nextID_, file, done, lock, job, id, version, queued, kept, recover, crashes, past>>

\* PathName::rename(next, path)
UpdateReturn(t) ==
    /\ pc[t] = "renaming"
    /\ LET e == job[t] IN
          /\ file' = [file EXCEPT ![id[e]] = tmp[id[e]]]
          /\ tmp' = [tmp EXCEPT ![id[e]] = None]
          /\ saved' = [saved EXCEPT ![e] = version[e]]
    /\ Goto(t, "running")
    /\ UNCHANGED <<kind, nextID_, done, lock, job, id, version, queued, kept, recover, crashes,
                   begun, ended, recovered, skipped, leftover, revived>>

\* end(): the lock and, if asked for, the copy in done/
End(t, backup) ==
    /\ pc[t] = "running" /\ lock = None
    /\ lock' = t
    /\ done' = IF backup THEN done \cup {job[t]} ELSE done
    /\ Goto(t, "ending")
    /\ UNCHANGED <<kind, nextID_, file, tmp, job, id, version, queued, kept, recover, crashes, past>>

\* Mutant: the file is kept.
Unlink_Not(i) == UNCHANGED file

Unlink(i) == file' = [file EXCEPT ![i] = None]

\* path.unlink()
EndReturn(t) ==
    /\ pc[t] = "ending"
    /\ Unlink(id[job[t]])
    /\ ended' = ended \cup {job[t]}
    /\ kept' = kept \cup {job[t]}
    /\ lock' = None
    /\ job' = [job EXCEPT ![t] = None]
    /\ Goto(t, "idle")
    /\ UNCHANGED <<kind, nextID_, tmp, done, id, version, queued, recover, crashes,
                   begun, saved, recovered, skipped, leftover, revived>>

-----------------------------------------------------------------------------
\* The process dies: the semaphore is undone, files and the mapped counter stay.
\* With the machine, the counter in shared memory goes as well.
Crash ==
    /\ rpc # "off" /\ crashes < MaxCrashes
    /\ crashes' = crashes + 1
    /\ nextID_' \in IF kind = "SharedMemory" THEN {nextID_, 0} ELSE {nextID_}
    /\ lock' = None
    /\ pc' = [t \in Threads |-> "idle"] /\ job' = [t \in Threads |-> None]
    /\ queued' = {} /\ kept' = {} /\ result_' = {} /\ rpc' = "off"
    /\ UNCHANGED <<kind, disk, id, version, past>>

\* PathName::match(path + "/[0-9]*"): the .tmp files match as well
Listing == {n \in Names : Content(n) # None}

Last == {n[1] : n \in {m \in Listing : \A k \in Listing : k[1] <= m[1]}}

\* Mutant: the last ID itself is the next one.
Beyond_OffByOne(next) == IF \E i \in Last : i >= next THEN CHOOSE i \in Last : TRUE ELSE next

\* if (id >= nextID_[0]) nextID_[0] = id + 1;
Beyond(next) == IF \E i \in Last : i >= next THEN 1 + CHOOSE i \in Last : TRUE ELSE next

\* TxnLog(), and RecoverThread(): the names are listed under the lock, and the
\* counter is moved beyond the last of them.
Restart ==
    /\ rpc = "off"
    /\ result_' = Listing /\ rpc' = "on"
    /\ nextID_' = Beyond(nextID_)
    /\ recovered' = {} /\ skipped' = {}
    /\ leftover' = \E n \in Listing : n[2] = 1
    /\ UNCHANGED <<kind, disk, memory, crashes, begun, ended, saved, revived>>

\* The names are sorted: "<id>" comes before "<id>.tmp".
First(n) ==
    /\ rpc = "on" /\ n \in result_
    /\ \A m \in result_ : n[1] < m[1] \/ (n[1] = m[1] /\ n[2] <= m[2])

\* client_.push(task)
RecoverPush(n) ==
    /\ First(n) /\ Content(n) \in Whole
    /\ n[1] < nextID_       \* ASSERT(task->transactionID() < nextID_[0])
    /\ LET e == Content(n)[1] IN
          /\ recovered' = recovered \cup {e}
          /\ IF e \in queued \/ \E t \in Threads : job[t] = e
               THEN UNCHANGED <<queued, kept, id, version, revived>>
               ELSE /\ queued' = queued \cup {e} /\ kept' = kept \ {e}
                    /\ id' = [id EXCEPT ![e] = n[1]]
                    /\ version' = [version EXCEPT ![e] = Content(n)[2]]
                    /\ revived' = IF n[2] = 1 THEN revived \cup {e} ELSE revived
    /\ result_' = result_ \ {n}
    /\ UNCHANGED <<kind, nextID_, disk, lock, pc, job, rpc, crashes, begun, ended, saved, skipped, leftover>>

\* A file that is not whole, or the failed assertion: the exception is ignored.
\* A file created less than age_ seconds ago: skipped.
RecoverSkip(n) ==
    /\ First(n) /\ Content(n) # None
    /\ result_' = result_ \ {n}
    /\ skipped' = IF Content(n) \in Whole THEN skipped \cup {Content(n)[1]} ELSE skipped
    /\ UNCHANGED <<kind, nextID_, disk, memory, rpc, crashes, begun, ended, saved, recovered,
                   leftover, revived>>

\* Mutant: the exception for a file that is not whole is not ignored.
Stops_Partial(n) == Content(n) \in {None, Partial}

\* The file is gone: created() throws, outside the try block ...
Stops(n) == Content(n) = None

\* ... and recover() ends.
RecoverThrows(n) ==
    /\ First(n) /\ Stops(n)
    /\ result_' = {} /\ rpc' = "thrown"
    /\ UNCHANGED <<kind, nextID_, disk, memory, crashes, past>>

RecoverReturn ==
    /\ rpc = "on" /\ result_ = {}
    /\ rpc' = "done"
    /\ UNCHANGED <<kind, nextID_, disk, memory, result_, crashes, past>>

\* The client resumes a recovered transaction.
Resume(t, e) ==
    /\ pc[t] = "idle" /\ e \in queued
    /\ queued' = queued \ {e}
    /\ job' = [job EXCEPT ![t] = e]
    /\ Goto(t, "running")
    /\ UNCHANGED <<kind, nextID_, disk, lock, id, version, kept, recover, crashes, past>>

Next ==
    \/ \E t \in Threads :
          \/ \E e \in Events : Begin(t, e) \/ BeginAgain(t, e) \/ Resume(t, e)
          \/ BeginOpen(t) \/ BeginReturn(t)
          \/ Update(t) \/ UpdateClose(t) \/ UpdateReturn(t)
          \/ \E backup \in BOOLEAN : End(t, backup)
          \/ EndReturn(t)
    \/ \E n \in Names : RecoverPush(n) \/ RecoverSkip(n) \/ RecoverThrows(n)
    \/ RecoverReturn \/ Crash \/ Restart

Spec == Init /\ [][Next]_vars

-----------------------------------------------------------------------------
\* A transaction that begin() has logged and end() has not removed is on disk,
\* whole, under its ID and with the last update that returned (or one that was
\* about to), whatever the process was doing when it died.
NothingLost ==
    \A e \in begun \ ended : file[id[e]] = <<e, saved[e]>>

\* e is in the .tmp of ID i, or is in memory under it.
Uses(e, i) ==
    \/ tmp[i] \in Whole /\ tmp[i][1] = e
    \/ id[e] = i /\ (e \in queued \cup kept \/ \E t \in Threads : job[t] = e)

\* The assertions hold, and nobody else has the ID of an event that begins: even
\* if the counter was lost, begin() finds no file under that ID, and it is the ID
\* of no other event that is at work, queued, kept or in a .tmp; and recover()
\* finds no ID that is still to be drawn.  (It is not said that an ID is drawn
\* once: one that has left no file may be drawn again when the counter is lost.)
AssertionsHold ==
    /\ \A t \in Threads : pc[t] = "named" =>
          /\ file[id[job[t]]] = None
          /\ \A e \in Events \ {job[t]} : ~Uses(e, id[job[t]])
    /\ \A n \in result_ : n[1] < nextID_

\* When recover() has gone through the files, it has pushed every transaction
\* that had not ended, but those that are too young, and those begun since.
\* It throws half-way only if a crash in update() had left a .tmp behind.
RecoveryComplete ==
    /\ rpc = "done" /\ crashes > 0 =>
          \A e \in begun \ ended :
              e \in recovered \cup skipped \/ \E t \in Threads : job[t] = e
    /\ rpc = "thrown" => leftover

\* A transaction that has ended, or was pushed and resumed already, is resumed
\* again only from a .tmp that a crash in update() left behind, or from the file
\* that such a resumption has written.
RepeatsAreLeftovers ==
    [][ \A n \in result_ \ result_' :
            (rpc = "on" /\ Content(n) \in Whole /\ Content(n)[1] \in ended \cup recovered
               /\ queued' # queued) => n[2] = 1 \/ Content(n)[1] \in revived ]_vars
=============================================================================
