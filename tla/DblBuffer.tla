----------------------------- MODULE DblBuffer ------------------------------
(***************************************************************************)
(* io/DblBuffer.cc: copy one DataHandle into another through a ring of     *)
(* count_ buffers, the caller reading (DblBuffer::copy) and a thread       *)
(* writing (DblBufferTask::run), with errors and restarts on both sides.   *)
(*                                                                         *)
(* Each buffer has its own mutex, held during the read or write of it;     *)
(* error_, restart_ and restartFrom_ have another (mutex_).  One action    *)
(* touches what mutex_ protects at most once.  Data come in units: a read  *)
(* or a write moves one, and the unit at position k of the source is k.    *)
(***************************************************************************)
EXTENDS Integers, FiniteSets

CONSTANTS
    Counts,          \* values for count_
    Lengths,         \* lengths of the source
    Estimates,       \* what openForRead() answers (0: not known)
    MaxRetries       \* dblBufferMaxRetries

VARIABLES
    count_, full_, length_,          \* the ring; length_ is the unit, 0 (end) or -1 (error)
    held,                            \* who holds the mutex of each buffer
    error_, restart_, restartFrom_,
    inBytes_, outBytes_,
    rpc, i,                          \* the reader (the caller of copy())
    wpc, j,                          \* the writer thread
    size, pos,                       \* the source: its length and read position
    file, at,                        \* the target: its units and write position
    total, estimate, retries,        \* locals of the outer copy()
    outcome,                         \* how copy() ended
    skipped                          \* history: positions a restart went over unwritten

ring   == <<full_, length_, held>>
status == <<error_, restart_, restartFrom_>>
bytes  == <<inBytes_, outBytes_>>
handles == <<size, pos, file, at>>
local  == <<total, estimate, retries, outcome, skipped>>
vars   == <<count_, ring, status, bytes, rpc, i, wpc, j, handles, local>>

Slots == 0..count_ - 1

Init ==
    /\ count_ \in Counts
    /\ full_ = [s \in Slots |-> FALSE]
    /\ length_ = [s \in Slots |-> 0]
    /\ held = [s \in Slots |-> "none"]
    /\ error_ = FALSE /\ restart_ = FALSE /\ restartFrom_ = 0
    /\ inBytes_ = 0 /\ outBytes_ = 0
    /\ rpc = "begin" /\ i = 0 /\ wpc = "ended" /\ j = 0
    /\ size \in Lengths /\ pos = 0
    /\ file = [k \in 1..size |-> 0] /\ at = 0
    /\ total \in Estimates /\ estimate = total
    /\ retries = MaxRetries
    /\ outcome = "none" /\ skipped = {}

-----------------------------------------------------------------------------
\* signal() of buffer s, by the reader or by the writer: only the other one can be asleep on it.
WakeWriter == wpc' = IF wpc = "asleep" /\ j = i THEN "lock" ELSE wpc
WakeReader == rpc' = IF rpc = "asleep" /\ i = j THEN "lock" ELSE rpc

\* copy(in, out, estimate): a fresh ring, and the writer thread started
Begin ==
    /\ rpc = "begin"
    /\ full_' = [s \in Slots |-> FALSE]
    /\ length_' = [s \in Slots |-> 0]
    /\ held' = [s \in Slots |-> "none"]
    /\ error_' = FALSE
    /\ inBytes_' = 0 /\ outBytes_' = 0
    /\ rpc' = "loop" /\ i' = 0 /\ wpc' = "loop" /\ j' = 0
    /\ UNCHANGED <<count_, restart_, restartFrom_, handles, local>>

\* while (!error())
ReaderLoop ==
    /\ rpc = "loop"
    /\ rpc' = IF error_ THEN "join" ELSE "lock"
    /\ UNCHANGED <<count_, ring, status, bytes, i, wpc, j, handles, local>>

\* The mutex of buffer i: sleep while it is full, leave on an error, or read.
ReaderLock ==
    /\ rpc = "lock" /\ held[i] = "none"
    /\ IF full_[i]
         THEN rpc' = "asleep" /\ UNCHANGED held
         ELSE IF error_
                THEN rpc' = "join" /\ UNCHANGED held
                ELSE rpc' = "read" /\ held' = [held EXCEPT ![i] = "reader"]
    /\ UNCHANGED <<count_, full_, length_, status, bytes, i, wpc, j, handles, local>>

\* What the reader leaves in buffer i, with the mutex released and a signal.
Filled(n) ==
    /\ full_' = [full_ EXCEPT ![i] = TRUE]
    /\ length_' = [length_ EXCEPT ![i] = n]
    /\ held' = [held EXCEPT ![i] = "none"]

ReadData ==
    /\ rpc = "read" /\ pos < size
    /\ Filled(pos + 1)
    /\ pos' = pos + 1
    /\ inBytes_' = inBytes_ + 1
    /\ WakeWriter
    /\ i' = (i + 1) % count_
    /\ rpc' = "loop"
    /\ UNCHANGED <<count_, status, outBytes_, j, size, file, at, local>>

ReadEnd ==
    /\ rpc = "read" /\ pos = size
    /\ Filled(0)
    /\ WakeWriter
    /\ rpc' = "join"
    /\ UNCHANGED <<count_, status, bytes, i, j, handles, local>>

\* RestartTransfer out of in.read(), from within what is written or after it
ReadRestart(from) ==
    /\ rpc = "read" /\ from <= pos
    /\ Filled(-1)
    /\ error_' = TRUE /\ restart_' = TRUE /\ restartFrom_' = from
    /\ WakeWriter
    /\ rpc' = "join"
    /\ UNCHANGED <<count_, bytes, i, j, handles, local>>

\* any other exception
ReadThrows ==
    /\ rpc = "read"
    /\ Filled(-1)
    /\ error_' = TRUE
    /\ WakeWriter
    /\ rpc' = "join"
    /\ UNCHANGED <<count_, restart_, restartFrom_, bytes, i, j, handles, local>>

\* in.read() returns less than 0.  ASSERT(error()) holds only if the writer has
\* failed meanwhile; otherwise it throws out of copy(), past signal() and wait().
ReadNegative ==
    /\ rpc = "read"
    /\ Filled(-1)
    /\ IF error_
         THEN rpc' = "join" /\ WakeWriter /\ UNCHANGED outcome
         ELSE rpc' = "returned" /\ outcome' = "assertion" /\ UNCHANGED wpc
    /\ UNCHANGED <<count_, status, bytes, i, j, handles, total, estimate, retries, skipped>>

-----------------------------------------------------------------------------
\* DblBufferTask::run(): while (!owner_.error())
WriterLoop ==
    /\ wpc = "loop"
    /\ wpc' = IF error_ THEN "ended" ELSE "lock"
    /\ UNCHANGED <<count_, ring, status, bytes, rpc, i, j, handles, local>>

WriterLock ==
    /\ wpc = "lock" /\ held[j] = "none"
    /\ IF ~full_[j]
         THEN wpc' = "asleep" /\ UNCHANGED held
         ELSE IF error_ \/ length_[j] = 0
                THEN wpc' = "ended" /\ UNCHANGED held
                ELSE wpc' = "write" /\ held' = [held EXCEPT ![j] = "writer"]
    /\ UNCHANGED <<count_, full_, length_, status, bytes, rpc, i, j, handles, local>>

Emptied ==
    /\ full_' = [full_ EXCEPT ![j] = FALSE]
    /\ held' = [held EXCEPT ![j] = "none"]
    /\ WakeReader
    /\ UNCHANGED <<count_, length_>>

WriteData ==
    /\ wpc = "write"
    /\ file' = [file EXCEPT ![at + 1] = length_[j]] /\ at' = at + 1
    /\ outBytes_' = outBytes_ + 1
    /\ Emptied
    /\ j' = (j + 1) % count_
    /\ wpc' = "loop"
    /\ UNCHANGED <<status, inBytes_, i, size, pos, local>>

\* RestartTransfer out of out_.write()
WriteRestart(from) ==
    /\ wpc = "write" /\ from <= at
    /\ error_' = TRUE /\ restart_' = TRUE /\ restartFrom_' = from
    /\ Emptied
    /\ wpc' = "ended"
    /\ UNCHANGED <<bytes, i, j, handles, local>>

\* any other exception, ASSERT(length == buffers_[i].length_) after a short write included
WriteThrows ==
    /\ wpc = "write"
    /\ error_' = TRUE
    /\ Emptied
    /\ wpc' = "ended"
    /\ UNCHANGED <<restart_, restartFrom_, bytes, i, j, handles, local>>

-----------------------------------------------------------------------------
Joined == rpc = "join" /\ wpc = "ended"

Return(how) ==
    /\ Joined
    /\ rpc' = "returned" /\ outcome' = how
    /\ UNCHANGED <<count_, ring, status, bytes, i, wpc, j, handles, total, estimate, retries, skipped>>

\* The rest of copy(in, out, estimate) after thread.wait(), and what the outer
\* copy() makes of it.  A plain error: DblBufferError.
JoinError == error_ /\ ~restart_ /\ Return("error")

\* RestartTransfer(restartFrom_): try again, unless the retries are used up.
Restarts == error_ /\ restart_ /\ retries > 0

JoinTooMany == error_ /\ restart_ /\ retries <= 0 /\ Return("error")

\* Mutant: the target is not moved.
WriteFrom_Stays == at

\* out.restartWriteFrom(): the target seeks.
WriteFrom == restartFrom_

\* Mutant: the retries are not counted.
RetriesLeft_Same == retries

RetriesLeft == retries - 1

JoinRestart ==
    /\ Joined /\ Restarts
    /\ retries' = RetriesLeft
    /\ pos' = restartFrom_ /\ at' = WriteFrom
    /\ skipped' = skipped \cup (at + 1 .. restartFrom_)
    /\ estimate' = total - restartFrom_
    /\ rpc' = "begin"
    /\ UNCHANGED <<count_, ring, status, bytes, i, wpc, j, size, file, total, outcome>>

\* DataHandle::restartReadFrom() and restartWriteFrom() throw NotImplemented
\* unless the handle overrides them, and fail when the seek fails.
JoinCannotRestart == Restarts /\ Return("error")

\* PANIC(inBytes_ != outBytes_), then the comparison with the estimate
JoinOk ==
    /\ ~error_
    /\ Return(IF inBytes_ # outBytes_ THEN "panic"
              ELSE IF estimate # 0 /\ inBytes_ # estimate THEN "bug" ELSE "copied")

SpuriousWake ==
    /\ \/ rpc = "asleep" /\ rpc' = "lock" /\ UNCHANGED wpc
       \/ wpc = "asleep" /\ wpc' = "lock" /\ UNCHANGED rpc
    /\ UNCHANGED <<count_, ring, status, bytes, i, j, handles, local>>

Reader ==
    \/ Begin \/ ReaderLoop \/ ReaderLock
    \/ ReadData \/ ReadEnd \/ ReadThrows \/ ReadNegative
    \/ \E from \in 0..pos : ReadRestart(from)
    \/ JoinError \/ JoinTooMany \/ JoinRestart \/ JoinCannotRestart \/ JoinOk

\* After a failed ASSERT the ring is destroyed while the writer still uses it:
\* the behaviour ends there.
Writer ==
    /\ outcome # "assertion"
    /\ \/ WriterLoop \/ WriterLock
       \/ WriteData \/ WriteThrows
       \/ \E from \in 0..at : WriteRestart(from)

Done == rpc = "returned" /\ UNCHANGED vars

Next == Reader \/ Writer \/ SpuriousWake \/ Done

Spec == Init /\ [][Next]_vars

\* Both threads run, and reads and writes come back.
FairSpec == Spec /\ WF_vars(Reader) /\ WF_vars(Writer)

-----------------------------------------------------------------------------
\* What copy() reports as copied is the source, unit by unit, but for what a
\* restart skipped: the units read and not yet written when in.read() asked to
\* restart after them are dropped with the ring, and out.restartWriteFrom()
\* seeks over their place.  A restart within what is written loses nothing, not
\* even one from the restartFrom_ of an earlier attempt (restart_ is never reset).
\* And the checks at the end tell the truth: PANIC(inBytes_ != outBytes_) never
\* fires, and SeriousBug("copied: ..., estimate: ...") means that the estimate was
\* wrong, or unknown and then made negative by a restart (total - from).
CopyIsComplete ==
    /\ outcome = "copied" => \A k \in 1..size : file[k] = k \/ k \in skipped
    /\ outcome # "panic"
    /\ outcome = "bug" => total # size

\* copy() returns, at the latest when the retries are used up.
CopyReturns == <>(rpc = "returned")
=============================================================================
