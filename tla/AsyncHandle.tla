---------------------------- MODULE AsyncHandle ----------------------------
(***************************************************************************)
(* io/AsyncHandle.cc: write() queues a copy of its data, and the thread    *)
(* AsyncHandleWriter writes the copies to the target handle.  The mutex of *)
(* cond_ is held from one cond_.wait() to the next, by the writer also     *)
(* during the target's write(), so one action is one stretch under it.     *)
(* The destructor alone calls stop() and signal() without that mutex:      *)
(* the writer's test and its wait are therefore two steps.                 *)
(*                                                                         *)
(* There is one client thread, as for any DataHandle.                      *)
(***************************************************************************)
EXTENDS Naturals, Sequences, Functions

CONSTANTS
    Lengths,      \* lengths write() is given
    maxSize_, rounding_,
    MaxWrites,    \* bound on the number of buffers queued
    TargetFails   \* TRUE: the target's write() and flush() may fail

ASSUME LengthsAssumption  == Lengths \subseteq Nat \ {0}
ASSUME SizeAssumption     == maxSize_ \in Nat /\ rounding_ \in Nat \ {0}
ASSUME MaxWritesAssumption == MaxWrites \in Nat

VARIABLES
    buffers_,           \* <<number of the write(), length>>, oldest first
    used_, error_,
    stopped,            \* Thread::stop_ of the writer
    w,                  \* where AsyncHandleWriter::run() is
    c, length, outcome, \* the call the client is in, its argument, how the last one ended
    open,               \* the target handle is open
    asleep,             \* who is inside cond_.wait()
    accepted,           \* number of write()s that returned
    target, failed      \* the writes that reached the target, in order; those that failed

queue   == <<buffers_, used_, error_>>
history == <<accepted, target, failed>>
vars    == <<queue, stopped, w, c, length, outcome, open, asleep, history>>

Init ==
    /\ buffers_ = << >> /\ used_ = 0 /\ error_ = FALSE
    /\ stopped = FALSE /\ w = "top"
    /\ c = "idle" /\ length \in Lengths /\ outcome = "ok"
    /\ open = FALSE /\ asleep = {}
    /\ accepted = 0 /\ target = << >> /\ failed = {}

-----------------------------------------------------------------------------
round(x, n) == ((x + n - 1) \div n) * n
Size(b) == round(b[2], rounding_)

\* Nobody holds the mutex of cond_: only the writer keeps it from step to step.
Unlocked == w # "tested"

Signal ==
    \/ asleep = {} /\ UNCHANGED asleep
    \/ \E who \in asleep : asleep' = asleep \ {who}

-----------------------------------------------------------------------------
(* AsyncHandleWriter::run() *)

WriterAwake == w = "lock" /\ "writer" \notin asleep

\* while (!stopped())
Top ==
    /\ w = "top"
    /\ w' = IF stopped THEN "done" ELSE "lock"
    /\ UNCHANGED <<queue, stopped, c, length, outcome, open, asleep, history>>

\* while (buffers_.empty() && !stopped()): both hold ...
Test ==
    /\ WriterAwake /\ buffers_ = << >> /\ ~stopped
    /\ w' = "tested"
    /\ UNCHANGED <<queue, stopped, c, length, outcome, open, asleep, history>>

\* ... and cond_.wait() releases the mutex
Doze ==
    /\ w = "tested"
    /\ w' = "lock"
    /\ asleep' = asleep \cup {"writer"}
    /\ UNCHANGED <<queue, stopped, c, length, outcome, open, history>>

\* if (stopped()) break;
Break ==
    /\ WriterAwake /\ stopped
    /\ w' = "done"
    /\ UNCHANGED <<queue, stopped, c, length, outcome, open, asleep, history>>

\* Mutant: the buffer's length is given back instead of its rounded size.
Drop_Length ==
    /\ buffers_' = Tail(buffers_)
    /\ used_' = used_ - Head(buffers_)[2]

\* buffers_.pop_front(), before the write is tried
Drop ==
    /\ buffers_' = Tail(buffers_)
    /\ used_' = used_ - Size(Head(buffers_))

WriteFront ==
    /\ WriterAwake /\ buffers_ # << >> /\ ~stopped
    /\ Drop
    /\ target' = Append(target, Head(buffers_)[1])
    /\ Signal
    /\ w' = "top"
    /\ UNCHANGED <<error_, stopped, c, length, outcome, open, accepted, failed>>

\* The target's write() throws or is short: the exception unwinds the lock, and
\* the handler has yet to take it again.
WriteFails ==
    /\ TargetFails
    /\ WriterAwake /\ buffers_ # << >> /\ ~stopped
    /\ Drop
    /\ failed' = failed \cup {Head(buffers_)[1]}
    /\ w' = "catch"
    /\ UNCHANGED <<error_, stopped, c, length, outcome, open, asleep, accepted, target>>

\* Mutant: error_ is not set.
Report_None == UNCHANGED error_

Report == error_' = TRUE

\* catch (std::exception& e); the loop goes on with the next buffer
Catch ==
    /\ w = "catch"
    /\ Report
    /\ Signal
    /\ w' = "top"
    /\ UNCHANGED <<buffers_, used_, stopped, c, length, outcome, open, history>>

-----------------------------------------------------------------------------
(* The client *)

Awake(call) == c = call /\ "client" \notin asleep /\ Unlocked

Return(how) == c' = "idle" /\ outcome' = how

\* openForWrite(), openForAppend(), with their assertions
Open ==
    /\ c = "idle" /\ ~open
    /\ used_ = 0 /\ buffers_ = << >>
    /\ open' = TRUE
    /\ UNCHANGED <<queue, stopped, w, c, length, outcome, asleep, history>>

Call(call, n) ==
    /\ c = "idle" /\ open
    /\ call = "write" => accepted < MaxWrites
    /\ c' = call /\ length' = n
    /\ UNCHANGED <<queue, stopped, w, outcome, open, asleep, history>>

NoRoom == used_ + round(length, rounding_) >= maxSize_

\* Mutant: no special case for a buffer that is larger than maxSize_.
Drains_Always == TRUE

Drains == buffers_ # << >>

\* cond_.wait() in write(), and in the flush() of flush() and close()
Wait ==
    /\ \/ Awake("write") /\ NoRoom
       \/ Awake("flush") \/ Awake("close")
    /\ ~error_ /\ Drains
    /\ asleep' = asleep \cup {"client"}
    /\ UNCHANGED <<queue, stopped, w, c, length, outcome, open, history>>

\* if (error_) throw WriteError(message_);
Throw ==
    /\ Awake("write") \/ Awake("flush") \/ Awake("close")
    /\ error_
    /\ Return("thrown")
    /\ UNCHANGED <<queue, stopped, w, length, open, asleep, history>>

\* The end of write(): buffers_.push_back()
Write ==
    /\ Awake("write") /\ ~error_
    /\ NoRoom => buffers_ = << >>
    /\ accepted' = accepted + 1
    /\ buffers_' = Append(buffers_, <<accepted', length>>)
    /\ used_' = used_ + round(length, rounding_)
    /\ Signal
    /\ Return("ok")
    /\ UNCHANGED <<error_, stopped, w, length, open, target, failed>>

\* The end of flush(), with the target's flush(), which may throw; in close() it
\* goes on
Flush ==
    /\ Awake("flush") \/ Awake("close")
    /\ ~error_ /\ buffers_ = << >>
    /\ \/ IF c = "close" THEN c' = "closing" /\ UNCHANGED outcome ELSE Return("ok")
       \/ TargetFails /\ Return("thrown")
    /\ UNCHANGED <<queue, stopped, w, length, open, asleep, history>>

\* handle().close(), without the lock; it may throw, the target open or not
CloseTarget ==
    /\ c = "closing"
    /\ \/ c' = "closed" /\ open' = FALSE /\ UNCHANGED outcome
       \/ TargetFails /\ Return("thrown") /\ open' \in BOOLEAN
    /\ UNCHANGED <<queue, stopped, w, length, asleep, history>>

\* close() looks at error_ a last time
CloseReturns ==
    /\ Awake("closed")
    /\ Return(IF error_ THEN "thrown" ELSE "ok")
    /\ UNCHANGED <<queue, stopped, w, length, open, asleep, history>>

\* ~AsyncHandle(): the buffers left are deleted (used_ stays) ...
Destroy ==
    /\ Awake("idle")
    /\ buffers_' = << >>
    /\ Signal
    /\ c' = "destroy"
    /\ UNCHANGED <<used_, error_, stopped, w, length, outcome, open, history>>

\* ... thread_.stop() ...
StopWriter ==
    /\ c = "destroy"
    /\ stopped' = TRUE
    /\ c' = "stopping"
    /\ UNCHANGED <<queue, w, length, outcome, open, asleep, history>>

\* ... cond_.signal(), without the lock ...
SignalWriter ==
    /\ c = "stopping"
    /\ Signal
    /\ c' = "joining"
    /\ UNCHANGED <<queue, stopped, w, length, outcome, open, history>>

\* ... and thread_.wait()
Join ==
    /\ c = "joining" /\ w = "done"
    /\ c' = "gone"
    /\ UNCHANGED <<queue, stopped, w, length, outcome, open, asleep, history>>

-----------------------------------------------------------------------------
SpuriousWake ==
    /\ \E who \in asleep : asleep' = asleep \ {who}
    /\ UNCHANGED <<queue, stopped, w, c, length, outcome, open, history>>

Writer == Top \/ Test \/ Doze \/ Break \/ WriteFront \/ WriteFails \/ Catch

InCall ==
    \/ Wait \/ Throw \/ Write \/ Flush \/ CloseTarget \/ CloseReturns
    \/ StopWriter \/ SignalWriter \/ Join

Gone == c = "gone" /\ UNCHANGED vars

Next ==
    \/ Writer \/ InCall \/ Open \/ Destroy \/ SpuriousWake \/ Gone
    \/ \E call \in {"write", "flush", "close"}, n \in Lengths : Call(call, n)

Spec == Init /\ [][Next]_vars

\* Both threads run, and the target's write(), flush() and close() come back.
\* The client gets the mutex in the end, though the writer may take it again and
\* again when it is woken for nothing: hence the strong fairness.
FairSpec == Spec /\ WF_vars(Writer) /\ SF_vars(InCall)

-----------------------------------------------------------------------------
Destroyed == c \in {"destroy", "stopping", "joining", "gone"}

\* used_ is the memory held by the queue: what write() adds for a buffer is what
\* the writer takes off, whether its write succeeds or fails.  It is less than
\* maxSize_, except for a single buffer that is too large by itself ("Special
\* case for size > maxSize_").  And every write() that returned is written once,
\* or failed once, or is queued, and the target gets them in order.
WritesAccounted ==
    ~Destroyed =>
        LET kept == target \o [k \in DOMAIN buffers_ |-> buffers_[k][1]]
        IN  /\ used_ = SumFunction([k \in DOMAIN buffers_ |-> Size(buffers_[k])])
            /\ used_ >= maxSize_ => Len(buffers_) = 1
            /\ \A k \in 1..Len(kept) - 1 : kept[k] < kept[k + 1]
            /\ Range(kept) \cup failed = 1..accepted
            /\ Range(kept) \cap failed = {}

\* flush() and close() succeed only when every accepted write has reached the
\* target.  The exception is the gap in which the writer has seen the last
\* write fail, has released the lock, and has not set error_ yet.
SuccessMeansWritten ==
    [][ (c \in {"flush", "closed"} /\ c' = "idle" /\ outcome' = "ok") =>
            \/ Range(target) = 1..accepted
            \/ w = "catch" /\ failed = {accepted} ]_vars

\* A call of write(), flush() or close() comes back.
CallReturns == c \in {"write", "flush", "close", "closing", "closed"} ~> c = "idle"

\* The destructor comes back: thread_.wait() sees the writer end.
DestructorReturns == c = "destroy" ~> c = "gone"
=============================================================================
