------------------------------ MODULE AIOHandle ------------------------------
(***************************************************************************)
(* io/AIOHandle.cc: a handle that copies what it is given to write into    *)
(* one of count_ buffers and leaves the writing to POSIX asynchronous I/O. *)
(* One thread uses the handle; the system completes requests meanwhile, in *)
(* any order (in the order of the calls for a file opened to append), in   *)
(* whole, in part, or with an error.                                       *)
(*                                                                         *)
(* A write is known by its rank since the opening, which stands for its    *)
(* offset and for its data.  Waiting in aio_suspend() is a guard.          *)
(***************************************************************************)
EXTENDS Naturals, Sequences, FiniteSets

CONSTANTS
    Counts,        \* numbers of buffers
    MaxWrites,     \* bound on write() between two openings
    MaxOpens       \* bound on openings

VARIABLES
    count_, fsync_,
    fd_,           \* is a file open
    used_, pos_,
    buffers_,      \* active: active_; data: what the buffer holds, 0 when it is freed;
                   \* req, error: the request of aio_ (0 if refused), what aio_error() says
    call, at,      \* the call in progress, and where the scan of getFreeSlot() is
    flying,        \* requests in the system, in the order of the calls
    mode, file,    \* since the opening: how, and what was written, as <<place, data>>
    opens,
    outcome,       \* how the last call ended
    reported,      \* history: writes of this opening whose failure a call has thrown
    abandoned      \* history: opened again, or destroyed, before a close() returned

handle == <<count_, fsync_, fd_, used_, pos_, buffers_>>
system == <<flying, file>>
vars   == <<handle, call, at, system, mode, opens, outcome, reported, abandoned>>

Slots == 1..count_
Idle  == call = "none" /\ ~abandoned     \* an abandoned handle is followed no further
Return(how) == call' = "none" /\ at' = 0 /\ outcome' = how

Init ==
    /\ count_ \in Counts /\ fsync_ \in BOOLEAN
    /\ fd_ = FALSE /\ used_ = 0 /\ pos_ = 0
    /\ buffers_ = [n \in Slots |-> [active |-> FALSE, data |-> 0, req |-> 0, error |-> "none"]]
    /\ call = "none" /\ at = 0 /\ flying = <<>> /\ mode = "write" /\ file = {}
    /\ opens = 0 /\ outcome = "returned" /\ reported = {} /\ abandoned = FALSE

-----------------------------------------------------------------------------
\* openForWrite(), and openForAppend(), where lseek() gives 0 as well: the slots
\* are taken to be free.
Open(m) ==
    /\ Idle /\ opens < MaxOpens
    /\ fd_' = TRUE /\ used_' = 0 /\ pos_' = 0
    /\ mode' = m /\ file' = {} /\ opens' = opens + 1
    /\ reported' = {} /\ abandoned' = (abandoned \/ fd_)
    /\ Return("returned")
    /\ UNCHANGED <<count_, fsync_, buffers_, flying>>

\* ::open() fails: fd_ is -1
OpenThrows ==
    /\ Idle /\ opens < MaxOpens
    /\ fd_' = FALSE /\ used_' = 0
    /\ opens' = opens + 1 /\ abandoned' = (abandoned \/ fd_)
    /\ Return("thrown")
    /\ UNCHANGED <<count_, fsync_, pos_, buffers_, system, mode, reported>>

\* AIOBuffer::write(), and the end of write().  If aio_write() refuses the
\* request, aio_ was cleared and active_ is as before.
Submit(n) ==
    \/ /\ buffers_' = [buffers_ EXCEPT ![n] =
             [active |-> TRUE, data |-> pos_ + 1, req |-> pos_ + 1, error |-> "inprogress"]]
       /\ flying' = Append(flying, [slot |-> n, req |-> pos_ + 1])
       /\ pos_' = pos_ + 1
       /\ Return("returned")
    \/ /\ buffers_' = [buffers_ EXCEPT ![n] =
             [active |-> @.active /\ call = "none", data |-> pos_ + 1, req |-> 0, error |-> "failed"]]
       /\ UNCHANGED <<flying, pos_>>
       /\ Return("thrown")

\* write() with a slot that is not used yet
WriteNew ==
    /\ Idle /\ fd_ /\ pos_ < MaxWrites
    /\ used_ < count_
    /\ used_' = used_ + 1
    /\ Submit(used_ + 1)
    /\ UNCHANGED <<count_, fsync_, fd_, file, mode, opens, reported, abandoned>>

\* write() with all slots used: aio_suspend() waits until one is done
WriteSuspend ==
    /\ Idle /\ fd_ /\ pos_ < MaxWrites
    /\ used_ = count_ /\ \E n \in Slots : buffers_[n].error # "inprogress"
    /\ call' = "write" /\ at' = 1
    /\ UNCHANGED <<handle, system, mode, opens, outcome, reported, abandoned>>

\* the search for it, while others may complete
ScanBusy ==
    /\ call = "write" /\ at \in Slots /\ buffers_[at].error = "inprogress"
    /\ at' = at + 1
    /\ UNCHANGED <<handle, call, system, mode, opens, outcome, reported, abandoned>>

\* Mutant: the number of bytes written is not looked at.
Written_Short(n) == buffers_[n].error \in {"done", "short"}

\* aio_error() is 0, and aio_return() all that was asked for
Written(n) == buffers_[n].error = "done"

\* Mutant: the first slot is taken without asking for its state.
Free_Busy(n) == buffers_[n].error \in {"done", "inprogress"}

\* getFreeSlot(): the slot's request is over, and wrote everything
Free(n) == Written(n)

ScanTake ==
    /\ call = "write" /\ at \in Slots /\ Free(at)
    /\ Submit(at)
    /\ UNCHANGED <<count_, fsync_, fd_, used_, file, mode, opens, reported, abandoned>>

\* aio_error(), or less than length() from aio_return(), for the request of slot n
Report(n) ==
    /\ buffers_' = [buffers_ EXCEPT ![n].active = FALSE]
    /\ reported' = reported \cup {buffers_[n].req}
    /\ Return("thrown")

ScanThrows ==
    /\ call = "write" /\ at \in Slots /\ buffers_[at].error \in {"short", "failed"}
    /\ Report(at)
    /\ UNCHANGED <<count_, fsync_, fd_, used_, pos_, system, mode, opens, abandoned>>

-----------------------------------------------------------------------------
\* flush(), and close() of an open file, which begins with it
Flush(c) ==
    /\ Idle /\ fd_
    /\ call' = c
    /\ UNCHANGED <<handle, at, system, mode, opens, outcome, reported, abandoned>>

Flushing == call \in {"flush", "close"}

\* the slot the loop of flush() is at: the ones before it are not active
Active == {n \in 1..used_ : buffers_[n].active}
Current(n) == Flushing /\ n \in Active /\ \A m \in Active : n <= m

FlushDone(n) ==
    /\ Current(n) /\ Written(n)
    /\ buffers_' = [buffers_ EXCEPT ![n].active = FALSE]
    /\ UNCHANGED <<count_, fsync_, fd_, used_, pos_, call, at, system, mode, opens, outcome, reported, abandoned>>

FlushThrows(n) ==
    /\ Current(n) /\ buffers_[n].error \in {"short", "failed"}
    /\ Report(n)
    /\ UNCHANGED <<count_, fsync_, fd_, used_, pos_, system, mode, opens, abandoned>>

\* aio_suspend(), aio_fsync() or ::close() fails
CallThrows ==
    /\ Flushing
    /\ Active # {} \/ fsync_ \/ call = "close"
    /\ Return("thrown")
    /\ UNCHANGED <<handle, system, mode, opens, reported, abandoned>>

\* all is flushed, and synchronised if asked for; close() closes the file
FlushReturn ==
    /\ Flushing /\ Active = {}
    /\ fd_' = (call = "flush")
    /\ Return("returned")
    /\ UNCHANGED <<count_, fsync_, used_, pos_, buffers_, system, mode, opens, reported, abandoned>>

\* The destructor frees the buffers, and waits for nothing.
Destroy ==
    /\ Idle
    /\ buffers_' = [n \in Slots |-> [buffers_[n] EXCEPT !.data = 0]]
    /\ abandoned' = (abandoned \/ fd_)
    /\ call' = "gone"
    /\ UNCHANGED <<count_, fsync_, fd_, used_, pos_, at, system, mode, opens, outcome, reported>>

-----------------------------------------------------------------------------
\* The system completes a request with what the buffer holds then.
Complete(k, how) ==
    /\ ~abandoned
    /\ mode = "append" => k = 1
    /\ LET r     == flying[k]
           place == IF mode = "append" THEN 1 + Cardinality(file) ELSE r.req
           data  == buffers_[r.slot].data
       IN /\ buffers_' = [buffers_ EXCEPT ![r.slot].error = how]
          /\ file' = IF how = "done" THEN file \cup {<<place, data>>} ELSE file
    /\ flying' = SubSeq(flying, 1, k - 1) \o SubSeq(flying, k + 1, Len(flying))
    /\ UNCHANGED <<count_, fsync_, fd_, used_, pos_, call, at, mode, opens, outcome, reported, abandoned>>

Next ==
    \/ \E m \in {"write", "append"} : Open(m)
    \/ OpenThrows
    \/ WriteNew \/ WriteSuspend \/ ScanBusy \/ ScanTake \/ ScanThrows
    \/ \E c \in {"flush", "close"} : Flush(c)
    \/ \E n \in Slots : FlushDone(n) \/ FlushThrows(n)
    \/ CallThrows \/ FlushReturn \/ Destroy
    \/ \E k \in DOMAIN flying, how \in {"done", "short", "failed"} : Complete(k, how)

Spec == Init /\ [][Next]_vars

-----------------------------------------------------------------------------
\* As long as the client opens again, or destroys the handle, only after a close()
\* that returned, no buffer is filled again or freed while the system reads from
\* it (getFreeSlot() and flush() drop a request only when it is complete), and
\* ASSERT(ok) holds: the search after aio_suspend() finds a slot.
BuffersHeld ==
    /\ ~abandoned => \A k \in DOMAIN flying : buffers_[flying[k].slot].data = flying[k].req
    /\ call = "write" => at \in Slots

\* When flush() or close() returns, every write since the opening is in its place
\* in the file, unless a call has thrown for it; after such a failure the writes
\* appended behind it are further ahead, in order.  Nothing fails silently,
\* whichever call meets the failure.
FlushMeansWritten ==
    [][ Flushing /\ call' = "none" /\ outcome' = "returned" /\ ~abandoned =>
          /\ \A i \in 1..pos_ \ reported :
                IF mode = "append" /\ reported # {} THEN \E p \in 1..i : <<p, i>> \in file
                                                    ELSE <<i, i>> \in file
          /\ \A w, v \in file : w[1] < v[1] => w[2] < v[2] ]_vars
=============================================================================
