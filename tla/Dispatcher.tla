----------------------------- MODULE Dispatcher -----------------------------
(***************************************************************************)
(* runtime/Dispatcher.h: threads that take requests from queue_ as a       *)
(* Handler picks them.  A thread whose handler picks nothing goes to sleep *)
(* on a second condition (wait_) until something happens.  The number of   *)
(* threads is set by reconfigure(), through null requests, or grows with   *)
(* the load (grow_).  One action is one critical section of ready_, wait_  *)
(* or lock_.                                                               *)
(*                                                                         *)
(* The Handler is outside: it picks the first request that does not        *)
(* conflict with one in progress.  With no conflicts it is DefaultHandler. *)
(***************************************************************************)
EXTENDS Integers, SequencesExt, FiniteSetsExt

CONSTANTS
    Threads,       \* identities for DispatchTasks, free again once a thread has ended
    Clients,       \* threads that push
    Requests,      \* requests, each pushed once
    Conflicts,     \* sets of requests of which one at a time is handled
    Sizes,         \* values of numberOfThreads_; 0 lets the number grow
    MaxCalls,      \* bound on the calls of reconfigure() and dequeue()
    MaxGrown,      \* bound on the number to which a growing Dispatcher is reconfigured
    Main,          \* the thread that makes them
    Null           \* the null request

ASSUME SizesAssumption == Sizes \subseteq Nat /\ MaxCalls \in Nat /\ MaxGrown \in Nat
ASSUME NamesAssumption == Main \notin Clients /\ Null \notin Requests

VARIABLES
    queue_, count_, running_, grow_, numberOfThreads_,
    conflict,      \* the requests that conflict with each other
    ready, wait,   \* threads inside ready_.wait() and wait_.wait()
    tpc, pick_,    \* where each thread is in DispatchTask::run(), and its request
    at, delta, left, req,   \* where each caller is; in changeThreadCount(): delta, what is left of it
    stage,         \* history: how far each request has come
    calls, ended   \* history: calls of Main, threads that a null request has ended

pool    == <<count_, running_, grow_, numberOfThreads_, conflict>>
sleep   == <<ready, wait>>
callers == <<at, delta, left, req>>
past    == <<stage, calls, ended>>
vars    == <<queue_, pool, sleep, tpc, pick_, callers, past>>

Callers == Clients \cup {Main}

\* the constructor, when its changeThreadCount() has returned
Init ==
    /\ \E n \in Sizes :
          /\ grow_ = (n = 0) /\ numberOfThreads_ = n /\ count_ = n
          /\ \E T \in kSubset(n, Threads) : tpc = [t \in Threads |-> IF t \in T THEN "next" ELSE "none"]
    /\ queue_ = << >> /\ running_ = 0 /\ conflict \in Conflicts
    /\ ready = {} /\ wait = {}
    /\ pick_ = [t \in Threads |-> Null]
    /\ at = [c \in Callers |-> "idle"] /\ req = [c \in Callers |-> Null]
    /\ delta = [c \in Callers |-> 0] /\ left = [c \in Callers |-> 0]
    /\ stage = [r \in Requests |-> "new"] /\ calls = 0 /\ ended = 0

-----------------------------------------------------------------------------
\* ready_.signal()
SignalReady ==
    IF ready = {} THEN UNCHANGED ready ELSE \E t \in ready : ready' = ready \ {t}

\* awake(): broadcast on wait_
Awake == wait' = {}

Goto(c, place) == at' = [at EXCEPT ![c] = place]
Go(t, place)   == tpc' = [tpc EXCEPT ![t] = place]
Stage(r, s)    == stage' = [stage EXCEPT ![r] = s]

-----------------------------------------------------------------------------
(* push(), changeThreadCount() and reconfigure(), by a client or by Main *)

\* push(): cnt = running(), kept in left
Push(c, r) ==
    /\ at[c] = "idle" /\ stage[r] = "new"
    /\ Stage(r, "pushed")
    /\ req' = [req EXCEPT ![c] = r]
    /\ left' = [left EXCEPT ![c] = IF grow_ THEN running_ ELSE 0]
    /\ Goto(c, IF grow_ THEN "compare" ELSE "push")
    /\ UNCHANGED <<queue_, pool, sleep, tpc, pick_, delta, calls, ended>>

\* changeThreadCount(n), to the start of its loops
Change(c, n) ==
    /\ delta' = [delta EXCEPT ![c] = n] /\ left' = [left EXCEPT ![c] = n]
    /\ Goto(c, "change")

\* Mutant: threads are added only when there are more than counted.
AllRunning_More(c) == left[c] > count_

\* if (cnt == count_), without a lock
AllRunning(c) == left[c] = count_

Compare(c) ==
    /\ at[c] = "compare"
    /\ IF AllRunning(c) THEN Change(c, 1) ELSE Goto(c, "push") /\ UNCHANGED <<delta, left>>
    /\ UNCHANGED <<queue_, pool, sleep, tpc, pick_, req, past>>

StartThread(c) ==
    /\ at[c] = "change" /\ left[c] > 0
    /\ \E t \in Threads : tpc[t] = "none" /\ Go(t, "next")
    /\ left' = [left EXCEPT ![c] = @ - 1]
    /\ UNCHANGED <<queue_, pool, sleep, pick_, at, delta, req, past>>

\* _push(r): one section of ready_ and then one of wait_
Enqueue(c) ==
    /\ at[c] = "push" \/ (at[c] = "change" /\ left[c] < 0)
    /\ IF at[c] = "push"
         THEN /\ queue_' = Append(queue_, req[c])
              /\ Stage(req[c], "queued")
              /\ Goto(c, "awake") /\ UNCHANGED left
         ELSE /\ queue_' = Append(queue_, Null)
              /\ left' = [left EXCEPT ![c] = @ + 1]
              /\ Goto(c, "awakeNull") /\ UNCHANGED stage
    /\ SignalReady
    /\ UNCHANGED <<pool, wait, tpc, pick_, delta, req, calls, ended>>

AwakeAll(c) ==
    /\ at[c] \in {"awake", "awakeNull"}
    /\ Awake
    /\ Goto(c, IF at[c] = "awake" THEN "idle" ELSE "change")
    /\ UNCHANGED <<queue_, pool, ready, tpc, pick_, delta, left, req, past>>

\* Mutant: threads that are told to end are still counted.
NewCount_Kept(c) == IF delta[c] < 0 THEN count_ ELSE count_ + delta[c]

NewCount(c) == count_ + delta[c]

\* count_ += delta; reconfigure() then calls awake(), push() goes on to _push()
Counted(c) ==
    /\ at[c] = "change" /\ left[c] = 0
    /\ count_' = NewCount(c)
    /\ delta' = [delta EXCEPT ![c] = 0]
    /\ Goto(c, IF c = Main THEN "awake" ELSE "push")
    /\ UNCHANGED <<queue_, running_, grow_, numberOfThreads_, conflict, sleep, tpc, pick_, left, req, past>>

\* reconfigure(), the resource having become n; grow_ stays as it is
Reconfigure(n) ==
    /\ at[Main] = "idle" /\ calls < MaxCalls
    /\ calls' = calls + 1
    /\ grow_ => n <= MaxGrown
    /\ numberOfThreads_' = n
    /\ Change(Main, n - count_)
    /\ UNCHANGED <<queue_, count_, running_, grow_, conflict, sleep, tpc, pick_, req, stage, ended>>

\* dequeue(): the picker takes one request out
Dequeue ==
    /\ at[Main] = "idle" /\ calls < MaxCalls
    /\ calls' = calls + 1
    /\ \E n \in DOMAIN queue_ :
          queue_[n] # Null /\ queue_' = RemoveAt(queue_, n) /\ Stage(queue_[n], "removed")
    /\ SignalReady
    /\ UNCHANGED <<pool, wait, tpc, pick_, callers, ended>>

-----------------------------------------------------------------------------
(* DispatchTask::run() *)

Busy == {pick_[t] : t \in {u \in Threads : tpc[u] \in {"picked", "handle"}}} \ {Null}

\* handler.pick(): the places it would pick from
Pickable == {n \in DOMAIN queue_ : queue_[n] \in conflict => Busy \cap conflict = {}}

NextWait(t) ==
    /\ tpc[t] = "next" /\ t \notin ready
    /\ queue_ = << >>
    /\ ready' = ready \cup {t}
    /\ UNCHANGED <<queue_, pool, wait, tpc, pick_, callers, past>>

NextAwake(t) == tpc[t] = "next" /\ t \notin ready /\ queue_ # << >>

Nulls == {n \in DOMAIN queue_ : queue_[n] = Null}

\* next() finds a null request, wherever it is
NextStop(t) ==
    /\ NextAwake(t) /\ Nulls # {}
    /\ queue_' = RemoveAt(queue_, Min(Nulls))
    /\ SignalReady
    /\ Go(t, "end")
    /\ ended' = ended + 1
    /\ UNCHANGED <<pool, wait, pick_, callers, stage, calls>>

NextPick(t) ==
    /\ NextAwake(t) /\ Nulls = {} /\ Pickable # {}
    /\ LET n == Min(Pickable) IN
          /\ queue_' = RemoveAt(queue_, n)
          /\ pick_' = [pick_ EXCEPT ![t] = queue_[n]]
          /\ Stage(queue_[n], "taken")
    /\ SignalReady
    /\ Go(t, "picked")
    /\ UNCHANGED <<pool, wait, callers, calls, ended>>

\* the handler picks nothing
NextNothing(t) ==
    /\ NextAwake(t) /\ Nulls = {} /\ Pickable = {}
    /\ SignalReady
    /\ Go(t, "picked")
    /\ UNCHANGED <<queue_, pool, wait, pick_, callers, past>>

Running(t, d) ==
    /\ running_' = IF grow_ THEN running_ + d ELSE running_
    /\ UNCHANGED <<queue_, count_, grow_, numberOfThreads_, conflict, ready, callers>>

RunningUp(t) ==
    /\ tpc[t] = "picked"
    /\ Running(t, 1)
    /\ Go(t, IF pick_[t] = Null THEN "idle" ELSE "handle")
    /\ UNCHANGED <<wait, pick_, past>>

\* handle() returns or throws
Handle(t) ==
    /\ tpc[t] = "handle"
    /\ Stage(pick_[t], "done")
    /\ Go(t, "awake")
    /\ UNCHANGED <<queue_, pool, sleep, pick_, callers, calls, ended>>

AwakeOthers(t) ==
    /\ tpc[t] = "awake"
    /\ Awake
    /\ Go(t, "after")
    /\ UNCHANGED <<queue_, pool, ready, pick_, callers, past>>

\* sleep(): wait_.wait(), whatever has happened since pick()
Sleep(t) ==
    /\ tpc[t] = "idle"
    /\ wait' = wait \cup {t}
    /\ Go(t, "asleep")
    /\ UNCHANGED <<queue_, pool, ready, pick_, callers, past>>

RunningDown(t) ==
    /\ tpc[t] = "after" \/ (tpc[t] = "asleep" /\ t \notin wait)
    /\ Running(t, -1)
    /\ pick_' = [pick_ EXCEPT ![t] = Null]
    /\ Go(t, "next")
    /\ UNCHANGED <<wait, past>>

End(t) ==
    /\ tpc[t] = "end"
    /\ Awake
    /\ Go(t, "none")
    /\ UNCHANGED <<queue_, pool, ready, pick_, callers, past>>

SpuriousWake ==
    /\ \/ \E t \in ready : ready' = ready \ {t} /\ UNCHANGED wait
       \/ \E t \in wait : wait' = wait \ {t} /\ UNCHANGED ready
    /\ UNCHANGED <<queue_, pool, tpc, pick_, callers, past>>

Call(c) == Compare(c) \/ StartThread(c) \/ Enqueue(c) \/ AwakeAll(c) \/ Counted(c)

Work(t) ==
    \/ NextWait(t) \/ NextStop(t) \/ NextPick(t) \/ NextNothing(t) \/ RunningUp(t)
    \/ Handle(t) \/ AwakeOthers(t) \/ Sleep(t) \/ RunningDown(t) \/ End(t)

Next ==
    \/ \E c \in Clients, r \in Requests : Push(c, r)
    \/ \E n \in Sizes : Reconfigure(n)
    \/ Dequeue
    \/ \E c \in Callers : Call(c)
    \/ \E t \in Threads : Work(t)
    \/ SpuriousWake

Spec == Init /\ [][Next]_vars

\* Threads that can run do run, and handle() comes back.
FairSpec ==
    /\ Spec
    /\ \A c \in Callers : WF_vars(Call(c))
    /\ \A t \in Threads : WF_vars(Work(t))

-----------------------------------------------------------------------------
Live == {t \in Threads : tpc[t] \notin {"none", "end"}}

\* The number of threads is what count_ says, once the null requests in the
\* queue are taken, through concurrent calls that add to count_ and take from it
\* without a common lock: nobody is told to stop twice, and none is forgotten.
ThreadsCounted ==
    Cardinality(Live) - Cardinality(Nulls)
        = count_ + MapThenSumSet(LAMBDA c : IF at[c] \in {"change", "awakeNull"} THEN delta[c] - left[c] ELSE 0, Callers)

\* A request that is queued is handled, or taken out by dequeue().  Two
\* exceptions: the number of threads was set to 0; or threads have been ended and a
\* request stays behind, because the other threads missed the last awake()
\* (there are conflicts), or because push() counted a thread that was about to
\* end (the number grows).
EveryRequestHandled ==
    \A r \in Requests :
        stage[r] = "queued" ~>
            \/ stage[r] \in {"done", "removed"}
            \/ numberOfThreads_ = 0 /\ ~grow_
            \/ ended > 0 /\ (conflict # {} \/ grow_)
=============================================================================
