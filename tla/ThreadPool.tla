----------------------------- MODULE ThreadPool -----------------------------
(***************************************************************************)
(* thread/ThreadPool.cc.  Workers take tasks from queue_, clients push     *)
(* them and wait() for them, a task may push further tasks through pool(), *)
(* and the owner of the pool resizes it and calls waitForThreads() (which  *)
(* is also all the destructor does).  The pool has three mutexes, each     *)
(* with its condition: ready_ (queue_), active_ (tasks_) and done_         *)
(* (running_, error_).  One action is one critical section.                *)
(***************************************************************************)
EXTENDS Integers, Sequences, FiniteSets

CONSTANTS
    Workers,     \* identities for ThreadPoolThreads, free again once a thread has ended
    Clients,     \* threads that push
    Waiters,     \* the clients that also call wait()
    Tasks,       \* tasks, each pushed at most once
    Lists,       \* the std::lists given to push(std::list&), as sequences of tasks
    PoolSizes,   \* what the constructor and resize() are given
    MaxCalls,    \* bound on the owner's calls of resize() and waitForThreads()
    SizeT,       \* one more than the greatest size_t
    Null         \* the nullptr that tells a worker to end

ASSUME FiniteAssumption == IsFiniteSet(Workers) /\ IsFiniteSet(Tasks)
ASSUME ActorsAssumption == Waiters \subseteq Clients /\ Workers \cap Clients = {}
ASSUME ListsAssumption  ==
    \A l \in Lists : l \in Seq(Tasks) /\ \A i, j \in DOMAIN l : l[i] = l[j] => i = j
ASSUME SizesAssumption  == PoolSizes \subseteq Nat /\ MaxCalls \in Nat
ASSUME SizeTAssumption  ==
    SizeT \in Nat /\ Cardinality(Tasks) < SizeT /\ Cardinality(Workers) < SizeT
ASSUME NullAssumption   == Null \notin Tasks

VARIABLES
    queue_, count_, running_, tasks_, error_,
    ready,       \* workers inside ready_.wait()
    active,      \* clients inside active_.wait()
    wpc,         \* where each worker is in ThreadPoolThread::run()
    holds,       \* the task a worker took
    pending,     \* the task an actor has counted and not queued yet
    waiting,     \* clients inside wait()
    opc,         \* where the owner is
    left,        \* resize(): the size asked for; waitForThreads(): nulls to push
    calls,       \* calls of the owner so far
    stage,       \* history: how far each task has come
    listed,      \* history: tasks pushed in a list
    failed,      \* history: tasks whose execute() threw, not reported yet
    posted       \* history: nulls waitForThreads() has pushed

pool  == <<queue_, count_, running_, tasks_, error_>>
owner == <<opc, left, calls, posted>>
vars  == <<pool, ready, active, wpc, holds, pending, waiting, owner, stage, listed, failed>>

Actors == Clients \cup Workers
None   == Null

Init ==
    /\ queue_ = << >>
    /\ running_ = 0 /\ tasks_ = 0 /\ error_ = FALSE
    /\ \E W \in SUBSET Workers :        \* the constructor's resize(count)
          /\ Cardinality(W) \in PoolSizes
          /\ count_ = Cardinality(W)
          /\ wpc = [w \in Workers |-> IF w \in W THEN "created" ELSE "none"]
    /\ ready = {} /\ active = {} /\ waiting = {}
    /\ holds = [w \in Workers |-> None]
    /\ pending = [a \in Actors |-> None]
    /\ opc = "idle" /\ left = 0 /\ calls = 0
    /\ stage = [r \in Tasks |-> "new"]
    /\ listed = {} /\ failed = {}
    /\ posted = 0

-----------------------------------------------------------------------------
\* pthread_cond_signal on ready_ and active_: one of the sleepers, if any.
\* (It may wake more than one: SpuriousWake.)
SignalReady ==
    \/ ready = {} /\ UNCHANGED ready
    \/ \E w \in ready : ready' = ready \ {w}

SignalActive ==
    \/ active = {} /\ UNCHANGED active
    \/ \E c \in active : active' = active \ {c}

\* A client between two calls, or a worker inside execute().
MayPush(a) ==
    /\ pending[a] = None
    /\ a \in Workers => wpc[a] = "run"
    /\ a \in Clients => a \notin waiting

\* push(r), first half: startTask()
StartTask(a, r) ==
    /\ MayPush(a)
    /\ stage[r] = "new"
    /\ tasks_' = (tasks_ + 1) % SizeT
    /\ SignalActive
    /\ pending' = [pending EXCEPT ![a] = r]
    /\ stage' = [stage EXCEPT ![r] = "counted"]
    /\ UNCHANGED <<queue_, count_, running_, error_, ready, wpc, holds, waiting, owner, failed, listed>>

\* push(r), second half
Enqueue(a) ==
    /\ pending[a] # None
    /\ queue_' = Append(queue_, pending[a])
    /\ SignalReady
    /\ stage' = [stage EXCEPT ![pending[a]] = "queued"]
    /\ pending' = [pending EXCEPT ![a] = None]
    /\ UNCHANGED <<count_, running_, tasks_, error_, active, wpc, holds, waiting, owner, failed, listed>>

\* push(std::list&): one signal for the whole list, and no startTask()
PushList(a, l) ==
    /\ MayPush(a)
    /\ \A i \in DOMAIN l : stage[l[i]] = "new"
    /\ queue_' = queue_ \o l
    /\ SignalReady
    /\ stage' = [r \in Tasks |-> IF \E i \in DOMAIN l : l[i] = r THEN "queued" ELSE stage[r]]
    /\ listed' = listed \cup {l[i] : i \in DOMAIN l}
    /\ UNCHANGED <<count_, running_, tasks_, error_, active, wpc, holds, pending, waiting, owner, failed>>

\* wait()
CallWait(c) ==
    /\ MayPush(c) /\ c \in Waiters
    /\ waiting' = waiting \cup {c}
    /\ UNCHANGED <<pool, ready, active, wpc, holds, pending, owner, stage, failed, listed>>

WaitSleep(c) ==
    /\ c \in waiting \ active
    /\ tasks_ # 0
    /\ active' = active \cup {c}
    /\ UNCHANGED <<pool, ready, wpc, holds, pending, waiting, owner, stage, failed, listed>>

\* Mutant: an "if" where the loop is: any wake-up will do.
NoTasks_AnyWakeup == TRUE

\* while (tasks_): the condition that ends it
NoTasks == tasks_ = 0

WaitReturn(c) ==
    /\ c \in waiting \ active
    /\ NoTasks
    /\ waiting' = waiting \ {c}
    /\ UNCHANGED <<pool, ready, active, wpc, holds, pending, owner, stage, failed, listed>>

-----------------------------------------------------------------------------
Goto(w, pc) == wpc' = [wpc EXCEPT ![w] = pc]

\* notifyStart(); the owner, if asleep on done_, is signalled
NotifyStart(w) ==
    /\ wpc[w] = "created"
    /\ running_' = (running_ + 1) % SizeT
    /\ opc' = IF opc = "asleep" THEN "joining" ELSE opc
    /\ Goto(w, "next")
    /\ UNCHANGED <<queue_, count_, tasks_, error_, ready, active, holds, pending, waiting,
                   left, calls, posted, stage, failed, listed>>

\* next(): while (queue_.empty()) ready_.wait();
NextSleep(w) ==
    /\ wpc[w] = "next" /\ w \notin ready
    /\ queue_ = << >>
    /\ ready' = ready \cup {w}
    /\ UNCHANGED <<pool, active, wpc, holds, pending, waiting, owner, stage, failed, listed>>

\* next() returns; if tasks remain it signals the next worker
Take(w) ==
    /\ wpc[w] = "next" /\ w \notin ready
    /\ queue_ # << >>
    /\ queue_' = Tail(queue_)
    /\ IF Tail(queue_) # << >> THEN SignalReady ELSE UNCHANGED ready
    /\ IF Head(queue_) = Null
         THEN Goto(w, "exit") /\ UNCHANGED <<holds, stage>>
         ELSE /\ Goto(w, "run")
              /\ holds' = [holds EXCEPT ![w] = Head(queue_)]
              /\ stage' = [stage EXCEPT ![Head(queue_)] = "taken"]
    /\ UNCHANGED <<count_, running_, tasks_, error_, active, pending, waiting, owner, failed, listed>>

\* r->execute() returns or throws
Execute(w) ==
    /\ wpc[w] = "run" /\ pending[w] = None
    /\ \/ Goto(w, "delete") /\ UNCHANGED failed
       \/ Goto(w, "report") /\ failed' = failed \cup {holds[w]}
    /\ UNCHANGED <<pool, ready, active, holds, pending, waiting, owner, stage, listed>>

\* delete r returns or throws
Delete(w) ==
    /\ wpc[w] = "delete"
    /\ \/ Goto(w, "end") /\ UNCHANGED failed
       \/ Goto(w, "reportDelete") /\ failed' = failed \cup {holds[w]}
    /\ UNCHANGED <<pool, ready, active, holds, pending, waiting, owner, stage, listed>>

\* owner_.error(e.what()), from either handler
Error(w) ==
    /\ wpc[w] \in {"report", "reportDelete"}
    /\ error_' = TRUE
    /\ Goto(w, IF wpc[w] = "report" THEN "delete" ELSE "end")
    /\ UNCHANGED <<queue_, count_, running_, tasks_, ready, active, holds, pending, waiting,
                   owner, stage, failed, listed>>

EndTask(w) ==
    /\ wpc[w] = "end"
    /\ tasks_' = (tasks_ - 1) % SizeT
    /\ SignalActive
    /\ stage' = [stage EXCEPT ![holds[w]] = "done"]
    /\ holds' = [holds EXCEPT ![w] = None]
    /\ Goto(w, "next")
    /\ UNCHANGED <<queue_, count_, running_, error_, ready, pending, waiting, owner, failed, listed>>

NotifyEnd(w) ==
    /\ wpc[w] = "exit"
    /\ running_' = (running_ - 1) % SizeT
    /\ opc' = IF opc = "asleep" THEN "joining" ELSE opc
    /\ Goto(w, "none")
    /\ UNCHANGED <<queue_, count_, tasks_, error_, ready, active, holds, pending, waiting,
                   left, calls, posted, stage, failed, listed>>

-----------------------------------------------------------------------------
\* Mutant: the null overtakes the tasks that are queued.
PostNull_Front ==
    /\ queue_' = <<Null>> \o queue_
    /\ SignalReady

PostNull ==
    /\ queue_' = Append(queue_, Null)
    /\ SignalReady

Resize(n) ==
    /\ opc = "idle" /\ calls < MaxCalls
    /\ opc' = "resizing" /\ left' = n /\ calls' = calls + 1
    /\ UNCHANGED <<pool, ready, active, wpc, holds, pending, waiting, posted, stage, failed, listed>>

\* Mutant: a worker is told to end and still counted.
OneTold_Kept == count_

\* count_--
OneTold == count_ - 1

\* while (count_ > size) { push(nullptr); count_--; }
Shrink ==
    /\ opc = "resizing" /\ count_ > left
    /\ PostNull
    /\ count_' = OneTold
    /\ UNCHANGED <<running_, tasks_, error_, active, wpc, holds, pending, waiting, owner,
                   stage, failed, listed>>

\* ThreadControler::start() returns before the new thread calls notifyStart().
Grow ==
    /\ opc = "resizing" /\ count_ < left
    /\ \E w \in Workers : wpc[w] = "none" /\ Goto(w, "created")
    /\ count_' = count_ + 1
    /\ UNCHANGED <<queue_, running_, tasks_, error_, ready, active, holds, pending, waiting,
                   owner, stage, failed, listed>>

ResizeReturn ==
    /\ opc = "resizing" /\ count_ = left
    /\ opc' = "idle" /\ left' = 0
    /\ UNCHANGED <<pool, ready, active, wpc, holds, pending, waiting, calls, posted, stage, failed, listed>>

\* Mutant: one null too few.
ToTell_OneLess == IF count_ = 0 THEN 0 ELSE count_ - 1

\* the number of nulls that waitForThreads() pushes
ToTell == count_

\* waitForThreads(): for (i = 0; i < count_; i++) push(nullptr);
WaitForThreads ==
    /\ opc = "idle" /\ calls < MaxCalls
    /\ opc' = "stopping" /\ left' = ToTell /\ calls' = calls + 1
    /\ UNCHANGED <<pool, ready, active, wpc, holds, pending, waiting, posted, stage, failed, listed>>

Stop ==
    /\ opc = "stopping" /\ left > 0
    /\ PostNull
    /\ left' = left - 1 /\ posted' = posted + 1
    /\ UNCHANGED <<count_, running_, tasks_, error_, active, wpc, holds, pending, waiting,
                   opc, calls, stage, failed, listed>>

Stopped ==
    /\ opc = "stopping" /\ left = 0
    /\ opc' = "joining"
    /\ UNCHANGED <<pool, ready, active, wpc, holds, pending, waiting, left, calls, posted, stage, failed, listed>>

\* while (running_) done_.wait();
JoinSleep ==
    /\ opc = "joining" /\ running_ # 0
    /\ opc' = "asleep"
    /\ UNCHANGED <<pool, ready, active, wpc, holds, pending, waiting, left, calls, posted, stage, failed, listed>>

\* waitForThreads() returns, or throws what was reported.
JoinReturn ==
    /\ opc = "joining" /\ running_ = 0
    /\ error_' = FALSE
    /\ failed' = IF error_ THEN {} ELSE failed
    /\ opc' = "idle"
    /\ UNCHANGED <<queue_, count_, running_, tasks_, ready, active, wpc, holds, pending, waiting,
                   left, calls, posted, stage, listed>>

SpuriousWake ==
    /\ \/ \E w \in ready : ready' = ready \ {w} /\ UNCHANGED <<active, opc>>
       \/ \E c \in active : active' = active \ {c} /\ UNCHANGED <<ready, opc>>
       \/ opc = "asleep" /\ opc' = "joining" /\ UNCHANGED <<ready, active>>
    /\ UNCHANGED <<pool, wpc, holds, pending, waiting, left, calls, posted, stage, failed, listed>>

Work(w) ==
    \/ NotifyStart(w) \/ NextSleep(w) \/ Take(w) \/ Execute(w) \/ Delete(w)
    \/ Error(w) \/ EndTask(w) \/ NotifyEnd(w)

Own == Shrink \/ Grow \/ ResizeReturn \/ Stop \/ Stopped \/ JoinSleep \/ JoinReturn

Next ==
    \/ \E a \in Actors : \/ \E r \in Tasks : StartTask(a, r)
                         \/ \E l \in Lists : PushList(a, l)
                         \/ Enqueue(a)
    \/ \E c \in Clients : CallWait(c) \/ WaitSleep(c) \/ WaitReturn(c)
    \/ \E w \in Workers : Work(w)
    \/ \E n \in PoolSizes : Resize(n)
    \/ WaitForThreads
    \/ Own
    \/ SpuriousWake

Spec == Init /\ [][Next]_vars

\* Threads that can run do run, and execute() comes back; nobody has to push,
\* to wait() or to resize.
FairSpec ==
    /\ Spec
    /\ \A a \in Actors : WF_vars(Enqueue(a))
    /\ \A c \in Clients : WF_vars(WaitSleep(c) \/ WaitReturn(c))
    /\ \A w \in Workers : WF_vars(Work(w))
    /\ WF_vars(Own)

-----------------------------------------------------------------------------
\* Workers that will still call next(), and nulls waiting for one of them.
Live  == {w \in Workers : wpc[w] \notin {"none", "exit"}}
Nulls == {i \in DOMAIN queue_ : queue_[i] = Null}

\* Tasks counted in tasks_, and workers counted in running_.
Outstanding == {r \in Tasks \ listed : stage[r] \in {"counted", "queued", "taken"}}
ListsDone   == {r \in listed : stage[r] = "done"}
Started     == {w \in Workers : wpc[w] \notin {"none", "created"}}

\* The counters, each under its own mutex, are exact, however calls of resize()
\* and the running workers interleave.  tasks_ is, as a size_t, the tasks pushed
\* one by one that have not ended, less the tasks pushed in lists that have
\* (endTask() without a startTask(): it wraps round below zero); running_ is the
\* workers between notifyStart() and notifyEnd(); and count_ makes every null
\* have a worker to end, and every worker over the size asked for a null, so
\* that nobody is told to end twice and none is forgotten.
CountersExact ==
    /\ tasks_ = (Cardinality(Outstanding) - Cardinality(ListsDone)) % SizeT
    /\ running_ = Cardinality(Started)
    /\ Cardinality(Live) - Cardinality(Nulls) = count_ - posted

\* When wait() returns, every task pushed so far and every task they pushed in
\* turn has ended, unless a list was pushed: tasks_ does not count those.
WaitIsBarrier ==
    [][ listed = {} /\ waiting' # waiting /\ waiting' \subseteq waiting
          => \A r \in Tasks : stage[r] \in {"new", "done"} ]_vars

\* A queued task with fewer nulls ahead of it than there are workers is executed.
Ahead(r) == {i \in Nulls : \A j \in DOMAIN queue_ : queue_[j] = r => i < j}
EveryTaskRuns ==
    \A r \in Tasks :
        (stage[r] = "queued" /\ Cardinality(Ahead(r)) < Cardinality(Live)) ~> (stage[r] = "done")

\* When waitForThreads() comes back no task is running, and no failure of one is
\* left unreported: it throws unless nothing failed.
JoinIsClean ==
    [][ opc = "joining" /\ opc' = "idle"
          => /\ \A r \in Tasks : stage[r] # "taken"
             /\ error_ <=> failed # {} ]_vars

\* waitForThreads() comes back, and does so cleanly.
JoinReturns ==
    /\ (opc = "stopping") ~> (opc = "idle")
    /\ JoinIsClean
=============================================================================
