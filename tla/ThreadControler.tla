-------------------------- MODULE ThreadControler --------------------------
(***************************************************************************)
(* The start and the end of a thread: thread/ThreadControler.cc.           *)
(*                                                                         *)
(* Every thread of the library is started by a ThreadControler, most often *)
(* a local variable that is gone as soon as start() has returned.  The new *)
(* thread uses the ThreadControler until it has signalled that it runs, so *)
(* start() waits for that; and the Thread object, proc_, is deleted by one *)
(* of the two sides.                                                       *)
(***************************************************************************)
EXTENDS Integers

VARIABLES
    detached_,  \* the constructor's argument
    autodel_,   \* Thread::autodel_ of proc_
    owner,      \* where the owner of the ThreadControler is
    thread,     \* where the new thread is
    proc_,      \* ThreadControler::proc_ is not null
    running_,   \* ThreadControler::running_
    deleted,    \* how often the Thread was deleted
    dangling    \* history: a ThreadControler or Thread was used when it was gone

vars == <<detached_, autodel_, owner, thread, proc_, running_, deleted, dangling>>

Init ==
    /\ detached_ \in BOOLEAN
    /\ autodel_ \in BOOLEAN
    /\ owner = "built"
    /\ thread = "none"
    /\ proc_ = TRUE
    /\ running_ = FALSE
    /\ deleted = 0
    /\ dangling = FALSE

UseController == dangling' = (dangling \/ owner = "gone")
UseThread == dangling' = (dangling \/ deleted > 0)

\* start(): pthread_create, with cond_ locked
Start ==
    /\ owner = "built"
    /\ owner' = "waiting"
    /\ thread' = "new"
    /\ UNCHANGED <<detached_, autodel_, proc_, running_, deleted, dangling>>

\* start(): pthread_create fails, and THRCALL throws
StartThrows ==
    /\ owner = "built"
    /\ owner' = "thrown"
    /\ UNCHANGED <<detached_, autodel_, thread, proc_, running_, deleted, dangling>>

\* Mutant: whoever is woken up goes on.
Started_Any == TRUE

\* while (!running_): a wakeup that is not the signal goes on waiting
Started == running_

StartReturn ==
    /\ owner = "waiting"
    /\ Started
    /\ owner' = "started"
    /\ UNCHANGED <<detached_, autodel_, thread, proc_, running_, deleted, dangling>>

\* execute(): proc_ is copied
Copy ==
    /\ thread = "new"
    /\ proc_' = (proc_ /\ ~detached_)
    /\ thread' = "copied"
    /\ UseController
    /\ UNCHANGED <<detached_, autodel_, owner, running_, deleted>>

\* execute(): running_ is set, under cond_, and signalled
Signal ==
    /\ thread = "copied"
    /\ running_' = TRUE
    /\ thread' = "runs"
    /\ UseController
    /\ UNCHANGED <<detached_, autodel_, owner, proc_, deleted>>

\* execute(): run() returns or throws, and the Thread is deleted if autodel_
Finish ==
    /\ thread = "runs"
    /\ deleted' = IF autodel_ THEN deleted + 1 ELSE deleted
    /\ thread' = "ended"
    /\ UseThread
    /\ UNCHANGED <<detached_, autodel_, owner, proc_, running_>>

\* stop(), as long as the Thread is there.  (A joinable thread that has ended has
\* deleted its Thread, and proc_ still points to it: stop() comes before.)
Stop ==
    /\ owner = "started"
    /\ ~detached_ /\ proc_
    /\ thread # "ended" \/ ~autodel_
    /\ UseThread
    /\ UNCHANGED <<detached_, autodel_, owner, thread, proc_, running_, deleted>>

\* wait(): pthread_join
Wait ==
    /\ owner = "started"
    /\ ~detached_
    /\ thread = "ended"
    /\ owner' = "joined"
    /\ UNCHANGED <<detached_, autodel_, thread, proc_, running_, deleted, dangling>>

\* if (running_) ... else delete proc_
OwnsThread == ~running_

\* ~ThreadControler
Destroy ==
    /\ owner \in {"built", "thrown", "started", "joined"}
    /\ owner' = "gone"
    /\ deleted' = IF OwnsThread /\ proc_ THEN deleted + 1 ELSE deleted
    /\ UNCHANGED <<detached_, autodel_, thread, proc_, running_, dangling>>

Next ==
    \/ Start \/ StartThrows \/ StartReturn \/ Copy \/ Signal \/ Finish
    \/ Stop \/ Wait \/ Destroy

Spec == Init /\ [][Next]_vars

----------------------------------------------------------------------------
\* Neither side uses what the other has deleted, although the ThreadControler may
\* go as soon as start() returns and the Thread as soon as run() does; and once
\* both are through, the Thread was deleted once: unless it ran and has no
\* autodel_, when that is left to its owner.
EachDeletedOnce ==
    /\ ~dangling
    /\ deleted <= 1
    /\ owner = "gone" /\ thread \in {"none", "ended"} =>
          deleted = IF running_ /\ ~autodel_ THEN 0 ELSE 1
=============================================================================
