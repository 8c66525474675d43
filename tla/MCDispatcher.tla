---------------------------- MODULE MCDispatcher ----------------------------
(* Dispatcher on a small instance, with DefaultHandler and with two requests
   that conflict, and a ThreadControler as it starts a thread for one.  A
   behaviour takes the steps of one of the two (part). *)
EXTENDS Dispatcher, TLC

CONSTANTS a, b, c1, c2, t1, t2, t3

VARIABLES part, detached_, autodel_, owner, thread, proc_, started, deleted, dangling

starter == <<detached_, autodel_, owner, thread, proc_, started, deleted, dangling>>

NoneOrTwo == {{}, {a, b}}

S == INSTANCE ThreadControler WITH running_ <- started

MCInit ==
    /\ part \in {"dispatcher", "starter"}
    /\ Init /\ S!Init
    /\ tpc[t1] = "none" => tpc[t2] = "none"    \* t1 is started first, then t2
    /\ tpc[t2] = "none" => tpc[t3] = "none"
    /\ IF part = "starter"
          THEN numberOfThreads_ = 0 /\ conflict = {}
          ELSE detached_ /\ autodel_

\* t is started, and u could have been.
Before(t, u) == tpc[t] = "none" /\ tpc'[t] # "none" /\ tpc[u] = "none"

\* a is pushed before b, c1 pushes first, and a thread that starts is the first
\* that is free: the two requests are alike, in conflict or not, and so are the
\* two clients and the threads.
InOrder ==
    /\ ~Before(t2, t1) /\ ~Before(t3, t1) /\ ~Before(t3, t2)
    /\ stage'[b] = "new" \/ stage'[a] # "new"
    /\ req'[c2] = Null \/ req'[c1] # Null

MCNext ==
    /\ UNCHANGED part
    /\ \/ part = "dispatcher" /\ Next /\ InOrder /\ UNCHANGED starter
       \/ part = "starter" /\ S!Next /\ UNCHANGED vars

MCSpec ==
    /\ MCInit /\ [][MCNext]_<<part, vars, starter>>
    /\ \A c \in Callers : WF_vars(part = "dispatcher" /\ Call(c))
    /\ \A t \in Threads : WF_vars(part = "dispatcher" /\ Work(t))

\* The property of ThreadControler, which states it.
EachDeletedOnce == S!EachDeletedOnce
=============================================================================
