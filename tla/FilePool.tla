------------------------------ MODULE FilePool ------------------------------
(***************************************************************************)
(* io/FilePool.cc: open files shared by threads, one user at a time, with  *)
(* the idle ones kept in a CacheLRU.  Every method holds the mutex of      *)
(* cond_ throughout, except in cond_.wait(): one action is one stretch     *)
(* between two releases.  cond_ is one for all paths, and checkin()        *)
(* signals it once.                                                        *)
(***************************************************************************)
EXTENDS Naturals, Sequences, FiniteSets

CONSTANTS
    Threads, Paths,
    Removers,      \* the threads, of Threads, that call remove()
    Handles,       \* DataHandles by address: one that was deleted may come back
    Capacities,    \* what the constructor and capacity(size_t) are given
    FilesVanish,   \* TRUE: a file may be removed on disk while its handle is cached
    OpenFails,     \* TRUE: openForAppend() may throw
    CloseFails,    \* TRUE: closing a handle on its way out of the cache may throw
    NoHandle       \* a null pointer: none of Handles

VARIABLES
    inUse_,                 \* path -> the handle checked out, or NoHandle
    storage_, capacity_,    \* cache_
    closed,                 \* handles deleted by closeDataHandle() and not made again
    op, arg,                \* the call a thread is inside, and its path
    holds,                  \* the handle a thread has checked out
    asleep,                 \* threads inside cond_.wait()
    closeThrew,             \* history: a close() has thrown out of the cache
    dropped                 \* history: a thread has left the pool without a checkin()

past  == <<closeThrew, dropped>>
cache == <<storage_, capacity_, closed>>
vars  == <<inUse_, cache, op, arg, holds, asleep, past>>

Cache == INSTANCE CacheLRU
           WITH Key <- Paths, Value <- Handles, MaxOps <- 0, purged <- closed,
                extracted <- {}, overwritten <- {}, lastUse <- << >>, now <- 0

Init ==
    /\ inUse_ = [p \in Paths |-> NoHandle]
    /\ storage_ = << >> /\ capacity_ \in Capacities /\ closed = {}
    /\ op = [t \in Threads |-> "idle"]
    /\ arg \in [Threads -> Paths]
    /\ holds = [t \in Threads |-> NoHandle]
    /\ asleep = {}
    /\ closeThrew = FALSE /\ dropped = FALSE

-----------------------------------------------------------------------------
Used == {inUse_[p] : p \in Paths} \ {NoHandle}
Unopened == Handles \ (Used \cup Cache!Values(storage_))

Awake(t, kind) == op[t] = kind /\ t \notin asleep
Goto(t, kind)  == op' = [op EXCEPT ![t] = kind]

\* A thread that holds a handle checks it in before it calls the pool again.
Call(t, kind, p) ==
    /\ op[t] = "idle"
    /\ kind = "remove" => t \in Removers
    /\ Goto(t, kind)
    /\ arg' = [arg EXCEPT ![t] = p]
    /\ UNCHANGED <<inUse_, cache, holds, asleep, past>>

\* Mutant: a second thread is let in while the first one uses the file.
Free_Always(t) == TRUE

\* !inUse(inUse_, path)
Free(t) == inUse_[arg[t]] = NoHandle

\* while (inUse(inUse_, path)) cond_.wait();
Wait(t) ==
    /\ op[t] \in {"checkout", "remove"} /\ t \notin asleep
    /\ ~Free(t)
    /\ asleep' = asleep \cup {t}
    /\ UNCHANGED <<inUse_, cache, op, arg, holds, past>>

\* The handle is now the thread's.
Lend(t, h) ==
    /\ inUse_' = [inUse_ EXCEPT ![arg[t]] = h]
    /\ holds' = [holds EXCEPT ![t] = h]
    /\ Goto(t, "using")
    /\ UNCHANGED <<arg, asleep, past>>

\* checkout() of a path that is cached and still on disk
CheckoutCached(t) ==
    /\ Awake(t, "checkout") /\ Free(t)
    /\ Cache!Exists(arg[t])
    /\ Lend(t, storage_[Cache!At(storage_, arg[t])][2])
    /\ Cache!Extract(arg[t])

\* cache_.remove(path), and a new handle opened
Reopen(t) ==
    \E h \in Unopened :
        /\ Lend(t, h)
        /\ storage_' = Cache!Without(storage_, arg[t])
        /\ closed' = (closed \cup Cache!Stored(arg[t])) \ {h}
        /\ UNCHANGED capacity_

\* checkout() of a path that is not cached, or whose file was removed on disk
CheckoutOpen(t) ==
    /\ Awake(t, "checkout") /\ Free(t)
    /\ Cache!Exists(arg[t]) => FilesVanish
    /\ Reopen(t)

\* closeDataHandle() throws.
CloseThrows == CloseFails /\ closeThrew' = TRUE

\* openForAppend() throws, the stale handle already removed, or the close() of
\* the stale handle does, which then stays in the cache
CheckoutThrows(t) ==
    /\ Awake(t, "checkout") /\ Free(t)
    /\ Cache!Exists(arg[t]) => FilesVanish
    /\ \/ OpenFails /\ Cache!Remove(arg[t]) /\ UNCHANGED closeThrew
       \/ CloseThrows /\ Cache!Exists(arg[t]) /\ UNCHANGED cache
    /\ dropped' = TRUE
    /\ Goto(t, "idle")
    /\ UNCHANGED <<inUse_, arg, holds, asleep>>

\* Mutant: cond_.signal() is missing.
Signal_None == UNCHANGED asleep

\* cond_.signal()
Signal ==
    \/ asleep = {} /\ UNCHANGED asleep
    \/ \E t \in asleep : asleep' = asleep \ {t}

\* checkin(): the path of the handle is found in inUse_
Checkin(t) ==
    /\ op[t] = "using"
    /\ Cache!Insert(arg[t], holds[t])
    /\ inUse_' = [inUse_ EXCEPT ![arg[t]] = NoHandle]
    /\ Signal
    /\ holds' = [holds EXCEPT ![t] = NoHandle]
    /\ Goto(t, "idle")
    /\ UNCHANGED <<arg, past>>

\* trim() of a cache that holds s: the close() of a handle on its way out throws,
\* after some others have gone
TrimThrows(s, n) ==
    /\ CloseThrows
    /\ \E m \in n + 1 .. Len(s) :
          /\ storage_' = SubSeq(s, 1, m)
          /\ closed' = closed \cup (Cache!Values(s) \ Cache!Values(SubSeq(s, 1, m)))

\* cache_.insert() throws out of checkin(), before inUse_ is changed
CheckinThrows(t) ==
    /\ op[t] = "using"
    /\ TrimThrows(Cache!Front(storage_, arg[t], holds[t]), capacity_)
    /\ dropped' = TRUE
    /\ Goto(t, "idle")
    /\ holds' = [holds EXCEPT ![t] = NoHandle]
    /\ UNCHANGED <<inUse_, capacity_, arg, asleep>>

\* remove(path); a close() that throws leaves the entry where it was
Remove(t) ==
    /\ Awake(t, "remove") /\ Free(t)
    /\ \/ Cache!Remove(arg[t]) /\ UNCHANGED closeThrew
       \/ CloseThrows /\ UNCHANGED cache
    /\ dropped' = TRUE
    /\ Goto(t, "idle")
    /\ UNCHANGED <<inUse_, arg, holds, asleep>>

\* capacity(size)
SetCapacity(n) ==
    /\ \/ Cache!Capacity(n) /\ UNCHANGED closeThrew
       \/ TrimThrows(storage_, n) /\ capacity_' = n
    /\ UNCHANGED <<inUse_, op, arg, holds, asleep, dropped>>

SpuriousWake(t) ==
    /\ t \in asleep
    /\ asleep' = asleep \ {t}
    /\ UNCHANGED <<inUse_, cache, op, arg, holds, past>>

Step(t) ==
    \/ Wait(t) \/ CheckoutCached(t) \/ CheckoutOpen(t) \/ CheckoutThrows(t)
    \/ Checkin(t) \/ CheckinThrows(t) \/ Remove(t)

Next ==
    \/ \E t \in Threads :
          \/ \E kind \in {"checkout", "remove"}, p \in Paths : Call(t, kind, p)
          \/ Step(t)
          \/ SpuriousWake(t)
    \/ \E n \in Capacities : SetCapacity(n)

Spec == Init /\ [][Next]_vars

\* A thread inside a call keeps running, and one that has a handle checks it in.
FairSpec == Spec /\ \A t \in Threads : WF_vars(Step(t))

-----------------------------------------------------------------------------
\* A file is open for one user: what a thread holds is in use under its path,
\* no other thread holds it or another handle of that path, and it is not
\* closed; nor is a handle that waits in the cache.  And a path is in use or
\* cached, never both, so that checkin() finds no older handle under its key to
\* overwrite unclosed (not so once a close() has thrown out of checkin(): the
\* handle is then in both).
OneUser ==
    /\ \A t \in Threads : op[t] = "using" =>
          /\ inUse_[arg[t]] = holds[t] /\ holds[t] \in Handles \ closed
          /\ \A u \in Threads \ {t} : op[u] = "using" => arg[u] # arg[t]
    /\ Cache!Values(storage_) \cap closed = {}
    /\ ~closeThrew => \A p \in Paths : inUse_[p] # NoHandle => ~Cache!Exists(p)

\* The signal of checkin() may wake a thread that waits for another path, and is
\* then spent.  It still reaches everybody in the end as long as whoever is
\* woken checks in later: nobody sleeps unless a thread is using a file, or is
\* awake in checkout() or remove().  A remove() that ends, and a checkout() or
\* checkin() that throws, break the chain.
SignalChain ==
    (~dropped /\ asleep # {}) =>
        \E t \in Threads \ asleep : op[t] \in {"checkout", "remove", "using"}

\* "If handle is in use, it assumes is from another thread and it will wait()
\* for a checkin()": once the handle is checked in, a thread in checkout() gets
\* it, unless another one is faster.
WaitEndsAfterCheckin ==
    \A t \in Threads :
        (op[t] = "checkout" /\ inUse_[arg[t]] = NoHandle)
            ~> (op[t] # "checkout" \/ inUse_[arg[t]] # NoHandle)
=============================================================================
