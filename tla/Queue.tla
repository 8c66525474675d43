------------------------------- MODULE Queue -------------------------------
(***************************************************************************)
(* container/Queue.h: the bounded blocking queue.  Every method holds      *)
(* mutex_ from its first line to its last, except inside cv_.wait(), so    *)
(* one action is one stretch between two releases of mutex_: a thread      *)
(* inside an operation either goes to sleep on cv_ or finishes.            *)
(***************************************************************************)
EXTENDS Naturals, Sequences, FiniteSets

CONSTANTS
    Threads,     \* the threads that use the queue
    Elem,        \* what is queued (ELEM)
    Sizes,       \* the capacities the constructor and resize() are given
    Batches,     \* the lengths of the vectors pop(std::vector&) is given
    MaxPushes    \* bound on the elements ever accepted

ASSUME SizesAssumption   == Sizes \subseteq Nat \ {0}
ASSUME BatchesAssumption == Batches \subseteq Nat
ASSUME PushesAssumption  == MaxPushes \in Nat

VARIABLES
    queue_,      \* std::queue<ELEM>
    max_,
    interrupt_,  \* TRUE when the exception pointer is set
    closed_,
    op,          \* op[t]: the operation t is inside, or "idle"
    arg,         \* arg[t]: its argument
    asleep,      \* the threads inside cv_.wait()
    pushed,      \* history: every element accepted, in order
    popped       \* history: every element handed out, in order

data == <<queue_, max_, interrupt_, closed_>>
vars == <<queue_, max_, interrupt_, closed_, op, arg, asleep, pushed, popped>>

\* What an operation may be given: push() an element, pop() the number of
\* elements the caller has room for, resize() a capacity.
Args(kind) == CASE kind = "push"   -> Elem
                [] kind = "pop"    -> Batches \cup {1}
                [] kind = "resize" -> Sizes

Kinds == {"push", "pop", "resize"}

Init ==
    /\ queue_ = << >>
    /\ max_ \in Sizes
    /\ interrupt_ = FALSE
    /\ closed_ = FALSE
    /\ op = [t \in Threads |-> "idle"]
    /\ arg = [t \in Threads |-> 0]
    /\ asleep = {}
    /\ pushed = << >>
    /\ popped = << >>

-----------------------------------------------------------------------------
\* Mutant: pop() waits on an empty queue even when it is closed.
MustWait_Closed(t) ==
    \/ op[t] = "push"   /\ Len(queue_) >= max_
    \/ op[t] = "pop"    /\ queue_ = << >>
    \/ op[t] = "resize" /\ Len(queue_) > arg[t]

\* The loop condition that keeps an operation on cv_ (checkInterrupt() did not throw).
MustWait(t) ==
    \/ op[t] = "push"   /\ Len(queue_) >= max_
    \/ op[t] = "pop"    /\ queue_ = << >> /\ ~closed_
    \/ op[t] = "resize" /\ Len(queue_) > arg[t]

Running(t, kind) == op[t] = kind /\ t \notin asleep

Return(t) ==
    /\ op' = [op EXCEPT ![t] = "idle"]
    /\ arg' = [arg EXCEPT ![t] = 0]

Pushing == {t \in Threads : op[t] = "push"}

Call(t) ==
    /\ op[t] = "idle"
    /\ \E kind \in Kinds : \E x \in Args(kind) :
          /\ kind = "push" => Len(pushed) + Cardinality(Pushing) < MaxPushes
          /\ op' = [op EXCEPT ![t] = kind]
          /\ arg' = [arg EXCEPT ![t] = x]
    /\ UNCHANGED <<data, asleep, pushed, popped>>

\* cv_.wait(locker)
Wait(t) ==
    /\ op[t] # "idle"
    /\ t \notin asleep
    /\ ~interrupt_
    /\ MustWait(t)
    /\ asleep' = asleep \cup {t}
    /\ UNCHANGED <<data, op, arg, pushed, popped>>

\* checkInterrupt() rethrows in the middle of any blocking operation.
Rethrow(t) ==
    /\ op[t] # "idle"
    /\ t \notin asleep
    /\ interrupt_
    /\ Return(t)
    /\ UNCHANGED <<data, asleep, pushed, popped>>

\* Mutant: the assertion that the queue is open is gone.
Push_NoAssert(t) ==
    /\ Running(t, "push")
    /\ ~interrupt_ /\ ~MustWait(t)
    /\ queue_' = Append(queue_, arg[t])
    /\ pushed' = Append(pushed, arg[t])
    /\ asleep' = {}
    /\ Return(t)
    /\ UNCHANGED <<max_, interrupt_, closed_, popped>>

\* push() and emplace()
Push(t) ==
    /\ Running(t, "push")
    /\ ~interrupt_ /\ ~MustWait(t)
    /\ ~closed_
    /\ queue_' = Append(queue_, arg[t])
    /\ pushed' = Append(pushed, arg[t])
    /\ asleep' = {}
    /\ Return(t)
    /\ UNCHANGED <<max_, interrupt_, closed_, popped>>

\* ASSERT(!closed_) fails after the wait of push(), emplace() or resize().
AssertOpen(t) ==
    /\ op[t] \in {"push", "resize"} /\ t \notin asleep
    /\ ~interrupt_ /\ ~MustWait(t)
    /\ closed_
    /\ Return(t)
    /\ UNCHANGED <<data, asleep, pushed, popped>>

\* pop(ELEM&) takes one element, pop(std::vector&) as many as fit.
Taken(t) == IF arg[t] <= Len(queue_) THEN arg[t] ELSE Len(queue_)

\* Mutant: pop() forgets cv_.notify_all().
Pop_NoNotify(t) ==
    /\ Running(t, "pop")
    /\ ~interrupt_ /\ queue_ # << >>
    /\ LET n == Taken(t) IN
          /\ popped' = popped \o SubSeq(queue_, 1, n)
          /\ queue_' = SubSeq(queue_, n + 1, Len(queue_))
    /\ Return(t)
    /\ UNCHANGED <<max_, interrupt_, closed_, asleep, pushed>>

Pop(t) ==
    /\ Running(t, "pop")
    /\ ~interrupt_ /\ queue_ # << >>
    /\ LET n == Taken(t) IN
          /\ popped' = popped \o SubSeq(queue_, 1, n)
          /\ queue_' = SubSeq(queue_, n + 1, Len(queue_))
    /\ asleep' = {}
    /\ Return(t)
    /\ UNCHANGED <<max_, interrupt_, closed_, pushed>>

\* return -1: closed and drained
PopClosed(t) ==
    /\ Running(t, "pop")
    /\ ~interrupt_ /\ queue_ = << >> /\ closed_
    /\ Return(t)
    /\ UNCHANGED <<data, asleep, pushed, popped>>

Resize(t) ==
    /\ Running(t, "resize")
    /\ ~interrupt_ /\ ~MustWait(t)
    /\ ~closed_
    /\ max_' = arg[t]
    /\ asleep' = {}
    /\ Return(t)
    /\ UNCHANGED <<queue_, interrupt_, closed_, pushed, popped>>

\* close() and interrupt() never block.
Close ==
    /\ closed_' = TRUE
    /\ asleep' = {}
    /\ UNCHANGED <<queue_, max_, interrupt_, op, arg, pushed, popped>>

Interrupt ==
    /\ interrupt_' = TRUE
    /\ asleep' = {}
    /\ UNCHANGED <<queue_, max_, closed_, op, arg, pushed, popped>>

\* std::condition_variable may wake a thread for no reason.
SpuriousWake(t) ==
    /\ t \in asleep
    /\ asleep' = asleep \ {t}
    /\ UNCHANGED <<data, op, arg, pushed, popped>>

Step(t) ==
    \/ Wait(t) \/ Rethrow(t) \/ Push(t) \/ AssertOpen(t)
    \/ Pop(t) \/ PopClosed(t) \/ Resize(t)

Next ==
    \/ \E t \in Threads : Call(t) \/ Step(t) \/ SpuriousWake(t)
    \/ Close
    \/ Interrupt

Spec == Init /\ [][Next]_vars

\* A thread inside an operation keeps running; nobody has to call anything.
FairSpec == Spec /\ \A t \in Threads : WF_vars(Step(t))

-----------------------------------------------------------------------------
\* The state has its types, and only a thread inside an operation sleeps on cv_.
TypeOK ==
    /\ queue_ \in Seq(Elem)
    /\ max_ \in Sizes
    /\ interrupt_ \in BOOLEAN
    /\ closed_ \in BOOLEAN
    /\ op \in [Threads -> Kinds \cup {"idle"}]
    /\ arg \in [Threads -> Elem \cup Nat]
    /\ \A t \in Threads : op[t] # "idle" => arg[t] \in Args(op[t])
    /\ asleep \subseteq {t \in Threads : op[t] # "idle"}
    /\ pushed \in Seq(Elem)
    /\ popped \in Seq(Elem)

\* The queue never holds more than max_ elements, not even right after a
\* resize() that shrinks it: resize() sleeps until the excess was popped.
Bounded == Len(queue_) <= max_

\* No lost wake-up: a thread inside cv_.wait() is there because the condition
\* of its loop still holds.  Whatever made the condition false (a push, a pop,
\* a resize, a close, an interrupt) also took every thread off cv_.
NoLostWakeup ==
    \A t \in asleep : ~interrupt_ /\ MustWait(t)

\* The queue is a bounded channel: FIFO, lossless, never above its capacity,
\* closed to new elements once close() was called.
Channel == INSTANCE BoundedChannel
              WITH Item <- Elem, sent <- pushed, received <- popped,
                   cap <- max_, shut <- closed_
ImplementsChannel == Channel!ChSpec

\* interrupt() gets every thread out of the operation it is inside, and close()
\* every consumer out of pop(), with an element or with -1.
CallsReleased ==
    \A t \in Threads :
        /\ (interrupt_ /\ op[t] # "idle") ~> (op[t] = "idle")
        /\ (closed_ /\ op[t] = "pop") ~> (op[t] = "idle")
=============================================================================
