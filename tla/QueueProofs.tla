---------------------------- MODULE QueueProofs ----------------------------
(***************************************************************************)
(* Proofs about container/Queue.h for any number of threads, any element   *)
(* type and any capacities.                                                *)
(***************************************************************************)
EXTENDS Queue, SequenceTheorems, TLAPS

\* The number of elements a pop() takes is between 0 and what there is.
LEMMA TakenInRange ==
  ASSUME TypeOK, NEW t \in Threads, op[t] = "pop"
  PROVE  Taken(t) \in 0..Len(queue_)
<1>1. arg[t] \in Nat
  BY BatchesAssumption DEF TypeOK, Args
<1>2. Len(queue_) \in Nat
  BY DEF TypeOK
<1> QED
  BY <1>1, <1>2 DEF Taken

\* Cutting a sequence in two keeps its elements and splits its length.
LEMMA Cut ==
  ASSUME NEW S, NEW s \in Seq(S), NEW n \in 0..Len(s)
  PROVE  /\ SubSeq(s, 1, n) \in Seq(S)
         /\ SubSeq(s, n + 1, Len(s)) \in Seq(S)
         /\ Len(SubSeq(s, 1, n)) = n
         /\ Len(SubSeq(s, n + 1, Len(s))) = Len(s) - n
  OBVIOUS

\* The state keeps its types, and only threads inside an operation of
\* Queue.h sleep on cv_.
THEOREM TypeCorrect == Spec => []TypeOK
<1>1. Init => TypeOK
  <2> SUFFICES ASSUME Init PROVE TypeOK
    OBVIOUS
  <2>1. op \in [Threads -> Kinds \cup {"idle"}] /\ arg \in [Threads -> Elem \cup Nat]
    BY DEF Init
  <2>2. \A t \in Threads : op[t] = "idle"
    BY DEF Init
  <2>3. queue_ \in Seq(Elem) /\ pushed \in Seq(Elem) /\ popped \in Seq(Elem)
    BY DEF Init
  <2>4. max_ \in Sizes /\ interrupt_ \in BOOLEAN /\ closed_ \in BOOLEAN /\ asleep = {}
    BY Zenon DEF Init
  <2> QED
    BY <2>1, <2>2, <2>3, <2>4 DEF TypeOK
<1>2. TypeOK /\ [Next]_vars => TypeOK'
  <2> SUFFICES ASSUME TypeOK, [Next]_vars PROVE TypeOK'
    OBVIOUS
  <2> USE DEF TypeOK, Kinds
  <2>1. CASE UNCHANGED vars
    BY <2>1 DEF vars
  <2>2. ASSUME NEW t \in Threads, Call(t) PROVE TypeOK'
    BY <2>2, SizesAssumption, BatchesAssumption DEF Call, data, Args
  <2>3. ASSUME NEW t \in Threads, Wait(t) PROVE TypeOK'
    BY <2>3 DEF Wait, data
  <2>4. ASSUME NEW t \in Threads, Rethrow(t) PROVE TypeOK'
    BY <2>4 DEF Rethrow, Return, data
  <2>5. ASSUME NEW t \in Threads, Push(t) PROVE TypeOK'
    <3>1. arg[t] \in Elem
      BY SMTT(60), <2>5 DEF Push, Running, Args
    <3> QED
      BY <2>5, <3>1 DEF Push, Running, Return
  <2>6. ASSUME NEW t \in Threads, AssertOpen(t) PROVE TypeOK'
    BY <2>6 DEF AssertOpen, Return, data
  <2>7. ASSUME NEW t \in Threads, Pop(t) PROVE TypeOK'
    <3>1. Taken(t) \in 0..Len(queue_)
      BY <2>7, TakenInRange DEF Pop, Running
    <3>2. queue_' \in Seq(Elem) /\ popped' \in Seq(Elem)
      BY <2>7, <3>1, Cut DEF Pop
    <3> QED
      BY SMTT(60), <2>7, <3>2 DEF Pop, Running, Return
  <2>8. ASSUME NEW t \in Threads, PopClosed(t) PROVE TypeOK'
    BY <2>8 DEF PopClosed, Running, Return, data
  <2>9. ASSUME NEW t \in Threads, Resize(t) PROVE TypeOK'
    <3>1. arg[t] \in Sizes
      BY <2>9 DEF Resize, Running, Args
    <3> QED
      BY <2>9, <3>1 DEF Resize, Running, Return
  <2>10. ASSUME NEW t \in Threads, SpuriousWake(t) PROVE TypeOK'
    BY <2>10 DEF SpuriousWake, data
  <2>11. CASE Close
    BY <2>11 DEF Close
  <2>12. CASE Interrupt
    BY <2>12 DEF Interrupt
  <2> QED
    BY <2>1, <2>2, <2>3, <2>4, <2>5, <2>6, <2>7, <2>8, <2>9, <2>10, <2>11, <2>12 DEF Next, Step
<1> QED
  BY <1>1, <1>2, PTL DEF Spec

-----------------------------------------------------------------------------
\* What an operation does to the length of the queue.
LEMMA PopShortens ==
  ASSUME TypeOK, NEW t \in Threads, Pop(t)
  PROVE  Len(queue_') \in Nat /\ Len(queue_') <= Len(queue_)
<1>1. Taken(t) \in 0..Len(queue_)
  BY TakenInRange DEF Pop, Running
<1>2. queue_' = SubSeq(queue_, Taken(t) + 1, Len(queue_)) /\ queue_ \in Seq(Elem)
  BY DEF Pop, TypeOK
<1> QED
  BY <1>1, <1>2, Cut

\* Bounded and NoLostWakeup together are preserved by every step.
Safe == Bounded /\ NoLostWakeup

\* No operation of the queue breaks the bound or forgets a sleeper.
LEMMA SafeStep == TypeOK /\ TypeOK' /\ Safe /\ [Next]_vars => Safe'
<1> SUFFICES ASSUME TypeOK, TypeOK', Safe, [Next]_vars PROVE Safe'
  OBVIOUS
<1> USE DEF Safe, Bounded, NoLostWakeup
<1>0. Len(queue_) \in Nat /\ max_ \in Nat /\ max_' \in Nat
  BY SizesAssumption DEF TypeOK
<1>1. CASE UNCHANGED vars
  BY <1>1 DEF vars, MustWait
<1>2. ASSUME NEW t \in Threads, Call(t) PROVE Safe'
  <2>1. t \notin asleep
    BY <1>2 DEF Call, TypeOK
  <2>2. \A u \in asleep : op'[u] = op[u] /\ arg'[u] = arg[u]
    BY <1>2, <2>1 DEF Call, TypeOK
  <2> QED
    BY <1>2, <2>2 DEF Call, data, MustWait
<1>3. ASSUME NEW t \in Threads, Wait(t) PROVE Safe'
  BY <1>3 DEF Wait, data, MustWait
<1>4. ASSUME NEW t \in Threads, t \notin asleep, Return(t), UNCHANGED <<data, asleep>> PROVE Safe'
  <2>1. \A u \in asleep : op'[u] = op[u] /\ arg'[u] = arg[u]
    BY <1>4 DEF Return, TypeOK
  <2> QED
    BY <1>4, <2>1 DEF data, MustWait
<1>5. ASSUME NEW t \in Threads, Push(t) PROVE Safe'
  <2>1. Len(queue_') = Len(queue_) + 1
    BY <1>5 DEF Push, TypeOK
  <2> QED
    BY <1>0, <1>5, <2>1 DEF Push, Running, MustWait
<1>6. ASSUME NEW t \in Threads, Pop(t) PROVE Safe'
  <2>1. Len(queue_') \in Nat /\ Len(queue_') <= Len(queue_)
    BY <1>6, PopShortens
  <2>2. max_' = max_ /\ asleep' = {}
    BY <1>6 DEF Pop
  <2> QED
    BY <1>0, <2>1, <2>2
<1>7. ASSUME NEW t \in Threads, Resize(t) PROVE Safe'
  <2>1. arg[t] \in Nat
    BY <1>7, SizesAssumption DEF Resize, Running, TypeOK, Args
  <2> QED
    BY <1>0, <1>7, <2>1 DEF Resize, Running, MustWait
<1>8. ASSUME NEW t \in Threads, SpuriousWake(t) PROVE Safe'
  BY <1>8 DEF SpuriousWake, data, MustWait
<1>9. CASE Close
  BY <1>9 DEF Close
<1>10. CASE Interrupt
  BY <1>10 DEF Interrupt
<1> QED
  <2>1. ASSUME NEW t \in Threads, Rethrow(t) \/ AssertOpen(t) \/ PopClosed(t)
        PROVE  t \notin asleep /\ Return(t) /\ UNCHANGED <<data, asleep>>
    BY <2>1 DEF Rethrow, AssertOpen, PopClosed, Running
  <2> QED
    BY <1>1, <1>2, <1>3, <1>4, <1>5, <1>6, <1>7, <1>8, <1>9, <1>10, <2>1 DEF Next, Step

\* The queue never holds more than max_ elements (push() and resize() wait).
THEOREM QueueBounded == Spec => []Bounded
<1>1. Init => Safe
  BY SizesAssumption DEF Init, Safe, Bounded, NoLostWakeup
<1> QED
  BY <1>1, SafeStep, TypeCorrect, PTL DEF Spec, Safe

\* No thread sleeps on cv_ once the condition it waits for has come true.
THEOREM NoWakeupIsLost == Spec => []NoLostWakeup
<1>1. Init => Safe
  BY SizesAssumption DEF Init, Safe, Bounded, NoLostWakeup
<1> QED
  BY <1>1, SafeStep, TypeCorrect, PTL DEF Spec, Safe

-----------------------------------------------------------------------------
\* What was accepted is what was handed out followed by what is still queued.
Fifo == pushed = popped \o queue_

\* Moving the first n elements of u to the end of s changes nothing of s \o u.
LEMMA ShiftConcat ==
  ASSUME NEW S, NEW s \in Seq(S), NEW u \in Seq(S), NEW n \in 0..Len(u)
  PROVE  (s \o SubSeq(u, 1, n)) \o SubSeq(u, n + 1, Len(u)) = s \o u
<1> DEFINE v == SubSeq(u, 1, n)
           w == SubSeq(u, n + 1, Len(u))
<1>1. v \in Seq(S) /\ w \in Seq(S)
  BY Cut
<1>2. v \o w = SubSeq(u, 1, Len(u))
  <2>1. 1 \in 1..Len(u)+1 /\ n \in 1-1..Len(u) /\ Len(u) \in n..Len(u)
    OBVIOUS
  <2> QED
    BY Zenon, <2>1, ConcatAdjacentSubSeq
<1>3. SubSeq(u, 1, Len(u)) = u
  BY SubSeqFull
<1>4. (s \o v) \o w = s \o (v \o w)
  <2> HIDE DEF v, w
  <2> QED
    BY SMTT(60), <1>1
<1> QED
  BY Zenon, <1>2, <1>3, <1>4

\* Every operation keeps what was pushed equal to what was taken and what is held.
LEMMA FifoStep == TypeOK /\ Fifo /\ [Next]_vars => Fifo'
<1> SUFFICES ASSUME TypeOK, Fifo, [Next]_vars PROVE Fifo'
  BY Zenon
<1>1. ASSUME NEW t \in Threads, Push(t) PROVE Fifo'
  <2>1. arg[t] \in Elem /\ popped \in Seq(Elem) /\ queue_ \in Seq(Elem)
    BY SMTT(60), <1>1 DEF Push, Running, TypeOK, Args
  <2>2. Append(popped \o queue_, arg[t]) = popped \o Append(queue_, arg[t])
    BY SMTT(60), <2>1
  <2> QED
    BY <1>1, <2>2 DEF Push, Fifo
<1>2. ASSUME NEW t \in Threads, Pop(t) PROVE Fifo'
  <2>1. Taken(t) \in 0..Len(queue_) /\ popped \in Seq(Elem) /\ queue_ \in Seq(Elem)
    BY <1>2, TakenInRange DEF Pop, Running, TypeOK
  <2>2. popped' \o queue_' = popped \o queue_
    BY Zenon, <1>2, <2>1, ShiftConcat DEF Pop
  <2> QED
    BY Zenon, <1>2, <2>2 DEF Pop, Fifo
<1>3. CASE UNCHANGED <<pushed, popped, queue_>>
  BY <1>3 DEF Fifo
<1> QED
  BY <1>1, <1>2, <1>3
  DEF Next, Step, Call, Wait, Rethrow, AssertOpen, PopClosed, Resize, SpuriousWake,
      Close, Interrupt, data, vars

\* Every step of Queue.h is a step of the bounded channel, or changes nothing
\* the channel shows.
LEMMA ChannelStep ==
  TypeOK /\ TypeOK' /\ Bounded /\ Fifo /\ [Next]_vars => [Channel!ChNext]_(Channel!chVars)
<1> SUFFICES ASSUME TypeOK, TypeOK', Bounded, Fifo, [Next]_vars
             PROVE  [Channel!ChNext]_(Channel!chVars)
  OBVIOUS
<1>1. /\ Len(queue_) \in Nat /\ Len(popped) \in Nat
      /\ Channel!InFlight = Len(queue_)
  <2>1. popped \in Seq(Elem) /\ queue_ \in Seq(Elem)
    BY DEF TypeOK
  <2>2. Len(pushed) = Len(popped) + Len(queue_)
    BY <2>1, ConcatProperties DEF Fifo
  <2> QED
    BY <2>1, <2>2 DEF Channel!InFlight
<1>2. ASSUME NEW t \in Threads, Push(t) PROVE Channel!Send
  <2>1. arg[t] \in Elem
    BY <1>2 DEF Push, Running, TypeOK, Args
  <2>2. Len(queue_) < max_
    BY <1>1, <1>2, SizesAssumption DEF Push, Running, MustWait, TypeOK
  <2> QED
    BY <1>1, <1>2, <2>1, <2>2 DEF Push, Channel!Send
<1>3. ASSUME NEW t \in Threads, Pop(t) PROVE Channel!Receive \/ UNCHANGED <<pushed, popped, max_, closed_>>
  <2> DEFINE n == Taken(t)
  <2>1. n \in 0..Len(queue_) /\ popped \in Seq(Elem) /\ queue_ \in Seq(Elem)
    BY <1>3, TakenInRange DEF Pop, Running, TypeOK
  <2>2. CASE n = 0
    <3>1. SubSeq(queue_, 1, 0) = << >>
      BY SubSeqEmpty
    <3>2. popped' = popped
      BY <1>3, <2>1, <2>2, <3>1, ConcatEmptySeq DEF Pop
    <3> QED
      BY Zenon, <1>3, <3>2 DEF Pop
  <2>3. CASE n # 0
    <3>1. SubSeq(popped \o queue_, Len(popped) + 1, Len(popped) + n) = SubSeq(queue_, 1, n)
      <4> HIDE DEF n
      <4> QED
        BY <1>1, <2>1, <2>3
    <3>2. n \in 1..Channel!InFlight
      BY <1>1, <2>1, <2>3
    <3> QED
      BY Zenon, <1>3, <3>1, <3>2 DEF Pop, Fifo, Channel!Receive
  <2> QED
    BY <2>2, <2>3
<1>4. ASSUME NEW t \in Threads, Resize(t) PROVE Channel!Rebound
  <2>1. arg[t] \in Sizes /\ arg[t] \in Nat \ {0}
    BY <1>4, SizesAssumption DEF Resize, Running, TypeOK, Args
  <2> QED
    BY <1>1, <1>4, <2>1 DEF Resize, Running, MustWait, Channel!Rebound
<1>5. ASSUME Close PROVE Channel!Shut
  BY <1>5 DEF Close, Channel!Shut
<1>6. \/ \E t \in Threads : Push(t) \/ Pop(t) \/ Resize(t)
      \/ Close
      \/ UNCHANGED <<pushed, popped, max_, closed_>>
  BY DEF Next, Step, Call, Wait, Rethrow, AssertOpen, PopClosed, SpuriousWake,
         Interrupt, data, vars
<1>7. Channel!ChNext \/ UNCHANGED <<pushed, popped, max_, closed_>>
  <2>1. ASSUME NEW t \in Threads, Push(t) \/ Pop(t) \/ Resize(t)
        PROVE  Channel!ChNext \/ UNCHANGED <<pushed, popped, max_, closed_>>
    BY <1>2, <1>3, <1>4, <2>1 DEF Channel!ChNext
  <2>2. CASE Close
    BY <1>5, <2>2 DEF Channel!ChNext
  <2> QED
    BY <1>6, <2>1, <2>2
<1> QED
  BY <1>7 DEF Channel!chVars

\* container/Queue.h implements the bounded channel.
THEOREM QueueImplementsChannel == Spec => ImplementsChannel
<1>1. Init => Fifo /\ Channel!ChInit
  BY SizesAssumption, ConcatEmptySeq DEF Init, Fifo, Channel!ChInit
<1>2. Spec => []Fifo
  BY <1>1, FifoStep, TypeCorrect, PTL DEF Spec
<1> QED
  BY <1>1, <1>2, ChannelStep, TypeCorrect, QueueBounded, PTL DEF Spec, ImplementsChannel, Channel!ChSpec
=============================================================================
