--------------------------- MODULE BuffersProofs ----------------------------
(***************************************************************************)
(* SuccessMeansWritten of AsyncHandle, for any lengths, any maxSize_ and   *)
(* any number of writes; the bounded channel that ProducerConsumer         *)
(* implements, for any size of the ring and any number of payloads; and    *)
(* ReceivedInOrder of Pipe, for any number of payloads and of messages.    *)
(***************************************************************************)
EXTENDS MCBuffers, TLAPS

-----------------------------------------------------------------------------
(* AsyncHandle.  The queue holds the last write()s that returned, in order, and
   all before them have reached the target or have failed; and as long as error_
   is not set at most one has failed, the last one that was taken from the queue. *)

AsyncTypes ==
    /\ buffers_ \in Seq(Nat \X Lengths)
    /\ accepted \in Nat
    /\ target \in Seq(Nat)
    /\ length \in Lengths

\* How many write()s have left the queue.
Tried == accepted - Len(buffers_)

\* What has left the queue, and what is in it.
Numbered ==
    /\ Tried \in Nat
    /\ \A k \in 1 .. Len(buffers_) : buffers_[k][1] = Tried + k
    /\ Range(target) \cup failed = 1 .. Tried

\* What has failed and is not reported.
Reported == ~error_ => failed = IF w = "catch" THEN {Tried} ELSE {}

\* The inductive invariant.  The destructor deletes the queue, and ends all this.
AsyncInv ==
    /\ AsyncTypes
    /\ ~Destroyed => /\ Numbered /\ Reported
                     /\ c \in {"closing", "closed"} => buffers_ = << >>

-----------------------------------------------------------------------------
\* Appending to a sequence adds one element to its range.
LEMMA RangeAppend ==
    ASSUME NEW S, NEW s \in Seq(S), NEW x \in S
    PROVE  Range(Append(s, x)) = Range(s) \cup {x}
<1>1. ASSUME NEW y \in Range(Append(s, x)) PROVE y \in Range(s) \cup {x}
    BY DEF Range
<1>2. ASSUME NEW y \in Range(s) PROVE y \in Range(Append(s, x))
    <2>1. PICK k \in DOMAIN s : y = s[k]
        BY Zenon, <1>2 DEF Range
    <2>2. k \in DOMAIN Append(s, x) /\ Append(s, x)[k] = s[k]
        BY <2>1
    <2>3. QED
        BY Zenon, <2>1, <2>2 DEF Range
<1>3. x \in Range(Append(s, x))
    <2>1. Len(s) + 1 \in DOMAIN Append(s, x) /\ Append(s, x)[Len(s) + 1] = x
        OBVIOUS
    <2>2. QED
        BY Zenon, <2>1 DEF Range
<1>4. QED
    BY Zenon, <1>1, <1>2, <1>3

\* An AsyncHandle that has just been made.
LEMMA InitAsync == Init => AsyncInv
<1> SUFFICES ASSUME Init PROVE AsyncInv
    BY Zenon
<1>1. AsyncTypes
    BY DEF Init, AsyncTypes
<1>2. buffers_ = << >> /\ accepted = 0 /\ target = << >> /\ failed = {} /\ w = "top"
    BY Zenon DEF Init
<1>3. Tried = 0
    <2>1. Len(buffers_) = 0
        BY Zenon, <1>2
    <2>2. accepted = 0
        BY Zenon, <1>2
    <2>3. QED
        BY <2>1, <2>2 DEF Tried
<1>4. Range(target) = {}
    BY <1>2 DEF Range
<1>5. QED
    BY <1>1, <1>2, <1>3, <1>4 DEF AsyncInv, Numbered, Reported

\* The writer takes the first buffer: its number is the next to be tried.
LEMMA DropKeeps ==
    ASSUME AsyncInv, ~Destroyed, buffers_ # << >>, Drop, UNCHANGED accepted
    PROVE  /\ buffers_' \in Seq(Nat \X Lengths)
           /\ Head(buffers_)[1] = Tried + 1 /\ Tried' = Tried + 1 /\ Tried \in Nat
           /\ \A k \in 1 .. Len(buffers_') : buffers_'[k][1] = Tried' + k
<1>1. buffers_ \in Seq(Nat \X Lengths) /\ accepted \in Nat /\ Len(buffers_) \in Nat \ {0}
    BY DEF AsyncInv, AsyncTypes
<1>2. /\ buffers_' \in Seq(Nat \X Lengths)
      /\ Len(buffers_') = Len(buffers_) - 1
      /\ \A k \in 1 .. Len(buffers_') : buffers_'[k] = buffers_[k + 1]
    BY <1>1 DEF Drop
<1>3. Tried' = Tried + 1 /\ Tried \in Nat
    BY <1>1, <1>2 DEF Tried, AsyncInv, Numbered
<1>4. Head(buffers_)[1] = Tried + 1
    BY <1>1 DEF AsyncInv, Numbered
<1>5. ASSUME NEW k \in 1 .. Len(buffers_') PROVE buffers_'[k][1] = Tried' + k
    <2>1. k + 1 \in 1 .. Len(buffers_) /\ buffers_'[k] = buffers_[k + 1]
        BY <1>1, <1>2
    <2>2. buffers_[k + 1][1] = Tried + (k + 1)
        BY Zenon, <2>1 DEF AsyncInv, Numbered
    <2>3. QED
        BY <1>3, <2>1, <2>2
<1>6. QED
    BY Zenon, <1>2, <1>3, <1>4, <1>5

\* What neither queues nor tries a write.
LEMMA QuietKeeps ==
    ASSUME AsyncInv, UNCHANGED <<buffers_, error_, accepted, target, failed>>,
           length' \in Lengths, w' = "catch" <=> w = "catch",
           Destroyed => Destroyed',
           c' \in {"closing", "closed"} => c \in {"closing", "closed"} \/ buffers_ = << >>
    PROVE  AsyncInv'
<1>1. AsyncTypes'
    BY Zenon DEF AsyncInv, AsyncTypes
<1>2. Tried' = Tried
    BY Zenon DEF Tried
<1>3. ~Destroyed => Numbered' /\ Reported'
    BY Zenon, <1>2 DEF AsyncInv, Numbered, Reported
<1>4. QED
    BY Zenon, <1>1, <1>3 DEF AsyncInv

\* Every step of the writer, the client and the destructor keeps the inductive
\* invariant.
LEMMA StepAsync == AsyncInv /\ [Next]_vars => AsyncInv'
<1> SUFFICES ASSUME AsyncInv, [Next]_vars PROVE AsyncInv'
    BY Zenon
<1> USE DEF queue, history
<1>1. CASE WriteFront
    <2>1. UNCHANGED <<c, length, error_, accepted, failed>> /\ Drop /\ buffers_ # << >>
        BY Zenon, <1>1 DEF WriteFront
    <2>2. target' = Append(target, Head(buffers_)[1]) /\ w = "lock" /\ w' = "top"
        BY Zenon, <1>1 DEF WriteFront, WriterAwake
    <2>3. AsyncTypes'
        BY <2>1, <2>2 DEF AsyncInv, AsyncTypes, Drop
    <2>4. ASSUME ~Destroyed PROVE Numbered' /\ Reported'
        <3>1. /\ Head(buffers_)[1] = Tried + 1 /\ Tried' = Tried + 1 /\ Tried \in Nat
              /\ \A k \in 1 .. Len(buffers_') : buffers_'[k][1] = Tried' + k
            BY Zenon, <2>1, <2>4, DropKeeps
        <3>2. Range(target') = Range(target) \cup {Tried + 1}
            <4>1. target \in Seq(Nat) /\ Tried + 1 \in Nat /\ target' = Append(target, Tried + 1)
                BY <2>2, <3>1 DEF AsyncInv, AsyncTypes
            <4>2. QED
                BY <4>1, RangeAppend
        <3>3. Range(target') \cup failed' = 1 .. Tried'
            BY <2>1, <2>4, <3>1, <3>2 DEF AsyncInv, Numbered
        <3>4. Reported'
            BY Zenon, <2>1, <2>2, <2>4 DEF AsyncInv, Reported
        <3>5. QED
            BY <3>1, <3>3, <3>4 DEF Numbered
    <2>5. QED
        BY Zenon, <2>1, <2>3, <2>4 DEF AsyncInv, Destroyed
<1>2. CASE WriteFails
    <2>1. UNCHANGED <<c, length, error_, accepted, target>> /\ Drop /\ buffers_ # << >>
        BY Zenon, <1>2 DEF WriteFails
    <2>2. failed' = failed \cup {Head(buffers_)[1]} /\ w = "lock" /\ w' = "catch"
        BY Zenon, <1>2 DEF WriteFails, WriterAwake
    <2>3. AsyncTypes'
        BY <2>1, <2>2 DEF AsyncInv, AsyncTypes, Drop
    <2>4. ASSUME ~Destroyed PROVE Numbered' /\ Reported'
        <3>1. /\ Head(buffers_)[1] = Tried + 1 /\ Tried' = Tried + 1 /\ Tried \in Nat
              /\ \A k \in 1 .. Len(buffers_') : buffers_'[k][1] = Tried' + k
            BY Zenon, <2>1, <2>4, DropKeeps
        <3>2. Range(target') \cup failed' = 1 .. Tried'
            BY <2>1, <2>2, <2>4, <3>1 DEF AsyncInv, Numbered
        <3>3. Reported'
            BY Zenon, <2>1, <2>2, <2>4, <3>1 DEF AsyncInv, Reported
        <3>4. QED
            BY <3>1, <3>2, <3>3 DEF Numbered
    <2>5. QED
        BY Zenon, <2>1, <2>3, <2>4 DEF AsyncInv, Destroyed
<1>3. CASE Catch
    <2>1. UNCHANGED <<buffers_, accepted, target, failed, c, length>> /\ error_' = TRUE
        BY Zenon, <1>3 DEF Catch, Report
    <2>2. AsyncTypes' /\ Tried' = Tried
        BY Zenon, <2>1 DEF AsyncInv, AsyncTypes, Tried
    <2>3. QED
        BY Zenon, <2>1, <2>2 DEF AsyncInv, Numbered, Reported, Destroyed
<1>4. CASE Write
    <2>1. /\ UNCHANGED <<w, length, error_, target, failed>> /\ c = "write" /\ c' = "idle"
          /\ accepted' = accepted + 1 /\ buffers_' = Append(buffers_, <<accepted', length>>)
        BY Zenon, <1>4 DEF Write, Awake, Return
    <2>2. /\ AsyncTypes' /\ Len(buffers_') = Len(buffers_) + 1
          /\ buffers_'[Len(buffers_')][1] = accepted'
          /\ \A k \in 1 .. Len(buffers_) : buffers_'[k] = buffers_[k]
        BY <2>1 DEF AsyncInv, AsyncTypes
    <2>3. Tried' = Tried /\ Tried' + Len(buffers_') = accepted' /\ Len(buffers_) \in Nat
        BY <2>1, <2>2 DEF AsyncInv, AsyncTypes, Tried
    <2>4. ~Destroyed
        BY Zenon, <2>1 DEF Destroyed
    <2>5. Numbered'
        <3>1. ASSUME NEW k \in 1 .. Len(buffers_') PROVE buffers_'[k][1] = Tried' + k
            <4>1. CASE k = Len(buffers_')
                BY Zenon, <2>2, <2>3, <4>1
            <4>2. CASE k # Len(buffers_')
                BY SMTT(60), <2>2, <2>3, <2>4, <4>2 DEF AsyncInv, Numbered
            <4>3. QED
                BY Zenon, <4>1, <4>2
        <3>2. QED
            BY Zenon, <2>1, <2>3, <2>4, <3>1 DEF AsyncInv, Numbered
    <2>6. Reported'
        BY Zenon, <2>1, <2>3, <2>4 DEF AsyncInv, Reported
    <2>7. QED
        BY Zenon, <2>1, <2>2, <2>5, <2>6 DEF AsyncInv
<1>5. CASE Destroy
    <2>1. AsyncTypes' /\ Destroyed'
        BY <1>5 DEF Destroy, AsyncInv, AsyncTypes, Destroyed
    <2>2. QED
        BY Zenon, <2>1 DEF AsyncInv
<1>6. CASE Top \/ Test \/ Doze \/ Break
    <2>1. /\ UNCHANGED <<buffers_, error_, accepted, target, failed, c, length>>
          /\ w # "catch" /\ w' # "catch"
        BY Zenon, <1>6 DEF Top, Test, Doze, Break, WriterAwake
    <2>2. QED
        BY Zenon, <2>1, QuietKeeps DEF AsyncInv, AsyncTypes, Destroyed
<1>7. CASE \/ Wait \/ Throw \/ Flush \/ CloseTarget \/ CloseReturns
           \/ StopWriter \/ SignalWriter \/ Join \/ Open \/ SpuriousWake
    <2>1. UNCHANGED <<buffers_, error_, accepted, target, failed, w, length>>
        BY Zenon, <1>7 DEF Wait, Throw, Flush, CloseTarget, CloseReturns, StopWriter, SignalWriter, Join,
                    Open, SpuriousWake
    <2>2. Destroyed => Destroyed'
        BY Zenon, <1>7 DEF Wait, Throw, Flush, CloseTarget, CloseReturns, StopWriter, SignalWriter, Join,
                    Open, SpuriousWake, Awake, Destroyed
    <2>3. c' \in {"closing", "closed"} => c \in {"closing", "closed"} \/ buffers_ = << >>
        BY Zenon, <1>7 DEF Wait, Throw, Flush, CloseTarget, CloseReturns, StopWriter, SignalWriter, Join,
                    Open, SpuriousWake, Return
    <2>4. QED
        BY Zenon, <2>1, <2>2, <2>3, QuietKeeps DEF AsyncInv, AsyncTypes
<1>8. ASSUME NEW call \in {"write", "flush", "close"}, NEW n \in Lengths, Call(call, n) PROVE AsyncInv'
    <2>1. /\ UNCHANGED <<buffers_, error_, accepted, target, failed, w>>
          /\ length' = n /\ c = "idle" /\ c' = call
        BY Zenon, <1>8 DEF Call
    <2>2. QED
        BY Zenon, <2>1, QuietKeeps DEF Destroyed
<1>9. CASE Gone \/ UNCHANGED vars
    <2>1. UNCHANGED <<buffers_, error_, accepted, target, failed, w, c, length>>
        BY Zenon, <1>9 DEF Gone, vars
    <2>2. QED
        BY Zenon, <2>1, QuietKeeps DEF AsyncInv, AsyncTypes, Destroyed
<1>10. QED
    BY Zenon, <1>1, <1>2, <1>3, <1>4, <1>5, <1>6, <1>7, <1>8, <1>9 DEF Next, Writer, InCall

\* A flush() or close() that returns normally finds every write() that returned at
\* the target, or the last one failed a moment ago (AsyncHandle.cc: flush, close and
\* the handler in AsyncHandleWriter::run).
THEOREM SuccessMeansWrittenHolds == Spec => SuccessMeansWritten
<1> DEFINE Told == (c \in {"flush", "closed"} /\ c' = "idle" /\ outcome' = "ok") =>
                       \/ Range(target) = 1..accepted
                       \/ w = "catch" /\ failed = {accepted}
<1>1. ASSUME AsyncInv, [Next]_vars, c \in {"flush", "closed"}, c' = "idle", outcome' = "ok"
      PROVE  Range(target) = 1..accepted \/ (w = "catch" /\ failed = {accepted})
    <2>1. ~error_ /\ buffers_ = << >> /\ ~Destroyed
        <3>1. ~Destroyed
            BY Zenon, <1>1 DEF Destroyed
        <3>2. Flush \/ CloseReturns \/ Throw
            BY Zenon, <1>1 DEF Next, vars, Writer, InCall, queue, history, Top, Test, Doze, Break, WriteFront,
               WriteFails, Catch, Wait, Write, CloseTarget, StopWriter, SignalWriter, Join, Open,
               Destroy, SpuriousWake, Gone, Call, Awake
        <3>3. ~Throw
            BY Zenon, <1>1 DEF Throw, Return
        <3>4. CASE Flush
            BY Zenon, <3>1, <3>4 DEF Flush
        <3>5. CASE CloseReturns
            BY Zenon, <1>1, <3>1, <3>5 DEF CloseReturns, Awake, Return, AsyncInv
        <3>6. QED
            BY Zenon, <3>2, <3>3, <3>4, <3>5
    <2>2. Tried = accepted
        BY <1>1, <2>1 DEF Tried, AsyncInv, AsyncTypes
    <2>3. QED
        BY Zenon, <1>1, <2>1, <2>2 DEF AsyncInv, Numbered, Reported
<1>2. AsyncInv /\ [Next]_vars => [Told]_vars
    BY Zenon, <1>1
<1>3. QED
    BY <1>2, InitAsync, StepAsync, PTL DEF Spec, SuccessMeansWritten

-----------------------------------------------------------------------------
(* ProducerConsumer.  The payloads on their way are the slots from the one the
   consumer is at up to the one the producer is at. *)

\* The slot that is d after the one the consumer is at.
After(d) == IF pcJ + d < pcCount THEN pcJ + d ELSE pcJ + d - pcCount

\* How many payloads are on their way.
Ahead == Len(produced) - Len(consumed)

Producing == {"loop", "lock", "asleep", "produce"}

PcTypes ==
    /\ pcCount \in Nat \ {0} /\ pcI \in 0 .. pcCount - 1 /\ pcJ \in 0 .. pcCount - 1
    /\ ready_ \in [0 .. pcCount - 1 -> BOOLEAN] /\ done_ \in [0 .. pcCount - 1 -> BOOLEAN]
    /\ payload_ \in [0 .. pcCount - 1 -> Payload \cup {Unmade}]
    /\ pcError \in BOOLEAN
    /\ produced \in Seq(Payload) /\ consumed \in Seq(Payload)
    /\ ppc \in Producing \cup {"join", "returned", "thrown", "escaped"}

\* Where the payloads are that were produced.
Carried ==
    /\ Ahead \in 0 .. pcCount
    /\ \A n \in 1 .. Len(consumed) : consumed[n] = produced[n]
    /\ \A d \in 0 .. Ahead - 1 : payload_[After(d)] = produced[Len(consumed) + 1 + d]

\* What the two threads rely on.  Without an error, the slots that are ready are
\* the ones that are on their way, and the one that carries the end.
Apart ==
    /\ ppc \in Producing /\ (ppc = "loop" => ~pcError) => pcI = After(Ahead)
    /\ ppc = "produce" => Ahead < pcCount
    /\ cpc = "consume" => Ahead > 0
    /\ ppc \in Producing => \A s \in 0 .. pcCount - 1 : ~done_[s]
    /\ ~pcError => \A d \in Ahead .. pcCount - 1 : ready_[After(d)] => done_[After(d)]
    /\ ~pcError /\ ppc \in Producing => \A d \in 0 .. Ahead - 1 : ready_[After(d)]

\* The inductive invariant of the refinement.
RingInv == PcTypes /\ Carried /\ Apart

\* (n + 1) % c, for a slot n of a ring of c.
LEMMA NextSlot ==
    ASSUME NEW m \in Nat \ {0}, NEW n \in 0 .. m - 1
    PROVE  (n + 1) % m = IF n + 1 = m THEN 0 ELSE n + 1
<1>1. CASE n + 1 = m
    BY <1>1
<1>2. CASE n + 1 # m
    <2>1. n + 1 \in 0 .. m - 1
        BY <1>2
    <2>2. QED
        BY <1>2, <2>1
<1>3. QED
    BY Zenon, <1>1, <1>2

\* The slots from the consumer's on are all the slots, each once.
LEMMA AfterIs ==
    ASSUME PcTypes
    PROVE  /\ \A d \in 0 .. pcCount : After(d) \in 0 .. pcCount - 1
           /\ \A d, n \in 0 .. pcCount - 1 : After(d) = After(n) => d = n
           /\ After(0) = pcJ /\ After(pcCount) = pcJ
BY DEF PcTypes, After

\* How long the histories are.
LEMMA AheadIs ==
    ASSUME RingInv
    PROVE  /\ Len(produced) \in Nat /\ Len(consumed) \in Nat /\ Ahead \in 0 .. pcCount
           /\ Len(produced) = Len(consumed) + Ahead /\ pcCount \in Nat \ {0}
BY DEF RingInv, PcTypes, Carried, Ahead

\* What moves no payload, and sets no flag.
LEMMA QuietRing ==
    ASSUME RingInv,
           UNCHANGED <<pcCount, ready_, done_, payload_, pcError, pcI, pcJ, produced, consumed>>,
           ppc' \in Producing \cup {"join", "returned", "thrown", "escaped"},
           ppc' \in Producing /\ (ppc' = "loop" => ~pcError) =>
               ppc \in Producing /\ (ppc = "loop" => ~pcError),
           ppc' \in Producing => ppc \in Producing,
           ppc' = "produce" => Ahead < pcCount, cpc' = "consume" => Ahead > 0
    PROVE  RingInv'
<1>1. Ahead' = Ahead /\ \A d : After(d)' = After(d)
    BY Zenon DEF Ahead, After
<1>2. PcTypes'
    BY Zenon DEF RingInv, PcTypes
<1>3. Carried'
    BY Zenon, <1>1 DEF RingInv, Carried
<1>4. Apart'
    BY Zenon, <1>1 DEF RingInv, Apart
<1>5. QED
    BY Zenon, <1>2, <1>3, <1>4 DEF RingInv

\* The producer waits, begins a payload, or stops.
LEMMA ProducerQuiet ==
    ASSUME RingInv, P!ProducerLoop \/ P!ProducerLock \/ P!Join \/ P!DoneEscapes
    PROVE  RingInv'
<1>1. UNCHANGED <<pcCount, ready_, done_, payload_, pcError, pcI, pcJ, produced, consumed, cpc>>
    BY Zenon DEF P!ProducerLoop, P!ProducerLock, P!Join, P!DoneEscapes, P!ring
<1>2. CASE P!ProducerLock
    <2>1. ppc = "lock" /\ ppc' \in {"asleep", "join", "produce"}
        BY Zenon, <1>2 DEF P!ProducerLock
    <2>2. ASSUME ppc' = "produce" PROVE Ahead < pcCount
        <3>1. ~ready_[pcI] /\ ~pcError
            BY Zenon, <1>2, <2>2 DEF P!ProducerLock
        <3>2. pcI = After(Ahead) /\ \A d \in 0 .. Ahead - 1 : ready_[After(d)]
            BY Zenon, <2>1, <3>1 DEF RingInv, Apart, Producing
        <3>3. After(0) = pcJ /\ After(pcCount) = pcJ /\ Ahead \in 0 .. pcCount /\ pcCount \in Nat \ {0}
            BY Zenon, AfterIs, AheadIs DEF RingInv
        <3>4. QED
            BY <3>1, <3>2, <3>3
    <2>3. cpc' = "consume" => Ahead > 0
        BY Zenon, <1>1 DEF RingInv, Apart
    <2>4. QED
        BY Zenon, <1>1, <2>1, <2>2, <2>3, QuietRing DEF Producing
<1>3. CASE P!ProducerLoop \/ P!Join \/ P!DoneEscapes
    <2>1. \/ ppc = "loop" /\ ppc' = "lock" /\ ~pcError
          \/ ppc' \in {"join", "thrown", "returned", "escaped"}
        BY Zenon, <1>3 DEF P!ProducerLoop, P!Join, P!DoneEscapes
    <2>2. cpc' = "consume" => Ahead > 0
        BY Zenon, <1>1 DEF RingInv, Apart
    <2>3. QED
        BY Zenon, <1>1, <2>1, <2>2, QuietRing DEF Producing
<1>4. QED
    BY Zenon, <1>2, <1>3

\* The consumer waits, takes a payload to consume, or ends.
LEMMA ConsumerQuiet ==
    ASSUME RingInv, P!ConsumerLoop \/ P!ConsumerLock \/ P!SpuriousWake \/ UNCHANGED P!vars
    PROVE  RingInv'
<1>1. CASE P!ConsumerLoop \/ P!SpuriousWake \/ UNCHANGED P!vars
    <2>1. /\ UNCHANGED <<pcCount, ready_, done_, payload_, pcError, pcI, pcJ, produced, consumed>>
          /\ ppc' = ppc \/ (ppc = "asleep" /\ ppc' = "lock")
          /\ cpc' = "consume" => cpc = "consume"
        BY Zenon, <1>1 DEF P!ConsumerLoop, P!SpuriousWake, P!vars, P!ring
    <2>2. ppc \in Producing \cup {"join", "returned", "thrown", "escaped"}
        BY Zenon DEF RingInv, PcTypes
    <2>3. (ppc = "produce" => Ahead < pcCount) /\ (cpc = "consume" => Ahead > 0)
        BY Zenon DEF RingInv, Apart
    <2>4. QED
        BY Zenon, <2>1, <2>2, <2>3, QuietRing DEF Producing
<1>2. CASE P!ConsumerLock
    <2>1. /\ UNCHANGED <<pcCount, done_, payload_, pcError, pcI, pcJ, produced, consumed>>
          /\ \/ cpc' # "consume" /\ ready_' = ready_ /\ ppc' = ppc
             \/ ready_[pcJ] /\ ~pcError /\ done_[pcJ] /\ P!Retrieve /\ cpc' = "ended"
             \/ ready_[pcJ] /\ ~pcError /\ ~done_[pcJ] /\ ready_' = ready_ /\ ppc' = ppc
        BY Zenon, <1>2 DEF P!ConsumerLock, P!Failed
    <2>2. ppc \in Producing \cup {"join", "returned", "thrown", "escaped"}
        BY Zenon DEF RingInv, PcTypes
    <2>3. (ppc = "produce" => Ahead < pcCount) /\ (cpc = "consume" => Ahead > 0)
        BY Zenon DEF RingInv, Apart
    <2>4. CASE cpc' # "consume" /\ ready_' = ready_ /\ ppc' = ppc
        BY Zenon, <2>1, <2>2, <2>3, <2>4, QuietRing DEF Producing
    <2>5. CASE ready_[pcJ] /\ ~pcError /\ ~done_[pcJ] /\ ready_' = ready_ /\ ppc' = ppc
        <3>1. After(0) = pcJ /\ Ahead \in 0 .. pcCount /\ pcCount \in Nat \ {0}
            BY Zenon, AfterIs, AheadIs DEF RingInv
        <3>2. Ahead > 0
            BY <2>5, <3>1 DEF RingInv, Apart
        <3>3. QED
            BY Zenon, <2>1, <2>2, <2>3, <2>5, <3>2, QuietRing
    <2>6. CASE ready_[pcJ] /\ ~pcError /\ done_[pcJ] /\ P!Retrieve /\ cpc' = "ended"
        <3>1. pcJ \in 0 .. pcCount - 1
            BY Zenon DEF RingInv, PcTypes
        <3>2. ppc \notin Producing
            BY Zenon, <2>6, <3>1 DEF RingInv, Apart
        <3>3. ppc' = ppc /\ ready_' = [ready_ EXCEPT ![pcJ] = FALSE]
            BY Zenon, <2>6, <3>2 DEF P!Retrieve, P!WakeProducer, Producing
        <3>4. /\ Ahead' = Ahead /\ \A d : After(d)' = After(d)
            BY Zenon, <2>1 DEF Ahead, After
        <3>5. \A m \in 0 .. pcCount - 1 : ready_'[m] => ready_[m]
            BY Zenon, <3>3 DEF RingInv, PcTypes
        <3>6. \A d \in Ahead .. pcCount - 1 : After(d) \in 0 .. pcCount - 1
            BY AfterIs, AheadIs DEF RingInv
        <3>7. PcTypes'
            BY Zenon, <2>1, <3>1, <3>3 DEF RingInv, PcTypes
        <3>8. Carried'
            BY Zenon, <2>1, <3>4 DEF RingInv, Carried
        <3>9. Apart'
            BY Zenon, <2>1, <2>6, <3>2, <3>3, <3>4, <3>5, <3>6 DEF RingInv, Apart, Producing
        <3>10. QED
            BY Zenon, <3>7, <3>8, <3>9 DEF RingInv
    <2>7. QED
        BY Zenon, <2>1, <2>4, <2>5, <2>6
<1>3. QED
    BY Zenon, <1>1, <1>2

\* produce() has failed, or the producer has come to the end: nothing is sent.
LEMMA EndRing == ASSUME RingInv, P!ProducerDone \/ P!ProduceThrows PROVE RingInv'
<1>1. /\ ppc = "produce" /\ UNCHANGED <<pcCount, pcJ, produced, consumed>>
      /\ ready_' = [ready_ EXCEPT ![pcI] = TRUE]
      /\ cpc' = "consume" => cpc = "consume"
    BY Zenon DEF P!ProducerDone, P!ProduceThrows, P!Offer, P!WakeConsumer
<1>2. /\ PcTypes /\ pcI = After(Ahead) /\ Ahead < pcCount /\ (cpc = "consume" => Ahead > 0)
      /\ \A m \in 0 .. pcCount - 1 : ~done_[m]
    BY Zenon, <1>1 DEF RingInv, Apart, Producing
<1>3. /\ pcI \in 0 .. pcCount - 1 /\ Ahead \in 0 .. pcCount - 1 /\ pcCount \in Nat \ {0}
    BY <1>2, AheadIs DEF PcTypes
<1>4. Ahead' = Ahead /\ \A d : After(d)' = After(d)
    BY Zenon, <1>1 DEF Ahead, After
<1>5. /\ \A d \in 0 .. pcCount - 1 : After(d) \in 0 .. pcCount - 1
      /\ \A d \in 0 .. pcCount - 1 : d # Ahead => After(d) # pcI
    BY <1>2, <1>3, AfterIs
<1>6. CASE P!ProducerDone
    <2>1. /\ done_' = [done_ EXCEPT ![pcI] = TRUE] /\ ppc' = "join" /\ UNCHANGED <<payload_, pcError, pcI>>
        BY Zenon, <1>6 DEF P!ProducerDone
    <2>2. PcTypes'
        BY Zenon, <1>1, <1>2, <1>3, <2>1 DEF PcTypes
    <2>3. Carried'
        BY Zenon, <1>1, <1>4, <2>1 DEF RingInv, Carried
    <2>4. \A m \in 0 .. pcCount - 1 : IF m = pcI THEN done_'[m] ELSE ready_'[m] = ready_[m] /\ done_'[m] = done_[m]
        BY Zenon, <1>1, <1>2, <1>3, <2>1 DEF PcTypes
    <2>5. Apart'
        BY SMTT(60), <1>1, <1>2, <1>3, <1>4, <1>5, <2>1, <2>4 DEF RingInv, Apart, Producing
    <2>6. QED
        BY Zenon, <2>2, <2>3, <2>5 DEF RingInv
<1>7. CASE P!ProduceThrows
    <2>1. /\ payload_' = [payload_ EXCEPT ![pcI] = Unmade] /\ pcError' = TRUE /\ ppc' = "loop"
          /\ pcI' = (pcI + 1) % pcCount /\ UNCHANGED done_
        BY Zenon, <1>7 DEF P!ProduceThrows
    <2>2. pcI' \in 0 .. pcCount - 1
        BY <1>3, <2>1, NextSlot
    <2>3. PcTypes'
        BY Zenon, <1>1, <1>2, <1>3, <2>1, <2>2 DEF PcTypes, Producing
    <2>4. \A m \in 0 .. pcCount - 1 : m # pcI => payload_'[m] = payload_[m]
        BY Zenon, <1>2, <2>1 DEF PcTypes
    <2>5. \A d \in 0 .. Ahead - 1 : payload_'[After(d)] = payload_[After(d)]
        BY <1>3, <1>5, <2>4
    <2>6. Carried'
        BY Zenon, <1>1, <1>4, <2>5 DEF RingInv, Carried
    <2>7. Apart'
        BY Zenon, <1>1, <1>2, <1>4, <2>1 DEF Apart, Producing
    <2>8. QED
        BY Zenon, <2>3, <2>6, <2>7 DEF RingInv
<1>8. QED
    BY Zenon, <1>6, <1>7

\* produce() has made a payload: one more is on its way.
LEMMA ProduceRing == ASSUME RingInv, P!Produce PROVE RingInv'
<1>1. PICK x \in Payload : payload_' = [payload_ EXCEPT ![pcI] = x] /\ produced' = Append(produced, x)
    BY Zenon DEF P!Produce
<1>2. /\ ppc = "produce" /\ ppc' = "loop" /\ pcI' = (pcI + 1) % pcCount
      /\ UNCHANGED <<pcCount, done_, pcError, pcJ, consumed>>
      /\ ready_' = [ready_ EXCEPT ![pcI] = TRUE]
    BY Zenon DEF P!Produce, P!Offer
<1>3. PcTypes /\ Carried
    BY Zenon DEF RingInv
<1>4. pcI = After(Ahead) /\ Ahead < pcCount
    BY Zenon, <1>2 DEF RingInv, Apart, Producing
<1>5. /\ pcI \in 0 .. pcCount - 1 /\ Ahead \in 0 .. pcCount - 1 /\ pcCount \in Nat \ {0}
      /\ Len(produced) \in Nat /\ Len(consumed) \in Nat /\ Len(produced) = Len(consumed) + Ahead
    BY <1>3, <1>4, AheadIs DEF PcTypes
<1>6. /\ produced' \in Seq(Payload) /\ Len(produced') = Len(produced) + 1
      /\ \A n \in 1 .. Len(produced) : produced'[n] = produced[n]
      /\ produced'[Len(produced) + 1] = x
    <2>1. produced \in Seq(Payload)
        BY Zenon, <1>3 DEF PcTypes
    <2>2. QED
        BY <1>1, <2>1
<1>7. Ahead' = Ahead + 1 /\ \A d : After(d)' = After(d)
    BY <1>2, <1>5, <1>6 DEF Ahead, After
<1>8. /\ \A d \in 0 .. pcCount - 1 : After(d) \in 0 .. pcCount - 1
      /\ \A d, n \in 0 .. pcCount - 1 : After(d) = After(n) => d = n
    BY SMTT(60), <1>3, <1>5, AfterIs
<1>9. \A d \in 0 .. pcCount - 1 : d # Ahead => After(d) # pcI
    BY Zenon, <1>5, <1>8, <1>4
<1>10. pcI' \in 0 .. pcCount - 1 /\ pcI' = After(Ahead + 1)
    <2>1. pcI' = IF pcI + 1 = pcCount THEN 0 ELSE pcI + 1
        BY Zenon, <1>2, <1>5, NextSlot
    <2>2. QED
        <3>1. pcJ \in 0 .. pcCount - 1
            BY Zenon, <1>3 DEF PcTypes
        <3>2. CASE pcI + 1 = pcCount
            BY SMTT(60), <1>4, <1>5, <2>1, <3>1, <3>2 DEF After
        <3>3. CASE pcI + 1 # pcCount
            BY <1>4, <1>5, <2>1, <3>1, <3>3 DEF After
        <3>4. QED
            BY Zenon, <3>2, <3>3
<1>11. \A m \in 0 .. pcCount - 1 :
          /\ m # pcI => payload_'[m] = payload_[m] /\ ready_'[m] = ready_[m]
          /\ m = pcI => payload_'[m] = x /\ ready_'[m]
    BY Zenon, <1>1, <1>2, <1>3, <1>5 DEF PcTypes
<1>12. PcTypes'
    BY Zenon, <1>1, <1>2, <1>3, <1>6, <1>10 DEF PcTypes, Producing
<1>13. Carried'
    <2>1. \A n \in 1 .. Len(consumed) : consumed'[n] = produced'[n]
        BY <1>2, <1>3, <1>5, <1>6 DEF Carried
    <2>2. ASSUME NEW d \in 0 .. Ahead PROVE payload_'[After(d)] = produced'[Len(consumed) + 1 + d]
        <3>1. CASE d = Ahead
            BY <1>5, <1>6, <1>11, <1>4, <3>1
        <3>2. CASE d # Ahead
            <4>1. After(d) # pcI /\ After(d) \in 0 .. pcCount - 1 /\ d \in 0 .. Ahead - 1
                BY SMTT(60), <1>5, <1>8, <1>9, <3>2
            <4>2. payload_'[After(d)] = payload_[After(d)] /\ payload_[After(d)] = produced[Len(consumed) + 1 + d]
                BY Zenon, <1>3, <1>11, <4>1 DEF Carried
            <4>3. QED
                BY SMTT(60), <1>5, <1>6, <4>1, <4>2
        <3>3. QED
            BY Zenon, <3>1, <3>2
    <2>3. Ahead' \in 0 .. pcCount /\ Ahead' - 1 = Ahead
        BY <1>5, <1>7
    <2>4. QED
        BY Zenon, <1>2, <1>7, <2>1, <2>2, <2>3 DEF Carried
<1>14. Apart'
    <2>1. ASSUME ~pcError, NEW d \in 0 .. Ahead PROVE ready_'[After(d)]
        <3>1. CASE d = Ahead
            BY Zenon, <1>5, <1>11, <1>4, <3>1
        <3>2. CASE d # Ahead
            <4>1. After(d) # pcI /\ After(d) \in 0 .. pcCount - 1 /\ d \in 0 .. Ahead - 1
                BY <1>5, <1>8, <1>9, <3>2
            <4>2. ready_[After(d)]
                BY Zenon, <1>2, <2>1, <4>1 DEF RingInv, Apart, Producing
            <4>3. QED
                BY SMTT(60), <1>11, <4>1, <4>2
        <3>3. QED
            BY Zenon, <3>1, <3>2
    <2>2. ASSUME ~pcError, NEW d \in Ahead + 1 .. pcCount - 1, ready_'[After(d)] PROVE done_[After(d)]
        <3>1. After(d) # pcI /\ After(d) \in 0 .. pcCount - 1 /\ d \in Ahead .. pcCount - 1
            BY SMTT(60), <1>5, <1>8, <1>9
        <3>2. ready_[After(d)]
            BY Zenon, <1>11, <2>2, <3>1
        <3>3. QED
            BY Zenon, <2>2, <3>1, <3>2 DEF RingInv, Apart
    <2>3. \A m \in 0 .. pcCount - 1 : ~done_[m]
        BY Zenon, <1>2 DEF RingInv, Apart, Producing
    <2>4. Ahead' > 0 /\ Ahead' - 1 = Ahead
        BY <1>5, <1>7
    <2>5. QED
        BY Zenon, <1>2, <1>7, <1>10, <2>1, <2>2, <2>3, <2>4 DEF Apart, Producing
<1>15. QED
    BY Zenon, <1>12, <1>13, <1>14 DEF RingInv

\* consume() has returned: the first of the payloads on their way has arrived.
LEMMA ConsumeRing ==
    ASSUME RingInv, P!Consume
    PROVE  RingInv' /\ Ahead > 0 /\ consumed' = Append(consumed, produced[Len(consumed) + 1])
<1>1. /\ cpc = "consume" /\ cpc' = "loop" /\ pcJ' = (pcJ + 1) % pcCount
      /\ consumed' = Append(consumed, payload_[pcJ])
      /\ UNCHANGED <<pcCount, done_, payload_, pcError, pcI, produced>>
      /\ ready_' = [ready_ EXCEPT ![pcJ] = FALSE]
      /\ ppc' = ppc \/ (ppc = "asleep" /\ ppc' = "lock")
    BY Zenon DEF P!Consume, P!Retrieve, P!WakeProducer
<1>2. PcTypes /\ Carried /\ Ahead > 0
    BY Zenon, <1>1 DEF RingInv, Apart
<1>3. /\ pcJ \in 0 .. pcCount - 1 /\ Ahead \in 1 .. pcCount /\ pcCount \in Nat \ {0}
      /\ Len(produced) \in Nat /\ Len(consumed) \in Nat /\ Len(produced) = Len(consumed) + Ahead
    BY <1>2, AheadIs DEF PcTypes
<1>4. /\ payload_[pcJ] = produced[Len(consumed) + 1] /\ payload_[pcJ] \in Payload
    <2>1. payload_[pcJ] = produced[Len(consumed) + 1]
        <3>1. After(0) = pcJ /\ 0 \in 0 .. Ahead - 1 /\ Len(consumed) + 1 + 0 = Len(consumed) + 1
            BY <1>2, <1>3, AfterIs
        <3>2. QED
            BY Zenon, <1>2, <3>1 DEF Carried
    <2>2. Len(consumed) + 1 \in 1 .. Len(produced) /\ produced \in Seq(Payload)
        BY <1>2, <1>3 DEF PcTypes
    <2>3. QED
        BY <2>1, <2>2
<1>5. /\ consumed' \in Seq(Payload) /\ Len(consumed') = Len(consumed) + 1
      /\ \A n \in 1 .. Len(consumed) : consumed'[n] = consumed[n]
      /\ consumed'[Len(consumed) + 1] = produced[Len(consumed) + 1]
    <2>1. consumed \in Seq(Payload)
        BY Zenon, <1>2 DEF PcTypes
    <2>2. QED
        BY <1>1, <1>4, <2>1
<1>6. pcJ' = IF pcJ + 1 = pcCount THEN 0 ELSE pcJ + 1
    BY Zenon, <1>1, <1>3, NextSlot
<1>7. Ahead' = Ahead - 1 /\ \A d \in 0 .. pcCount - 1 : After(d)' = After(d + 1)
    <2>1. Ahead' = Ahead - 1
        BY <1>1, <1>3, <1>5 DEF Ahead
    <2>2. ASSUME NEW d \in 0 .. pcCount - 1 PROVE After(d)' = After(d + 1)
        <3>1. CASE pcJ + 1 = pcCount
            BY SMTT(60), <1>1, <1>3, <1>6, <3>1 DEF After
        <3>2. CASE pcJ + 1 # pcCount
            BY SMTT(60), <1>1, <1>3, <1>6, <3>2 DEF After
        <3>3. QED
            BY Zenon, <3>1, <3>2
    <2>3. QED
        BY Zenon, <2>1, <2>2
<1>8. /\ \A d \in 0 .. pcCount - 1 : After(d) \in 0 .. pcCount - 1
      /\ \A d \in 1 .. pcCount - 1 : After(d) # pcJ
      /\ After(0) = pcJ /\ After(pcCount) = pcJ
    <2>1. /\ \A d \in 0 .. pcCount - 1 : d \in 0 .. pcCount
          /\ \A d \in 1 .. pcCount - 1 : d \in 0 .. pcCount - 1 /\ d # 0
          /\ 0 \in 0 .. pcCount - 1
        BY <1>3
    <2>2. QED
        BY Zenon, <1>2, <2>1, AfterIs
<1>9. \A m \in 0 .. pcCount - 1 : (m # pcJ => ready_'[m] = ready_[m]) /\ (m = pcJ => ~ready_'[m])
    BY Zenon, <1>1, <1>2 DEF PcTypes
<1>10. PcTypes'
    BY <1>1, <1>2, <1>3, <1>5, <1>6 DEF PcTypes, Producing
<1>11. Carried'
    <2>1. \A n \in 1 .. Len(consumed') : consumed'[n] = produced[n]
        BY SMTT(60), <1>2, <1>3, <1>5 DEF Carried
    <2>2. ASSUME NEW d \in 0 .. Ahead - 2 PROVE payload_[After(d)'] = produced[Len(consumed') + 1 + d]
        <3>1. After(d)' = After(d + 1) /\ d + 1 \in 0 .. Ahead - 1
            BY <1>3, <1>7
        <3>2. payload_[After(d + 1)] = produced[Len(consumed) + 1 + (d + 1)]
            BY Zenon, <1>2, <3>1 DEF Carried
        <3>3. Len(consumed) + 1 + (d + 1) = Len(consumed') + 1 + d
            BY <1>3, <1>5
        <3>4. QED
            BY Zenon, <3>1, <3>2, <3>3
    <2>3. Ahead' \in 0 .. pcCount /\ Ahead' - 1 = Ahead - 2
        BY <1>3, <1>7
    <2>4. QED
        BY Zenon, <1>1, <2>1, <2>2, <2>3 DEF Carried
<1>12. Apart'
    <2>1. ppc \in Producing /\ (ppc = "loop" => ~pcError) => pcI = After(Ahead)'
        <3>1. After(Ahead)' = After(Ahead)
            BY SMTT(60), <1>1, <1>3, <1>6, <1>7 DEF After
        <3>2. QED
            BY Zenon, <3>1 DEF RingInv, Apart
    <2>2. ASSUME ~pcError, NEW d \in Ahead' .. pcCount - 1, ready_'[After(d)'] PROVE done_[After(d)']
        <3>1. d \in 0 .. pcCount - 1 /\ After(d)' = After(d + 1) /\ d + 1 \in Ahead .. pcCount
            BY <1>3, <1>7
        <3>2. CASE d + 1 = pcCount
            BY Zenon, <1>3, <1>8, <1>9, <2>2, <3>1, <3>2
        <3>3. CASE d + 1 # pcCount
            <4>1. /\ d + 1 \in 1 .. pcCount - 1 /\ d + 1 \in 0 .. pcCount - 1
                  /\ d + 1 \in Ahead .. pcCount - 1
                BY <1>3, <3>1, <3>3
            <4>2. After(d + 1) # pcJ /\ After(d + 1) \in 0 .. pcCount - 1
                BY Zenon, <1>8, <4>1
            <4>3. ready_[After(d + 1)]
                BY Zenon, <1>9, <2>2, <3>1, <4>2
            <4>4. QED
                BY Zenon, <2>2, <3>1, <4>1, <4>3 DEF RingInv, Apart
        <3>4. QED
            BY Zenon, <3>2, <3>3
    <2>3. ASSUME ~pcError, ppc \in Producing, NEW d \in 0 .. Ahead' - 1 PROVE ready_'[After(d)']
        <3>1. After(d)' = After(d + 1) /\ d + 1 \in 1 .. pcCount - 1 /\ d + 1 \in 0 .. Ahead - 1
            BY <1>3, <1>7
        <3>2. ready_[After(d + 1)]
            BY Zenon, <2>3, <3>1 DEF RingInv, Apart
        <3>3. After(d + 1) # pcJ /\ After(d + 1) \in 0 .. pcCount - 1
            BY <1>3, <1>8, <3>1
        <3>4. QED
            BY Zenon, <1>9, <3>1, <3>2, <3>3
    <2>4. (ppc' \in Producing <=> ppc \in Producing) /\ (ppc' = "loop" => ppc = "loop")
        BY Zenon, <1>1 DEF Producing
    <2>5. ppc' = "produce" => Ahead' < pcCount
        BY <1>3, <1>7
    <2>6. ppc \in Producing => \A m \in 0 .. pcCount - 1 : ~done_[m]
        BY Zenon DEF RingInv, Apart
    <2>7. QED
        BY Zenon, <1>1, <2>1, <2>2, <2>3, <2>4, <2>5, <2>6 DEF Apart
<1>13. QED
    BY Zenon, <1>1, <1>2, <1>4, <1>10, <1>11, <1>12 DEF RingInv

\* consume() has failed: the consumer ends, and leaves the payload.
LEMMA ConsumeThrowsRing == ASSUME RingInv, P!ConsumeThrows PROVE RingInv'
<1>1. /\ cpc' = "ended" /\ pcError' = TRUE
      /\ UNCHANGED <<pcCount, done_, payload_, pcI, pcJ, produced, consumed>>
      /\ ready_' = [ready_ EXCEPT ![pcJ] = FALSE]
      /\ ppc' = ppc \/ (ppc = "asleep" /\ ppc' = "lock")
    BY Zenon DEF P!ConsumeThrows, P!Retrieve, P!WakeProducer
<1>2. Ahead' = Ahead /\ \A d : After(d)' = After(d)
    BY Zenon, <1>1 DEF Ahead, After
<1>3. PcTypes'
    BY Zenon, <1>1 DEF RingInv, PcTypes, Producing
<1>4. Carried'
    BY Zenon, <1>1, <1>2 DEF RingInv, Carried
<1>5. Apart'
    BY Zenon, <1>1, <1>2 DEF RingInv, Apart, Producing
<1>6. QED
    BY Zenon, <1>3, <1>4, <1>5 DEF RingInv

\* Every step of the two threads keeps the invariant.
LEMMA StepRing == RingInv /\ [P!Next]_P!vars => RingInv'
<1>1. P!Stop => UNCHANGED P!vars
    BY Zenon DEF P!Stop
<1>2. QED
    BY Zenon, <1>1, ProducerQuiet, ConsumerQuiet, EndRing, ProduceRing, ConsumeRing, ConsumeThrowsRing
    DEF P!Next, P!Producer, P!Consumer

\* Every step of the two threads is a step of the bounded channel, or changes
\* nothing the channel shows.
LEMMA RingStep == RingInv /\ [P!Next]_P!vars => [P!Channel!ChNext]_(P!Channel!chVars)
<1> SUFFICES ASSUME RingInv, [P!Next]_P!vars PROVE [P!Channel!ChNext]_(P!Channel!chVars)
    BY Zenon
<1> DEFINE closed == ppc \in {"join"} \/ P!Over
<1>1. P!Channel!InFlight = Ahead
    BY Zenon DEF P!Channel!InFlight, Ahead
<1>2. CASE P!Produce
    <2>1. ~closed /\ ~closed' /\ UNCHANGED <<consumed, pcCount>>
        BY Zenon, <1>2 DEF P!Produce, P!Over
    <2>2. Ahead < pcCount /\ \E x \in Payload : produced' = Append(produced, x)
        BY Zenon, <1>2 DEF P!Produce, RingInv, Apart
    <2>3. P!Channel!Send
        BY Zenon, <1>1, <2>1, <2>2 DEF P!Channel!Send
    <2>4. QED
        BY Zenon, <2>3 DEF P!Channel!ChNext
<1>3. CASE P!Consume
    <2>1. Ahead > 0 /\ consumed' = Append(consumed, produced[Len(consumed) + 1])
        BY Zenon, <1>3, ConsumeRing
    <2>2. /\ consumed \in Seq(Payload) /\ produced \in Seq(Payload) /\ Len(consumed) + 1 \in 1 .. Len(produced)
          /\ 1 \in 1 .. Ahead
        BY <2>1, AheadIs DEF RingInv, PcTypes
    <2>3. consumed' = consumed \o SubSeq(produced, Len(consumed) + 1, Len(consumed) + 1)
        BY <2>1, <2>2
    <2>4. UNCHANGED <<produced, pcCount>> /\ (closed' <=> closed)
        BY Zenon, <1>3 DEF P!Consume, P!Retrieve, P!WakeProducer, P!Over
    <2>5. P!Channel!Receive
        BY Zenon, <1>1, <2>2, <2>3, <2>4 DEF P!Channel!Receive
    <2>6. QED
        BY Zenon, <2>5 DEF P!Channel!ChNext
<1>4. CASE ~P!Produce /\ ~P!Consume
    <2>1. UNCHANGED <<produced, consumed, pcCount>>
        BY Zenon, <1>4 DEF P!Next, P!Producer, P!Consumer, P!ProducerLoop, P!ProducerLock, P!ProducerDone,
           P!DoneEscapes, P!ProduceThrows, P!Join, P!ConsumerLoop, P!ConsumerLock, P!ConsumeThrows,
           P!SpuriousWake, P!Stop, P!vars
    <2>2. closed => closed'
        BY Zenon, <1>4 DEF P!Next, P!Producer, P!Consumer, P!ProducerLoop, P!ProducerLock, P!ProducerDone,
           P!DoneEscapes, P!ProduceThrows, P!Join, P!ConsumerLoop, P!ConsumerLock, P!ConsumeThrows,
           P!SpuriousWake, P!Stop, P!vars, P!Over, P!Retrieve, P!WakeProducer
    <2>3. CASE closed' <=> closed
        BY Zenon, <2>1, <2>3 DEF P!Channel!chVars
    <2>4. CASE closed' /\ ~closed
        <3>1. P!Channel!Shut
            BY Zenon, <2>1, <2>4 DEF P!Channel!Shut
        <3>2. QED
            BY Zenon, <3>1 DEF P!Channel!ChNext
    <2>5. QED
        BY Zenon, <2>2, <2>3, <2>4
<1>5. QED
    BY Zenon, <1>2, <1>3, <1>4

\* runtime/ProducerConsumer.h implements the bounded channel: payloads reach
\* consume() in the order of produce(), none is lost or made up, and never more than
\* count_ are on their way.
THEOREM ProducerConsumerImplementsChannel == P!Spec => ImplementsChannel
<1>1. ASSUME P!Init PROVE RingInv /\ P!Channel!ChInit
    <2>1. /\ pcCount \in Nat \ {0} /\ pcI = 0 /\ pcJ = 0 /\ produced = << >> /\ consumed = << >>
          /\ payload_ = [m \in 0 .. pcCount - 1 |-> Unmade] /\ ppc = "loop" /\ cpc = "loop"
          /\ ready_ = [m \in 0 .. pcCount - 1 |-> FALSE] /\ done_ = [m \in 0 .. pcCount - 1 |-> FALSE]
        BY Zenon, <1>1, CountsAssumption DEF P!Init, P!Slots
    <2>2. pcError \in BOOLEAN
        BY <1>1, Zenon DEF P!Init
    <2>3. PcTypes
        BY <2>1, <2>2 DEF PcTypes, Producing
    <2>4. Ahead = 0 /\ \A d \in 0 .. pcCount - 1 : After(d) \in 0 .. pcCount - 1
        BY SMTT(60), <2>1, <2>3, AfterIs DEF Ahead
    <2>5. Carried /\ Apart
        BY <2>1, <2>4 DEF Carried, Apart, After
    <2>6. P!Channel!ChInit
        BY Zenon, <2>1 DEF P!Channel!ChInit, P!Over
    <2>7. QED
        BY Zenon, <2>3, <2>5, <2>6 DEF RingInv
<1>2. QED
    BY <1>1, StepRing, RingStep, PTL DEF P!Spec, ImplementsChannel, P!ImplementsChannel, P!Channel!ChSpec

-----------------------------------------------------------------------------
(* Pipe.  The messages on their way are the slots from ri_ up to wi_; behind ri_
   is the payload the Proc is using, and at wi_ may be the mark of close(). *)

\* The slot that is d after ri_.
Later(d) == IF ri_ + d < pipeCount THEN ri_ + d ELSE ri_ + d - pipeCount

\* How many messages are on their way: -1 when the mark was received.
Under == Len(sent) - Len(received)

Closing == {"closing", "joining", "closed"}

PipeTypes ==
    /\ pipeCount \in Nat \ {0} /\ ri_ \in 0 .. pipeCount - 1
    /\ pipeReady \in [0 .. pipeCount - 1 -> BOOLEAN] /\ pipePayload \in [0 .. pipeCount - 1 -> Nat]
    /\ sent \in Seq(Nat) /\ received \in Seq(Nat)
    /\ pipeDone \in BOOLEAN /\ pipeError \in BOOLEAN

\* Where the messages are that were sent, and what is received.
Conveyed ==
    /\ Under \in -1 .. pipeCount
    /\ \A n \in 1 .. Len(received) : n <= Len(sent) => received[n] = sent[n]
    /\ \A d \in 0 .. Under - 1 : pipeReady[Later(d)] /\ pipePayload[Later(d)] = sent[Len(received) + 1 + d]
    /\ wi_ = IF Under = -1 THEN Later(pipeCount - 1) ELSE Later(Under)
    /\ pi_ = IF received = << >> THEN -1 ELSE Later(pipeCount - 1)

\* Which of the other slots may be ready: the one with the mark, and the one the
\* Proc has not given back.
Free ==
    \A d \in 0 .. pipeCount - 1 : pipeReady[Later(d)] =>
        \/ d < Under
        \/ d = Under /\ pipeOwner \in {"joining", "closed"}
        \/ d = pipeCount - 1 /\ pipeProc # "wait" /\ received # << >>

\* What the two threads rely on.
Hands ==
    /\ Under = -1 => pipeOwner \in {"joining", "closed"}
    /\ pipeOwner \in Closing => pipeDone
    /\ pipeOwner \in {"filling", "filled"} => ~pipeReady[wi_]
    /\ pipeProc # "wait" /\ received # << >> => pipeReady[pi_] /\ Under < pipeCount
    /\ pipeProc = "using" => received # << >> /\ pipePayload[pi_] = received[Len(received)]

\* A Proc that waits for the message that says it is the last.
LastSaid ==
    /\ \A n \in 1 .. Len(sent) : sent[n] = I!End => n = Len(sent)
    /\ pipeOwner \in {"message", "filling", "filled"} => ~I!Said
    /\ pipeError => style = "quit" /\ pipeProc = "ended"
    /\ style = "quit" => pipeProc = "ended"
    /\ style # "quit" /\ pipeDone => pipeOwner \in Closing
    /\ style = "message" =>
          /\ Under >= 0
          /\ pipeOwner \in Closing => I!Said
          /\ pipeProc \in {"top", "receive", "wait"} =>
                \A n \in 1 .. Len(received) : received[n] # I!End
          /\ pipeProc = "ended" => Under = 0 /\ I!Said

\* The inductive invariant of ReceivedInOrder.
PipeInv == PipeTypes /\ Conveyed /\ Free /\ Hands /\ LastSaid

\* The slots from ri_ on are all the slots, each once.
LEMMA LaterIs ==
    ASSUME PipeTypes
    PROVE  /\ \A d \in 0 .. pipeCount : Later(d) \in 0 .. pipeCount - 1
           /\ \A d, n \in 0 .. pipeCount - 1 : Later(d) = Later(n) => d = n
           /\ Later(0) = ri_ /\ Later(pipeCount) = ri_ /\ pipeCount \in Nat \ {0}
BY SMTT(60) DEF PipeTypes, Later

\* How long the histories are, and where the indices point.
LEMMA UnderIs ==
    ASSUME PipeTypes, Conveyed
    PROVE  /\ Len(sent) \in Nat /\ Len(received) \in Nat /\ Under \in -1 .. pipeCount
           /\ Len(sent) = Len(received) + Under
           /\ received = << >> <=> Len(received) = 0
           /\ wi_ \in 0 .. pipeCount - 1 /\ (received # << >> => pi_ \in 0 .. pipeCount - 1)
<1>1. /\ Len(sent) \in Nat /\ Len(received) \in Nat /\ Under \in -1 .. pipeCount
      /\ received = << >> <=> Len(received) = 0
    BY SMTT(60) DEF PipeTypes, Conveyed
<1>2. Len(sent) = Len(received) + Under
    BY <1>1 DEF Under
<1>3. pipeCount - 1 \in 0 .. pipeCount /\ (Under # -1 => Under \in 0 .. pipeCount)
    BY <1>1, LaterIs
<1>4. QED
    BY Zenon, <1>1, <1>2, <1>3, LaterIs DEF Conveyed

\* As long as the owner has not closed, a slot that is not ready can be filled.
LEMMA RoomAtFront ==
    ASSUME PipeTypes, Conveyed, Hands, pipeOwner \notin {"joining", "closed"}
    PROVE  Under >= 0 /\ wi_ = Later(Under) /\ (~pipeReady[wi_] => Under < pipeCount)
<1>1. Under \in 0 .. pipeCount /\ wi_ = Later(Under)
    BY UnderIs DEF Hands, Conveyed
<1>2. ASSUME Under = pipeCount PROVE pipeReady[wi_]
    <2>1. wi_ = Later(0) /\ 0 \in 0 .. Under - 1
        BY <1>1, <1>2, LaterIs
    <2>2. QED
        BY Zenon, <2>1 DEF Conveyed
<1>3. QED
    BY SMTT(60), <1>1, <1>2, LaterIs

\* What touches no payload.
LEMMA QuietPipe ==
    ASSUME PipeInv,
           UNCHANGED <<pipeCount, ri_, wi_, pi_, pipeReady, pipePayload, sent, received>>,
           pipeDone' \in BOOLEAN, pipeError' \in BOOLEAN,
           pipeProc = "wait" <=> pipeProc' = "wait", pipeProc' = "using" => pipeProc = "using",
           pipeOwner \in {"joining", "closed"} <=> pipeOwner' \in {"joining", "closed"},
           pipeOwner' \in Closing => pipeDone',
           pipeOwner' \in {"filling", "filled"} => ~pipeReady[wi_]
    PROVE  PipeTypes' /\ Conveyed' /\ Free' /\ Hands'
<1>1. Under' = Under /\ \A d : Later(d)' = Later(d)
    BY Zenon DEF Under, Later
<1>2. PipeTypes'
    BY Zenon DEF PipeInv, PipeTypes
<1>3. Conveyed'
    BY Zenon, <1>1 DEF PipeInv, Conveyed
<1>4. Free'
    BY Zenon, <1>1 DEF PipeInv, Free
<1>5. Hands'
    BY Zenon, <1>1 DEF PipeInv, Hands
<1>6. QED
    BY Zenon, <1>2, <1>3, <1>4, <1>5

\* The owner calls message() or close(), waits, or comes back.
LEMMA OwnerQuiet ==
    ASSUME PipeInv, I!Message \/ I!MessageWait \/ I!MessageReturn \/ I!Close \/ I!CloseReturn
    PROVE  PipeInv'
<1>1. UNCHANGED <<pipeCount, ri_, wi_, pi_, pipeReady, pipePayload, sent, received, pipeProc, style>>
    BY Zenon DEF I!Message, I!MessageWait, I!MessageReturn, I!Close, I!CloseReturn
<1>2. Under' = Under /\ (I!Said' <=> I!Said)
    BY Zenon, <1>1 DEF Under, I!Said
<1>3. pipeDone \in BOOLEAN /\ pipeError \in BOOLEAN /\ Hands /\ LastSaid
    BY Zenon DEF PipeInv, PipeTypes
<1>4. CASE I!Message \/ I!MessageWait \/ I!CloseReturn
    <2>1. /\ UNCHANGED <<pipeDone, pipeError>>
          /\ \/ pipeOwner \in {"idle", "filled"} /\ pipeOwner' = "message" /\ ~I!Said
             \/ pipeOwner' = pipeOwner
             \/ pipeOwner = "joining" /\ pipeOwner' = "closed"
        BY Zenon, <1>4 DEF I!Message, I!MessageWait, I!CloseReturn, I!flags
    <2>2. PipeTypes' /\ Conveyed' /\ Free' /\ Hands'
        BY Zenon, <1>1, <1>3, <2>1, QuietPipe DEF Hands, Closing
    <2>3. LastSaid'
        BY Zenon, <1>1, <1>2, <1>3, <2>1 DEF LastSaid, Closing
    <2>4. QED
        BY Zenon, <2>2, <2>3 DEF PipeInv
<1>5. CASE I!MessageReturn
    <2>1. /\ pipeOwner = "message" /\ ~pipeReady[wi_]
          /\ pipeOwner' \in {"idle", "filling"}
        BY Zenon, <1>5 DEF I!MessageReturn, I!Busy
    <2>2. (pipeDone' <=> pipeDone \/ pipeError) /\ ~pipeError' /\ pipeDone' \in BOOLEAN /\ pipeError' \in BOOLEAN
        BY <1>5, Zenon DEF I!MessageReturn
    <2>3. PipeTypes' /\ Conveyed' /\ Free' /\ Hands'
        BY Zenon, <1>1, <2>1, <2>2, QuietPipe DEF Closing
    <2>4. LastSaid'
        BY Zenon, <1>1, <1>2, <1>3, <2>1, <2>2 DEF LastSaid, Closing
    <2>5. QED
        BY Zenon, <2>3, <2>4 DEF PipeInv
<1>6. CASE I!Close
    <2>1. /\ pipeOwner \in {"idle", "filled"} /\ pipeOwner' = "closing" /\ UNCHANGED pipeError
          /\ style = "message" => I!Said \/ pipeDone
        BY Zenon, <1>6 DEF I!Close
    <2>2. pipeDone' = TRUE /\ pipeDone' \in BOOLEAN
        BY <1>6, Zenon DEF I!Close
    <2>3. PipeTypes' /\ Conveyed' /\ Free' /\ Hands'
        BY Zenon, <1>1, <1>3, <2>1, <2>2, QuietPipe DEF Closing
    <2>4. style = "message" => I!Said
        BY Zenon, <1>3, <2>1 DEF LastSaid, Closing
    <2>5. LastSaid'
        BY Zenon, <1>1, <1>2, <1>3, <2>1, <2>2, <2>4 DEF LastSaid, Closing
    <2>6. QED
        BY Zenon, <2>3, <2>5 DEF PipeInv
<1>7. QED
    BY Zenon, <1>4, <1>5, <1>6

\* Among what was received, the last message is the last.
LEMMA EndIsLast ==
    ASSUME PipeInv, Under >= 0, NEW n \in 1 .. Len(received), received[n] = I!End
    PROVE  n = Len(received) /\ Under = 0 /\ I!Said
<1>1. Len(sent) \in Nat /\ Len(received) \in Nat /\ Len(sent) = Len(received) + Under /\ Under \in -1 .. pipeCount
    BY Zenon, UnderIs DEF PipeInv
<1>2. n \in 1 .. Len(sent) /\ sent[n] = I!End
    BY <1>1 DEF PipeInv, Conveyed
<1>3. n = Len(sent)
    BY Zenon, <1>2 DEF PipeInv, LastSaid
<1>4. sent # << >>
    BY <1>1, <1>2
<1>5. QED
    BY <1>1, <1>2, <1>3, <1>4 DEF I!Said

\* The Proc asks for the end, waits, uses a payload or leaves.
LEMMA ProcQuiet ==
    ASSUME PipeInv, I!AskBefore \/ I!ReceiveWait \/ I!Use \/ I!Quit \/ I!SpuriousWake \/ UNCHANGED I!vars
    PROVE  PipeInv'
<1>1. UNCHANGED <<pipeCount, ri_, wi_, pi_, pipeReady, pipePayload, sent, received, pipeOwner, pipeDone>>
    BY Zenon DEF I!AskBefore, I!ReceiveWait, I!Use, I!Quit, I!SpuriousWake, I!flags, I!vars
<1>2. Under' = Under /\ (I!Said' <=> I!Said)
    BY Zenon, <1>1 DEF Under, I!Said
<1>3. pipeDone \in BOOLEAN /\ pipeError \in BOOLEAN /\ Hands /\ LastSaid
    BY Zenon DEF PipeInv, PipeTypes
<1>4. CASE I!AskBefore \/ I!ReceiveWait \/ I!SpuriousWake \/ UNCHANGED I!vars
    <2>1. /\ UNCHANGED <<pipeError, style>>
          /\ \/ pipeProc = "top" /\ pipeProc' = "receive"
             \/ pipeProc = "top" /\ pipeProc' = "ended" /\ style = "before"
             \/ pipeProc' = pipeProc
        BY Zenon, <1>4 DEF I!AskBefore, I!ReceiveWait, I!SpuriousWake, I!flags, I!vars
    <2>2. PipeTypes' /\ Conveyed' /\ Free' /\ Hands'
        BY Zenon, <1>1, <1>3, <2>1, QuietPipe DEF Hands
    <2>3. LastSaid'
        BY Zenon, <1>1, <1>2, <1>3, <2>1 DEF LastSaid
    <2>4. QED
        BY Zenon, <2>2, <2>3 DEF PipeInv
<1>5. CASE I!Quit
    <2>1. /\ style' = "quit" /\ pipeProc' = "ended" /\ pipeProc \in {"top", "using"} /\ pipeError' \in BOOLEAN
        BY Zenon, <1>3, <1>5 DEF I!Quit
    <2>2. PipeTypes' /\ Conveyed' /\ Free' /\ Hands'
        BY Zenon, <1>1, <1>3, <2>1, QuietPipe DEF Hands
    <2>3. LastSaid'
        BY Zenon, <1>1, <1>2, <1>3, <2>1 DEF LastSaid
    <2>4. QED
        BY Zenon, <2>2, <2>3 DEF PipeInv
<1>6. CASE I!Use
    <2>1. /\ UNCHANGED <<pipeError, style>> /\ pipeProc = "using" /\ pipeProc' \in {"ended", "top"}
          /\ style = "message" => (pipeProc' = "ended" <=> pipePayload[pi_] = I!End)
        BY Zenon, <1>6 DEF I!Use, I!flags
    <2>2. PipeTypes' /\ Conveyed' /\ Free' /\ Hands'
        BY ZenonT(60), <1>1, <1>3, <2>1, QuietPipe DEF Hands
    <2>3. Len(received) \in 1 .. Len(received) /\ pipePayload[pi_] = received[Len(received)]
        BY <1>3, <2>1, UnderIs DEF PipeInv, Hands
    <2>4. ASSUME style = "message", pipePayload[pi_] = I!End PROVE Under = 0 /\ I!Said
        BY Zenon, <1>3, <2>3, <2>4, EndIsLast DEF LastSaid
    <2>5. ASSUME style = "message", pipePayload[pi_] # I!End
          PROVE  \A n \in 1 .. Len(received) : received[n] # I!End
        BY Zenon, <1>3, <2>3, <2>5, EndIsLast DEF LastSaid
    <2>6. LastSaid'
        BY Zenon, <1>1, <1>2, <1>3, <2>1, <2>4, <2>5 DEF LastSaid
    <2>7. QED
        BY Zenon, <2>2, <2>6 DEF PipeInv
<1>7. QED
    BY Zenon, <1>4, <1>5, <1>6

\* The owner fills a slot that is neither on its way nor in use.
LEMMA FillPipe ==
    ASSUME PipeInv, I!Fill
    PROVE  PipeInv'
<1>1. /\ UNCHANGED <<pipeCount, ri_, wi_, pi_, pipeDone, pipeError, pipeReady, pipeProc, style, sent, received>>
      /\ pipeOwner = "filling" /\ pipeOwner' = "filled"
    BY Zenon DEF I!Fill, I!flags
<1>2. Under' = Under /\ (I!Said' <=> I!Said) /\ \A d : Later(d)' = Later(d)
    BY Zenon, <1>1 DEF Under, I!Said, Later
<1>3. PICK m \in {Len(sent) + 1, I!End} : pipePayload' = [pipePayload EXCEPT ![wi_] = m]
    BY Zenon DEF I!Fill
<1>4. m \in Nat
    BY UnderIs, MessagesAssumption DEF PipeInv, I!End
<1>5. PipeTypes'
    BY Zenon, <1>1, <1>3, <1>4 DEF PipeInv, PipeTypes
<1>6. ~pipeReady[wi_]
    BY Zenon, <1>1 DEF PipeInv, Hands
<1>7. ASSUME NEW k \in 0 .. pipeCount - 1, pipeReady[k] PROVE pipePayload'[k] = pipePayload[k]
    BY Zenon, <1>3, <1>6, <1>7 DEF PipeInv, PipeTypes
<1>8. Conveyed'
    <2>1. ASSUME NEW d \in 0 .. Under - 1 PROVE Later(d) \in 0 .. pipeCount - 1
        BY SMTT(60), UnderIs, LaterIs DEF PipeInv
    <2>2. QED
        BY Zenon, <1>1, <1>2, <1>7, <2>1 DEF PipeInv, Conveyed
<1>9. Free'
    BY Zenon, <1>1, <1>2 DEF PipeInv, Free
<1>10. Hands'
    <2>1. pipeProc = "using" => pipePayload'[pi_] = pipePayload[pi_]
        BY Zenon, <1>7, UnderIs DEF PipeInv, Hands
    <2>2. QED
        BY Zenon, <1>1, <1>2, <2>1 DEF PipeInv, Hands, Closing
<1>11. LastSaid'
    BY Zenon, <1>1, <1>2 DEF PipeInv, LastSaid, Closing
<1>12. QED
    BY Zenon, <1>5, <1>8, <1>9, <1>10, <1>11 DEF PipeInv

\* send() makes the slot at wi_ the last of those on their way.
LEMMA SendPipe ==
    ASSUME PipeInv, I!Send
    PROVE  PipeInv'
<1>1. /\ UNCHANGED <<pipeCount, ri_, pi_, pipeDone, pipeError, pipePayload, pipeProc, style, received>>
      /\ pipeOwner = "filled" /\ pipeOwner' = "idle"
      /\ pipeReady' = [pipeReady EXCEPT ![wi_] = TRUE]
      /\ wi_' = (wi_ + 1) % pipeCount /\ sent' = Append(sent, pipePayload[wi_])
    BY Zenon DEF I!Send, I!Offer, I!Set, I!flags
<1>2. PipeTypes /\ Conveyed /\ Hands /\ LastSaid
    BY Zenon DEF PipeInv
<1>3. ~pipeReady[wi_] /\ ~I!Said
    BY Zenon, <1>1, <1>2 DEF Hands, LastSaid
<1>4. /\ pipeCount \in Nat \ {0} /\ Under \in 0 .. pipeCount - 1
      /\ wi_ = Later(Under) /\ wi_ \in 0 .. pipeCount - 1
    <2>1. pipeOwner \notin {"joining", "closed"}
        BY Zenon, <1>1
    <2>2. /\ pipeCount \in Nat \ {0} /\ Under \in -1 .. pipeCount /\ Under >= 0 /\ Under < pipeCount
          /\ wi_ = Later(Under) /\ wi_ \in 0 .. pipeCount - 1
        BY Zenon, <1>2, <1>3, <2>1, RoomAtFront, UnderIs, LaterIs
    <2>3. QED
        BY <2>2
<1>5. \A d : Later(d)' = Later(d)
    BY Zenon, <1>1 DEF Later
<1>6. pipePayload[wi_] \in Nat /\ sent \in Seq(Nat) /\ Len(sent) \in Nat /\ Len(received) \in Nat
    BY Zenon, <1>2, <1>4, UnderIs DEF PipeTypes
<1>7. /\ Len(sent') = Len(sent) + 1 /\ sent'[Len(sent) + 1] = pipePayload[wi_]
      /\ sent' # << >> /\ \A n \in 1 .. Len(sent) : sent'[n] = sent[n]
    BY <1>1, <1>6
<1>8. Under' = Under + 1 /\ Len(sent) = Len(received) + Under
    BY SMTT(60), <1>1, <1>2, <1>6, <1>7, UnderIs DEF Under
<1>9. PipeTypes'
    <2>1. sent' \in Seq(Nat)
        BY <1>1, <1>6
    <2>2. pipeReady' \in [0 .. pipeCount - 1 -> BOOLEAN]
        BY Zenon, <1>1, <1>2 DEF PipeTypes
    <2>3. QED
        BY SMTT(60), <1>1, <1>2, <2>1, <2>2 DEF PipeTypes
<1>10. \A k \in 0 .. pipeCount - 1 : pipeReady'[k] <=> pipeReady[k] \/ k = wi_
    BY Zenon, <1>1, <1>2 DEF PipeTypes
<1>11. \A d \in 0 .. pipeCount - 1 : Later(d) \in 0 .. pipeCount - 1 /\ (Later(d) = wi_ <=> d = Under)
    BY <1>2, <1>4, LaterIs
<1>12. Conveyed'
    <2>1. Under' \in -1 .. pipeCount' /\ Under' # -1
        BY SMTT(60), <1>1, <1>4, <1>8
    <2>2. \A n \in 1 .. Len(received) : received[n] = sent'[n]
        BY SMTT(60), <1>2, <1>4, <1>6, <1>7, <1>8 DEF Conveyed
    <2>3. ASSUME NEW d \in 0 .. Under
          PROVE  pipeReady'[Later(d)] /\ pipePayload[Later(d)] = sent'[Len(received) + 1 + d]
        <3>1. d \in 0 .. pipeCount - 1 /\ Len(received) + 1 + d \in 1 .. Len(sent) + 1
            BY <1>4, <1>6, <1>8
        <3>2. CASE d = Under
            BY <1>4, <1>6, <1>7, <1>8, <1>10, <1>11, <3>1, <3>2
        <3>3. CASE d # Under
            <4>1. d \in 0 .. Under - 1 /\ Len(received) + 1 + d \in 1 .. Len(sent)
                BY SMTT(60), <1>4, <1>6, <1>8, <3>3
            <4>2. QED
                BY Zenon, <1>2, <1>7, <1>10, <1>11, <3>1, <4>1 DEF Conveyed
        <3>4. QED
            BY Zenon, <3>2, <3>3
    <2>4. wi_' = Later(Under + 1)
        <3>1. wi_' = IF wi_ + 1 = pipeCount THEN 0 ELSE wi_ + 1
            BY Zenon, <1>1, <1>2, <1>4, NextSlot DEF PipeTypes
        <3>2. QED
            BY <1>2, <1>4, <3>1 DEF PipeTypes, Later
    <2>5. 0 .. Under' - 1 = 0 .. Under
        BY <1>4, <1>8
    <2>6. pi_' = (IF received = << >> THEN -1 ELSE Later(pipeCount - 1))
        BY Zenon, <1>1, <1>2 DEF Conveyed
    <2>7. QED
        BY ZenonT(60), <1>1, <1>5, <1>8, <2>1, <2>2, <2>3, <2>4, <2>5, <2>6 DEF Conveyed
<1>13. Free'
    <2>1. ASSUME NEW d \in 0 .. pipeCount - 1, pipeReady'[Later(d)]
          PROVE  d < Under + 1 \/ (d = pipeCount - 1 /\ pipeProc # "wait" /\ received # << >>)
        <3>1. CASE d = Under
            BY SMTT(60), <1>4, <3>1
        <3>2. CASE d # Under
            <4>1. pipeReady[Later(d)]
                BY SMTT(60), <1>10, <1>11, <2>1, <3>2
            <4>2. QED
                BY SMTT(60), <1>1, <1>4, <3>2, <4>1 DEF PipeInv, Free
        <3>3. QED
            BY Zenon, <3>1, <3>2
    <2>2. QED
        BY Zenon, <1>1, <1>5, <1>8, <2>1 DEF Free
<1>14. Hands'
    <2>1. ASSUME pipeProc # "wait", received # << >>
          PROVE  pipeReady'[pi_] /\ Under + 1 < pipeCount
        <3>1. pi_ = Later(pipeCount - 1) /\ pipeReady[pi_] /\ pi_ \in 0 .. pipeCount - 1
            BY Zenon, <1>2, <2>1, UnderIs DEF Conveyed, Hands
        <3>2. Under # pipeCount - 1
            BY <1>3, <1>4, <3>1
        <3>3. QED
            BY <1>4, <1>10, <3>1, <3>2
    <2>2. QED
        BY SMTT(60), <1>1, <1>2, <1>4, <1>8, <2>1 DEF Hands, Closing
<1>15. LastSaid'
    <2>1. ASSUME NEW n \in 1 .. Len(sent) PROVE sent[n] # I!End
        <3>1. sent # << >>
            BY <1>6, <2>1
        <3>2. QED
            BY Zenon, <1>2, <1>3, <3>1 DEF LastSaid, I!Said
    <2>2. \A n \in 1 .. Len(sent') : sent'[n] = I!End => n = Len(sent')
        BY SMTT(60), <1>6, <1>7, <2>1
    <2>3. Under' >= 0
        BY <1>4, <1>8
    <2>4. pipeOwner' \notin Closing \cup {"message", "filling", "filled"} /\ pipeOwner \notin Closing
        BY Zenon, <1>1 DEF Closing
    <2>5. QED
        BY Zenon, <1>1, <1>2, <1>3, <2>2, <2>3, <2>4 DEF LastSaid
<1>16. QED
    BY Zenon, <1>9, <1>12, <1>13, <1>14, <1>15 DEF PipeInv

\* close() marks the slot at wi_, which may be the first of a full ring.
LEMMA CloseMarkPipe ==
    ASSUME PipeInv, I!CloseMark
    PROVE  PipeInv'
<1>1. /\ UNCHANGED <<pipeCount, ri_, wi_, pi_, pipeDone, pipeError, pipePayload, pipeProc, style, sent, received>>
      /\ pipeOwner = "closing" /\ pipeOwner' = "joining"
      /\ pipeReady' = [pipeReady EXCEPT ![wi_] = TRUE]
    BY Zenon DEF I!CloseMark, I!Offer, I!Set, I!flags
<1>2. PipeTypes /\ Conveyed /\ Free /\ Hands /\ LastSaid
    BY Zenon DEF PipeInv
<1>3. Under' = Under /\ (I!Said' <=> I!Said) /\ \A d : Later(d)' = Later(d)
    BY Zenon, <1>1 DEF Under, I!Said, Later
<1>4. /\ pipeCount \in Nat \ {0} /\ Under \in 0 .. pipeCount
      /\ wi_ = Later(Under) /\ wi_ \in 0 .. pipeCount - 1
    <2>1. pipeOwner \notin {"joining", "closed"}
        BY Zenon, <1>1
    <2>2. QED
        BY <1>2, <2>1, RoomAtFront, UnderIs, LaterIs
<1>5. PipeTypes'
    BY Zenon, <1>1, <1>2 DEF PipeTypes
<1>6. \A k \in 0 .. pipeCount - 1 : pipeReady'[k] <=> pipeReady[k] \/ k = wi_
    BY Zenon, <1>1, <1>2 DEF PipeTypes
<1>7. \A d \in 0 .. pipeCount - 1 : Later(d) \in 0 .. pipeCount - 1
    BY <1>2, LaterIs
<1>8. Conveyed'
    <2>1. ASSUME NEW d \in 0 .. Under - 1 PROVE pipeReady'[Later(d)]
        <3>1. d \in 0 .. pipeCount - 1
            BY <1>4
        <3>2. QED
            BY Zenon, <1>2, <1>6, <1>7, <3>1 DEF Conveyed
    <2>2. QED
        BY Zenon, <1>1, <1>2, <1>3, <2>1 DEF Conveyed
<1>9. Free'
    <2>1. ASSUME NEW d \in 0 .. pipeCount - 1, Later(d) = wi_ PROVE d <= Under
        <3>1. CASE Under = pipeCount
            BY <1>4, <3>1
        <3>2. CASE Under # pipeCount
            <4>1. Under \in 0 .. pipeCount - 1
                BY <1>4, <3>2
            <4>2. d = Under
                BY Zenon, <1>2, <1>4, <2>1, <4>1, LaterIs
            <4>3. QED
                BY <1>4, <4>2
        <3>3. QED
            BY Zenon, <3>1, <3>2
    <2>2. ASSUME NEW d \in 0 .. pipeCount - 1, pipeReady'[Later(d)]
          PROVE  d < Under \/ d = Under \/ (d = pipeCount - 1 /\ pipeProc # "wait" /\ received # << >>)
        <3>1. CASE Later(d) = wi_
            BY <1>4, <2>1, <3>1
        <3>2. CASE Later(d) # wi_
            <4>1. pipeReady[Later(d)]
                BY ZenonT(60), <1>6, <1>7, <2>2, <3>2
            <4>2. QED
                BY Zenon, <1>2, <4>1 DEF Free
        <3>3. QED
            BY Zenon, <3>1, <3>2
    <2>3. QED
        BY Zenon, <1>1, <1>3, <2>2 DEF Free
<1>10. Hands'
    <2>1. pipeProc # "wait" /\ received # << >> => pipeReady'[pi_]
        BY ZenonT(60), <1>2, <1>6, UnderIs DEF Hands
    <2>2. QED
        BY <1>1, <1>2, <1>3, <2>1 DEF Hands, Closing
<1>11. LastSaid'
    BY SMTT(60), <1>1, <1>2, <1>3 DEF LastSaid, Closing
<1>12. QED
    BY Zenon, <1>5, <1>8, <1>9, <1>10, <1>11 DEF PipeInv

\* receive() gives back the slot behind ri_, which is not on its way again.
LEMMA ReceiveFreePipe ==
    ASSUME PipeInv, I!ReceiveFree
    PROVE  PipeInv'
<1>1. /\ UNCHANGED <<pipeCount, ri_, wi_, pi_, pipeDone, pipeError, pipePayload, pipeOwner, style, sent, received>>
      /\ pipeProc = "receive" /\ pipeProc' = "wait"
      /\ pipeReady' = IF pi_ >= 0 THEN [pipeReady EXCEPT ![pi_] = FALSE] ELSE pipeReady
    BY Zenon DEF I!ReceiveFree, I!Set, I!flags
<1>2. PipeTypes /\ Conveyed /\ Free /\ Hands /\ LastSaid
    BY Zenon DEF PipeInv
<1>3. Under' = Under /\ (I!Said' <=> I!Said) /\ \A d : Later(d)' = Later(d)
    BY Zenon, <1>1 DEF Under, I!Said, Later
<1>4. PipeTypes'
    BY ZenonT(60), <1>1, <1>2 DEF PipeTypes
<1>5. /\ pipeCount \in Nat \ {0} /\ Under \in -1 .. pipeCount /\ wi_ \in 0 .. pipeCount - 1
      /\ received # << >> => pi_ = Later(pipeCount - 1) /\ pi_ >= 0 /\ Under < pipeCount
      /\ received = << >> => pi_ = -1
    BY <1>1, <1>2, UnderIs, LaterIs DEF Conveyed, Hands
<1>6. ASSUME NEW k \in 0 .. pipeCount - 1
      PROVE  pipeReady'[k] <=> pipeReady[k] /\ (received = << >> \/ k # Later(pipeCount - 1))
    <2>1. CASE received = << >>
        BY <1>1, <1>5, <2>1
    <2>2. CASE received # << >>
        <3>1. pi_ = Later(pipeCount - 1) /\ pipeReady' = [pipeReady EXCEPT ![pi_] = FALSE]
            BY Zenon, <1>1, <1>5, <2>2
        <3>2. QED
            BY Zenon, <1>2, <2>2, <3>1 DEF PipeTypes
    <2>3. QED
        BY Zenon, <2>1, <2>2
<1>7. \A d \in 0 .. pipeCount - 1 :
         Later(d) \in 0 .. pipeCount - 1 /\ (Later(d) = Later(pipeCount - 1) <=> d = pipeCount - 1)
    <2>1. pipeCount - 1 \in 0 .. pipeCount - 1 /\ \A d \in 0 .. pipeCount - 1 : d \in 0 .. pipeCount
        BY <1>5
    <2>2. QED
        BY Zenon, <1>2, <2>1, LaterIs
<1>8. Conveyed'
    <2>1. ASSUME NEW d \in 0 .. Under - 1 PROVE pipeReady'[Later(d)]
        <3>1. d \in 0 .. pipeCount - 1 /\ (received = << >> \/ d # pipeCount - 1)
            BY <1>5
        <3>2. QED
            BY Zenon, <1>2, <1>6, <1>7, <3>1 DEF Conveyed
    <2>2. QED
        BY Zenon, <1>1, <1>2, <1>3, <2>1 DEF Conveyed
<1>9. Free'
    <2>1. ASSUME NEW d \in 0 .. pipeCount - 1, pipeReady'[Later(d)]
          PROVE  d < Under \/ (d = Under /\ pipeOwner \in {"joining", "closed"})
        BY <1>2, <1>6, <1>7, <2>1 DEF Free
    <2>2. QED
        BY Zenon, <1>1, <1>3, <2>1 DEF Free
<1>10. Hands'
    BY ZenonT(60), <1>1, <1>2, <1>3, <1>5, <1>6 DEF Hands
<1>11. LastSaid'
    BY SMTT(60), <1>1, <1>2, <1>3 DEF LastSaid
<1>12. QED
    BY Zenon, <1>4, <1>8, <1>9, <1>10, <1>11 DEF PipeInv

\* receive() returns the slot at ri_: the first on its way or, when there is none,
\* the one close() marked.
LEMMA ReceiveReturnPipe ==
    ASSUME PipeInv, I!ReceiveReturn
    PROVE  PipeInv'
<1>1. /\ UNCHANGED <<pipeCount, wi_, pipeDone, pipeError, pipeReady, pipePayload, pipeOwner, style, sent>>
      /\ pipeProc = "wait" /\ pipeProc' = "using" /\ pipeReady[ri_]
      /\ pi_' = ri_ /\ ri_' = (ri_ + 1) % pipeCount /\ received' = Append(received, pipePayload[ri_])
    BY Zenon DEF I!ReceiveReturn, I!flags
<1>2. PipeTypes /\ Conveyed /\ Free /\ Hands /\ LastSaid
    BY Zenon DEF PipeInv
<1>3. /\ pipeCount \in Nat \ {0} /\ Under \in -1 .. pipeCount /\ ri_ \in 0 .. pipeCount - 1
      /\ ri_ = Later(0) /\ pipePayload[ri_] \in Nat /\ received \in Seq(Nat)
      /\ Len(received) \in Nat /\ Len(sent) \in Nat /\ Len(sent) = Len(received) + Under
    BY Zenon, <1>2, UnderIs, LaterIs DEF PipeTypes
<1>4. /\ Len(received') = Len(received) + 1 /\ received'[Len(received) + 1] = pipePayload[ri_]
      /\ received' \in Seq(Nat) /\ received' # << >>
      /\ \A n \in 1 .. Len(received) : received'[n] = received[n]
    <2>1. received' \in Seq(Nat) /\ Len(received') = Len(received) + 1
        BY SMTT(60), <1>1, <1>3
    <2>2. received'[Len(received) + 1] = pipePayload[ri_] /\ \A n \in 1 .. Len(received) : received'[n] = received[n]
        BY <1>1, <1>3
    <2>3. received' # << >>
        BY <1>3, <2>1
    <2>4. QED
        BY Zenon, <2>1, <2>2, <2>3
<1>5. Under' = Under - 1 /\ (I!Said' <=> I!Said)
    BY <1>1, <1>3, <1>4 DEF Under, I!Said
<1>6. ri_' = IF ri_ + 1 = pipeCount THEN 0 ELSE ri_ + 1
    BY ZenonT(60), <1>1, <1>3, NextSlot
<1>7. ASSUME NEW d \in 0 .. pipeCount - 1 PROVE Later(d)' = Later(d + 1)
    <2>1. CASE ri_ + 1 = pipeCount
        BY SMTT(60), <1>1, <1>3, <1>6, <2>1 DEF Later
    <2>2. CASE ri_ + 1 # pipeCount
        BY SMTT(60), <1>1, <1>3, <1>6, <2>2 DEF Later
    <2>3. QED
        BY Zenon, <2>1, <2>2
<1>8. Later(pipeCount - 1)' = ri_
    BY SMTT(60), <1>1, <1>3, <1>6 DEF Later
<1>9. Under > 0 \/ (Under = 0 /\ pipeOwner \in {"joining", "closed"})
    <2>1. 0 \in 0 .. pipeCount - 1
        BY <1>3
    <2>2. QED
        BY Zenon, <1>1, <1>2, <1>3, <2>1 DEF Free
<1>10. PipeTypes'
    <2>1. ri_' \in 0 .. pipeCount - 1
        BY <1>3, <1>6
    <2>2. QED
        BY Zenon, <1>1, <1>2, <1>4, <2>1 DEF PipeTypes
<1>11. Conveyed'
    <2>1. Under' \in -1 .. pipeCount'
        BY SMTT(60), <1>1, <1>3, <1>5, <1>9
    <2>2. ASSUME NEW n \in 1 .. Len(received'), n <= Len(sent) PROVE received'[n] = sent[n]
        <3>1. CASE n \in 1 .. Len(received)
            BY SMTT(60), <1>2, <1>4, <2>2, <3>1 DEF Conveyed
        <3>2. CASE n = Len(received) + 1
            <4>1. 0 \in 0 .. Under - 1 /\ Len(received) + 1 + 0 = n
                BY <1>3, <2>2, <3>2
            <4>2. pipePayload[Later(0)] = sent[Len(received) + 1 + 0]
                BY Zenon, <1>2, <4>1 DEF Conveyed
            <4>3. QED
                BY Zenon, <1>3, <1>4, <3>2, <4>1, <4>2
        <3>3. QED
            BY SMTT(60), <1>3, <1>4, <3>1, <3>2
    <2>3. ASSUME NEW d \in 0 .. Under - 2
          PROVE  pipeReady[Later(d)'] /\ pipePayload[Later(d)'] = sent[Len(received') + 1 + d]
        <3>1. d \in 0 .. pipeCount - 1 /\ d + 1 \in 0 .. Under - 1 /\ Len(received') + 1 + d = Len(received) + 1 + (d + 1)
            BY <1>3, <1>4
        <3>2. QED
            BY Zenon, <1>2, <1>7, <3>1 DEF Conveyed
    <2>4. 0 .. Under' - 1 = 0 .. Under - 2
        BY SMTT(60), <1>3, <1>5
    <2>5. CASE Under = 0
        <3>1. wi_ = Later(pipeCount - 1)' /\ Under' = -1
            BY SMTT(60), <1>2, <1>3, <1>5, <1>8, <2>5 DEF Conveyed
        <3>2. QED
            BY SMTT(60), <1>1, <1>4, <1>8, <2>1, <2>2, <2>3, <2>4, <3>1 DEF Conveyed
    <2>6. CASE Under > 0
        <3>1. Under - 1 \in 0 .. pipeCount - 1 /\ Under - 1 + 1 = Under /\ Under # -1 /\ Under' # -1
            BY <1>3, <1>5, <2>6
        <3>2. wi_ = Later(Under)
            BY Zenon, <1>2, <3>1 DEF Conveyed
        <3>3. wi_' = Later(Under)'
            <4>1. CASE ri_ + 1 = pipeCount
                BY SMTT(60), <1>1, <1>3, <1>5, <1>6, <2>6, <3>2, <4>1 DEF Later
            <4>2. CASE ri_ + 1 # pipeCount
                <5>1. ri_' = ri_ + 1 /\ Under' = Under - 1 /\ wi_' = wi_ /\ pipeCount' = pipeCount
                    BY Zenon, <1>1, <1>3, <1>5, <1>6, <4>2
                <5>2. CASE ri_ + Under < pipeCount
                    <6>1. wi_ = ri_ + Under /\ ri_' + Under' < pipeCount' /\ ri_' + Under' = ri_ + Under
                        BY <1>3, <3>2, <5>1, <5>2 DEF Later
                    <6>2. QED
                        BY SMTT(60), <5>1, <6>1 DEF Later
                <5>3. CASE ~(ri_ + Under < pipeCount)
                    <6>1. /\ wi_ = ri_ + Under - pipeCount /\ ~(ri_' + Under' < pipeCount')
                          /\ ri_' + Under' - pipeCount' = ri_ + Under - pipeCount
                        BY <1>3, <3>2, <5>1, <5>3 DEF Later
                    <6>2. QED
                        BY Zenon, <5>1, <6>1 DEF Later
                <5>4. QED
                    BY Zenon, <5>2, <5>3
            <4>3. QED
                BY Zenon, <4>1, <4>2
        <3>4. QED
            BY ZenonT(60), <1>1, <1>4, <1>8, <2>1, <2>2, <2>3, <2>4, <3>1, <3>3 DEF Conveyed
    <2>7. QED
        BY Zenon, <1>9, <2>5, <2>6
<1>12. Free'
    <2>1. ASSUME NEW d \in 0 .. pipeCount - 1, pipeReady[Later(d)'], d # pipeCount - 1
          PROVE  d < Under - 1 \/ (d = Under - 1 /\ pipeOwner \in {"joining", "closed"})
        <3>1. d + 1 \in 0 .. pipeCount - 1
            BY SMTT(60), <1>3, <2>1
        <3>2. d + 1 < Under \/ (d + 1 = Under /\ pipeOwner \in {"joining", "closed"})
            BY SMTT(60), <1>1, <1>2, <1>7, <2>1, <3>1 DEF Free
        <3>3. QED
            BY SMTT(60), <1>3, <3>2
    <2>2. QED
        BY Zenon, <1>1, <1>4, <1>5, <2>1 DEF Free
<1>13. Hands'
    BY SMTT(60), <1>1, <1>2, <1>3, <1>4, <1>5, <1>9 DEF Hands
<1>14. LastSaid'
    <2>1. ASSUME style = "message", Under = 0 PROVE FALSE
        <3>1. I!Said /\ \A n \in 1 .. Len(received) : received[n] # I!End
            <4>1. pipeOwner \in {"joining", "closed"}
                BY SMTT(60), <1>9, <2>1
            <4>2. QED
                BY Zenon, <1>1, <1>2, <2>1, <4>1 DEF LastSaid, Closing
        <3>2. Len(sent) = Len(received) /\ Len(sent) \in 1 .. Len(received) /\ sent[Len(sent)] = I!End
            BY SMTT(60), <1>2, <1>3, <2>1, <3>1 DEF I!Said, PipeTypes
        <3>3. QED
            BY SMTT(60), <1>2, <1>3, <3>1, <3>2 DEF Conveyed
    <2>2. style = "message" => Under' >= 0
        BY SMTT(60), <1>3, <1>5, <1>9, <2>1
    <2>3. QED
        BY Zenon, <1>1, <1>2, <1>5, <2>2 DEF LastSaid
<1>15. QED
    BY Zenon, <1>10, <1>11, <1>12, <1>13, <1>14 DEF PipeInv

\* An empty Pipe.
LEMMA InitPipe == I!Init => PipeInv
<1>1. SUFFICES ASSUME I!Init PROVE PipeInv
    BY Zenon
<1>2. pipeCount \in Nat \ {0}
    BY Zenon, <1>1, CountsAssumption DEF I!Init
<1>3. /\ ri_ = 0 /\ wi_ = 0 /\ pi_ = -1 /\ sent = << >> /\ received = << >>
      /\ pipeReady = [s \in 0 .. pipeCount - 1 |-> FALSE] /\ pipePayload = [s \in 0 .. pipeCount - 1 |-> 0]
      /\ pipeOwner = "idle" /\ pipeProc = "top" /\ style # "quit"
    BY Zenon, <1>1 DEF I!Init, I!Slots
<1>4. pipeDone = FALSE /\ pipeError = FALSE
    BY <1>1, Zenon DEF I!Init
<1>5. Len(sent) = 0 /\ Len(received) = 0 /\ Under = 0 /\ ~I!Said
    BY SMTT(60), <1>3 DEF Under, I!Said
<1>6. PipeTypes
    BY SMTT(60), <1>2, <1>3, <1>4 DEF PipeTypes
<1>7. Conveyed
    BY SMTT(60), <1>2, <1>3, <1>5, <1>6, LaterIs DEF Conveyed
<1>8. Free
    <2>1. ASSUME NEW d \in 0 .. pipeCount - 1 PROVE ~pipeReady[Later(d)]
        BY SMTT(60), <1>2, <1>3, <1>6, LaterIs
    <2>2. QED
        BY Zenon, <2>1 DEF Free
<1>9. Hands
    BY SMTT(60), <1>3, <1>5 DEF Hands, Closing
<1>10. LastSaid
    BY SMTT(60), <1>3, <1>4, <1>5 DEF LastSaid, Closing
<1>11. QED
    BY Zenon, <1>6, <1>7, <1>8, <1>9, <1>10 DEF PipeInv

\* Every step of the owner and of the Proc keeps the invariant of the Pipe.
LEMMA StepPipe == PipeInv /\ [I!Next]_I!vars => PipeInv'
BY SMTT(60), OwnerQuiet, ProcQuiet, FillPipe, SendPipe, CloseMarkPipe, ReceiveFreePipe, ReceiveReturnPipe
   DEF I!Next, I!InCall, I!Proc

\* What the Proc of a Pipe receives is what was sent, once and in order, and the
\* mark of close() at most; a Proc that waits for the last message has received
\* everything, and the owner never fills the payload the Proc is using: for every
\* number of payloads and of messages.
THEOREM ReceivedInOrderHolds == I!Spec => []ReceivedInOrder
<1>1. ASSUME PipeInv PROVE ReceivedInOrder
    <2>1. /\ Len(sent) \in Nat /\ Len(received) \in Nat /\ Under \in -1 .. pipeCount
          /\ Len(sent) = Len(received) + Under /\ sent \in Seq(Nat) /\ received \in Seq(Nat)
        BY Zenon, <1>1, UnderIs DEF PipeInv, PipeTypes
    <2>2. ASSUME Under >= 0
          PROVE  Len(received) <= Len(sent) /\ received = SubSeq(sent, 1, Len(received))
        <3>1. \A n \in 1 .. Len(received) : received[n] = sent[n]
            BY SMTT(60), <1>1, <2>1, <2>2 DEF PipeInv, Conveyed
        <3>2. QED
            BY SMTT(60), <2>1, <2>2, <3>1
    <2>3. ASSUME Under = -1
          PROVE  pipeDone /\ SubSeq(received, 1, Len(received) - 1) = sent
        <3>1. \A n \in 1 .. Len(sent) : received[n] = sent[n]
            BY SMTT(60), <1>1, <2>1, <2>3 DEF PipeInv, Conveyed
        <3>2. SubSeq(received, 1, Len(received) - 1) = sent
            BY <2>1, <2>3, <3>1
        <3>3. QED
            BY Zenon, <1>1, <2>3, <3>2 DEF PipeInv, Hands, Closing
    <2>4. style = "message" /\ pipeProc = "ended" => received = sent
        <3>1. ASSUME Under = 0 PROVE received = sent
            <4>1. Len(received) = Len(sent) /\ \A n \in 1 .. Len(received) : received[n] = sent[n]
                BY <1>1, <2>1, <3>1 DEF PipeInv, Conveyed
            <4>2. DOMAIN received = DOMAIN sent /\ \A n \in DOMAIN sent : received[n] = sent[n]
                BY SMTT(60), <2>1, <4>1
            <4>3. QED
                BY SMTT(60), <2>1, <4>2
        <3>2. QED
            BY Zenon, <1>1, <3>1 DEF PipeInv, LastSaid
    <2>5. ~(pipeOwner \in {"filling", "filled"} /\ pipeProc = "using" /\ pi_ = wi_)
        BY Zenon, <1>1 DEF PipeInv, Hands
    <2>6. QED
        BY <2>1, <2>2, <2>3, <2>4, <2>5 DEF ReceivedInOrder, I!ReceivedInOrder
<1>2. QED
    BY <1>1, InitPipe, StepPipe, PTL DEF I!Spec
=============================================================================
