---------------------------- MODULE MPITransport ----------------------------
(***************************************************************************)
(* A producer, workers and writers over MPI: distributed/mpi/MPITransport  *)
(* run by distributed/Producer.cc (rank 0) and distributed/Consumer.cc     *)
(* (the other ranks), with distributed/TransportHandle.cc, which a worker  *)
(* uses to have a file written by a writer.                                *)
(*                                                                         *)
(* MPI keeps the order of the messages from one rank to another, and no    *)
(* order between messages from two ranks to a third: a receive from any    *)
(* source takes the first message of any.  A standard-mode send either     *)
(* returns at once, the message being buffered, or returns when it is      *)
(* received: both are covered.                                             *)
(***************************************************************************)
EXTENDS Integers, Sequences

CONSTANTS
    MaxRanks,    \* the largest comm_.size()
    MaxWriters,  \* the largest --writers
    MaxProduced  \* how many times produce() returns true

ASSUME RanksAssumption == MaxRanks \in Nat /\ MaxWriters \in Nat

VARIABLES
    totalRanks_, writers,  \* comm_.size() and --writers
    buffered,              \* comm_.send() returns at once
    rank,                  \* rank -> where it is
    count,                 \* the producer's: left to shut down, or to produce
    box,                   \* <<source, target>> -> the tags on their way
    writer_                \* rank -> TransportHandle::writer_, as a rank

mpi == <<totalRanks_, writers, buffered, rank, count, box, writer_>>
setup == <<totalRanks_, writers, buffered>>

Ranks == 0 .. totalRanks_ - 1

----------------------------------------------------------------------------
\* MPITransport::MPITransport: n, the distance between two writers
Distance(total, w) == total \div w

\* MPITransport::MPITransport: the rank of writer i + 1
WriterRank(total, w, i) ==
    LET r == total - 1 - i * Distance(total, w) IN IF r <= 0 THEN 1 ELSE r

\* the keys of ranksToWriters_
WriterRanks(total, w) == {WriterRank(total, w, i) : i \in 0 .. w - 1}

Writers == IF writers = 0 THEN {} ELSE WriterRanks(totalRanks_, writers)
WorkerRanks == Ranks \ (Writers \cup {0})

\* the constructor's ASSERT(n > 1)
Accepted == writers # 0 => Distance(totalRanks_, writers) > 1

MpiInit ==
    /\ totalRanks_ \in 2 .. MaxRanks /\ writers \in 0 .. MaxWriters /\ Accepted
    /\ buffered \in BOOLEAN
    /\ rank = [r \in 0 .. MaxRanks - 1 |->
                IF r = 0 THEN "produce"
                ELSE IF r >= totalRanks_ THEN "done"
                ELSE IF r \in Writers THEN "get" ELSE "ask"]
    /\ count = MaxProduced
    /\ box = [p \in (0 .. MaxRanks - 1) \X (0 .. MaxRanks - 1) |-> <<>>]
    /\ writer_ = [r \in 0 .. MaxRanks - 1 |-> 0]

\* comm_.send() of an earlier message has returned.
Free(r) == buffered \/ \A t \in Ranks : box[<<r, t>>] = <<>>

RankGoto(r, l) == rank' = [rank EXCEPT ![r] = l]
Put(b, s, t, tag) == [b EXCEPT ![<<s, t>>] = Append(@, tag)]
Take(b, s, t) == [b EXCEPT ![<<s, t>>] = Tail(@)]
Arrived(s, t) == box[<<s, t>>] # <<>>
Tag(s, t) == Head(box[<<s, t>>])

----------------------------------------------------------------------------
\* The producer: Producer::run.

\* Mutant: READY counts, as the last that is heard of a worker.
Left_Ready(tag) == IF tag = "READY" THEN count - 1 ELSE count

\* sendShutDownMessage: STATISTICS is the last that is heard of a worker
Left(tag) == IF tag = "STATISTICS" THEN count - 1 ELSE count

\* Mutant: the writers are counted as workers.
WorkerCount_All == totalRanks_ - 1

WorkerCount == totalRanks_ - writers - 1

\* produce() returns false: sendShutDownMessage, count being the number of workers
AllSent ==
    /\ rank[0] = "produce" /\ count = 0 /\ Free(0)
    /\ count' = WorkerCount
    /\ RankGoto(0, "workers")
    /\ UNCHANGED <<setup, box>>

\* sendMessageToNextWorker: receive READY from any, send it the message
SendMessage(s) ==
    /\ rank[0] = "produce" /\ count > 0 /\ Free(0)
    /\ Arrived(s, 0)
    /\ count' = count - 1
    /\ box' = Put(Take(box, s, 0), 0, s, "WORK")
    /\ UNCHANGED <<setup, rank>>

\* sendShutDownMessage: READY is answered, STATISTICS counted
ShutWorker(s) ==
    /\ rank[0] = "workers" /\ count > 0 /\ Free(0)
    /\ Arrived(s, 0)
    /\ count' = Left(Tag(s, 0))
    /\ box' = IF Tag(s, 0) = "READY" THEN Put(Take(box, s, 0), 0, s, "SHUTDOWN") ELSE Take(box, s, 0)
    /\ UNCHANGED <<setup, rank>>

\* sendShutDownMessage: the workers are shut down; then the writers, in turn
WorkersShut ==
    /\ rank[0] = "workers" /\ count = 0 /\ Free(0)
    /\ RankGoto(0, "writers")
    /\ UNCHANGED <<setup, count, box>>

ShutWriter ==
    /\ rank[0] = "writers" /\ count < writers /\ Free(0)
    /\ box' = Put(box, 0, WriterRank(totalRanks_, writers, count), "SHUTDOWN")
    /\ count' = count + 1
    /\ UNCHANGED <<setup, rank>>

WritersShut ==
    /\ rank[0] = "writers" /\ count = writers /\ Free(0)
    /\ RankGoto(0, "collect")
    /\ UNCHANGED <<setup, count, box>>

\* sendShutDownMessage: the statistics of the writers
CollectWriter(s) ==
    /\ rank[0] = "collect" /\ count > 0
    /\ Arrived(s, 0)
    /\ count' = count - 1
    /\ box' = Take(box, s, 0)
    /\ UNCHANGED <<setup, rank>>

Collected ==
    /\ rank[0] = "collect" /\ count = 0
    /\ RankGoto(0, "barrier")
    /\ UNCHANGED <<setup, count, box>>

MpiProducer ==
    \/ \E s \in Ranks : SendMessage(s) \/ ShutWorker(s) \/ CollectWriter(s)
    \/ AllSent \/ WorkersShut \/ ShutWriter \/ WritersShut \/ Collected

----------------------------------------------------------------------------
\* A worker: Consumer::run with getNextWorkMessage.

Send(r, t, tag, l) == Free(r) /\ box' = Put(box, r, t, tag) /\ RankGoto(r, l)

AskWork(r) == rank[r] = "ask" /\ Send(r, 0, "READY", "wait")

GetWork(r) ==
    /\ rank[r] = "wait" /\ Free(r)
    /\ Arrived(0, r)
    /\ box' = Take(box, 0, r)
    /\ RankGoto(r, IF Tag(0, r) = "SHUTDOWN" THEN "report" ELSE "consume")

\* consume() that writes nothing
Consume(r) == rank[r] = "consume" /\ RankGoto(r, "ask") /\ UNCHANGED box

\* consume() that writes a file: TransportHandle with openForWrite, write, close
Open(r) ==
    /\ rank[r] = "consume"
    /\ \E t \in Writers : Send(r, t, "OPEN", "write") /\ writer_' = [writer_ EXCEPT ![r] = t]

Write(r) == rank[r] = "write" /\ Send(r, writer_[r], "WRITE", "close")

CloseFile(r) == rank[r] = "close" /\ Send(r, writer_[r], "CLOSE", "ask")

\* A writer: Consumer::run with getNextWriteMessage, from any source
GetWrite(r) ==
    /\ rank[r] = "get"
    /\ \E s \in Ranks :
          /\ Arrived(s, r)
          /\ box' = Take(box, s, r)
          /\ RankGoto(r, IF Tag(s, r) = "SHUTDOWN" THEN "report" ELSE "get")

\* sendStatisticsToProducer, of a worker or a writer
Report(r) == rank[r] = "report" /\ Send(r, 0, "STATISTICS", "barrier")

Consumer(r) ==
    /\ r # 0
    /\ \/ Open(r)
       \/ /\ AskWork(r) \/ GetWork(r) \/ Consume(r) \/ Write(r) \/ CloseFile(r) \/ GetWrite(r) \/ Report(r)
          /\ UNCHANGED writer_
    /\ UNCHANGED <<setup, count>>

\* synchronise(): comm_.barrier()
Synchronise ==
    /\ \A r \in Ranks : rank[r] = "barrier" /\ Free(r)
    /\ rank' = [r \in DOMAIN rank |-> "done"]
    /\ UNCHANGED <<setup, count, box, writer_>>

MpiNext == (MpiProducer /\ UNCHANGED writer_) \/ (\E r \in Ranks : Consumer(r)) \/ Synchronise

MpiSpec == MpiInit /\ [][MpiNext]_mpi

\* Every rank runs.
MpiFairSpec ==
    /\ MpiSpec
    /\ WF_mpi(MpiProducer /\ UNCHANGED writer_)
    /\ \A r \in 1 .. MaxRanks - 1 : WF_mpi(Consumer(r))
    /\ WF_mpi(Synchronise)

----------------------------------------------------------------------------
\* The ASSERTs of MPITransport hold: every writer has a rank of its own, which is
\* not the producer's; and whatever message comes first, the producer, a worker
\* and a writer only ever receive the tags, from the ranks, that they expect.
TagsExpected ==
    /\ \A i, k \in 0 .. writers - 1 :
          i # k => WriterRank(totalRanks_, writers, i) # WriterRank(totalRanks_, writers, k)
    /\ Writers \subseteq Ranks \ {0}
    /\ \A s \in Ranks : Arrived(s, 0) =>
          /\ rank[0] = "produce" /\ count > 0 => s \in WorkerRanks /\ Tag(s, 0) = "READY"
          /\ rank[0] = "workers" /\ count > 0 => s \in WorkerRanks
          /\ rank[0] = "collect" /\ count > 0 => s \in Writers /\ Tag(s, 0) = "STATISTICS"
    /\ \A s, r \in Ranks : Arrived(s, r) =>
          /\ rank[r] = "wait" => s = 0 /\ Tag(s, r) \in {"WORK", "SHUTDOWN"}
          /\ rank[r] = "get" => s \notin Writers /\ Tag(s, r) \in {"OPEN", "WRITE", "CLOSE", "SHUTDOWN"}

\* With one worker at least, all messages are sent and every rank passes the
\* barrier: no two ranks wait to send to each other, even when no send is
\* buffered.  And what a worker wrote has then reached the writer, when
\* comm_.send() waits for the receiver: nothing is left on its way.  (A buffered
\* WRITE may be overtaken by the producer's SHUTDOWN, and is then lost.)
EveryRankReturns ==
    WorkerRanks # {} ~> /\ \A r \in Ranks : rank[r] = "done"
                        /\ buffered \/ \A p \in DOMAIN box : box[p] = <<>>
=============================================================================
