---------------------------- MODULE TCPTransport ----------------------------
(***************************************************************************)
(* A producer that hands messages to workers over TCP:                     *)
(* distributed/tcp/TCPTransport.cc, run by distributed/Producer.cc on one  *)
(* side and distributed/Consumer.cc on the other.                          *)
(*                                                                         *)
(* A worker asks (READY) and is answered with WORK or SHUTDOWN; told to    *)
(* shut down it sends its STATISTICS and hangs up.  Workers may join late  *)
(* and may die at any time.  A worker that died is seen as an end of file, *)
(* or as a write that fails, or not seen: a write to a socket succeeds as  *)
(* long as the system has not noticed.                                     *)
(***************************************************************************)
EXTENDS Integers, Sequences, Functions

CONSTANTS
    Workers,     \* the processes that may connect
    MaxMessages  \* how many times produce() returns true

VARIABLES
    master,       \* the producer: where it is
    next,         \* the number of the message produced last
    connections_, \* TCPTransport::connections_, a sequence of workers
    active_,      \* worker -> Connection::active_
    backlog,      \* workers connected and not accepted
    set,          \* the sockets that the last select() found ready
    j,            \* the index in the loop over connections_
    work,         \* worker -> where it is
    up,           \* worker -> the tags it sent that were not read
    down,         \* worker -> the messages sent to it that it has not read
    consumed      \* history: the <<worker, message>> pairs consumed

tcp == <<master, next, connections_, active_, backlog, set, j, work, up, down, consumed>>
socket == <<connections_, active_, backlog>>
worker == <<work, up, down, consumed>>

Shutdown == 0   \* the message with the tag SHUTDOWN: WORK is numbered from 1

TcpInit ==
    /\ master = "initialise"
    /\ next = 0
    /\ connections_ = <<>>
    /\ active_ = [w \in Workers |-> FALSE]
    /\ backlog = {}
    /\ set = {}
    /\ j = 0
    /\ work = [w \in Workers |-> "absent"]
    /\ up = [w \in Workers |-> <<>>]
    /\ down = [w \in Workers |-> <<>>]
    /\ consumed = {}

Ended == master \in {"done", "thrown"}
Gone(w) == work[w] \in {"dead", "done"}

\* Reading from w, or writing to it, may throw.
Throws(w) == work[w] = "dead" \/ (Gone(w) /\ up[w] = <<>>)

\* select() reports a socket that has data, or whose other end is closed.
Readable == {w \in Range(connections_) : active_[w] /\ (up[w] # <<>> \/ Gone(w))}

MasterGoto(l) == master' = l

----------------------------------------------------------------------------
\* The producer.

\* accept()
Accept ==
    \E w \in backlog :
        /\ backlog' = backlog \ {w}
        /\ connections_' = Append(connections_, w)
        /\ active_' = [active_ EXCEPT ![w] = TRUE]

\* TCPTransport::initialise, called by Producer::run
Initialise ==
    /\ master = "initialise"
    /\ Accept
    /\ MasterGoto("produce")
    /\ UNCHANGED <<next, set, j, worker>>

\* Producer::run: produce(), then sendMessageToNextWorker() or sendShutDownMessage()
Produce ==
    /\ master = "produce"
    /\ IF next < MaxMessages
          THEN next' = next + 1 /\ MasterGoto("send")
          ELSE MasterGoto("shutdown") /\ UNCHANGED next
    /\ UNCHANGED <<connections_, active_, backlog, set, j, worker>>

\* cleanup(): the connections that were lost are forgotten, and the n others keep
\* their order (f, the index that each had)
Cleanup ==
    LET kept == {k \in DOMAIN connections_ : active_[connections_[k]]}
    IN  \E n \in 0 .. Len(connections_) : \E f \in [1 .. n -> kept] :
            /\ \A i, k \in 1 .. n : i < k => f[i] < f[k]
            /\ \A k \in kept : \E i \in 1 .. n : f[i] = k
            /\ connections_' = [i \in 1 .. n |-> connections_[f[i]]]

\* send(): select() finds a new connection, which is accepted, and again
SendAccept ==
    /\ master = "send"
    /\ backlog # {}
    /\ Accept
    /\ UNCHANGED <<master, next, set, j, worker>>

\* send(): select() finds what can be read, and the loop starts at the end
SendSelect ==
    /\ master = "send"
    /\ backlog = {}
    /\ Readable # {}
    /\ set' = Readable
    /\ Cleanup
    /\ j' = Len(connections_')
    /\ MasterGoto("scan")
    /\ UNCHANGED <<next, active_, backlog, worker>>

Connection == connections_[j]
Ready(w) == active_[w] /\ w \in set

\* Mutant: the lost connection is left in the set.
Disconnect_Not(w) == UNCHANGED active_

\* disconnect(e, connection)
Disconnect(w) == active_' = [active_ EXCEPT ![w] = FALSE]

Skip ==
    /\ master = "scan" /\ j > 0 /\ ~Ready(Connection)
    /\ j' = j - 1
    /\ UNCHANGED <<master, next, socket, set, worker>>

\* Mutant: what was written to a worker that is lost is not sent again.
AfterFailure_Sent == j' = 0 /\ MasterGoto("produce")

\* catch: disconnect and continue with the next connection
AfterFailure == j' = j - 1 /\ UNCHANGED master

\* send(): READY is read and the message written
Serve ==
    LET w == Connection
    IN  /\ master = "scan" /\ j > 0 /\ Ready(w)
        /\ up[w] # <<>>
        /\ up' = [up EXCEPT ![w] = Tail(@)]
        /\ down' = [down EXCEPT ![w] = Append(@, next)]
        /\ connections_' = [connections_ EXCEPT ![j] = connections_[1], ![1] = w]
        /\ MasterGoto("produce")
        /\ UNCHANGED <<next, active_, backlog, set, j, work, consumed>>

\* send(): the worker is gone, reading or writing throws
ServeThrows ==
    LET w == Connection
    IN  /\ master = "scan" /\ j > 0 /\ Ready(w)
        /\ Throws(w)
        /\ up' = [up EXCEPT ![w] = <<>>]
        /\ Disconnect(w)
        /\ AfterFailure
        /\ UNCHANGED <<next, connections_, backlog, set, work, down, consumed>>

\* send() returned false; sendMessageToNextWorker() tries again or throws
Resend ==
    /\ master = "scan" /\ j = 0
    /\ Cleanup
    /\ MasterGoto(IF connections_' = <<>> THEN "thrown" ELSE "send")
    /\ UNCHANGED <<next, active_, backlog, set, j, worker>>

\* sendShutDownMessage(): the loop over connections_, the sockets being ready
ShutdownSelect ==
    /\ master = "shutdown"
    /\ connections_ # <<>>
    /\ Readable # {}
    /\ set' = Readable
    /\ j' = 1
    /\ MasterGoto("closing")
    /\ UNCHANGED <<next, socket, worker>>

\* sendShutDownMessage(): READY is answered with SHUTDOWN, STATISTICS ends it
Answer(w) ==
    \/ /\ up[w] # <<>>
       /\ up' = [up EXCEPT ![w] = Tail(@)]
       /\ IF Head(up[w]) = "READY"
             THEN down' = [down EXCEPT ![w] = Append(@, Shutdown)] /\ UNCHANGED active_
             ELSE Disconnect(w) /\ UNCHANGED down
    \/ /\ Throws(w)
       /\ up' = [up EXCEPT ![w] = <<>>]
       /\ Disconnect(w)
       /\ UNCHANGED down

ShutdownOne ==
    /\ master = "closing" /\ j <= Len(connections_)
    /\ IF Ready(Connection) THEN Answer(Connection) ELSE UNCHANGED <<up, down, active_>>
    /\ j' = j + 1
    /\ UNCHANGED <<master, next, connections_, backlog, set, work, consumed>>

\* cleanup(), and again as long as there are connections
ShutdownAgain ==
    /\ master = "closing" /\ j > Len(connections_)
    /\ Cleanup
    /\ MasterGoto("shutdown")
    /\ UNCHANGED <<next, active_, backlog, set, j, worker>>

\* sendShutDownMessage() and Producer::run return
Return ==
    /\ master = "shutdown"
    /\ connections_ = <<>>
    /\ MasterGoto("done")
    /\ UNCHANGED <<next, socket, set, j, worker>>

TcpProducer ==
    \/ Initialise \/ Produce \/ SendAccept \/ SendSelect \/ Skip \/ Serve \/ ServeThrows
    \/ Resend \/ ShutdownSelect \/ ShutdownOne \/ ShutdownAgain \/ Return

----------------------------------------------------------------------------
\* The workers.

Move(w, l) == work' = [work EXCEPT ![w] = l]

\* TCPTransport::TCPTransport with a host: TCPClient::connect
Connect(w) ==
    /\ work[w] = "absent"
    /\ ~Ended
    /\ Move(w, "idle")
    /\ backlog' = backlog \cup {w}
    /\ UNCHANGED <<master, next, connections_, active_, set, j, up, down, consumed>>

\* getNextWorkMessage: READY is sent
SendReady(w) ==
    /\ work[w] = "idle"
    /\ Move(w, "waiting")
    /\ up' = [up EXCEPT ![w] = Append(@, "READY")]
    /\ UNCHANGED <<master, next, socket, set, j, down, consumed>>

\* getNextWorkMessage returns, and Consumer::run consumes or shuts down
GetMessage(w) ==
    /\ work[w] = "waiting"
    /\ down[w] # <<>>
    /\ down' = [down EXCEPT ![w] = Tail(@)]
    /\ IF Head(down[w]) = Shutdown
          THEN Move(w, "closing") /\ UNCHANGED consumed
          ELSE Move(w, "idle") /\ consumed' = consumed \cup {<<w, Head(down[w])>>}
    /\ UNCHANGED <<master, next, socket, set, j, up>>

\* sendStatisticsToProducer, which hangs up
Statistics(w) ==
    /\ work[w] = "closing"
    /\ Move(w, "done")
    /\ up' = [up EXCEPT ![w] = Append(@, "STATISTICS")]
    /\ UNCHANGED <<master, next, socket, set, j, down, consumed>>

\* The producer has ended, or has hung up: reading throws, and run() with it.
GetThrows(w) ==
    /\ work[w] = "waiting"
    /\ down[w] = <<>>
    /\ Ended \/ (w \notin backlog /\ ~active_[w])
    /\ Move(w, "dead")
    /\ UNCHANGED <<master, next, socket, set, j, up, down, consumed>>

Worker(w) == SendReady(w) \/ GetMessage(w) \/ Statistics(w) \/ GetThrows(w)

\* The process dies.
WorkerDies(w) ==
    /\ work[w] \in {"idle", "waiting", "closing"}
    /\ Move(w, "dead")
    /\ UNCHANGED <<master, next, socket, set, j, up, down, consumed>>

TcpNext == TcpProducer \/ \E w \in Workers : Connect(w) \/ Worker(w) \/ WorkerDies(w)

TcpSpec == TcpInit /\ [][TcpNext]_tcp

\* The producer runs, and so does every worker that has not died.
TcpFairSpec == TcpSpec /\ WF_tcp(TcpProducer) /\ \A w \in Workers : WF_tcp(Worker(w))

----------------------------------------------------------------------------
\* Where message m is: consumed by w, or on its way to it.
Has(w, m) == <<w, m>> \in consumed \/ m \in Range(down[w])

\* Every message goes to one worker and no other, whatever connections are lost
\* and retried: a message that was sent is with exactly one worker, which has
\* consumed it unless it died.  The one being sent is with none.
SentOnce ==
    \A m \in 1 .. next :
        LET holders == {w \in Workers : Has(w, m)}
        IN  IF m = next /\ master \in {"send", "scan", "thrown"}
               THEN holders = {}
               ELSE /\ \E w \in Workers : holders = {w}
                    /\ master = "done" =>
                          \E w \in holders : <<w, m>> \in consumed \/ work[w] = "dead"

\* Once a worker is there the producer's run() ends, with every message sent or
\* because no worker is left; and every worker ends too: none waits for an
\* answer that nobody will send, whether it was accepted or came too late.
RunReturns ==
    \A w \in Workers :
        work[w] = "idle" ~> (Ended /\ \A v \in Workers : work[v] = "absent" \/ Gone(v))
=============================================================================
