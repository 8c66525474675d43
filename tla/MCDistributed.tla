--------------------------- MODULE MCDistributed ----------------------------
(* Processes that work together: those that share a cache on disk (CacheManager),
   and a producer and its workers over TCPTransport and over MPITransport, on
   small instances.  A behaviour takes the steps of one of them (part), and the
   others stay in an initial state. *)
EXTENDS CacheManager, TCPTransport, MPITransport

VARIABLE part

MCInit ==
    /\ part \in {"cache", "tcp", "mpi"}
    /\ Init /\ TcpInit /\ MpiInit
    /\ part # "mpi" => totalRanks_ = 2 /\ writers = 1 /\ buffered   \* and no worker

MCNext ==
    /\ UNCHANGED part
    /\ \/ part = "cache" /\ Next /\ UNCHANGED <<tcp, mpi>>
       \/ part = "tcp" /\ TcpNext /\ UNCHANGED <<vars, mpi>>
       \/ part = "mpi" /\ MpiNext /\ UNCHANGED <<vars, tcp>>

MCSpec ==
    /\ MCInit /\ [][MCNext]_<<part, vars, tcp, mpi>>
    /\ WF_tcp(part = "tcp" /\ TcpProducer)
    /\ \A w \in Workers : WF_tcp(part = "tcp" /\ Worker(w))
    /\ WF_mpi(part = "mpi" /\ MpiProducer /\ UNCHANGED writer_)
    /\ \A r \in 1 .. MaxRanks - 1 : WF_mpi(part = "mpi" /\ Consumer(r))
    /\ WF_mpi(part = "mpi" /\ Synchronise)
=============================================================================
