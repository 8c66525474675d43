----------------------------- MODULE MCBuffers ------------------------------
(* Two threads on one buffer, four times: AsyncHandle, DblBuffer,
   ProducerConsumer and Pipe on small instances.  A behaviour takes the steps of
   one of them (part), and the others stay in an initial state. *)
EXTENDS AsyncHandle

CONSTANTS
    CopyCounts, Sizes, Estimates, MaxRetries,                     \* of DblBuffer
    Counts, Payload, Unmade, MaxPayloads, DoneThrows,             \* of ProducerConsumer
    MaxMessages                                                   \* of Pipe

ASSUME CountsAssumption == Counts \subseteq Nat \ {0}
ASSUME MessagesAssumption == MaxMessages \in Nat

VARIABLES
    part,
    count_, full_, length_, held, dblError, restart_, restartFrom_, inBytes_, outBytes_, rpc, i,
    wpc, j, size, pos, file, at, total, estimate, retries, dblOutcome, skipped,
    pcCount, ready_, done_, payload_, pcHeld, pcError, ppc, pcI, cpc, pcJ, produced, consumed,
    pipeCount, ri_, wi_, pi_, pipeDone, pipeError, pipeReady, pipePayload, pipeOwner, pipeProc,
    style, ring, sent, received

dbl ==
    <<count_, full_, length_, held, dblError, restart_, restartFrom_, inBytes_, outBytes_, rpc, i,
      wpc, j, size, pos, file, at, total, estimate, retries, dblOutcome, skipped>>
pc ==
    <<pcCount, ready_, done_, payload_, pcHeld, pcError, ppc, pcI, cpc, pcJ, produced, consumed>>
pipe ==
    <<pipeCount, ri_, wi_, pi_, pipeDone, pipeError, pipeReady, pipePayload, pipeOwner, pipeProc,
      style, ring, sent, received>>

D == INSTANCE DblBuffer WITH
        Counts <- CopyCounts, Lengths <- Sizes, error_ <- dblError, outcome <- dblOutcome
P == INSTANCE ProducerConsumer WITH
        count_ <- pcCount, held <- pcHeld, error_ <- pcError, i <- pcI, j <- pcJ
I == INSTANCE Pipe WITH
        count_ <- pipeCount, done_ <- pipeDone, error_ <- pipeError, ready_ <- pipeReady,
        payload_ <- pipePayload, ppc <- pipeOwner, cpc <- pipeProc, asleep <- ring

MCInit ==
    /\ part \in {"async", "copy", "execute", "pipe"}
    /\ Init /\ D!Init /\ P!Init /\ I!Init
    /\ part # "async" => length = 1
    /\ part # "copy" => count_ = 1 /\ size = 0 /\ total = 0
    /\ part # "execute" => pcCount = 1
    /\ part # "pipe" => pipeCount = 1 /\ style = "before"

MCNext ==
    /\ UNCHANGED part
    /\ \/ part = "async" /\ Next /\ UNCHANGED <<dbl, pc, pipe>>
       \/ part = "copy" /\ D!Next /\ UNCHANGED <<vars, pc, pipe>>
       \/ part = "execute" /\ P!Next /\ UNCHANGED <<vars, dbl, pipe>>
       \/ part = "pipe" /\ I!Next /\ UNCHANGED <<vars, dbl, pc>>

MCSpec ==
    /\ MCInit /\ [][MCNext]_<<part, vars, dbl, pc, pipe>>
    /\ WF_vars(part = "async" /\ Writer) /\ SF_vars(part = "async" /\ InCall)
    /\ WF_dbl(part = "copy" /\ D!Reader) /\ WF_dbl(part = "copy" /\ D!Writer)
    /\ WF_pc(part = "execute" /\ P!Producer) /\ WF_pc(part = "execute" /\ P!Consumer)
    /\ WF_pipe(part = "pipe" /\ I!InCall) /\ WF_pipe(part = "pipe" /\ I!Proc)

\* The properties of the three other modules, which state them.
CopyIsComplete == D!CopyIsComplete
CopyReturns == part = "copy" => D!CopyReturns
ImplementsChannel == P!ImplementsChannel
ExecuteReturns == part = "execute" => P!ExecuteReturns
ReceivedInOrder == I!ReceivedInOrder
PipeReturns == I!PipeReturns
=============================================================================
