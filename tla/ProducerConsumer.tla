-------------------------- MODULE ProducerConsumer --------------------------
(***************************************************************************)
(* runtime/ProducerConsumer.h: execute() produces into a ring of count_    *)
(* payloads while a ProducerConsumerTask consumes from it.  As in          *)
(* io/DblBuffer.cc each payload has its own mutex, held while the payload  *)
(* is produced or consumed, and error_ has another.                        *)
(***************************************************************************)
EXTENDS Naturals, Sequences

CONSTANTS
    Counts,        \* values for count_
    Payload,       \* what produce() makes
    Unmade,        \* what a produce() that threw leaves in the payload
    MaxPayloads,   \* bound on the payloads produced
    DoneThrows     \* TRUE: producer.done() may throw (nothing catches it)

VARIABLES
    count_, ready_, done_, payload_,   \* the ring
    held,                              \* who holds the mutex of each payload
    error_,
    ppc, i,                            \* execute()
    cpc, j,                            \* ProducerConsumerTask::run()
    produced, consumed                 \* history, in order

ring == <<ready_, done_, payload_, held>>
vars == <<count_, ring, error_, ppc, i, cpc, j, produced, consumed>>

Slots == 0..count_ - 1

\* execute() up to thread.start()
Init ==
    /\ count_ \in Counts
    /\ ready_ = [s \in Slots |-> FALSE]
    /\ done_ = [s \in Slots |-> FALSE]
    /\ payload_ = [s \in Slots |-> Unmade]
    /\ held = [s \in Slots |-> "none"]
    /\ error_ = FALSE
    /\ ppc = "loop" /\ i = 0
    /\ cpc = "loop" /\ j = 0
    /\ produced = << >> /\ consumed = << >>

-----------------------------------------------------------------------------
WakeConsumer == cpc' = IF cpc = "asleep" /\ j = i THEN "lock" ELSE cpc
WakeProducer == ppc' = IF ppc = "asleep" /\ i = j THEN "lock" ELSE ppc

\* while (!error())
ProducerLoop ==
    /\ ppc = "loop"
    /\ ppc' = IF error_ THEN "join" ELSE "lock"
    /\ UNCHANGED <<count_, ring, error_, i, cpc, j, produced, consumed>>

ProducerLock ==
    /\ ppc = "lock" /\ held[i] = "none"
    /\ IF ready_[i]
         THEN ppc' = "asleep" /\ UNCHANGED held
         ELSE IF error_
                THEN ppc' = "join" /\ UNCHANGED held
                ELSE ppc' = "produce" /\ held' = [held EXCEPT ![i] = "producer"]
    /\ UNCHANGED <<count_, ready_, done_, payload_, error_, i, cpc, j, produced, consumed>>

\* ready_ = true; signal(); unlock
Offer ==
    /\ ready_' = [ready_ EXCEPT ![i] = TRUE]
    /\ held' = [held EXCEPT ![i] = "none"]
    /\ WakeConsumer

\* producer.done() answers true
ProducerDone ==
    /\ ppc = "produce"
    /\ done_' = [done_ EXCEPT ![i] = TRUE]
    /\ Offer
    /\ ppc' = "join"
    /\ UNCHANGED <<count_, payload_, error_, i, j, produced, consumed>>

\* producer.done() throws: out of execute(), past signal() and thread.wait()
DoneEscapes ==
    /\ ppc = "produce" /\ DoneThrows
    /\ held' = [held EXCEPT ![i] = "none"]
    /\ ppc' = "escaped"
    /\ UNCHANGED <<count_, ready_, done_, payload_, error_, i, cpc, j, produced, consumed>>

Produce ==
    /\ ppc = "produce" /\ Len(produced) < MaxPayloads
    /\ \E x \in Payload :
          /\ payload_' = [payload_ EXCEPT ![i] = x]
          /\ produced' = Append(produced, x)
    /\ Offer
    /\ i' = (i + 1) % count_
    /\ ppc' = "loop"
    /\ UNCHANGED <<count_, done_, error_, j, consumed>>

\* produce() throws: the payload is offered all the same, with error_ set first
ProduceThrows ==
    /\ ppc = "produce"
    /\ payload_' = [payload_ EXCEPT ![i] = Unmade]
    /\ error_' = TRUE
    /\ Offer
    /\ i' = (i + 1) % count_
    /\ ppc' = "loop"
    /\ UNCHANGED <<count_, done_, j, produced, consumed>>

\* thread.wait(), then throw SeriousBug(why_) if error_
Join ==
    /\ ppc = "join" /\ cpc = "ended"
    /\ ppc' = IF error_ THEN "thrown" ELSE "returned"
    /\ UNCHANGED <<count_, ring, error_, i, cpc, j, produced, consumed>>

-----------------------------------------------------------------------------
\* while (!owner_.error())
ConsumerLoop ==
    /\ cpc = "loop"
    /\ cpc' = IF error_ THEN "ended" ELSE "lock"
    /\ UNCHANGED <<count_, ring, error_, ppc, i, j, produced, consumed>>

\* Mutant: the producer is not signalled.
Retrieve_NoSignal ==
    /\ ready_' = [ready_ EXCEPT ![j] = FALSE]
    /\ held' = [held EXCEPT ![j] = "none"]
    /\ UNCHANGED ppc

Retrieve ==
    /\ ready_' = [ready_ EXCEPT ![j] = FALSE]
    /\ held' = [held EXCEPT ![j] = "none"]
    /\ WakeProducer

\* Mutant: the second look at owner_.error() is missing.
Failed_NotSeen == FALSE

Failed == error_

ConsumerLock ==
    /\ cpc = "lock" /\ held[j] = "none"
    /\ \/ ~ready_[j] /\ cpc' = "asleep" /\ UNCHANGED <<ready_, held, ppc>>
       \/ ready_[j] /\ Failed /\ cpc' = "ended" /\ UNCHANGED <<ready_, held, ppc>>
       \/ ready_[j] /\ ~Failed /\ done_[j] /\ cpc' = "ended" /\ Retrieve
       \/ /\ ready_[j] /\ ~Failed /\ ~done_[j]
          /\ cpc' = "consume" /\ held' = [held EXCEPT ![j] = "consumer"]
          /\ UNCHANGED <<ready_, ppc>>
    /\ UNCHANGED <<count_, done_, payload_, error_, i, j, produced, consumed>>

Consume ==
    /\ cpc = "consume"
    /\ consumed' = Append(consumed, payload_[j])
    /\ Retrieve
    /\ j' = (j + 1) % count_
    /\ cpc' = "loop"
    /\ UNCHANGED <<count_, done_, payload_, error_, i, produced>>

ConsumeThrows ==
    /\ cpc = "consume"
    /\ error_' = TRUE
    /\ Retrieve
    /\ cpc' = "ended"
    /\ UNCHANGED <<count_, done_, payload_, i, j, produced, consumed>>

SpuriousWake ==
    /\ \/ ppc = "asleep" /\ ppc' = "lock" /\ UNCHANGED cpc
       \/ cpc = "asleep" /\ cpc' = "lock" /\ UNCHANGED ppc
    /\ UNCHANGED <<count_, ring, error_, i, j, produced, consumed>>

Producer == ProducerLoop \/ ProducerLock \/ ProducerDone \/ DoneEscapes \/ Produce \/ ProduceThrows \/ Join
Consumer == ConsumerLoop \/ ConsumerLock \/ Consume \/ ConsumeThrows

Over == ppc \in {"returned", "thrown", "escaped"}
Stop == Over /\ UNCHANGED vars

Next == Producer \/ Consumer \/ SpuriousWake \/ Stop

Spec == Init /\ [][Next]_vars

\* Both threads run; done(), produce() and consume() come back.
FairSpec == Spec /\ WF_vars(Producer) /\ WF_vars(Consumer)

-----------------------------------------------------------------------------
\* A payload that produce() failed to make is offered to the consumer but never
\* consumed, and the consumer is never more than count_ payloads behind: the
\* ring is a bounded channel from produce() to consume().
Channel == INSTANCE BoundedChannel
              WITH Item <- Payload, sent <- produced, received <- consumed,
                   cap <- count_, shut <- (ppc \in {"join"} \/ Over)
ImplementsChannel == Channel!ChSpec

\* execute() comes back, normally only when all that was produced has been
\* consumed; and its thread has then ended, unless done() threw.
ExecuteReturns ==
    /\ <>(Over /\ (ppc = "escaped" \/ cpc = "ended"))
    /\ [](ppc = "returned" => consumed = produced)
=============================================================================
