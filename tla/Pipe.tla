-------------------------------- MODULE Pipe --------------------------------
(***************************************************************************)
(* runtime/Pipe.h: a ring of count_ payloads between the thread that owns  *)
(* the pipe (message(), send(), close()) and the one spawn() starts, which *)
(* runs a Proc that calls receive() and eof().  Each payload has its own   *)
(* mutex and condition; done_ and error_ have mutex_.  Nothing is locked   *)
(* while a payload is filled or used.                                      *)
(*                                                                         *)
(* A Proc can learn of the end in three ways (style): it asks eof() before *)
(* each receive(), or after it, or the last message says so.               *)
(***************************************************************************)
EXTENDS Integers, Sequences

CONSTANTS
    Counts,        \* values for count_
    MaxMessages    \* bound on the messages sent, the last one excepted

VARIABLES
    count_, ri_, wi_, pi_, done_, error_,
    ready_, payload_,    \* the payloads
    ppc,                 \* where the owner is
    cpc, style,          \* where the Proc is, and which it is
    asleep,              \* who is inside the wait of message() or receive()
    sent, received       \* history: what send() was called for, what receive() returned

flags == <<done_, error_>>
vars  == <<count_, ri_, wi_, pi_, flags, ready_, payload_, ppc, cpc, style, asleep, sent, received>>

Slots == 0..count_ - 1
End   == MaxMessages + 1     \* the message that says it is the last

\* the constructor and spawn()
Init ==
    /\ count_ \in Counts
    /\ ri_ = 0 /\ wi_ = 0 /\ pi_ = -1
    /\ done_ = FALSE /\ error_ = FALSE
    /\ ready_ = [s \in Slots |-> FALSE] /\ payload_ = [s \in Slots |-> 0]
    /\ ppc = "idle" /\ cpc = "top" /\ style \in {"before", "after", "message"}
    /\ asleep = {} /\ sent = << >> /\ received = << >>

-----------------------------------------------------------------------------
\* cond_.signal() of payload s: one of those that sleep on it
Sleepers(s) == {who \in asleep : s = IF who = "owner" THEN wi_ ELSE ri_}
Signal(s) ==
    IF Sleepers(s) = {} THEN UNCHANGED asleep
                        ELSE \E who \in Sleepers(s) : asleep' = asleep \ {who}

Doze(who) == asleep' = asleep \cup {who}

Set(s, b) == ready_' = [ready_ EXCEPT ![s] = b]

\* Mutant: nobody is told.
Offer_NoSignal == Set(wi_, TRUE) /\ UNCHANGED asleep

\* ready_ = true; cond_.signal()
Offer == Set(wi_, TRUE) /\ Signal(wi_)

-----------------------------------------------------------------------------
(* The owner *)

Said == sent # << >> /\ sent[Len(sent)] = End

\* message() is called; a reference that was not sent is simply asked for again
Message ==
    /\ ppc \in {"idle", "filled"} /\ ~Said
    /\ Len(sent) < MaxMessages \/ style = "message"
    /\ ppc' = "message"
    /\ UNCHANGED <<count_, ri_, wi_, pi_, flags, ready_, payload_, cpc, style, asleep, sent, received>>

\* Mutant: message() does not wait.
Busy_Never == FALSE

\* while (payloads_[wi_].ready_)
Busy == ready_[wi_]

MessageWait ==
    /\ ppc = "message" /\ "owner" \notin asleep
    /\ Busy
    /\ Doze("owner")
    /\ UNCHANGED <<count_, ri_, wi_, pi_, flags, ready_, payload_, ppc, cpc, style, sent, received>>

\* the reference is returned, or the error of the Proc thrown
MessageReturn ==
    /\ ppc = "message" /\ "owner" \notin asleep
    /\ ~Busy
    /\ ppc' = IF error_ THEN "idle" ELSE "filling"
    /\ done_' = (done_ \/ error_) /\ error_' = FALSE
    /\ UNCHANGED <<count_, ri_, wi_, pi_, ready_, payload_, cpc, style, asleep, sent, received>>

Fill ==
    /\ ppc = "filling"
    /\ \E m \in {Len(sent) + 1, End} :
          /\ m = End => style = "message"
          /\ payload_' = [payload_ EXCEPT ![wi_] = m]
    /\ ppc' = "filled"
    /\ UNCHANGED <<count_, ri_, wi_, pi_, flags, ready_, cpc, style, asleep, sent, received>>

Send ==
    /\ ppc = "filled"
    /\ Offer
    /\ wi_' = (wi_ + 1) % count_
    /\ sent' = Append(sent, payload_[wi_])
    /\ ppc' = "idle"
    /\ UNCHANGED <<count_, ri_, pi_, flags, payload_, cpc, style, received>>

\* close(), also called by the destructor: done_ first ...
Close ==
    /\ ppc \in {"idle", "filled"} /\ (style = "message" => Said \/ done_)
    /\ done_' = TRUE
    /\ ppc' = "closing"
    /\ UNCHANGED <<count_, ri_, wi_, pi_, error_, ready_, payload_, cpc, style, asleep, sent, received>>

\* ... then the next payload is marked, be it free or not ...
CloseMark ==
    /\ ppc = "closing"
    /\ Offer
    /\ ppc' = "joining"
    /\ UNCHANGED <<count_, ri_, wi_, pi_, flags, payload_, cpc, style, sent, received>>

\* ... and controler_->wait()
CloseReturn ==
    /\ ppc = "joining" /\ cpc = "ended"
    /\ ppc' = "closed"
    /\ UNCHANGED <<count_, ri_, wi_, pi_, flags, ready_, payload_, cpc, style, asleep, sent, received>>

-----------------------------------------------------------------------------
(* The Proc *)

\* eof() before receive()
AskBefore ==
    /\ cpc = "top"
    /\ cpc' = IF style = "before" /\ done_ THEN "ended" ELSE "receive"
    /\ UNCHANGED <<count_, ri_, wi_, pi_, flags, ready_, payload_, ppc, style, asleep, sent, received>>

\* receive() gives back the payload it returned last ...
ReceiveFree ==
    /\ cpc = "receive"
    /\ IF pi_ >= 0 THEN Set(pi_, FALSE) /\ Signal(pi_) ELSE UNCHANGED <<ready_, asleep>>
    /\ cpc' = "wait"
    /\ UNCHANGED <<count_, ri_, wi_, pi_, flags, payload_, ppc, style, sent, received>>

ReceiveWait ==
    /\ cpc = "wait" /\ "proc" \notin asleep
    /\ ~ready_[ri_]
    /\ Doze("proc")
    /\ UNCHANGED <<count_, ri_, wi_, pi_, flags, ready_, payload_, ppc, cpc, style, sent, received>>

\* ... and returns the next one.  error_ is set only when the Proc has ended.
ReceiveReturn ==
    /\ cpc = "wait" /\ "proc" \notin asleep
    /\ ready_[ri_]
    /\ pi_' = ri_ /\ ri_' = (ri_ + 1) % count_
    /\ received' = Append(received, payload_[ri_])
    /\ cpc' = "using"
    /\ UNCHANGED <<count_, wi_, flags, ready_, payload_, ppc, style, asleep, sent>>

\* The Proc has used the payload; it asks eof(), or saw the last message.
Use ==
    /\ cpc = "using"
    /\ cpc' = IF (style = "after" /\ done_) \/ payload_[pi_] = End THEN "ended" ELSE "top"
    /\ UNCHANGED <<count_, ri_, wi_, pi_, flags, ready_, payload_, ppc, style, asleep, sent, received>>

\* The Proc returns early, or throws: PipeTask::run() sets error_, and wakes nobody.
Quit ==
    /\ cpc \in {"top", "using"}
    /\ error_' \in {error_, TRUE}
    /\ cpc' = "ended" /\ style' = "quit"
    /\ UNCHANGED <<count_, ri_, wi_, pi_, done_, ready_, payload_, ppc, asleep, sent, received>>

SpuriousWake ==
    /\ \E who \in asleep : asleep' = asleep \ {who}
    /\ UNCHANGED <<count_, ri_, wi_, pi_, flags, ready_, payload_, ppc, cpc, style, sent, received>>

InCall == MessageWait \/ MessageReturn \/ CloseMark \/ CloseReturn
Proc   == AskBefore \/ ReceiveFree \/ ReceiveWait \/ ReceiveReturn \/ Use

Next == Message \/ Fill \/ Send \/ Close \/ InCall \/ Proc \/ Quit \/ SpuriousWake

Spec == Init /\ [][Next]_vars

\* Both threads run, and the Proc keeps receiving until it ends.
FairSpec == Spec /\ WF_vars(InCall) /\ WF_vars(Proc)

-----------------------------------------------------------------------------
\* What the Proc receives is what was sent, once and in order; it may receive
\* one payload more, that was never sent, when close() marks it.  A Proc that
\* waits for the last message has received everything, and while the Proc uses
\* a payload the owner does not fill it.
ReceivedInOrder ==
    /\ \/ Len(received) <= Len(sent) /\ received = SubSeq(sent, 1, Len(received))
       \/ done_ /\ SubSeq(received, 1, Len(received) - 1) = sent
    /\ (style = "message" /\ cpc = "ended") => received = sent
    /\ ~(ppc \in {"filling", "filled"} /\ cpc = "using" /\ pi_ = wi_)

\* message() comes back unless the Proc has ended (with the ring full nobody
\* frees a payload then); and close() comes back, unless there is only one
\* payload: the mark is then lost if the Proc is still using it.
PipeReturns ==
    /\ ppc = "message" ~> (ppc # "message" \/ cpc = "ended")
    /\ (ppc = "closing" /\ count_ > 1) ~> ppc = "closed"
=============================================================================
