-------------------------- MODULE AIOHandleProofs ---------------------------
(***************************************************************************)
(* BuffersHeld and FlushMeansWritten of AIOHandle, for any number of       *)
(* buffers, writes and openings.                                           *)
(*                                                                         *)
(* The argument: a buffer is in the system's hands exactly as long as its  *)
(* request is in progress, and then it is active, so that flush() waits    *)
(* for it; every write has landed in the file, or was reported, or has an  *)
(* active buffer.                                                          *)
(***************************************************************************)
EXTENDS MCStorage, Sequences, FiniteSetTheorems, TLAPS

Buffers  == [active : BOOLEAN, data : Nat, req : Nat,
             error : {"none", "inprogress", "done", "short", "failed"}]
Requests == [slot : 1 .. count_, req : Nat]

AioTypes ==
    /\ count_ \in Nat /\ used_ \in 0 .. count_ /\ pos_ \in Nat /\ at \in Nat
    /\ buffers_ \in [1 .. count_ -> Buffers]
    /\ flying \in Seq(Requests)
    /\ fd_ \in BOOLEAN /\ abandoned \in BOOLEAN

\* A buffer is in the system's hands as long as its request is in progress; it is
\* then active, and holds what was to be written.
InFlight ==
    /\ \A k \in DOMAIN flying :
          /\ buffers_[flying[k].slot].error = "inprogress"
          /\ buffers_[flying[k].slot].data = flying[k].req
          /\ buffers_[flying[k].slot].req = flying[k].req
    /\ \A k, l \in DOMAIN flying : flying[k].slot = flying[l].slot => k = l
    /\ \A n \in 1 .. count_ : buffers_[n].error = "inprogress" =>
          buffers_[n].active /\ n <= used_ /\ \E k \in DOMAIN flying : flying[k].slot = n
    /\ ~fd_ => flying = << >>

\* A call is in progress on an open file; the scan has not yet passed a slot that
\* is done.
InCall ==
    /\ call \in {"write", "flush", "close"} => fd_ /\ ~abandoned
    /\ call = "write" =>
          /\ used_ = count_ /\ at >= 1
          /\ \E n \in 1 .. count_ : at <= n /\ buffers_[n].error # "inprogress"

\* Write i has yet to be completed, or its failure to be reported.
Pending(i) ==
    \E n \in 1 .. used_ : buffers_[n].active /\ buffers_[n].req = i /\ buffers_[n].error # "done"

\* Some write has failed.
Bad ==
    \/ reported # {}
    \/ \E n \in 1 .. used_ : buffers_[n].active /\ buffers_[n].error \in {"short", "failed"}

\* No write of this opening is lost, and none has landed behind its place.
Landed ==
    /\ \A i \in 1 .. pos_ : i \in reported \/ Pending(i) \/ \E p \in 1 .. i : <<p, i>> \in written
    /\ \A k \in DOMAIN flying : flying[k].req \in 1 .. pos_
    /\ \A w \in written : w[2] \in 1 .. pos_ /\ w[1] \in 1 .. w[2] /\ w = <<w[1], w[2]>>
    /\ mode # "append" => \A w \in written : w[1] = w[2]

\* A file opened to append: the places are filled one after the other in the order
\* of the writes, and as long as none has failed, each in its own.
Appended ==
    /\ IsFiniteSet(written)
    /\ \A w \in written : w[1] <= Cardinality(written)
    /\ written = {} \/ \E w \in written : w[1] = Cardinality(written)
    /\ \A w, v \in written : w[1] < v[1] => w[2] < v[2]
    /\ \A k, l \in DOMAIN flying : k < l => flying[k].req < flying[l].req
    /\ \A w \in written, k \in DOMAIN flying : w[2] < flying[k].req
    /\ ~Bad => /\ \A w \in written : w[1] = w[2]
               /\ \A k \in DOMAIN flying : flying[k].req = Cardinality(written) + k
               /\ pos_ = Cardinality(written) + Len(flying)

\* The inductive invariant of BuffersHeld, and with Landing of FlushMeansWritten.
AioInv  == AioTypes /\ InCall /\ (~abandoned => InFlight)
Landing == fd_ /\ ~abandoned => Landed /\ (mode = "append" => Appended)

\* s when the element at k is taken out.
Without(s, k) == SubSeq(s, 1, k - 1) \o SubSeq(s, k + 1, Len(s))

\* What is at each place of a concatenation.
LEMMA ConcatIs ==
    ASSUME NEW E, NEW a \in Seq(E), NEW b \in Seq(E)
    PROVE  /\ \A i \in 1 .. Len(a) : (a \o b)[i] = a[i]
           /\ \A i \in 1 .. Len(b) : (a \o b)[Len(a) + i] = b[i]
OBVIOUS

\* What is behind k moves one place ahead.
LEMMA WithoutIs ==
    ASSUME NEW E, NEW s \in Seq(E), NEW k \in DOMAIN s
    PROVE  /\ Without(s, k) \in Seq(E) /\ Len(Without(s, k)) = Len(s) - 1
           /\ \A i \in 1 .. Len(s) - 1 : Without(s, k)[i] = IF i < k THEN s[i] ELSE s[i + 1]
<1> DEFINE a == SubSeq(s, 1, k - 1)
           b == SubSeq(s, k + 1, Len(s))
           w == Without(s, k)
<1>1. k \in 1 .. Len(s) /\ Len(s) \in Nat
    OBVIOUS
<1>2. a \in Seq(E) /\ Len(a) = k - 1 /\ \A i \in 1 .. k - 1 : a[i] = s[i]
    BY <1>1
<1>3. b \in Seq(E) /\ Len(b) = Len(s) - k /\ \A i \in 1 .. Len(s) - k : b[i] = s[i + k]
    BY <1>1
<1>4. w = a \o b
    BY Zenon DEF Without
<1> HIDE DEF a, b, w
<1>5. w \in Seq(E) /\ Len(w) = Len(s) - 1
    BY SMTT(60), <1>1, <1>2, <1>3, <1>4
<1>c. /\ \A i \in 1 .. Len(a) : (a \o b)[i] = a[i]
      /\ \A i \in 1 .. Len(b) : (a \o b)[Len(a) + i] = b[i]
    <2>1. a \in Seq(E) /\ b \in Seq(E)
        BY Zenon, <1>2, <1>3
    <2>2. QED
        BY <2>1, ConcatIs
<1>d. Len(a) = k - 1 /\ Len(b) = Len(s) - k
    BY Zenon, <1>2, <1>3
<1>6. ASSUME NEW i \in 1 .. Len(s) - 1 PROVE w[i] = IF i < k THEN s[i] ELSE s[i + 1]
    <2>1. CASE i < k
        <3>1. i \in 1 .. k - 1
            BY <1>1, <2>1
        <3>2. QED
            BY Zenon, <1>2, <1>4, <1>c, <2>1, <3>1
    <2>2. CASE ~(i < k)
        <3>1. w[i] = b[i - (k - 1)]
            <4>0. i - (k - 1) \in 1 .. Len(s) - k /\ (k - 1) + (i - (k - 1)) = i
                BY <1>1, <2>2
            <4>1. i - (k - 1) \in 1 .. Len(b) /\ Len(a) + (i - (k - 1)) = i
                BY Zenon, <1>d, <4>0
            <4>2. QED
                BY Zenon, <1>4, <1>c, <4>1
        <3>2. i - (k - 1) \in 1 .. Len(s) - k /\ (i - (k - 1)) + k = i + 1
            BY <1>1, <2>2
        <3>3. QED
            BY Zenon, <1>3, <2>2, <3>1, <3>2
    <2>3. QED
        BY Zenon, <2>1, <2>2
<1>7. QED
    BY Zenon, <1>5, <1>6 DEF w

\* Append() at the end, in the terms the proofs below need.
LEMMA AppendIs ==
    ASSUME NEW E, NEW s \in Seq(E), NEW e \in E
    PROVE  /\ Append(s, e) \in Seq(E) /\ Len(s) \in Nat /\ Len(Append(s, e)) = Len(s) + 1
           /\ DOMAIN s = 1 .. Len(s) /\ DOMAIN Append(s, e) = DOMAIN s \cup {Len(s) + 1}
           /\ \A k \in DOMAIN s : Append(s, e)[k] = s[k]
           /\ Append(s, e)[Len(s) + 1] = e
<1>1. /\ Append(s, e) \in Seq(E) /\ Len(s) \in Nat /\ Len(Append(s, e)) = Len(s) + 1
      /\ DOMAIN s = 1 .. Len(s) /\ DOMAIN Append(s, e) = 1 .. Len(s) + 1
      /\ \A k \in 1 .. Len(s) : Append(s, e)[k] = s[k]
      /\ Append(s, e)[Len(s) + 1] = e
    OBVIOUS
<1>2. 1 .. Len(s) + 1 = 1 .. Len(s) \cup {Len(s) + 1}
    BY <1>1
<1>3. QED
    BY Zenon, <1>1, <1>2

\* A handle as it is constructed.
LEMMA InitAio == ASSUME A!Init PROVE AioInv /\ Landing
<1>1. /\ count_ \in Nat /\ used_ = 0 /\ pos_ = 0 /\ at = 0 /\ flying = << >> /\ call = "none"
      /\ buffers_ = [n \in 1 .. count_ |-> [active |-> FALSE, data |-> 0, req |-> 0, error |-> "none"]]
    BY Zenon, CountsAssumption DEF A!Init, A!Slots
<1>2. fd_ = FALSE /\ fd_ \in BOOLEAN /\ abandoned \in BOOLEAN
    BY Zenon DEF A!Init
<1>3. AioTypes
    BY <1>1, <1>2 DEF AioTypes, Buffers
<1>4. InCall /\ InFlight
    BY <1>1, <1>2 DEF InCall, InFlight
<1>5. QED
    BY Zenon, <1>2, <1>3, <1>4 DEF AioInv, Landing

\* A handle that is not open has no request in the system.
LEMMA ClosedIsIdle ==
    ASSUME AioInv, ~abandoned, ~fd_
    PROVE  flying = << >> /\ \A n \in 1 .. count_ : buffers_[n].error # "inprogress"
BY DEF AioInv, InFlight

\* openForWrite() and openForAppend() of a handle that is closed start afresh.
LEMMA OpenAio == ASSUME AioInv, NEW m \in {"write", "append"}, A!Open(m) PROVE AioInv' /\ Landing'
<1>1. /\ fd_' = TRUE /\ used_' = 0 /\ pos_' = 0 /\ written' = {} /\ call' = "none" /\ at' = 0
      /\ ~abandoned /\ UNCHANGED <<count_, buffers_, flying>>
    BY Zenon DEF A!Open, A!Idle, A!Return
<1>2. abandoned' \in BOOLEAN /\ fd_' \in BOOLEAN /\ (~abandoned' => ~fd_)
    BY Zenon DEF A!Open, A!Idle, AioInv, AioTypes
<1>3. AioTypes'
    BY <1>1, <1>2 DEF AioInv, AioTypes, Requests
<1>4. InCall'
    BY Zenon, <1>1 DEF InCall
<1>5. ASSUME ~abandoned' PROVE flying = << >> /\ \A n \in 1 .. count_ : buffers_[n].error # "inprogress"
    BY Zenon, <1>1, <1>2, <1>5, ClosedIsIdle
<1>6. ASSUME ~abandoned' PROVE InFlight'
    BY <1>1, <1>5, <1>6 DEF InFlight
<1>7. ASSUME ~abandoned' PROVE Landed'
    BY <1>1, <1>5, <1>7 DEF Landed
<1>8. ASSUME ~abandoned' PROVE Appended'
    <2>1. IsFiniteSet({}) /\ Cardinality({}) = 0
        BY FS_EmptySet
    <2>2. QED
        BY <1>1, <1>5, <1>8, <2>1 DEF Appended
<1>9. QED
    BY Zenon, <1>3, <1>4, <1>6, <1>7, <1>8 DEF AioInv, Landing

\* ::open() fails, or the handle is destroyed: no file is open then, or the handle
\* is abandoned.
LEMMA GoneAio == ASSUME AioInv, A!OpenThrows \/ A!Destroy PROVE AioInv' /\ Landing'
<1>1. /\ used_' \in {0, used_} /\ call' \in {"none", "gone"} /\ at' \in {0, at}
      /\ ~abandoned /\ UNCHANGED <<count_, pos_, flying>>
    BY DEF A!OpenThrows, A!Destroy, A!Idle, A!Return, A!system
<1>2. abandoned' \in BOOLEAN /\ fd_' \in BOOLEAN /\ (~abandoned' => ~fd_ /\ ~fd_')
    <2>1. CASE A!OpenThrows
        BY <2>1, Zenon DEF A!OpenThrows, A!Idle, AioInv, AioTypes
    <2>2. CASE A!Destroy
        BY <2>2, Zenon DEF A!Destroy, A!Idle, AioInv, AioTypes
    <2>3. QED
        BY Zenon, <2>1, <2>2
<1>3. \/ buffers_' = buffers_
      \/ buffers_' = [n \in 1 .. count_ |-> [buffers_[n] EXCEPT !.data = 0]]
    BY Zenon DEF A!OpenThrows, A!Destroy, A!Slots
<1>4. AioTypes'
    <2>1. buffers_' \in [1 .. count_ -> Buffers]
        <3>1. CASE buffers_' = buffers_
            BY Zenon, <3>1 DEF AioInv, AioTypes
        <3>2. CASE buffers_' = [n \in 1 .. count_ |-> [buffers_[n] EXCEPT !.data = 0]]
            <4>1. ASSUME NEW n \in 1 .. count_
                  PROVE  [buffers_[n] EXCEPT !.data = 0] \in Buffers
                BY Zenon DEF AioInv, AioTypes, Buffers
            <4>2. QED
                BY Zenon, <3>2, <4>1
        <3>3. QED
            BY Zenon, <1>3, <3>1, <3>2
    <2>2. QED
        BY <1>1, <1>2, <2>1 DEF AioInv, AioTypes, Requests
<1>5. \A n \in 1 .. count_ : buffers_'[n].error = buffers_[n].error
    BY <1>3 DEF AioInv, AioTypes, Buffers
<1>6. ASSUME ~abandoned' PROVE InFlight'
    <2>1. flying = << >> /\ \A n \in 1 .. count_ : buffers_[n].error # "inprogress"
        BY Zenon, <1>1, <1>2, <1>6, ClosedIsIdle
    <2>2. QED
        BY <1>1, <1>5, <2>1 DEF InFlight
<1>7. InCall'
    BY Zenon, <1>1 DEF InCall
<1>8. QED
    BY Zenon, <1>2, <1>4, <1>6, <1>7 DEF AioInv, Landing

\* What the calls do that touch no buffer, and leave the file open.
LEMMA QuietAio ==
    ASSUME AioInv, Landing, InCall', at' \in Nat,
           UNCHANGED <<count_, fd_, used_, pos_, buffers_, flying, mode, written, reported, abandoned>>
    PROVE  AioInv' /\ Landing'
<1>1. AioTypes'
    BY Zenon DEF AioInv, AioTypes, Requests
<1>2. ~abandoned => InFlight'
    BY Zenon DEF AioInv, InFlight
<1>3. fd_ /\ ~abandoned => Landed' /\ (mode = "append" => Appended')
    BY Zenon DEF Landing, Landed, Appended, Bad, Pending
<1>4. QED
    BY Zenon, <1>1, <1>2, <1>3 DEF AioInv, Landing

\* AIOBuffer::write() into a slot that is new, or whose request has been written:
\* the buffer is not in the system's hands, and nothing is forgotten.
LEMMA SubmitAio ==
    ASSUME AioInv, Landing, fd_, ~abandoned, NEW n \in 1 .. count_,
           \/ n <= used_ /\ used_' = used_ /\ buffers_[n].error = "done"
           \/ n = used_ + 1 /\ used_' = n,
           A!Submit(n), UNCHANGED <<count_, fd_, written, mode, reported, abandoned>>
    PROVE  AioInv' /\ Landing'
<1>1. /\ AioTypes /\ InFlight /\ Landed /\ (mode = "append" => Appended)
      /\ used_ \in 0 .. count_ /\ used_' \in 0 .. count_ /\ used_ <= used_' /\ n <= used_'
      /\ call' = "none" /\ at' = 0 /\ count_ \in Nat /\ pos_ \in Nat
    BY SMTT(60) DEF AioInv, AioTypes, Landing, A!Submit, A!Return
<1>2. buffers_[n].error # "inprogress" /\ \A k \in DOMAIN flying : flying[k].slot # n
    BY <1>1 DEF InFlight
<1>3. \A m \in 1 .. used_' : m # n => m \in 1 .. used_
    BY <1>1
<1>4. \A m \in 1 .. used_ : m = n => buffers_[m].error = "done"
    BY <1>1
<1>5. InCall'
    BY Zenon, <1>1 DEF InCall
<1>6. ASSUME /\ buffers_' = [buffers_ EXCEPT ![n] =
                   [active |-> TRUE, data |-> pos_ + 1, req |-> pos_ + 1, error |-> "inprogress"]]
             /\ flying' = Append(flying, [slot |-> n, req |-> pos_ + 1])
             /\ pos_' = pos_ + 1
      PROVE  AioInv' /\ Landing'
    <2>1. /\ \A m \in 1 .. count_ : m # n => buffers_'[m] = buffers_[m]
          /\ buffers_'[n].active /\ buffers_'[n].data = pos_ + 1 /\ buffers_'[n].req = pos_ + 1
          /\ buffers_'[n].error = "inprogress"
          /\ buffers_' \in [1 .. count_ -> Buffers]
        BY SMTT(60), <1>1, <1>6 DEF AioTypes, Buffers
    <2> DEFINE r == [slot |-> n, req |-> pos_ + 1]
    <2>a. flying \in Seq(Requests) /\ r \in Requests /\ r.slot = n /\ r.req = pos_ + 1
        BY <1>1 DEF AioTypes, Requests
    <2>b. flying' = Append(flying, r)
        BY Zenon, <1>6
    <2> HIDE DEF r
    <2>2. /\ flying' \in Seq(Requests) /\ Len(flying) \in Nat /\ Len(flying') = Len(flying) + 1
          /\ \A k \in DOMAIN flying : flying'[k] = flying[k]
        BY SMTT(60), <2>a, <2>b, AppendIs
    <2>3. DOMAIN flying' = DOMAIN flying \cup {Len(flying) + 1} /\ DOMAIN flying = 1 .. Len(flying)
        BY SMTT(60), <2>a, <2>b, AppendIs
    <2>4. /\ flying'[Len(flying) + 1].slot = n /\ flying'[Len(flying) + 1].req = pos_ + 1
          /\ \A k \in DOMAIN flying : flying[k].slot \in 1 .. count_
        <3>1. flying'[Len(flying) + 1] = r
            BY <2>a, <2>b, AppendIs
        <3>2. \A k \in DOMAIN flying : flying[k] \in Requests
            BY <2>a
        <3>3. QED
            BY Zenon, <2>a, <3>1, <3>2 DEF Requests
    <2>5. AioTypes'
        BY SMTT(60), <1>1, <1>6, <2>1, <2>2 DEF AioTypes, Requests
    <2>6. InFlight'
        <3>1. \A k \in DOMAIN flying' :
                 /\ buffers_'[flying'[k].slot].error = "inprogress"
                 /\ buffers_'[flying'[k].slot].data = flying'[k].req
                 /\ buffers_'[flying'[k].slot].req = flying'[k].req
            BY SMTT(60), <1>1, <1>2, <2>1, <2>2, <2>3, <2>4 DEF InFlight
        <3>2. \A k, l \in DOMAIN flying' : flying'[k].slot = flying'[l].slot => k = l
            BY SMTT(60), <1>1, <1>2, <2>2, <2>3, <2>4 DEF InFlight
        <3>3. ASSUME NEW m \in 1 .. count_, buffers_'[m].error = "inprogress"
              PROVE  buffers_'[m].active /\ m <= used_' /\ \E k \in DOMAIN flying' : flying'[k].slot = m
            <4>1. CASE m = n
                BY Zenon, <1>1, <2>1, <2>3, <2>4, <4>1
            <4>2. CASE m # n
                <5>1. buffers_[m].active /\ m <= used_ /\ \E k \in DOMAIN flying : flying[k].slot = m
                    BY Zenon, <1>1, <2>1, <3>3, <4>2 DEF InFlight
                <5>2. QED
                    BY SMTT(60), <1>1, <2>1, <2>2, <2>3, <4>2, <5>1
            <4>3. QED
                BY Zenon, <4>1, <4>2
        <3>4. QED
            BY SMTT(60), <3>1, <3>2, <3>3 DEF InFlight
    <2>7. ASSUME NEW i \in 1 .. pos_, Pending(i) PROVE Pending(i)'
        <3>1. PICK m \in 1 .. used_ : buffers_[m].active /\ buffers_[m].req = i /\ buffers_[m].error # "done"
            BY Zenon, <2>7 DEF Pending
        <3>2. m # n /\ m \in 1 .. used_' /\ m \in 1 .. count_
            BY SMTT(60), <1>1, <1>4, <3>1
        <3>3. QED
            BY Zenon, <2>1, <3>1, <3>2 DEF Pending
    <2>8. ASSUME NEW i, i = pos_ + 1 PROVE Pending(i)'
        BY SMTT(60), <1>1, <2>1, <2>8 DEF Pending
    <2>9. Landed'
        <3>1. 1 .. pos_' = 1 .. pos_ \cup {pos_ + 1}
            BY SMTT(60), <1>1, <1>6
        <3>2. \A k \in DOMAIN flying' : flying'[k].req \in 1 .. pos_'
            BY SMTT(60), <1>1, <1>6, <2>2, <2>3, <2>4, <3>1 DEF Landed
        <3>3. \A i \in 1 .. pos_' : i \in reported' \/ Pending(i)' \/ \E p \in 1 .. i : <<p, i>> \in written'
            BY Zenon, <1>1, <2>7, <2>8, <3>1 DEF Landed
        <3>4. QED
            BY Zenon, <1>1, <3>1, <3>2, <3>3 DEF Landed
    <2>10. Bad => Bad'
        BY SMTT(60), <1>1, <1>4, <2>1 DEF Bad
    <2>11. ASSUME Appended PROVE Appended'
        <3>1. IsFiniteSet(written) /\ Cardinality(written) \in Nat
            BY Zenon, <2>11, FS_CardinalityType DEF Appended
        <3>2. \A k \in DOMAIN flying : flying[k].req \in 1 .. pos_
            BY Zenon, <1>1 DEF Landed
        <3>3. \A k, l \in DOMAIN flying' : k < l => flying'[k].req < flying'[l].req
            <4>1. ASSUME NEW k \in DOMAIN flying', NEW l \in DOMAIN flying', k < l
                  PROVE  flying'[k].req < flying'[l].req
                <5>1. k \in DOMAIN flying
                    BY SMTT(60), <2>2, <2>3, <4>1
                <5>2. CASE l \in DOMAIN flying
                    BY Zenon, <2>2, <2>11, <4>1, <5>1, <5>2 DEF Appended
                <5>3. CASE l = Len(flying) + 1
                    BY SMTT(60), <1>1, <2>2, <2>4, <3>2, <5>1, <5>3
                <5>4. QED
                    BY SMTT(60), <2>3, <5>2, <5>3
            <4>2. QED
                BY Zenon, <4>1
        <3>4. \A w \in written, k \in DOMAIN flying' : w[2] < flying'[k].req
            BY SMTT(60), <1>1, <2>2, <2>3, <2>4, <2>11 DEF Appended, Landed
        <3>5. ASSUME ~Bad'
              PROVE  /\ \A w \in written : w[1] = w[2]
                     /\ \A k \in DOMAIN flying' : flying'[k].req = Cardinality(written) + k
                     /\ pos_' = Cardinality(written) + Len(flying')
            <4>1. /\ \A w \in written : w[1] = w[2]
                  /\ \A k \in DOMAIN flying : flying[k].req = Cardinality(written) + k
                  /\ pos_ = Cardinality(written) + Len(flying)
                BY Zenon, <2>10, <2>11, <3>5 DEF Appended
            <4>2. QED
                BY SMTT(60), <1>1, <1>6, <2>2, <2>3, <2>4, <3>1, <4>1
        <3>6. QED
            BY Zenon, <2>11, <3>1, <3>3, <3>4, <3>5 DEF Appended
    <2>12. QED
        BY SMTT(60), <1>1, <1>5, <2>5, <2>6, <2>9, <2>11 DEF AioInv, Landing
<1>7. ASSUME /\ buffers_' = [buffers_ EXCEPT ![n] =
                   [active |-> @.active /\ call = "none", data |-> pos_ + 1, req |-> 0, error |-> "failed"]]
             /\ UNCHANGED <<flying, pos_>>
      PROVE  AioInv' /\ Landing'
    <2>1. /\ \A m \in 1 .. count_ : m # n => buffers_'[m] = buffers_[m]
          /\ buffers_'[n].error = "failed"
        BY Zenon, <1>1, <1>7 DEF AioTypes, Buffers
    <2>2. buffers_' \in [1 .. count_ -> Buffers]
        <3> DEFINE v == [active |-> buffers_[n].active /\ call = "none", data |-> pos_ + 1,
                         req |-> 0, error |-> "failed"]
        <3>1. (buffers_[n].active /\ call = "none") \in BOOLEAN
            BY Zenon
        <3>2. v \in Buffers
            BY <1>1, <3>1 DEF Buffers
        <3>3. buffers_' = [buffers_ EXCEPT ![n] = v]
            BY Zenon, <1>7
        <3> HIDE DEF v
        <3>4. QED
            BY Zenon, <1>1, <3>2, <3>3 DEF AioTypes
    <2>3. AioTypes'
        BY Zenon, <1>1, <1>7, <2>2 DEF AioTypes, Requests
    <2>4. \A k \in DOMAIN flying : flying[k].slot \in 1 .. count_
        <3>1. \A k \in DOMAIN flying : flying[k] \in Requests
            BY SMTT(60), <1>1 DEF AioTypes
        <3>2. QED
            BY Zenon, <3>1 DEF Requests
    <2>5. InFlight'
        BY SMTT(60), <1>1, <1>2, <1>7, <2>1, <2>4 DEF InFlight
    <2>6. ASSUME NEW i \in 1 .. pos_, Pending(i) PROVE Pending(i)'
        <3>1. PICK m \in 1 .. used_ : buffers_[m].active /\ buffers_[m].req = i /\ buffers_[m].error # "done"
            BY Zenon, <2>6 DEF Pending
        <3>2. m # n /\ m \in 1 .. used_' /\ m \in 1 .. count_
            BY <1>1, <1>4, <3>1
        <3>3. QED
            BY Zenon, <2>1, <3>1, <3>2 DEF Pending
    <2>7. Landed'
        BY Zenon, <1>1, <1>7, <2>6 DEF Landed
    <2>8. Bad => Bad'
        BY SMTT(60), <1>1, <1>4, <2>1 DEF Bad
    <2>9. Appended => Appended'
        BY Zenon, <1>7, <2>8 DEF Appended
    <2>10. QED
        BY SMTT(60), <1>1, <1>5, <2>3, <2>5, <2>7, <2>9 DEF AioInv, Landing
<1>8. QED
    BY Zenon, <1>6, <1>7 DEF A!Submit

\* A failure is reported: the slot is not active any more, the write not pending.
LEMMA ReportAio ==
    ASSUME AioInv, Landing, fd_, ~abandoned, NEW n \in 1 .. used_,
           buffers_[n].error \in {"short", "failed"}, A!Report(n),
           UNCHANGED <<count_, fd_, used_, pos_, flying, written, mode, abandoned>>
    PROVE  AioInv' /\ Landing'
<1>1. /\ AioTypes /\ InFlight /\ Landed /\ (mode = "append" => Appended) /\ n \in 1 .. count_
      /\ call' = "none" /\ at' = 0 /\ reported' = reported \cup {buffers_[n].req}
      /\ buffers_' = [buffers_ EXCEPT ![n].active = FALSE]
    BY DEF AioInv, AioTypes, Landing, A!Report, A!Return
<1>2. /\ buffers_' \in [1 .. count_ -> Buffers]
      /\ \A m \in 1 .. count_ : /\ m # n => buffers_'[m] = buffers_[m]
                                /\ buffers_'[m].error = buffers_[m].error
                                /\ buffers_'[m].data = buffers_[m].data
                                /\ buffers_'[m].req = buffers_[m].req
    BY ZenonT(60), <1>1 DEF AioTypes, Buffers
<1>3. AioTypes'
    BY Zenon, <1>1, <1>2 DEF AioTypes, Requests
<1>4. InCall'
    BY Zenon, <1>1 DEF InCall
<1>5. \A k \in DOMAIN flying : flying[k].slot \in 1 .. count_
    <2>1. \A k \in DOMAIN flying : flying[k] \in Requests
        BY SMTT(60), <1>1 DEF AioTypes
    <2>2. QED
        BY Zenon, <2>1 DEF Requests
<1>6. InFlight'
    BY SMTT(60), <1>1, <1>2, <1>5 DEF InFlight
<1>7. ASSUME NEW i \in 1 .. pos_, Pending(i) PROVE Pending(i)' \/ i \in reported'
    <2>1. PICK m \in 1 .. used_ : buffers_[m].active /\ buffers_[m].req = i /\ buffers_[m].error # "done"
        BY Zenon, <1>7 DEF Pending
    <2>2. m \in 1 .. count_
        BY <1>1 DEF AioTypes
    <2>3. QED
        BY SMTT(60), <1>1, <1>2, <2>1, <2>2 DEF Pending
<1>8. Landed'
    BY Zenon, <1>1, <1>7 DEF Landed
<1>9. Bad'
    BY Zenon, <1>1 DEF Bad
<1>10. Appended => Appended'
    BY Zenon, <1>9 DEF Appended
<1>11. QED
    BY Zenon, <1>1, <1>3, <1>4, <1>6, <1>8, <1>10 DEF AioInv, Landing

\* flush() is done with a slot whose request was written.
LEMMA FlushDoneAio ==
    ASSUME AioInv, Landing, NEW n \in 1 .. count_, A!FlushDone(n)
    PROVE  AioInv' /\ Landing'
<1>1. /\ n \in 1 .. used_ /\ buffers_[n].error = "done" /\ call \in {"flush", "close"}
      /\ buffers_' = [buffers_ EXCEPT ![n].active = FALSE]
      /\ UNCHANGED <<count_, fd_, used_, pos_, flying, written, mode, reported, abandoned, call, at>>
    BY Zenon DEF A!FlushDone, A!Current, A!Flushing, A!Active, A!Written, A!system
<1>2. /\ fd_ /\ ~abandoned /\ AioTypes /\ InFlight /\ Landed /\ (mode = "append" => Appended)
    BY Zenon, <1>1 DEF AioInv, InCall, Landing
<1>3. /\ buffers_' \in [1 .. count_ -> Buffers]
      /\ \A m \in 1 .. count_ : /\ m # n => buffers_'[m] = buffers_[m]
                                /\ buffers_'[m].error = buffers_[m].error
                                /\ buffers_'[m].data = buffers_[m].data
                                /\ buffers_'[m].req = buffers_[m].req
    BY Zenon, <1>1, <1>2 DEF AioTypes, Buffers
<1>4. AioTypes'
    BY Zenon, <1>1, <1>2, <1>3 DEF AioTypes, Requests
<1>5. InCall'
    BY Zenon, <1>1, <1>2 DEF InCall
<1>6. \A k \in DOMAIN flying : flying[k].slot \in 1 .. count_
    <2>1. \A k \in DOMAIN flying : flying[k] \in Requests
        BY <1>2 DEF AioTypes
    <2>2. QED
        BY Zenon, <2>1 DEF Requests
<1>7. InFlight'
    BY SMTT(60), <1>1, <1>2, <1>3, <1>6 DEF InFlight
<1>8. \A m \in 1 .. used_ : buffers_[m].active /\ buffers_[m].error # "done" =>
          buffers_'[m] = buffers_[m]
    BY <1>1, <1>2, <1>3 DEF AioTypes
<1>9. \A i : Pending(i) => Pending(i)'
    BY Zenon, <1>1, <1>8 DEF Pending
<1>10. Bad => Bad'
    BY Zenon, <1>1, <1>8 DEF Bad
<1>11. Landed'
    BY Zenon, <1>1, <1>2, <1>9 DEF Landed
<1>12. Appended => Appended'
    BY Zenon, <1>1, <1>10 DEF Appended
<1>13. QED
    BY Zenon, <1>1, <1>2, <1>4, <1>5, <1>7, <1>11, <1>12 DEF AioInv, Landing

\* Once nothing is active, flush() and close() return; close() leaves nothing in
\* the system.
LEMMA FlushReturnAio == ASSUME AioInv, Landing, A!FlushReturn PROVE AioInv' /\ Landing'
<1>1. /\ \A n \in 1 .. used_ : ~buffers_[n].active
      /\ call \in {"flush", "close"} /\ call' = "none" /\ at' = 0
      /\ UNCHANGED <<count_, used_, pos_, buffers_, flying, written, mode, reported, abandoned>>
    BY Zenon DEF A!FlushReturn, A!Flushing, A!Active, A!Return, A!system
<1>2. /\ fd_ /\ ~abandoned /\ AioTypes /\ InFlight
    BY Zenon, <1>1 DEF AioInv, InCall
<1>3. fd_' \in BOOLEAN
    BY Zenon DEF A!FlushReturn
<1>4. flying = << >>
    <2>1. flying \in Seq(Requests)
        BY Zenon, <1>2 DEF AioTypes
    <2>2. \A k \in DOMAIN flying : flying[k] \in Requests
        BY <2>1
    <2>3. \A k \in DOMAIN flying : flying[k].slot \in 1 .. count_
        BY Zenon, <2>2 DEF Requests
    <2>4. ASSUME NEW k \in DOMAIN flying PROVE FALSE
        <3>1. buffers_[flying[k].slot].active /\ flying[k].slot <= used_
            BY Zenon, <1>2, <2>3 DEF InFlight
        <3>2. flying[k].slot \in 1 .. used_
            BY SMTT(60), <1>2, <2>3, <3>1 DEF AioTypes
        <3>3. QED
            BY Zenon, <1>1, <3>1, <3>2
    <2>5. Len(flying) \in Nat /\ DOMAIN flying = 1 .. Len(flying)
        BY <2>1
    <2>6. Len(flying) = 0
        BY <2>4, <2>5
    <2>7. QED
        BY <2>1, <2>6
<1>5. AioTypes'
    BY Zenon, <1>1, <1>2, <1>3 DEF AioTypes, Requests
<1>6. InCall'
    BY Zenon, <1>1 DEF InCall
<1>7. InFlight'
    BY <1>1, <1>2, <1>4 DEF InFlight
<1>8. Landing'
    BY Zenon, <1>1, <1>2 DEF Landing, Landed, Appended, Bad, Pending
<1>9. QED
    BY Zenon, <1>5, <1>6, <1>7, <1>8 DEF AioInv

\* The system completes a request: its slot is the only one that changes.
LEMMA CompleteAio ==
    ASSUME AioInv, Landing, NEW k \in DOMAIN flying, NEW how \in {"done", "short", "failed"},
           A!Complete(k, how)
    PROVE  AioInv' /\ Landing'
<1> DEFINE r == flying[k]
           place == IF mode = "append" THEN 1 + Cardinality(written) ELSE r.req
<1>1. /\ ~abandoned /\ (mode = "append" => k = 1)
      /\ buffers_' = [buffers_ EXCEPT ![r.slot].error = how]
      /\ written' = IF how = "done" THEN written \cup {<<place, buffers_[r.slot].data>>} ELSE written
      /\ flying' = Without(flying, k)
      /\ UNCHANGED <<count_, fd_, used_, pos_, call, at, mode, reported, abandoned>>
    <2>1. ~abandoned /\ (mode = "append" => k = 1)
        BY Zenon DEF A!Complete
    <2>2. buffers_' = [buffers_ EXCEPT ![r.slot].error = how]
        BY Zenon DEF A!Complete
    <2>3. written' = IF how = "done" THEN written \cup {<<place, buffers_[r.slot].data>>} ELSE written
        <3>1. A!Cardinality(written) = Cardinality(written)
            BY Zenon DEF A!Cardinality, Cardinality
        <3>2. QED
            BY <3>1, Zenon DEF A!Complete
    <2>4. /\ flying' = Without(flying, k)
          /\ UNCHANGED <<count_, fd_, used_, pos_, call, at, mode, reported, abandoned>>
        BY Zenon DEF A!Complete, Without
    <2>5. QED
        BY Zenon, <2>1, <2>2, <2>3, <2>4
<1>2. AioTypes /\ InFlight
    BY Zenon, <1>1 DEF AioInv
<1>3. /\ flying \in Seq(Requests) /\ Len(flying) \in Nat /\ DOMAIN flying = 1 .. Len(flying)
      /\ count_ \in Nat /\ used_ \in 0 .. count_ /\ pos_ \in Nat
    BY <1>2 DEF AioTypes
<1>4. \A l \in DOMAIN flying : flying[l].slot \in 1 .. count_ /\ flying[l].req \in Nat
    <2>1. \A l \in DOMAIN flying : flying[l] \in Requests
        BY <1>3
    <2>2. QED
        BY Zenon, <2>1 DEF Requests
<1>5. fd_ /\ Landed /\ (mode = "append" => Appended)
    BY SMTT(60), <1>1, <1>2, <1>3 DEF InFlight, Landing
<1>6. /\ buffers_[r.slot].error = "inprogress" /\ buffers_[r.slot].active /\ r.slot \in 1 .. used_
      /\ buffers_[r.slot].data = r.req /\ buffers_[r.slot].req = r.req /\ r.req \in 1 .. pos_
    BY <1>2, <1>3, <1>4, <1>5 DEF InFlight, Landed
<1>7. /\ buffers_' \in [1 .. count_ -> Buffers]
      /\ \A m \in 1 .. count_ : m # r.slot => buffers_'[m] = buffers_[m]
      /\ buffers_'[r.slot].error = how /\ buffers_'[r.slot].active /\ buffers_'[r.slot].req = r.req
    BY ZenonT(60), <1>1, <1>2, <1>4, <1>6 DEF AioTypes, Buffers
<1>8. /\ flying' \in Seq(Requests) /\ Len(flying') = Len(flying) - 1
      /\ \A i \in 1 .. Len(flying) - 1 : flying'[i] = IF i < k THEN flying[i] ELSE flying[i + 1]
    BY Zenon, <1>1, <1>3, WithoutIs
<1>9. DOMAIN flying' = 1 .. Len(flying) - 1
    BY <1>8
<1> HIDE DEF r
<1>10. AioTypes'
    BY Zenon, <1>1, <1>2, <1>7, <1>8 DEF AioTypes, Requests
<1>11. InCall'
    BY Zenon, <1>1, <1>7 DEF AioInv, InCall
<1>12. \A i \in DOMAIN flying' : \E l \in DOMAIN flying :
           l # k /\ flying'[i] = flying[l] /\ l = IF i < k THEN i ELSE i + 1
    BY SMTT(60), <1>3, <1>8, <1>9
<1>13. ASSUME NEW l \in DOMAIN flying, l # k
       PROVE  \E i \in DOMAIN flying' : flying'[i] = flying[l]
    <2>1. CASE l < k
        BY SMTT(60), <1>3, <1>8, <1>9, <2>1
    <2>2. CASE l > k
        <3>1. l - 1 \in DOMAIN flying' /\ ~(l - 1 < k) /\ (l - 1) + 1 = l
            BY <1>3, <1>9, <2>2
        <3>2. flying'[l - 1] = flying[l]
            BY Zenon, <1>8, <1>9, <3>1
        <3>3. QED
            BY Zenon, <3>1, <3>2
    <2>3. QED
        BY <1>3, <1>13, <2>1, <2>2
<1>14. \A l \in DOMAIN flying : l # k => flying[l].slot # r.slot
    BY Zenon, <1>2 DEF InFlight, r
<1>15. InFlight'
    <2>1. \A i \in DOMAIN flying' :
             /\ buffers_'[flying'[i].slot].error = "inprogress"
             /\ buffers_'[flying'[i].slot].data = flying'[i].req
             /\ buffers_'[flying'[i].slot].req = flying'[i].req
        BY SMTT(60), <1>2, <1>4, <1>7, <1>12, <1>14 DEF InFlight
    <2>2. ASSUME NEW i \in DOMAIN flying', NEW j \in DOMAIN flying', flying'[i].slot = flying'[j].slot
          PROVE  i = j
        <3>1. PICK l \in DOMAIN flying : flying'[i] = flying[l] /\ l = IF i < k THEN i ELSE i + 1
            BY Zenon, <1>12
        <3>2. PICK m \in DOMAIN flying : flying'[j] = flying[m] /\ m = IF j < k THEN j ELSE j + 1
            BY <1>12
        <3>3. l = m
            BY <1>2, <2>2, <3>1, <3>2 DEF InFlight
        <3>4. QED
            BY <1>3, <1>9, <3>1, <3>2, <3>3
    <2>3. ASSUME NEW m \in 1 .. count_, buffers_'[m].error = "inprogress"
          PROVE  buffers_'[m].active /\ m <= used_' /\ \E i \in DOMAIN flying' : flying'[i].slot = m
        <3>1. m # r.slot /\ buffers_'[m] = buffers_[m]
            BY Zenon, <1>7, <2>3
        <3>2. buffers_[m].active /\ m <= used_ /\ \E l \in DOMAIN flying : flying[l].slot = m
            BY Zenon, <1>2, <2>3, <3>1 DEF InFlight
        <3>3. PICK l \in DOMAIN flying : flying[l].slot = m
            BY Zenon, <3>2
        <3>4. l # k
            BY Zenon, <3>1, <3>3 DEF r
        <3>5. QED
            BY Zenon, <1>1, <1>13, <3>1, <3>2, <3>3, <3>4
    <2>4. QED
        BY SMTT(60), <1>1, <1>5, <2>1, <2>2, <2>3 DEF InFlight
<1>16. ASSUME mode = "append"
       PROVE  /\ Cardinality(written) \in Nat /\ Cardinality(written) + 1 <= r.req
              /\ \A w \in written : w[2] < r.req /\ w[1] <= Cardinality(written)
    <2>1. Appended /\ Cardinality(written) \in Nat
        BY Zenon, <1>5, <1>16, FS_CardinalityType DEF Appended
    <2>2. \A w \in written : w[2] < r.req /\ w[1] <= Cardinality(written)
        BY <2>1 DEF Appended, r
    <2>3. CASE written = {}
        BY SMTT(60), <1>6, <2>1, <2>2, <2>3, FS_EmptySet
    <2>4. CASE written # {}
        <3>1. PICK w \in written : w[1] = Cardinality(written)
            BY <2>1, <2>4 DEF Appended
        <3>2. w[2] \in 1 .. pos_ /\ w[1] \in 1 .. w[2] /\ w[2] < r.req
            BY Zenon, <1>5, <2>2 DEF Landed
        <3>3. QED
            BY SMTT(60), <1>3, <1>6, <2>1, <2>2, <3>1, <3>2
    <2>5. QED
        BY Zenon, <2>3, <2>4
<1>17. place \in 1 .. r.req /\ (mode # "append" => place = r.req)
    BY <1>6, <1>16
<1>18. (mode = "append" => place = Cardinality(written) + 1) /\ (mode # "append" => place = r.req)
    BY <1>16
<1> DEFINE new == <<place, r.req>>
<1>19. /\ new[1] = place /\ new[2] = r.req /\ new = <<new[1], new[2]>>
       /\ written' = IF how = "done" THEN written \cup {new} ELSE written
    BY Zenon, <1>1, <1>6
<1> HIDE DEF place, new
<1>20. \A w \in written' : w \in written \/ (how = "done" /\ w = new)
    BY Zenon, <1>19
<1>21. \A m \in 1 .. used_ : m \in 1 .. count_
    BY <1>3
<1>22. ASSUME NEW i \in 1 .. pos_, Pending(i)
       PROVE  Pending(i)' \/ (how = "done" /\ i = r.req)
    <2>1. PICK m \in 1 .. used_ : buffers_[m].active /\ buffers_[m].req = i /\ buffers_[m].error # "done"
        BY Zenon, <1>22 DEF Pending
    <2>2. CASE m = r.slot
        BY ZenonT(60), <1>1, <1>6, <1>7, <2>1, <2>2 DEF Pending
    <2>3. CASE m # r.slot
        BY <1>1, <1>7, <1>21, <2>1, <2>3 DEF Pending
    <2>4. QED
        BY Zenon, <2>2, <2>3
<1>23. Landed'
    <2>1. ASSUME NEW i \in 1 .. pos_
          PROVE  i \in reported \/ Pending(i)' \/ \E p \in 1 .. i : <<p, i>> \in written'
        <3>1. CASE how = "done" /\ i = r.req
            BY Zenon, <1>17, <1>19, <3>1 DEF new
        <3>2. CASE ~(how = "done" /\ i = r.req)
            BY <1>5, <1>19, <1>22, <3>2 DEF Landed
        <3>3. QED
            BY <3>1, <3>2
    <2>2. \A i \in DOMAIN flying' : flying'[i].req \in 1 .. pos_
        BY Zenon, <1>5, <1>12 DEF Landed
    <2>3. \A w \in written' : w[2] \in 1 .. pos_ /\ w[1] \in 1 .. w[2] /\ w = <<w[1], w[2]>>
        BY SMTT(60), <1>5, <1>6, <1>17, <1>19, <1>20 DEF Landed
    <2>4. mode # "append" => \A w \in written' : w[1] = w[2]
        BY ZenonT(60), <1>5, <1>17, <1>19, <1>20 DEF Landed
    <2>5. QED
        BY Zenon, <1>1, <2>1, <2>2, <2>3, <2>4 DEF Landed
<1>24. Bad \/ how # "done" => Bad'
    <2>1. CASE how # "done"
        BY Zenon, <1>1, <1>6, <1>7, <2>1 DEF Bad
    <2>2. CASE reported # {}
        BY <1>1, <2>2 DEF Bad
    <2>3. ASSUME NEW m \in 1 .. used_, buffers_[m].active, buffers_[m].error \in {"short", "failed"}
          PROVE  Bad'
        <3>1. m # r.slot
            BY <1>6, <2>3
        <3>2. QED
            BY Zenon, <1>1, <1>7, <1>21, <2>3, <3>1 DEF Bad
    <2>4. QED
        BY SMTT(60), <2>1, <2>2, <2>3 DEF Bad
<1>25. ASSUME mode = "append" PROVE Appended'
    <2>1. Appended /\ k = 1 /\ place = Cardinality(written) + 1
        BY SMTT(60), <1>1, <1>5, <1>18, <1>25
    <2>2. \A i \in DOMAIN flying' :
             i + 1 \in DOMAIN flying /\ i + 1 # k /\ k < i + 1 /\ flying'[i] = flying[i + 1]
        BY <1>3, <1>8, <1>9, <2>1
    <2>3. /\ IsFiniteSet(written')
          /\ Cardinality(written') = IF how = "done" THEN Cardinality(written) + 1 ELSE Cardinality(written)
        <3>1. new \notin written
            BY <1>16, <1>19, <1>25, <2>1
        <3>2. IsFiniteSet(written)
            BY Zenon, <2>1 DEF Appended
        <3>3. QED
            BY Zenon, <1>19, <3>1, <3>2, FS_AddElement
    <2>4. \A w \in written : w[1] <= Cardinality(written) /\ w[2] < r.req /\ w[1] \in Nat
        BY SMTT(60), <1>5, <1>16, <1>25 DEF Landed
    <2>5. \A w \in written' : w[1] <= Cardinality(written')
        BY SMTT(60), <1>16, <1>19, <1>20, <1>25, <2>1, <2>3, <2>4
    <2>6. written' = {} \/ \E w \in written' : w[1] = Cardinality(written')
        <3>1. CASE how = "done"
            BY ZenonT(60), <1>19, <2>1, <2>3, <3>1
        <3>2. CASE how # "done"
            BY <1>19, <2>1, <2>3, <3>2 DEF Appended
        <3>3. QED
            BY <3>1, <3>2
    <2>7. ASSUME NEW w \in written', NEW v \in written', w[1] < v[1] PROVE w[2] < v[2]
        <3>1. CASE w \in written /\ v \in written
            BY <2>1, <2>7, <3>1 DEF Appended
        <3>2. CASE w \in written /\ v = new
            BY Zenon, <1>19, <2>4, <3>2
        <3>3. CASE w = new
            BY SMTT(60), <1>16, <1>19, <1>20, <1>25, <2>1, <2>4, <2>7, <3>3
        <3>4. QED
            BY Zenon, <1>20, <3>1, <3>2, <3>3
    <2>8. \A i, j \in DOMAIN flying' : i < j => flying'[i].req < flying'[j].req
        BY <1>9, <2>1, <2>2 DEF Appended
    <2>9. \A i \in DOMAIN flying' : r.req < flying'[i].req
        BY Zenon, <2>1, <2>2 DEF Appended, r
    <2>10. \A w \in written', i \in DOMAIN flying' : w[2] < flying'[i].req
        BY SMTT(60), <1>19, <1>20, <2>1, <2>2, <2>9 DEF Appended
    <2>11. ASSUME ~Bad'
           PROVE  /\ \A w \in written' : w[1] = w[2]
                  /\ \A i \in DOMAIN flying' : flying'[i].req = Cardinality(written') + i
                  /\ pos_ = Cardinality(written') + Len(flying')
        <3>1. /\ how = "done" /\ \A w \in written : w[1] = w[2]
              /\ \A l \in DOMAIN flying : flying[l].req = Cardinality(written) + l
              /\ pos_ = Cardinality(written) + Len(flying)
            BY Zenon, <1>24, <2>1, <2>11 DEF Appended
        <3>2. r.req = Cardinality(written) + 1
            BY <2>1, <3>1 DEF r
        <3>3. \A w \in written' : w[1] = w[2]
            BY ZenonT(60), <1>19, <1>20, <2>1, <3>1, <3>2
        <3>4. \A i \in DOMAIN flying' : flying'[i].req = Cardinality(written') + i
            BY SMTT(60), <1>9, <1>16, <1>25, <2>2, <2>3, <3>1
        <3>5. QED
            BY SMTT(60), <1>3, <1>8, <1>16, <1>25, <2>3, <3>1, <3>3, <3>4
    <2>12. QED
        BY Zenon, <1>1, <2>3, <2>5, <2>6, <2>7, <2>8, <2>10, <2>11 DEF Appended
<1>26. QED
    BY Zenon, <1>1, <1>10, <1>11, <1>15, <1>23, <1>25 DEF AioInv, Landing

\* Every step keeps the invariant.
LEMMA StepAio == ASSUME AioInv, Landing, [A!Next]_A!vars PROVE AioInv' /\ Landing'
<1>1. CASE UNCHANGED A!vars
    <2>1. /\ UNCHANGED <<count_, fd_, used_, pos_, buffers_, flying, mode, written, reported, abandoned>>
          /\ UNCHANGED <<call, at>>
        BY Zenon, <1>1 DEF A!vars, A!handle, A!system
    <2>2. InCall' /\ at' \in Nat
        BY Zenon, <2>1 DEF AioInv, InCall, AioTypes
    <2>3. QED
        BY Zenon, <2>1, <2>2, QuietAio
<1>2. ASSUME NEW m \in {"write", "append"}, A!Open(m) PROVE AioInv' /\ Landing'
    BY Zenon, <1>2, OpenAio
<1>3. CASE A!OpenThrows \/ A!Destroy
    BY Zenon, <1>3, GoneAio
<1>4. CASE A!WriteNew
    <2>1. /\ ~abandoned /\ fd_ /\ used_ < count_ /\ used_' = used_ + 1 /\ A!Submit(used_ + 1)
          /\ UNCHANGED <<count_, fd_, written, mode, reported, abandoned>>
        BY Zenon, <1>4 DEF A!WriteNew, A!Idle
    <2>2. used_ + 1 \in 1 .. count_
        BY <2>1 DEF AioInv, AioTypes
    <2>3. QED
        BY Zenon, <2>1, <2>2, SubmitAio
<1>5. CASE A!ScanTake
    <2>1. /\ call = "write" /\ at \in 1 .. count_ /\ buffers_[at].error = "done" /\ A!Submit(at)
          /\ UNCHANGED <<count_, fd_, used_, written, mode, reported, abandoned>>
        BY Zenon, <1>5 DEF A!ScanTake, A!Slots, A!Free, A!Written
    <2>2. fd_ /\ ~abandoned /\ at <= used_
        BY <2>1 DEF AioInv, InCall, AioTypes
    <2>3. QED
        BY Zenon, <2>1, <2>2, SubmitAio
<1>6. CASE A!ScanThrows
    <2>1. /\ call = "write" /\ at \in 1 .. count_ /\ buffers_[at].error \in {"short", "failed"} /\ A!Report(at)
          /\ UNCHANGED <<count_, fd_, used_, pos_, flying, written, mode, abandoned>>
        BY Zenon, <1>6 DEF A!ScanThrows, A!Slots, A!system
    <2>2. fd_ /\ ~abandoned /\ at \in 1 .. used_
        BY Zenon, <2>1 DEF AioInv, InCall, AioTypes
    <2>3. QED
        BY Zenon, <2>1, <2>2, ReportAio
<1>7. ASSUME NEW n \in 1 .. count_, A!FlushThrows(n) PROVE AioInv' /\ Landing'
    <2>1. /\ call \in {"flush", "close"} /\ n \in 1 .. used_ /\ buffers_[n].error \in {"short", "failed"}
          /\ A!Report(n) /\ UNCHANGED <<count_, fd_, used_, pos_, flying, written, mode, abandoned>>
        BY Zenon, <1>7 DEF A!FlushThrows, A!Current, A!Flushing, A!Active, A!system
    <2>2. fd_ /\ ~abandoned
        BY Zenon, <2>1 DEF AioInv, InCall
    <2>3. QED
        BY Zenon, <2>1, <2>2, ReportAio
<1>8. CASE A!WriteSuspend \/ A!ScanBusy \/ A!CallThrows \/ \E c \in {"flush", "close"} : A!Flush(c)
    <2>1. UNCHANGED <<count_, fd_, used_, pos_, buffers_, flying, mode, written, reported, abandoned>>
        BY <1>8 DEF A!WriteSuspend, A!ScanBusy, A!CallThrows, A!Flush, A!handle, A!system
    <2>2. InCall' /\ at' \in Nat
        <3>1. CASE A!WriteSuspend
            BY SMTT(60), <2>1, <3>1 DEF A!WriteSuspend, A!Idle, A!Slots, InCall, AioInv, AioTypes
        <3>2. CASE A!ScanBusy
            BY <2>1, <3>2 DEF A!ScanBusy, A!Slots, InCall, AioInv, AioTypes
        <3>3. CASE A!CallThrows
            BY Zenon, <2>1, <3>3 DEF A!CallThrows, A!Return, InCall
        <3>4. ASSUME NEW c \in {"flush", "close"}, A!Flush(c) PROVE InCall' /\ at' \in Nat
            BY <2>1, <3>4 DEF A!Flush, A!Idle, InCall, AioInv, AioTypes
        <3>5. QED
            BY Zenon, <1>8, <3>1, <3>2, <3>3, <3>4
    <2>3. QED
        BY ZenonT(60), <2>1, <2>2, QuietAio
<1>9. ASSUME NEW n \in 1 .. count_, A!FlushDone(n) PROVE AioInv' /\ Landing'
    BY Zenon, <1>9, FlushDoneAio
<1>10. CASE A!FlushReturn
    BY Zenon, <1>10, FlushReturnAio
<1>11. ASSUME NEW k \in DOMAIN flying, NEW how \in {"done", "short", "failed"}, A!Complete(k, how)
       PROVE  AioInv' /\ Landing'
    BY Zenon, <1>11, CompleteAio
<1>12. QED
    BY Zenon, <1>1, <1>2, <1>3, <1>4, <1>5, <1>6, <1>7, <1>8, <1>9, <1>10, <1>11 DEF A!Next, A!Slots

\* BuffersHeld: no buffer is filled again or freed while the system reads from it,
\* and getFreeSlot() finds a slot after aio_suspend(), whatever the number of buffers.
THEOREM BuffersHeldHolds == A!Spec => []BuffersHeld
<1>1. A!Init => AioInv /\ Landing
    BY Zenon, InitAio
<1>2. AioInv /\ Landing /\ [A!Next]_A!vars => AioInv' /\ Landing'
    BY Zenon, StepAio
<1>3. AioInv => BuffersHeld
    <2> SUFFICES ASSUME AioInv PROVE BuffersHeld
        BY Zenon
    <2>1. ~abandoned => \A k \in DOMAIN flying : buffers_[flying[k].slot].data = flying[k].req
        BY Zenon DEF AioInv, InFlight
    <2>2. call = "write" => at \in 1 .. count_
        BY DEF AioInv, InCall, AioTypes
    <2>3. QED
        BY Zenon, <2>1, <2>2 DEF BuffersHeld, A!BuffersHeld, A!Slots
<1>4. QED
    BY <1>1, <1>2, <1>3, PTL DEF A!Spec

\* Once no buffer is active, what was not reported is in the file.
LEMMA FlushedIsWritten ==
    ASSUME AioInv, Landing, fd_, ~abandoned, \A n \in 1 .. used_ : ~buffers_[n].active
    PROVE  /\ \A i \in 1 .. pos_ \ reported :
                IF mode = "append" /\ reported # {} THEN \E p \in 1 .. i : <<p, i>> \in written
                                                     ELSE <<i, i>> \in written
           /\ \A w, v \in written : w[1] < v[1] => w[2] < v[2]
<1>1. Landed /\ (mode = "append" => Appended)
    BY Zenon DEF Landing
<1>2. \A i : ~Pending(i)
    BY Zenon DEF Pending
<1>3. Bad => reported # {}
    BY Zenon DEF Bad
<1>4. \A i \in 1 .. pos_ \ reported : \E p \in 1 .. i : <<p, i>> \in written
    BY Zenon, <1>1, <1>2 DEF Landed
<1>5. ~(mode = "append" /\ reported # {}) => \A w \in written : w[1] = w[2]
    BY Zenon, <1>1, <1>3 DEF Landed, Appended
<1>6. ASSUME NEW i \in 1 .. pos_ \ reported, ~(mode = "append" /\ reported # {})
      PROVE  <<i, i>> \in written
    <2>1. PICK p \in 1 .. i : <<p, i>> \in written
        BY Zenon, <1>4
    <2>2. p = i
        BY Zenon, <1>5, <1>6, <2>1
    <2>3. QED
        BY Zenon, <2>1, <2>2
<1>7. ASSUME NEW w \in written, NEW v \in written, w[1] < v[1] PROVE w[2] < v[2]
    BY <1>1, <1>7 DEF Landed, Appended
<1>8. QED
    BY Zenon, <1>4, <1>6, <1>7

\* flush() and close() return by FlushReturn only.
LEMMA ReturnsByFlushReturn ==
    ASSUME A!Next, A!Flushing, call' = "none", outcome' = "returned" PROVE A!FlushReturn
<1>1. call \in {"flush", "close"}
    BY Zenon DEF A!Flushing
<1>2. \A m : ~A!Open(m)
    BY Zenon, <1>1 DEF A!Open, A!Idle
<1>3. ~A!OpenThrows /\ ~A!Destroy /\ ~A!WriteNew /\ ~A!WriteSuspend
    BY Zenon, <1>1 DEF A!OpenThrows, A!Destroy, A!WriteNew, A!WriteSuspend, A!Idle
<1>4. ~A!ScanBusy /\ ~A!ScanTake /\ ~A!ScanThrows
    BY Zenon, <1>1 DEF A!ScanBusy, A!ScanTake, A!ScanThrows
<1>5. \A c : ~A!Flush(c)
    BY Zenon, <1>1 DEF A!Flush, A!Idle
<1>6. \A n : ~A!FlushDone(n) /\ ~A!FlushThrows(n)
    BY Zenon, <1>1 DEF A!FlushDone, A!FlushThrows, A!Report, A!Return
<1>7. ~A!CallThrows
    BY Zenon DEF A!CallThrows, A!Return
<1>8. \A k, how : ~A!Complete(k, how)
    BY Zenon, <1>1 DEF A!Complete
<1>9. QED
    BY Zenon, <1>2, <1>3, <1>4, <1>5, <1>6, <1>7, <1>8 DEF A!Next

\* FlushMeansWritten: when flush() or close() returns, every write is in its place
\* in the file, or a call has thrown for it, whatever the order of completion.
THEOREM FlushMeansWrittenHolds == A!Spec => FlushMeansWritten
<1> DEFINE Act ==
        A!Flushing /\ call' = "none" /\ outcome' = "returned" /\ ~abandoned =>
          /\ \A i \in 1 .. pos_ \ reported :
                IF mode = "append" /\ reported # {} THEN \E p \in 1 .. i : <<p, i>> \in written
                                                     ELSE <<i, i>> \in written
          /\ \A w, v \in written : w[1] < v[1] => w[2] < v[2]
<1>1. A!Init => AioInv /\ Landing
    BY Zenon, InitAio
<1>2. AioInv /\ Landing /\ [A!Next]_A!vars => AioInv' /\ Landing'
    BY Zenon, StepAio
<1>3. AioInv /\ Landing /\ [A!Next]_A!vars => [Act]_A!vars
    <2> SUFFICES ASSUME AioInv, Landing, A!Next, A!Flushing, call' = "none", outcome' = "returned", ~abandoned
                 PROVE  /\ \A i \in 1 .. pos_ \ reported :
                              IF mode = "append" /\ reported # {}
                              THEN \E p \in 1 .. i : <<p, i>> \in written ELSE <<i, i>> \in written
                        /\ \A w, v \in written : w[1] < v[1] => w[2] < v[2]
        BY Zenon DEF Act
    <2>1. A!FlushReturn
        BY Zenon, ReturnsByFlushReturn
    <2>2. fd_ /\ \A n \in 1 .. used_ : ~buffers_[n].active
        BY Zenon, <2>1 DEF A!FlushReturn, A!Flushing, A!Active, AioInv, InCall
    <2>3. QED
        BY Zenon, <2>2, FlushedIsWritten
<1> HIDE DEF Act
<1>4. A!Spec => [][Act]_A!vars
    BY <1>1, <1>2, <1>3, PTL DEF A!Spec
<1>5. QED
    BY SMTT(60), <1>4 DEF FlushMeansWritten, A!FlushMeansWritten, Act
=============================================================================
