------------------------------ MODULE AucProofs ------------------------------
(***************************************************************************)
(* Proofs about the SQNs that the AuC gives out, for any number of VLRs,   *)
(* slots, INDs, vectors in a batch and any bound on SEQ: no SQN is used    *)
(* twice, a VLR with a slot of its own is served well, and an AUTS heals.  *)
(***************************************************************************)
EXTENDS Auc, WellFoundedInduction, TLAPS

(* Sets of numbers. *)

(* A non-empty set of natural numbers has a least member. *)
LEMMA LeastNat ==
    ASSUME NEW T \in SUBSET Nat, T # {}
    PROVE  \E x \in T : \A y \in T : x <= y
<1> DEFINE R == OpToRel(<, Nat)
<1>1. IsWellFoundedOn(R, Nat)
  BY NatLessThanWellFounded
<1>2. \A y, x \in Nat : y < x => <<y, x>> \in R
  BY DEF OpToRel
<1> HIDE DEF R
<1>3. PICK x \in T : \A y \in T : ~ (<<y, x>> \in R)
  BY <1>1, WFMin
<1>4. ASSUME NEW y \in T PROVE x <= y
  <2>1. x \in Nat /\ y \in Nat
    OBVIOUS
  <2>2. ~(y < x)
    BY <1>2, <1>3, <2>1
  <2> QED
    BY <2>1, <2>2
<1> QED
  BY <1>4

(* A set of numbers with a bound has a greatest member. *)
LEMMA MaxIs ==
    ASSUME NEW b \in Nat, NEW T \in SUBSET (0..b), T # {}
    PROVE  Max(T) \in T /\ \A y \in T : y <= Max(T)
<1> DEFINE U == {b - y : y \in T}
<1>1. U \in SUBSET Nat /\ U # {}
  <2>1. \A y \in T : b - y \in Nat
    OBVIOUS
  <2>2. PICK y \in T : TRUE
    OBVIOUS
  <2>3. b - y \in U
    OBVIOUS
  <2> QED
    BY <2>1, <2>3
<1>2. PICK u \in U : \A w \in U : u <= w
  BY <1>1, LeastNat
<1>3. PICK x \in T : u = b - x
  BY <1>2
<1>4. \A y \in T : x >= y
  <2> TAKE y \in T
  <2>1. b - x <= b - y
    BY <1>2, <1>3
  <2> QED
    BY <2>1
<1>5. \E m \in T : \A y \in T : m >= y
  BY <1>4
<1>6. Max(T) \in T /\ \A y \in T : Max(T) >= y
  BY <1>5 DEF Max
<1> QED
  BY <1>6

-----------------------------------------------------------------------------
(* The invariant. *)

(* A batch is made with rising SEQ, all in one slot. *)
Batch ==
    \A v \in Vlr : \A i, j \in 1..Len(held[v]) :
        /\ IndPart(held[v][i]) = IndPart(held[v][j])
        /\ i < j => SeqPart(held[v][i]) < SeqPart(held[v][j])

(* Who has vectors of a slot is on record as one who was given some. *)
AskersKnown ==
    \A v \in Vlr : \A i \in 1..Len(held[v]) : v \in askers[IndPart(held[v][i])]

(* A VLR with an AUTS to hand on has dropped its vectors. *)
AutsEmpty == \A v \in Vlr : auts[v] # NoAuts => held[v] = <<>>

(* The SQN in the database is above all that the USIM has seen. *)
Covered ==
    ~setBack => row3g # NoRow /\ \A i \in Slot : usim[i] <= SeqPart(row3g)

(* NextAccepted for all vectors that a VLR has. *)
Accepted ==
    ~setBack => \A v \in Vlr : \A i \in 1..Len(held[v]) :
        LET s == held[v][i]
        IN  askers[IndPart(s)] = {v} => SeqPart(s) > usim[IndPart(s)]

IInv ==
    /\ TypeOK
    /\ Batch
    /\ AskersKnown
    /\ AutsEmpty
    /\ Covered
    /\ NoReuse
    /\ Accepted

-----------------------------------------------------------------------------
(* SEQ and IND. *)

LEMMA MultMonotone ==
    ASSUME NEW a \in Nat, NEW b \in Nat, NEW c \in Nat, a <= b
    PROVE  a * c <= b * c
<1>1. b - a \in Nat /\ b = a + (b - a)
  OBVIOUS
<1>2. b * c = a * c + (b - a) * c
  BY <1>1
<1>3. a * c \in Nat /\ (b - a) * c \in Nat
  BY <1>1
<1> QED
  BY <1>2, <1>3

(* An SQN is its SEQ and its IND. *)
LEMMA SqnParts ==
    ASSUME NEW s \in Nat
    PROVE  /\ SeqPart(s) \in Nat
           /\ IndPart(s) \in Slot
           /\ s = SeqPart(s) * Slots + IndPart(s)
  BY SlotsAssumption DEF SeqPart, IndPart, Slot

(* And no other SEQ and IND make the same SQN. *)
LEMMA SqnOf ==
    ASSUME NEW q \in Nat, NEW i \in Slot
    PROVE  /\ q * Slots + i \in Nat
           /\ SeqPart(q * Slots + i) = q
           /\ IndPart(q * Slots + i) = i
<1> DEFINE s == q * Slots + i
           p == SeqPart(s)
           h == IndPart(s)
<1>1. Slots \in Nat \ {0} /\ i \in 0..(Slots - 1)
  BY SlotsAssumption DEF Slot
<1>2. s \in Nat
  BY <1>1
<1>3. p \in Nat /\ h \in 0..(Slots - 1) /\ s = p * Slots + h
  BY <1>2, SqnParts DEF Slot
<1> HIDE DEF p, h
<1>4. ASSUME p < q PROVE FALSE
  <2>1. (p + 1) * Slots <= q * Slots
    BY <1>1, <1>3, <1>4, MultMonotone
  <2>2. (p + 1) * Slots = p * Slots + Slots
    BY <1>1, <1>3
  <2>3. p * Slots \in Nat /\ q * Slots \in Nat
    BY <1>1, <1>3
  <2> QED
    BY <1>1, <1>3, <2>1, <2>2, <2>3
<1>5. ASSUME q < p PROVE FALSE
  <2>1. (q + 1) * Slots <= p * Slots
    BY <1>1, <1>3, <1>5, MultMonotone
  <2>2. (q + 1) * Slots = q * Slots + Slots
    BY <1>1
  <2>3. p * Slots \in Nat /\ q * Slots \in Nat
    BY <1>1, <1>3
  <2> QED
    BY <1>1, <1>3, <2>1, <2>2, <2>3
<1>6. p = q
  BY <1>3, <1>4, <1>5
<1>7. h = i
  <2>1. q * Slots \in Nat
    BY <1>1
  <2> QED
    BY <1>1, <1>3, <1>6, <2>1
<1> QED
  BY <1>2, <1>6, <1>7 DEF p, h

(* A higher SEQ makes a higher SQN. *)
LEMMA SeqMonotone ==
    ASSUME NEW s \in Nat, NEW t \in Nat
    PROVE  /\ SeqPart(s) < SeqPart(t) => s < t
           /\ s <= t => SeqPart(s) <= SeqPart(t)
<1> DEFINE p == SeqPart(s)
           q == SeqPart(t)
<1>1. /\ p \in Nat /\ IndPart(s) \in 0..(Slots - 1) /\ s = p * Slots + IndPart(s)
      /\ q \in Nat /\ IndPart(t) \in 0..(Slots - 1) /\ t = q * Slots + IndPart(t)
  BY SqnParts DEF Slot
<1> HIDE DEF p, q
<1>2. ASSUME p < q PROVE s < t
  <2>1. (p + 1) * Slots <= q * Slots
    BY <1>1, <1>2, MultMonotone, SlotsAssumption
  <2>2. (p + 1) * Slots = p * Slots + Slots
    BY <1>1, SlotsAssumption
  <2>3. p * Slots \in Nat /\ q * Slots \in Nat /\ Slots \in Nat
    BY <1>1, SlotsAssumption
  <2> QED
    BY <1>1, <2>1, <2>2, <2>3
<1>3. ASSUME q < p PROVE t < s
  <2>1. (q + 1) * Slots <= p * Slots
    BY <1>1, <1>3, MultMonotone, SlotsAssumption
  <2>2. (q + 1) * Slots = q * Slots + Slots
    BY <1>1, SlotsAssumption
  <2>3. p * Slots \in Nat /\ q * Slots \in Nat /\ Slots \in Nat
    BY <1>1, SlotsAssumption
  <2> QED
    BY <1>1, <2>1, <2>2, <2>3
<1> QED
  BY <1>1, <1>2, <1>3 DEF p, q

(* The bound on SQNs is one on SEQ. *)
LEMMA SqnBound ==
    /\ \A s \in Sqn : s \in Nat /\ SeqPart(s) \in 0..MaxSeq /\ IndPart(s) \in Slot
    /\ \A q \in 0..MaxSeq, i \in Slot : q * Slots + i \in Sqn
<1>1. MaxSeq * Slots \in Nat /\ Slots \in Nat \ {0} /\ MaxSeq \in Nat
  BY MaxSeqAssumption, SlotsAssumption
<1>2. ASSUME NEW s \in Sqn
      PROVE  s \in Nat /\ SeqPart(s) \in 0..MaxSeq /\ IndPart(s) \in Slot
  <2> DEFINE t == MaxSeq * Slots + (Slots - 1)
  <2>1. s \in Nat /\ t \in Nat /\ s <= t
    BY <1>1 DEF Sqn
  <2>2. SeqPart(t) = MaxSeq
    BY <1>1, SqnOf DEF Slot
  <2>3. SeqPart(s) <= SeqPart(t)
    BY <2>1, SeqMonotone
  <2> QED
    BY <2>1, <2>2, <2>3, <1>1, SqnParts
<1>3. ASSUME NEW q \in 0..MaxSeq, NEW i \in Slot
      PROVE  q * Slots + i \in Sqn
  <2>1. q * Slots <= MaxSeq * Slots
    BY <1>1, MultMonotone
  <2>2. q * Slots \in Nat
    BY <1>1
  <2> QED
    BY <1>1, <2>1, <2>2 DEF Sqn, Slot
<1> QED
  BY <1>2, <1>3

-----------------------------------------------------------------------------
(* The vectors of one call of db_get_auc(). *)

LEMMA MaskedIsSlot == \A i \in 0..MaxInd : IndMasked(i) \in Slot
  BY SlotsAssumption, MaxIndAssumption DEF IndMasked, Slot

(* The j-th vector has the j-th SEQ after the start, and the slot of the   *)
(* client.                                                                 *)
LEMMA VectorIs ==
    ASSUME NEW sqn \in Sqn, NEW i \in 0..MaxInd, NEW j \in Nat \ {0},
           SeqPart(sqn) + j <= MaxSeq
    PROVE  /\ SqnAfter(sqn, i, j) \in Sqn
           /\ SeqPart(SqnAfter(sqn, i, j)) = SeqPart(sqn) + j
           /\ IndPart(SqnAfter(sqn, i, j)) = IndMasked(i)
<1>1. SeqPart(sqn) + j \in Nat /\ SeqPart(sqn) + j \in 0..MaxSeq
  BY SqnBound, MaxSeqAssumption
<1>2. SqnAfter(sqn, i, j) = (SeqPart(sqn) + j) * Slots + IndMasked(i)
  BY DEF SqnAfter
<1> QED
  BY <1>1, <1>2, MaskedIsSlot, SqnBound, SqnOf

(* What a batch that reaches a VLR is: it was stored, starts above the SQN *)
(* it was made from, and ends at or below the SQN that is stored.          *)
LEMMA SentIs ==
    ASSUME TypeOK, NEW v \in Vlr, NEW n \in 1..MaxVec, NEW resync \in BOOLEAN,
           rx_send_auth_info(v, n, resync)
    PROVE  LET start == Start(v, resync)
           IN  /\ start \in Sqn
               /\ \/ /\ held' = held /\ askers' = askers
                     /\ row3g' \in Sqn
                     /\ setBack' \in BOOLEAN
                     /\ ~setBack' => ~setBack /\ row3g <= row3g'
                  \/ \E sent \in Seq(Sqn) :
                     /\ sent # <<>>
                     /\ held' = [held EXCEPT ![v] = sent]
                     /\ askers' = [askers EXCEPT ![IndMasked(ind[v])] = @ \cup {v}]
                     /\ \A j \in 1..Len(sent) : /\ SeqPart(sent[j]) = SeqPart(start) + j
                                                /\ IndPart(sent[j]) = IndMasked(ind[v])
                                                /\ sent[j] <= row3g'
                     /\ row3g' \in Sqn
                     /\ SeqPart(row3g') > SeqPart(start)
                     /\ setBack' = (setBack \/ start < row3g)
<1> DEFINE start == Start(v, resync)
<1>1. PICK done \in 0..n, k \in 0..n, updated \in BOOLEAN :
         LET sqn == IF done = 0 THEN row3g ELSE SqnAfter(start, ind[v], done)
             sent == Sent(updated, auc_compute_vectors(start, ind[v], k))
         IN  /\ k \in {done, done - 1}
             /\ SeqPart(start) + done <= MaxSeq
             /\ row3g' = IF updated THEN sqn ELSE row3g
             /\ held' = [held EXCEPT ![v] = IF sent = <<>> THEN @ ELSE sent]
             /\ askers' = IF sent = <<>> THEN askers
                          ELSE [askers EXCEPT ![IndPart(sent[1])] = @ \cup {v}]
             /\ setBack' = (setBack \/ (updated /\ done > 0 /\ start < row3g))
  BY DEF rx_send_auth_info
<1> DEFINE sqn == IF done = 0 THEN row3g ELSE SqnAfter(start, ind[v], done)
           vectors == auc_compute_vectors(start, ind[v], k)
           sent == Sent(updated, vectors)
<1>2. start \in Sqn /\ row3g \in Sqn
  BY DEF rx_send_auth_info, Start, TypeOK
<1>3. ind[v] \in 0..MaxInd /\ held[v] \in Seq(Sqn) /\ setBack \in BOOLEAN
  BY DEF TypeOK
<1>4. done \in Nat /\ k \in Nat /\ n \in Nat
  BY MaxVecAssumption
<1>5. SeqPart(start) \in Nat /\ start \in Nat /\ row3g \in Nat
  BY <1>2, SqnBound
<1> HIDE DEF start
<1>6. ASSUME done # 0
      PROVE  /\ sqn \in Sqn /\ SeqPart(sqn) = SeqPart(start) + done
             /\ IndPart(sqn) = IndMasked(ind[v])
  BY <1>1, <1>2, <1>3, <1>4, <1>6, VectorIs
<1>7. ASSUME NEW j \in 1..k
      PROVE  /\ SqnAfter(start, ind[v], j) \in Sqn
             /\ SeqPart(SqnAfter(start, ind[v], j)) = SeqPart(start) + j
             /\ IndPart(SqnAfter(start, ind[v], j)) = IndMasked(ind[v])
  <2>1. j \in Nat \ {0} /\ SeqPart(start) + j <= MaxSeq
    BY <1>1, <1>4, <1>5, MaxSeqAssumption
  <2> QED
    BY <1>2, <1>3, <2>1, VectorIs
<1>8. vectors \in Seq(Sqn) /\ Len(vectors) = k /\ \A j \in 1..k : vectors[j] = SqnAfter(start, ind[v], j)
  BY <1>4, <1>7 DEF auc_compute_vectors
<1>9. row3g' \in Sqn
  BY <1>1, <1>2, <1>6
<1>10. CASE sent = <<>>
  <2>1. held' = held /\ askers' = askers
    BY <1>1, <1>10 DEF TypeOK
  <2>2. ASSUME ~setBack' PROVE ~setBack /\ row3g <= row3g'
    <3>0. ~setBack /\ ~(updated /\ done > 0 /\ start < row3g)
      <4>1. setBack' = (setBack \/ (updated /\ done > 0 /\ start < row3g))
        BY <1>1
      <4> QED
        BY <2>2, <4>1, Zenon
    <3>1. CASE updated /\ done # 0
      <4>1. row3g <= start
        BY <1>4, <1>5, <3>0, <3>1
      <4>2. SeqPart(start) < SeqPart(sqn) /\ sqn \in Nat
        BY <1>4, <1>5, <1>6, <3>1, SqnBound
      <4>3. start < sqn
        BY <1>5, <4>2, SeqMonotone
      <4>4. row3g' = sqn
        BY <1>1, <3>1
      <4> QED
        BY <1>5, <3>0, <4>1, <4>2, <4>3, <4>4
    <3>2. CASE ~(updated /\ done # 0)
      BY <1>1, <1>5, <3>0, <3>2
    <3> QED
      BY <3>1, <3>2
  <2> QED
    BY <1>1, <1>2, <1>3, <1>9, <2>1, <2>2 DEF start
<1>11. CASE sent # <<>>
  <2>1. updated /\ sent = vectors /\ k # 0
    BY <1>8, <1>11 DEF Sent
  <2>2. done # 0 /\ k <= done /\ row3g' = sqn
    BY <1>1, <1>4, <2>1
  <2>3. SeqPart(row3g') = SeqPart(start) + done /\ IndPart(row3g') = IndMasked(ind[v])
    BY <1>6, <2>2
  <2>4. ASSUME NEW j \in 1..Len(sent)
        PROVE  /\ SeqPart(sent[j]) = SeqPart(start) + j
               /\ IndPart(sent[j]) = IndMasked(ind[v])
               /\ sent[j] <= row3g'
    <3>1. j \in 1..k /\ sent[j] = SqnAfter(start, ind[v], j)
      BY <1>8, <2>1
    <3>2. /\ SeqPart(sent[j]) = SeqPart(start) + j
          /\ IndPart(sent[j]) = IndMasked(ind[v])
          /\ sent[j] \in Nat /\ row3g' \in Nat
      BY <1>7, <1>9, <3>1, SqnBound
    <3>3. CASE j < done
      <4>1. SeqPart(sent[j]) < SeqPart(row3g')
        BY <1>4, <1>5, <2>3, <3>1, <3>2, <3>3
      <4> QED
        BY <3>2, <4>1, SeqMonotone
    <3>4. CASE j = done
      <4>1. sent[j] = row3g'
        BY <2>2, <3>1, <3>4
      <4> QED
        BY <3>2, <4>1
    <3> QED
      BY <1>4, <2>2, <3>1, <3>2, <3>3, <3>4
  <2>5. /\ held' = [held EXCEPT ![v] = sent]
        /\ askers' = [askers EXCEPT ![IndPart(sent[1])] = @ \cup {v}]
        /\ setBack' = (setBack \/ start < row3g)
    BY <1>1, <1>4, <1>11, <2>1, <2>2
  <2>6. IndPart(sent[1]) = IndMasked(ind[v])
    <3>1. 1 \in 1..Len(sent)
      <4>1. Len(sent) = k
        BY <1>8, <2>1
      <4>2. k \in Nat /\ k # 0
        BY <1>4, <2>1
      <4> HIDE DEF sent
      <4> QED
        BY <4>1, <4>2
    <3> QED
      BY <2>4, <3>1
  <2>7. SeqPart(row3g') > SeqPart(start)
    BY <1>4, <1>5, <2>2, <2>3
  <2>8. sent \in Seq(Sqn)
    BY <1>8, <2>1
  <2> HIDE DEF sent
  <2> QED
    BY <1>2, <1>9, <1>11, <2>4, <2>5, <2>6, <2>7, <2>8 DEF start
<1> QED
  BY <1>10, <1>11

-----------------------------------------------------------------------------
(* The USIM. *)

(* The SQN that the USIM returns is above all it has accepted. *)
LEMMA SqnMsIs ==
    ASSUME usim \in [Slot -> 0..MaxSeq]
    PROVE  /\ SqnMs \in Sqn
           /\ \A i \in Slot : usim[i] <= SeqPart(SqnMs)
<1> DEFINE T == {usim[i] * Slots + i : i \in Slot}
           b == MaxSeq * Slots + Slots - 1
<1>1. Slots \in Nat \ {0} /\ MaxSeq \in Nat /\ MaxSeq * Slots \in Nat
  BY SlotsAssumption, MaxSeqAssumption
<1>2. \A i \in Slot : usim[i] * Slots + i \in Sqn
  BY SqnBound
<1>3. T \in SUBSET Sqn
  BY <1>2
<1>4. 0 \in Slot
  BY <1>1 DEF Slot
<1>5. usim[0] * Slots + 0 \in T
  BY <1>4
<1>6. b \in Nat /\ Sqn = 0..b
  BY <1>1 DEF Sqn
<1> HIDE DEF T, b
<1>7. Max(T) \in T /\ \A y \in T : y <= Max(T)
  BY <1>3, <1>5, <1>6, MaxIs
<1>8. SqnMs = Max(T)
  BY DEF SqnMs, T
<1>9. ASSUME NEW i \in Slot
      PROVE  usim[i] <= SeqPart(SqnMs)
  <2> DEFINE s == usim[i] * Slots + i
  <2>1. s \in T
    BY DEF T
  <2>2. s <= SqnMs /\ s \in Nat /\ SqnMs \in Nat
    BY <1>3, <1>7, <1>8, <2>1, SqnBound
  <2>3. SeqPart(s) = usim[i]
    BY MaxSeqAssumption, SqnOf
  <2> HIDE DEF s
  <2>4. SeqPart(s) <= SeqPart(SqnMs)
    BY <2>2, SeqMonotone
  <2> QED
    BY <2>3, <2>4
<1> QED
  BY <1>3, <1>7, <1>8, <1>9

-----------------------------------------------------------------------------
(* The invariant. *)

LEMMA InitIInv == Init => IInv
<1> SUFFICES ASSUME Init PROVE IInv
  OBVIOUS
<1> USE DEF Init
<1>1. 0 \in Sqn /\ 0 \in 0..MaxSeq
  <2>1. 0 = 0 * Slots + 0 /\ 0 \in Slot
    BY SlotsAssumption DEF Slot
  <2>2. 0 \in 0..MaxSeq
    BY MaxSeqAssumption
  <2> QED
    BY <2>1, <2>2, SqnBound
<1>2. \A v \in Vlr : held[v] = <<>> /\ Len(held[v]) = 0 /\ auts[v] = NoAuts
  OBVIOUS
<1>3. SeqPart(0) = 0
  <2>1. 0 = 0 * Slots + 0 /\ 0 \in Slot
    BY SlotsAssumption DEF Slot
  <2> QED
    BY <2>1, SqnOf
<1>4. setBack \in BOOLEAN /\ (~setBack => row3g # NoRow /\ ~\E i \in Slot : usim[i] > 0)
  BY Zenon
<1>5. TypeOK
  <2>1. held \in [Vlr -> Seq(Sqn)] /\ auts \in [Vlr -> Sqn \cup {NoAuts}]
    OBVIOUS
  <2>2. usim \in [Slot -> 0..MaxSeq]
    BY MaxSeqAssumption
  <2> QED
    BY <1>1, <1>4, <2>1, <2>2 DEF TypeOK
<1>6. Batch /\ AskersKnown /\ AutsEmpty /\ NoReuse /\ Accepted
  BY <1>2 DEF Batch, AskersKnown, AutsEmpty, NoReuse, Accepted
<1>7. Covered
  <2> SUFFICES ASSUME ~setBack PROVE row3g # NoRow /\ \A i \in Slot : usim[i] <= SeqPart(row3g)
    BY DEF Covered
  <2>1. row3g = 0 /\ \A i \in Slot : usim[i] = 0
    BY <1>4
  <2> QED
    BY <1>3, <1>4, <2>1
<1> QED
  BY <1>5, <1>6, <1>7 DEF IInv

(* Vectors are sent. *)
LEMMA SendKeeps ==
    ASSUME IInv, NEW v \in Vlr, NEW n \in 1..MaxVec, NEW resync \in BOOLEAN,
           rx_send_auth_info(v, n, resync)
    PROVE  IInv'
<1> DEFINE start == Start(v, resync)
           slot == IndMasked(ind[v])
<1>1. TypeOK /\ Batch /\ AskersKnown /\ AutsEmpty /\ Covered /\ NoReuse /\ Accepted
  BY DEF IInv
<1>2. /\ auts' = [auts EXCEPT ![v] = NoAuts] /\ ind' = ind /\ usim' = usim
      /\ row3g # NoRow
  BY DEF rx_send_auth_info
<1>3. /\ start \in Sqn /\ start \in Nat /\ row3g \in Sqn /\ row3g \in Nat
      /\ SeqPart(start) \in Nat /\ SeqPart(row3g) \in Nat /\ slot \in Slot
  <2>1. start \in Sqn
    BY <1>1, SentIs
  <2>2. row3g \in Sqn /\ ind[v] \in 0..MaxInd
    BY <1>1, <1>2 DEF TypeOK
  <2> QED
    BY <2>1, <2>2, SqnBound, MaskedIsSlot
<1>4. CASE /\ held' = held /\ askers' = askers
           /\ row3g' \in Sqn
           /\ setBack' \in BOOLEAN
           /\ ~setBack' => ~setBack /\ row3g <= row3g'
  <2>1. row3g' \in Nat /\ row3g' # NoRow
    BY <1>4, SqnBound, NoneAssumption
  <2>2. TypeOK'
    BY <1>1, <1>2, <1>4 DEF TypeOK
  <2>3. Batch' /\ AskersKnown'
    BY <1>1, <1>4 DEF Batch, AskersKnown
  <2>4. AutsEmpty'
    BY <1>1, <1>2, <1>4 DEF AutsEmpty, TypeOK
  <2>5. ASSUME ~setBack' PROVE ~setBack /\ row3g <= row3g' /\ SeqPart(row3g) <= SeqPart(row3g')
    BY <1>3, <1>4, <2>1, <2>5, SeqMonotone
  <2>6. Covered'
    <3> SUFFICES ASSUME ~setBack', NEW i \in Slot PROVE usim[i] <= SeqPart(row3g')
      BY <1>2, <2>1 DEF Covered
    <3>1. usim[i] \in Nat /\ usim[i] <= SeqPart(row3g) /\ SeqPart(row3g') \in Nat
      BY <1>1, <1>4, <2>5, SqnBound, MaxSeqAssumption DEF Covered, TypeOK
    <3> QED
      BY <1>3, <2>5, <3>1
  <2>7. NoReuse'
    <3> SUFFICES ASSUME ~setBack' PROVE NoReuse'
      BY DEF NoReuse
    <3>1. ASSUME NEW w \in Vlr, NEW i \in 1..Len(held[w])
          PROVE  held[w][i] <= row3g'
      <4>1. held[w][i] \in Nat /\ held[w][i] <= row3g
        <5>1. held[w] \in Seq(Sqn)
          BY <1>1 DEF TypeOK
        <5>2. held[w][i] \in Sqn
          BY <5>1
        <5>3. held[w][i] <= row3g
          BY <1>1, <2>5 DEF NoReuse
        <5> QED
          BY <5>2, <5>3, SqnBound
      <4> QED
        BY <1>3, <2>1, <2>5, <4>1
    <3> QED
      BY <1>1, <1>4, <2>5, <3>1 DEF NoReuse
  <2>8. Accepted'
    BY <1>1, <1>2, <1>4 DEF Accepted
  <2> QED
    BY <2>2, <2>3, <2>4, <2>6, <2>7, <2>8 DEF IInv
<1>5. CASE \E sent \in Seq(Sqn) :
             /\ sent # <<>>
             /\ held' = [held EXCEPT ![v] = sent]
             /\ askers' = [askers EXCEPT ![slot] = @ \cup {v}]
             /\ \A j \in 1..Len(sent) : /\ SeqPart(sent[j]) = SeqPart(start) + j
                                        /\ IndPart(sent[j]) = slot
                                        /\ sent[j] <= row3g'
             /\ row3g' \in Sqn
             /\ SeqPart(row3g') > SeqPart(start)
             /\ setBack' = (setBack \/ start < row3g)
  <2>1. PICK sent \in Seq(Sqn) :
             /\ sent # <<>>
             /\ held' = [held EXCEPT ![v] = sent]
             /\ askers' = [askers EXCEPT ![slot] = @ \cup {v}]
             /\ \A j \in 1..Len(sent) : /\ SeqPart(sent[j]) = SeqPart(start) + j
                                        /\ IndPart(sent[j]) = slot
                                        /\ sent[j] <= row3g'
             /\ row3g' \in Sqn
             /\ SeqPart(row3g') > SeqPart(start)
             /\ setBack' = (setBack \/ start < row3g)
    BY <1>5
  <2> HIDE DEF start, slot
  <2>2. row3g' \in Nat /\ row3g' # NoRow /\ SeqPart(row3g') \in Nat
    BY <2>1, SqnBound, NoneAssumption
  <2>3. setBack' \in BOOLEAN /\ (~setBack' => ~setBack /\ ~(start < row3g))
    <3>1. setBack' = (setBack \/ start < row3g) /\ setBack \in BOOLEAN
      BY <1>1, <2>1 DEF TypeOK
    <3> QED
      BY <3>1, Zenon
  <2>4. /\ \A w \in Vlr : held'[w] = IF w = v THEN sent ELSE held[w]
        /\ \A w \in Vlr : held[w] \in Seq(Sqn)
        /\ \A i \in Slot : askers'[i] = IF i = slot THEN askers[slot] \cup {v} ELSE askers[i]
    BY <1>1, <1>3, <2>1 DEF TypeOK
  <2>5. ASSUME ~setBack'
        PROVE  /\ ~setBack /\ row3g <= start /\ row3g < row3g'
               /\ SeqPart(row3g) <= SeqPart(start)
    <3>1. ~setBack /\ row3g <= start
      BY <1>3, <2>3, <2>5
    <3>2. SeqPart(row3g) <= SeqPart(start) /\ start < row3g'
      BY <1>3, <2>1, <2>2, <3>1, SeqMonotone
    <3> QED
      BY <1>3, <2>2, <3>1, <3>2
  <2>6. TypeOK'
    <3>1. held' \in [Vlr -> Seq(Sqn)] /\ askers' \in [Slot -> SUBSET Vlr]
      BY <1>1, <1>3, <2>1 DEF TypeOK
    <3> QED
      BY <1>1, <1>2, <2>1, <2>3, <3>1 DEF TypeOK
  <2>7. Batch'
    <3> SUFFICES ASSUME NEW w \in Vlr, NEW i \in 1..Len(held'[w]), NEW j \in 1..Len(held'[w])
                 PROVE  /\ IndPart(held'[w][i]) = IndPart(held'[w][j])
                        /\ i < j => SeqPart(held'[w][i]) < SeqPart(held'[w][j])
      BY DEF Batch
    <3>1. CASE w = v
      BY <1>3, <2>1, <2>4, <3>1
    <3>2. CASE w # v
      BY <1>1, <2>4, <3>2 DEF Batch
    <3> QED
      BY <3>1, <3>2
  <2>8. AskersKnown'
    <3> SUFFICES ASSUME NEW w \in Vlr, NEW i \in 1..Len(held'[w])
                 PROVE  w \in askers'[IndPart(held'[w][i])]
      BY DEF AskersKnown
    <3>1. CASE w = v
      BY <1>3, <2>1, <2>4, <3>1
    <3>2. CASE w # v
      <4>1. IndPart(held[w][i]) \in Slot /\ w \in askers[IndPart(held[w][i])]
        BY <1>1, <2>4, <3>2, SqnBound DEF AskersKnown
      <4> QED
        BY <2>4, <3>2, <4>1
    <3> QED
      BY <3>1, <3>2
  <2>9. AutsEmpty'
    BY <1>1, <1>2, <2>4 DEF AutsEmpty, TypeOK
  <2>10. Covered'
    <3> SUFFICES ASSUME ~setBack', NEW i \in Slot PROVE usim[i] <= SeqPart(row3g')
      BY <1>2, <2>2 DEF Covered
    <3>1. usim[i] \in Nat /\ usim[i] <= SeqPart(row3g)
      BY <1>1, <2>5, MaxSeqAssumption DEF Covered, TypeOK
    <3> QED
      BY <1>3, <2>1, <2>2, <2>5, <3>1
  <2>11. ASSUME ~setBack', NEW w \in Vlr \ {v}, NEW i \in 1..Len(held[w])
         PROVE  held[w][i] \in Nat /\ held[w][i] <= row3g
                  /\ SeqPart(held[w][i]) <= SeqPart(row3g) /\ SeqPart(held[w][i]) \in Nat
    <3>1. held[w][i] \in Sqn
      BY <2>4
    <3>2. held[w][i] \in Nat /\ SeqPart(held[w][i]) \in Nat
      BY <3>1, SqnBound
    <3>3. held[w][i] <= row3g
      BY <1>1, <2>5, <2>11 DEF NoReuse
    <3> QED
      BY <1>3, <3>2, <3>3, SeqMonotone
  <2>12. ASSUME ~setBack', NEW w \in Vlr \ {v}, NEW i \in 1..Len(held[w]), NEW j \in 1..Len(sent)
         PROVE  held[w][i] # sent[j]
    <3>1. SeqPart(sent[j]) = SeqPart(start) + j /\ j > 0 /\ j \in Nat
      BY <2>1
    <3>2. SeqPart(held[w][i]) < SeqPart(sent[j])
      BY <1>3, <2>5, <2>11, <2>12, <3>1
    <3>3. SeqPart(held[w][i]) \in Nat
      BY <2>11, <2>12
    <3> QED
      BY <3>2, <3>3
  <2>13. NoReuse'
    <3> SUFFICES ASSUME ~setBack' PROVE NoReuse'
      BY DEF NoReuse
    <3>1. ASSUME NEW w \in Vlr, NEW i \in 1..Len(held'[w])
          PROVE  held'[w][i] <= row3g'
      <4>1. CASE w = v
        BY <2>1, <2>4, <4>1
      <4>2. CASE w # v
        BY <1>3, <2>2, <2>4, <2>5, <2>11, <4>2
      <4> QED
        BY <4>1, <4>2
    <3>2. ASSUME NEW u \in Vlr, NEW w \in Vlr, NEW i \in 1..Len(held'[u]), NEW j \in 1..Len(held'[w]),
                 held'[u][i] = held'[w][j]
          PROVE  u = w /\ i = j
      <4>1. CASE u = v /\ w = v
        <5>1. SeqPart(start) + i = SeqPart(start) + j
          BY <2>1, <2>4, <3>2, <4>1
        <5> QED
          BY <1>3, <4>1, <5>1
      <4>2. CASE u = v /\ w # v
        <5>1. i \in 1..Len(sent) /\ j \in 1..Len(held[w]) /\ held'[u] = sent /\ held'[w] = held[w]
          BY <2>4, <4>2
        <5>2. held[w][j] # sent[i]
          BY <2>12, <4>2, <5>1
        <5> QED
          BY <3>2, <5>1, <5>2
      <4>3. CASE u # v /\ w = v
        BY <2>4, <2>12, <3>2, <4>3
      <4>4. CASE u # v /\ w # v
        BY <1>1, <2>4, <2>5, <3>2, <4>4 DEF NoReuse
      <4> QED
        BY <4>1, <4>2, <4>3, <4>4
    <3> QED
      BY <3>1, <3>2 DEF NoReuse
  <2>14. Accepted'
    <3> SUFFICES ASSUME ~setBack', NEW w \in Vlr, NEW i \in 1..Len(held'[w]),
                        askers'[IndPart(held'[w][i])] = {w}
                 PROVE  SeqPart(held'[w][i]) > usim[IndPart(held'[w][i])]
      BY <1>2 DEF Accepted
    <3>1. CASE w = v
      <4>1. held'[w][i] = sent[i] /\ i \in 1..Len(sent) /\ i \in Nat /\ i > 0
        BY <2>4, <3>1
      <4>2. IndPart(sent[i]) = slot /\ SeqPart(sent[i]) = SeqPart(start) + i
        BY <2>1, <4>1
      <4>3. usim[slot] <= SeqPart(row3g) /\ usim[slot] \in Nat
        BY <1>1, <1>3, <2>5, MaxSeqAssumption DEF Covered, TypeOK
      <4> QED
        BY <1>3, <2>5, <4>1, <4>2, <4>3
    <3>2. CASE w # v
      <4>1. held'[w][i] = held[w][i] /\ i \in 1..Len(held[w])
        BY <2>4, <3>2
      <4>2. IndPart(held[w][i]) \in Slot
        BY <2>4, <4>1, SqnBound
      <4>3. w \in askers[IndPart(held[w][i])]
        BY <1>1, <4>1 DEF AskersKnown
      <4>4. askers[IndPart(held[w][i])] = {w}
        BY <2>4, <3>2, <4>1, <4>2, <4>3
      <4> QED
        BY <1>1, <2>5, <4>1, <4>4 DEF Accepted
    <3> QED
      BY <3>1, <3>2
  <2> QED
    BY <2>6, <2>7, <2>8, <2>9, <2>10, <2>13, <2>14 DEF IInv
<1> QED
  BY <1>1, <1>4, <1>5, SentIs

(* The USIM is challenged. *)
LEMMA AuthenticateKeeps ==
    ASSUME IInv, NEW v \in Vlr, Authenticate(v)
    PROVE  IInv'
<1> DEFINE s == Head(held[v])
           slot == IndPart(s)
<1>1. TypeOK /\ Batch /\ AskersKnown /\ AutsEmpty /\ Covered /\ NoReuse /\ Accepted
  BY DEF IInv
<1>2. /\ held[v] # <<>> /\ held[v] \in Seq(Sqn) /\ s = held[v][1] /\ 1 \in 1..Len(held[v])
      /\ UNCHANGED <<row3g, ind, askers, setBack>>
      /\ auts[v] = NoAuts
  BY <1>1 DEF Authenticate, TypeOK
<1>3. s \in Sqn /\ SeqPart(s) \in 0..MaxSeq /\ slot \in Slot
  <2>1. held[v][1] \in Sqn
    BY <1>2
  <2>2. s \in Sqn
    BY <1>2, <2>1
  <2> HIDE DEF s
  <2> QED
    BY <2>2, SqnBound
<1>4. PICK h \in Seq(Sqn) :
        /\ held' = [held EXCEPT ![v] = h]
        /\ \/ /\ SeqPart(s) > usim[slot] /\ usim' = [usim EXCEPT ![slot] = SeqPart(s)]
              /\ h = Tail(held[v]) /\ auts' = auts
           \/ /\ h = <<>> /\ usim' = usim
              /\ auts' = [auts EXCEPT ![v] = SqnMs]
  <2>1. Tail(held[v]) \in Seq(Sqn) /\ <<>> \in Seq(Sqn)
    BY <1>2
  <2> QED
    BY <2>1 DEF Authenticate
<1>5. /\ \A w \in Vlr : held'[w] = IF w = v THEN h ELSE held[w]
      /\ \A w \in Vlr : held[w] \in Seq(Sqn)
  BY <1>1, <1>4 DEF TypeOK
<1>6. \A i \in 1..Len(h) : i + 1 \in 1..Len(held[v]) /\ h[i] = held[v][i + 1]
  <2>1. CASE h = Tail(held[v])
    BY <1>2, <2>1
  <2>2. CASE h = <<>>
    BY <2>2
  <2> QED
    BY <1>4, <2>1, <2>2
<1>7. TypeOK'
  <2>1. held' \in [Vlr -> Seq(Sqn)]
    BY <1>1, <1>4 DEF TypeOK
  <2>2. usim' \in [Slot -> 0..MaxSeq]
    BY <1>1, <1>3, <1>4 DEF TypeOK
  <2>3. auts' \in [Vlr -> Sqn \cup {NoAuts}]
    BY <1>1, <1>4, SqnMsIs DEF TypeOK
  <2> QED
    BY <1>1, <1>2, <2>1, <2>2, <2>3 DEF TypeOK
<1> HIDE DEF s, slot
<1>8. Batch'
  <2> SUFFICES ASSUME NEW w \in Vlr, NEW i \in 1..Len(held'[w]), NEW j \in 1..Len(held'[w])
               PROVE  /\ IndPart(held'[w][i]) = IndPart(held'[w][j])
                      /\ i < j => SeqPart(held'[w][i]) < SeqPart(held'[w][j])
    BY DEF Batch
  <2>1. CASE w = v
    <3>1. /\ i + 1 \in 1..Len(held[v]) /\ j + 1 \in 1..Len(held[v]) /\ (i < j => i + 1 < j + 1)
          /\ held'[w][i] = held[v][i + 1] /\ held'[w][j] = held[v][j + 1]
      BY <1>5, <1>6, <2>1
    <3> QED
      BY <1>1, <3>1 DEF Batch
  <2>2. CASE w # v
    BY <1>1, <1>5, <2>2 DEF Batch
  <2> QED
    BY <2>1, <2>2
<1>9. AskersKnown'
  <2> SUFFICES ASSUME NEW w \in Vlr, NEW i \in 1..Len(held'[w])
               PROVE  w \in askers[IndPart(held'[w][i])]
    BY <1>2 DEF AskersKnown
  <2>1. CASE w = v
    <3>1. i + 1 \in 1..Len(held[v]) /\ held'[w][i] = held[v][i + 1]
      BY <1>5, <1>6, <2>1
    <3> QED
      BY <1>1, <2>1, <3>1 DEF AskersKnown
  <2>2. CASE w # v
    BY <1>1, <1>5, <2>2 DEF AskersKnown
  <2> QED
    BY <2>1, <2>2
<1>10. AutsEmpty'
  <2> SUFFICES ASSUME NEW w \in Vlr, auts'[w] # NoAuts
               PROVE  held'[w] = <<>>
    BY DEF AutsEmpty
  <2>1. CASE w = v
    BY <1>2, <1>4, <1>5, <2>1
  <2>2. CASE w # v
    BY <1>1, <1>4, <1>5, <2>2 DEF AutsEmpty, TypeOK
  <2> QED
    BY <2>1, <2>2
<1>11. Covered'
  <2> SUFFICES ASSUME ~setBack, NEW i \in Slot PROVE usim'[i] <= SeqPart(row3g)
    BY <1>1, <1>2 DEF Covered
  <2>1. row3g \in Nat /\ s \in Nat /\ s <= row3g
    <3>1. row3g \in Sqn
      BY <1>1 DEF Covered, TypeOK
    <3>2. s <= row3g
      BY <1>1, <1>2 DEF NoReuse
    <3> QED
      BY <1>3, <3>1, <3>2, SqnBound
  <2>2. SeqPart(s) <= SeqPart(row3g)
    BY <2>1, SeqMonotone
  <2>3. usim[i] <= SeqPart(row3g)
    BY <1>1 DEF Covered
  <2>4. usim'[i] \in {usim[i], SeqPart(s)}
    BY <1>1, <1>4 DEF TypeOK
  <2> QED
    BY <2>2, <2>3, <2>4
<1>12. NoReuse'
  <2> SUFFICES ASSUME ~setBack PROVE NoReuse'
    BY <1>2 DEF NoReuse
  <2>1. ASSUME NEW w \in Vlr, NEW i \in 1..Len(held'[w])
        PROVE  \E k \in 1..Len(held[w]) :
                  held'[w][i] = held[w][k] /\ k = IF w = v THEN i + 1 ELSE i
    BY <1>5, <1>6
  <2>2. ASSUME NEW w \in Vlr, NEW i \in 1..Len(held'[w])
        PROVE  held'[w][i] <= row3g
    BY <1>1, <2>1 DEF NoReuse
  <2>3. ASSUME NEW u \in Vlr, NEW w \in Vlr, NEW i \in 1..Len(held'[u]), NEW j \in 1..Len(held'[w]),
               held'[u][i] = held'[w][j]
        PROVE  u = w /\ i = j
    <3>1. PICK k \in 1..Len(held[u]) : held'[u][i] = held[u][k] /\ k = IF u = v THEN i + 1 ELSE i
      BY <2>1
    <3>2. PICK l \in 1..Len(held[w]) : held'[w][j] = held[w][l] /\ l = IF w = v THEN j + 1 ELSE j
      BY <2>1
    <3>3. u = w /\ k = l
      <4>1. held[u][k] = held[w][l]
        BY <2>3, <3>1, <3>2
      <4> QED
        BY <1>1, <4>1 DEF NoReuse
    <3> QED
      BY <3>1, <3>2, <3>3
  <2> QED
    BY <1>2, <2>2, <2>3 DEF NoReuse
<1>13. Accepted'
  <2> SUFFICES ASSUME ~setBack, NEW w \in Vlr, NEW i \in 1..Len(held'[w]),
                      askers[IndPart(held'[w][i])] = {w}
               PROVE  SeqPart(held'[w][i]) > usim'[IndPart(held'[w][i])]
    BY <1>2 DEF Accepted
  <2>1. CASE w = v
    <3>1. i + 1 \in 1..Len(held[v]) /\ held'[w][i] = held[v][i + 1] /\ 1 < i + 1
      BY <1>5, <1>6, <2>1
    <3>2. IndPart(held[v][i + 1]) = slot /\ SeqPart(s) < SeqPart(held[v][i + 1])
      BY <1>1, <1>2, <3>1 DEF Batch, slot
    <3>3. SeqPart(held[v][i + 1]) > usim[slot]
      BY <1>1, <2>1, <3>1, <3>2 DEF Accepted
    <3>4. usim'[slot] \in {usim[slot], SeqPart(s)}
      BY <1>1, <1>4 DEF TypeOK
    <3>5. SeqPart(s) \in Nat /\ SeqPart(held[v][i + 1]) \in Nat
      <4>1. held[v][i + 1] \in Sqn
        BY <1>5, <3>1
      <4>2. SeqPart(held[v][i + 1]) \in 0..MaxSeq
        BY <4>1, SqnBound
      <4> QED
        BY <1>3, <4>2, MaxSeqAssumption
    <3> QED
      BY <3>1, <3>2, <3>3, <3>4, <3>5
  <2>2. CASE w # v
    <3>1. i \in 1..Len(held[w]) /\ held'[w][i] = held[w][i]
      BY <1>5, <2>2
    <3>2. SeqPart(held[w][i]) > usim[IndPart(held[w][i])]
      BY <1>1, <3>1 DEF Accepted
    <3>3. IndPart(held[w][i]) # slot
      <4>1. v \in askers[slot]
        BY <1>1, <1>2 DEF AskersKnown, slot
      <4> QED
        BY <2>2, <3>1, <4>1
    <3>4. IndPart(held[w][i]) \in Slot
      BY <1>5, <3>1, SqnBound
    <3>5. usim'[IndPart(held[w][i])] = usim[IndPart(held[w][i])]
      BY <1>1, <1>4, <3>3, <3>4 DEF TypeOK
    <3> QED
      BY <3>1, <3>2, <3>5
  <2> QED
    BY <2>1, <2>2
<1> QED
  BY <1>7, <1>8, <1>9, <1>10, <1>11, <1>12, <1>13 DEF IInv

LEMMA NextIInv == IInv /\ [Next]_vars => IInv'
<1> SUFFICES ASSUME IInv, [Next]_vars
             PROVE  IInv'
  OBVIOUS
<1> USE DEF IInv
<1>1. ASSUME NEW v \in Vlr, NEW n \in 1..MaxVec, NEW resync \in BOOLEAN,
             rx_send_auth_info(v, n, resync)
      PROVE  IInv'
  BY <1>1, SendKeeps
<1>2. ASSUME NEW v \in Vlr, rx_send_auth_info_2g(v)
      PROVE  IInv'
  <2>1. UNCHANGED <<row3g, ind, held, usim, askers, setBack>> /\ auts' = [auts EXCEPT ![v] = NoAuts]
    BY <1>2 DEF rx_send_auth_info_2g
  <2>2. TypeOK' /\ AutsEmpty'
    BY <2>1 DEF TypeOK, AutsEmpty
  <2> QED
    BY <2>1, <2>2 DEF Batch, AskersKnown, Covered, NoReuse, Accepted
<1>3. ASSUME NEW v \in Vlr, Authenticate(v)
      PROVE  IInv'
  BY <1>3, AuthenticateKeeps
<1>4. ASSUME NEW v \in Vlr, NEW i \in 0..MaxInd, Reconnect(v, i)
      PROVE  IInv'
  <2>1. UNCHANGED <<row3g, held, auts, usim, askers, setBack>> /\ ind' = [ind EXCEPT ![v] = i]
    BY <1>4 DEF Reconnect
  <2>2. TypeOK'
    BY <2>1 DEF TypeOK
  <2> QED
    BY <2>1, <2>2 DEF Batch, AskersKnown, AutsEmpty, Covered, NoReuse, Accepted
<1>5. ASSUME NEW insert \in BOOLEAN, subscriber_aud3g(insert)
      PROVE  IInv'
  <2>1. UNCHANGED <<ind, held, auts, usim, askers>> /\ setBack' = TRUE
    BY <1>5 DEF subscriber_aud3g
  <2>2. row3g' \in Sqn \cup {NoRow}
    <3>1. 0 \in Sqn
      <4>1. 0 \in Slot /\ 0 \in 0..MaxSeq /\ 0 = 0 * Slots + 0
        BY SlotsAssumption, MaxSeqAssumption DEF Slot
      <4> QED
        BY <4>1, SqnBound
    <3> QED
      BY <1>5, <3>1 DEF subscriber_aud3g, Rows3gAfter, TypeOK
  <2>3. TypeOK'
    BY <2>1, <2>2 DEF TypeOK
  <2>4. Batch' /\ AskersKnown' /\ AutsEmpty'
    BY <2>1 DEF Batch, AskersKnown, AutsEmpty
  <2> QED
    BY <2>1, <2>3, <2>4 DEF Covered, NoReuse, Accepted
<1>6. CASE UNCHANGED vars
  BY <1>6 DEF vars, TypeOK, Batch, AskersKnown, AutsEmpty, Covered, NoReuse, Accepted
<1> QED
  BY <1>1, <1>2, <1>3, <1>4, <1>5, <1>6 DEF Next

-----------------------------------------------------------------------------
(* The theorems. *)

(* The variables keep their types: IND of a vector is masked, and no SQN   *)
(* leaves its range.                                                       *)
THEOREM TypeCorrect == Spec => []TypeOK
<1>1. IInv => TypeOK
  BY DEF IInv
<1> QED
  BY <1>1, InitIInv, NextIInv, PTL DEF Spec

(* No two vectors that VLRs have were made with the same SQN, whichever    *)
(* calls of db_get_auc() failed half-way or could not store theirs, as     *)
(* long as the SQN in the database is not set back.                        *)
THEOREM VectorsUnique == Spec => []NoReuse
<1>1. IInv => NoReuse
  BY DEF IInv
<1> QED
  BY <1>1, InitIInv, NextIInv, PTL DEF Spec

(* The USIM accepts the next vector of a VLR that has its slot for itself, *)
(* in whatever order VLRs use their vectors.                               *)
THEOREM OwnSlotAccepted == Spec => []NextAccepted
<1>1. IInv => NextAccepted
  <2> SUFFICES ASSUME IInv, ~setBack, NEW v \in Vlr, held[v] # <<>>,
                      askers[IndPart(Head(held[v]))] = {v}
               PROVE  SeqPart(Head(held[v])) > usim[IndPart(Head(held[v]))]
    BY DEF NextAccepted
  <2>1. held[v] \in Seq(Sqn)
    BY DEF IInv, TypeOK
  <2>2. 1 \in 1..Len(held[v]) /\ Head(held[v]) = held[v][1]
    BY <2>1
  <2> QED
    BY <2>2 DEF IInv, Accepted
<1> QED
  BY <1>1, InitIInv, NextIInv, PTL DEF Spec

(* After a resynchronisation the USIM accepts every vector of the batch,   *)
(* wherever it was: osmo_auth_gen_vec_auts() starts from the SQN of the    *)
(* USIM, which is above those of all slots.                                *)
THEOREM AutsHeals == Spec => ResyncHeals
<1>1. ASSUME IInv, [Next]_vars
      PROVE  [HealStep]_vars
  <2> SUFFICES ASSUME Next,
                      NEW v \in Vlr, auts[v] # NoAuts, auts'[v] = NoAuts, auts[v] = SqnMs,
                      held'[v] # <<>>, NEW j \in 1..Len(held'[v]), NEW i \in Slot
               PROVE  SeqPart(held'[v][j]) > usim[i]
    BY <1>1 DEF HealStep
  <2>1. TypeOK /\ held[v] = <<>>
    BY <1>1 DEF IInv, AutsEmpty
  <2>2. usim[i] \in Nat /\ usim[i] <= SeqPart(SqnMs) /\ SeqPart(SqnMs) \in Nat
    <3>1. usim \in [Slot -> 0..MaxSeq] /\ MaxSeq \in Nat
      BY <2>1, MaxSeqAssumption DEF TypeOK
    <3>2. SqnMs \in Sqn /\ usim[i] <= SeqPart(SqnMs)
      BY <3>1, SqnMsIs
    <3>3. SeqPart(SqnMs) \in 0..MaxSeq
      BY <3>2, SqnBound
    <3> QED
      BY <3>1, <3>2, <3>3
  <2>3. ASSUME NEW w \in Vlr, NEW n \in 1..MaxVec, NEW resync \in BOOLEAN,
               rx_send_auth_info(w, n, resync)
        PROVE  SeqPart(held'[v][j]) > usim[i]
    <3>1. w = v
      BY <2>1, <2>3 DEF rx_send_auth_info, TypeOK
    <3>2. Start(w, resync) = SqnMs
      BY <2>3, <3>1 DEF rx_send_auth_info, Start
    <3>3. SeqPart(held'[v][j]) = SeqPart(SqnMs) + j
      <4>1. \/ held' = held
            \/ \E sent \in Seq(Sqn) :
                  /\ held' = [held EXCEPT ![w] = sent]
                  /\ \A k \in 1..Len(sent) : SeqPart(sent[k]) = SeqPart(Start(w, resync)) + k
        BY <2>1, <2>3, SentIs
      <4>2. PICK sent \in Seq(Sqn) :
                  /\ held' = [held EXCEPT ![w] = sent]
                  /\ \A k \in 1..Len(sent) : SeqPart(sent[k]) = SeqPart(Start(w, resync)) + k
        BY <2>1, <4>1
      <4>3. held'[v] = sent
        BY <2>1, <3>1, <4>2 DEF TypeOK
      <4> QED
        BY <3>2, <4>2, <4>3
    <3>4. j \in Nat /\ j > 0
      OBVIOUS
    <3> QED
      BY <2>2, <3>3, <3>4
  <2>4. ASSUME NEW w \in Vlr, rx_send_auth_info_2g(w) PROVE FALSE
    BY <2>1, <2>4 DEF rx_send_auth_info_2g
  <2>5. ASSUME NEW w \in Vlr, Authenticate(w) PROVE FALSE
    <3>1. w # v
      BY <2>1, <2>5 DEF Authenticate
    <3>2. auts'[v] = auts[v]
      BY <2>1, <2>5, <3>1 DEF Authenticate, TypeOK
    <3> QED
      BY <3>2
  <2>6. ASSUME NEW w \in Vlr, NEW k \in 0..MaxInd, Reconnect(w, k) PROVE FALSE
    BY <2>6 DEF Reconnect
  <2>7. ASSUME NEW insert \in BOOLEAN, subscriber_aud3g(insert) PROVE FALSE
    BY <2>7 DEF subscriber_aud3g
  <2> QED
    BY <2>3, <2>4, <2>5, <2>6, <2>7 DEF Next
<1> QED
  BY <1>1, InitIInv, NextIInv, PTL DEF Spec, ResyncHeals

=============================================================================
