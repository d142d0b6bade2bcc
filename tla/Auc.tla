-------------------------------- MODULE Auc --------------------------------
(***************************************************************************)
(* Authentication vectors for one subscriber: the SQN in the database, the *)
(* vectors made from it for several VLRs, resynchronisation, failing       *)
(* updates, and an operator who replaces the keys.                         *)
(*                                                                         *)
(* src/src/db_auc.c, src/src/auc.c, rx_send_auth_info() of src/src/hlr.c,  *)
(* db_subscr_update_aud_by_id() of src/src/db_hlr.c and its commands.      *)
(* VLRs and the USIM are external.  Of a vector only the SQN matters here: *)
(* SEQ in the upper bits, and in the lower ones IND, the slot.             *)
(***************************************************************************)
EXTENDS Integers, Sequences, FiniteSetsExt

CONSTANTS
    Vlr,       \* the clients that ask for vectors
    Slots,     \* 2^ind_bitlen
    MaxInd,    \* the highest IND the GSUP server gives out
    MaxVec,    \* OSMO_GSUP_MAX_NUM_AUTH_INFO
    MaxSeq,    \* bound on SEQ
    NoRow,     \* no row in auc_3g
    NoAuts     \* no AUTS

ASSUME SlotsAssumption == Slots \in Nat \ {0}
ASSUME MaxIndAssumption == MaxInd \in Nat
ASSUME MaxVecAssumption == MaxVec \in Nat \ {0}
ASSUME MaxSeqAssumption == MaxSeq \in Nat \ {0}

VARIABLES
    row3g,     \* sqn of the row in auc_3g
    ind,       \* conn->auc_3g_ind of each client
    held,      \* vectors that each VLR has and has not used, in order
    auts,      \* SQN_MS of the AUTS that each VLR has to hand on
    usim,      \* the highest SEQ that the USIM has accepted, by slot
    askers,    \* history: the VLRs that were given vectors of a slot
    setBack    \* history: the SQN was set back, by new keys or an AUTS below
               \* it, or the USIM was ahead from the beginning

vars == <<row3g, ind, held, auts, usim, askers, setBack>>

Slot == 0..(Slots - 1)
Sqn == 0..(MaxSeq * Slots + Slots - 1)

ASSUME NoneAssumption == NoRow \notin Sqn /\ NoAuts \notin Sqn

SeqPart(s) == s \div Slots
IndPart(s) == s % Slots

TypeOK ==
    /\ row3g \in Sqn \cup {NoRow}
    /\ ind \in [Vlr -> 0..MaxInd]
    /\ held \in [Vlr -> Seq(Sqn)]
    /\ auts \in [Vlr -> Sqn \cup {NoAuts}]
    /\ usim \in [Slot -> 0..MaxSeq]
    /\ askers \in [Slot -> SUBSET Vlr]
    /\ setBack \in BOOLEAN

Init ==
    /\ row3g \in {0, NoRow}
    /\ ind \in [Vlr -> 0..MaxInd]
    /\ \A v, w \in Vlr : v # w => ind[v] # ind[w]
    /\ held = [v \in Vlr |-> <<>>]
    /\ auts = [v \in Vlr |-> NoAuts]
    /\ usim \in [Slot -> 0..1]
    /\ askers = [i \in Slot |-> {}]
    /\ setBack = (row3g = NoRow \/ \E i \in Slot : usim[i] > 0)

-----------------------------------------------------------------------------
(* The AuC. *)

(* Mutant: the IND of the client as it is. *)
IndUnmasked(i) == i

(* db_get_auc(): auc_3g_ind &= (1U << ind_bitlen) - 1 *)
IndMasked(i) == i % Slots

(* Mutant: SEQ is incremented only when the slot is not above the last one's. *)
NextSqnPlusOne(sqn, i, k) ==
    LET slot == IndMasked(i)
    IN  IF sqn % Slots < slot /\ k = 1 THEN SeqPart(sqn) * Slots + slot
        ELSE (SeqPart(sqn) + k) * Slots + slot

(* The SQN of the k-th call of osmo_auth_gen_vec() for a client with IND   *)
(* i, starting with sqn: each call increments SEQ and sets IND.            *)
SqnAfter(sqn, i, k) ==
    IF k = 0 THEN sqn ELSE (SeqPart(sqn) + k) * Slots + IndMasked(i)

(* auc_compute_vectors(): the vectors with which a loop that is left in    *)
(* round k + 1, or at the end, returns.                                    *)
auc_compute_vectors(sqn, i, k) == [j \in 1..k |-> SqnAfter(sqn, i, j)]

(* Mutant: resynchronisation does not override the SQN of the database. *)
StartIgnoringAuts(v, resync) == row3g

(* osmo_auth_gen_vec_auts() starts from the SQN of the USIM. *)
Start(v, resync) == IF resync THEN auts[v] ELSE row3g

(* Mutant: vectors are sent although the SQN could not be stored. *)
SentAnyway(updated, vectors) == vectors

(* db_get_auc() returns no vectors if db_update_sqn() fails. *)
Sent(updated, vectors) == IF updated THEN vectors ELSE <<>>

(* rx_send_auth_info() for num_auth_vectors = n, with AUTS or without.     *)
(* done: calls of osmo_auth_gen_vec() that have incremented the SQN.       *)
(* k: vectors returned; one less than done if the subscriber has 2G keys   *)
(* too and the 2G part of the last one failed.  Both are less than n if    *)
(* random numbers or an algorithm failed; if none was made, an AUTS has    *)
(* not been looked at, or was not valid.  The VLR replaces the vectors it  *)
(* has.                                                                    *)
rx_send_auth_info(v, n, resync) ==
    /\ row3g # NoRow
    /\ resync = (auts[v] # NoAuts)
    /\ \E done \in 0..n, k \in 0..n, updated \in BOOLEAN :
         LET start == Start(v, resync)
             sqn == IF done = 0 THEN row3g ELSE SqnAfter(start, ind[v], done)
             sent == Sent(updated, auc_compute_vectors(start, ind[v], k))
         IN  /\ k \in {done, done - 1}
             /\ SeqPart(start) + done <= MaxSeq
             /\ row3g' = IF updated THEN sqn ELSE row3g
             /\ held' = [held EXCEPT ![v] = IF sent = <<>> THEN @ ELSE sent]
             /\ askers' = IF sent = <<>> THEN askers
                          ELSE [askers EXCEPT ![IndPart(sent[1])] = @ \cup {v}]
             /\ setBack' = (setBack \/ (updated /\ done > 0 /\ start < row3g))
    /\ auts' = [auts EXCEPT ![v] = NoAuts]
    /\ UNCHANGED <<ind, usim>>

(* rx_send_auth_info() for a subscriber without 3G keys: an AUTS is        *)
(* refused; vectors of 2G keys have no SQN.                                *)
rx_send_auth_info_2g(v) ==
    /\ row3g = NoRow
    /\ auts' = [auts EXCEPT ![v] = NoAuts]
    /\ UNCHANGED <<row3g, ind, held, usim, askers, setBack>>

-----------------------------------------------------------------------------
(* VLRs and the USIM. *)

SqnMs == Max({usim[i] * Slots + i : i \in Slot})

(* A VLR challenges the USIM with its next vector.  The USIM accepts a SEQ *)
(* above the highest one it has seen in the slot; else it returns AUTS and *)
(* the VLR drops what it has.                                              *)
Authenticate(v) ==
    /\ held[v] # <<>> /\ auts[v] = NoAuts
    /\ LET s == Head(held[v])
       IN  IF SeqPart(s) > usim[IndPart(s)]
           THEN /\ usim' = [usim EXCEPT ![IndPart(s)] = SeqPart(s)]
                /\ held' = [held EXCEPT ![v] = Tail(@)]
                /\ UNCHANGED auts
           ELSE /\ held' = [held EXCEPT ![v] = <<>>]
                /\ auts' = [auts EXCEPT ![v] = SqnMs]
                /\ UNCHANGED usim
    /\ UNCHANGED <<row3g, ind, askers, setBack>>

(* A client connects again and gets an IND that no other client has        *)
(* (IndAllocation of GsupServer).                                          *)
Reconnect(v, i) ==
    /\ \A w \in Vlr \ {v} : ind[w] # i
    /\ ind' = [ind EXCEPT ![v] = i]
    /\ UNCHANGED <<row3g, held, auts, usim, askers, setBack>>

-----------------------------------------------------------------------------
(* The operator. *)

(* db_subscr_update_aud_by_id() for 3G: the rows that may be there after   *)
(* deleting the old one, which may fail, and inserting a new one, which    *)
(* may fail too.  A new row has the default SQN.                           *)
Rows3gAfter(insert) == {row3g, NoRow} \cup (IF insert THEN {0} ELSE {})

(* subscriber_aud3g, subscriber_no_aud3g and, without insert, the part of  *)
(* db_subscr_delete_by_id() that is about 3G.                              *)
subscriber_aud3g(insert) ==
    /\ row3g' \in Rows3gAfter(insert) \ {row3g}
    /\ setBack' = TRUE
    /\ UNCHANGED <<ind, held, auts, usim, askers>>

Next ==
    \/ \E v \in Vlr, n \in 1..MaxVec, resync \in BOOLEAN : rx_send_auth_info(v, n, resync)
    \/ \E v \in Vlr : rx_send_auth_info_2g(v)
    \/ \E v \in Vlr : Authenticate(v)
    \/ \E v \in Vlr, i \in 0..MaxInd : Reconnect(v, i)
    \/ \E insert \in BOOLEAN : subscriber_aud3g(insert)

Spec == Init /\ [][Next]_vars

-----------------------------------------------------------------------------
(* Properties. *)

(* As long as the SQN is not set back, no two vectors that VLRs have, at   *)
(* whatever VLR, have the same SQN, and all are covered by the SQN in the  *)
(* database: a failed update or a failed vector does not lead to a reuse.  *)
NoReuse ==
    ~setBack =>
        /\ \A v \in Vlr : \A i \in 1..Len(held[v]) : held[v][i] <= row3g
        /\ \A v, w \in Vlr : \A i \in 1..Len(held[v]), j \in 1..Len(held[w]) :
              held[v][i] = held[w][j] => v = w /\ i = j

(* Then also the USIM accepts the next vector of a VLR, in whatever order  *)
(* the VLRs use theirs, if the VLR did not have to share its slot.         *)
NextAccepted ==
    ~setBack => \A v \in Vlr : held[v] # <<>> =>
        LET s == Head(held[v])
        IN  askers[IndPart(s)] = {v} => SeqPart(s) > usim[IndPart(s)]

(* The vectors sent for an AUTS are accepted by the USIM, wherever it was, *)
(* if it has accepted none since it made the AUTS.                         *)
HealStep ==
    \A v \in Vlr :
        auts[v] # NoAuts /\ auts'[v] = NoAuts /\ auts[v] = SqnMs /\ held'[v] # <<>>
           => \A j \in 1..Len(held'[v]), i \in Slot : SeqPart(held'[v][j]) > usim[i]

(* HealStep holds of every step. *)
ResyncHeals == [][HealStep]_vars

=============================================================================
