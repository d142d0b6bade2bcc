---------------------------- MODULE LuFsmProofs ----------------------------
(* Proofs about LuFsm, for every set of subscribers and VLRs and every     *)
(* number of messages.                                                     *)
EXTENDS LuFsm, SequenceTheorems, TLAPS

(* Lists. *)

(* What removing the k-th element of a sequence leaves. *)
LEMMA RemoveAtProperties ==
    ASSUME NEW S, NEW s \in Seq(S), NEW k \in 1..Len(s)
    PROVE  /\ RemoveAt(s, k) \in Seq(S)
           /\ Len(RemoveAt(s, k)) = Len(s) - 1
           /\ \A j \in 1..(Len(s) - 1) :
                 RemoveAt(s, k)[j] = IF j < k THEN s[j] ELSE s[j+1]
<1> DEFINE a == SubSeq(s, 1, k-1)
           b == SubSeq(s, k+1, Len(s))
<1>1. a \in Seq(S) /\ Len(a) = k-1 /\ \A j \in 1..(k-1) : a[j] = s[j]
  BY SMT
<1>2. b \in Seq(S) /\ Len(b) = Len(s)-k /\ \A j \in 1..(Len(s)-k) : b[j] = s[k+j]
  BY SMT
<1>3. RemoveAt(s, k) = a \o b
  BY DEF RemoveAt
<1> HIDE DEF a, b
<1>4. /\ a \o b \in Seq(S)
      /\ Len(a \o b) = Len(a) + Len(b)
      /\ \A j \in 1..(Len(a) + Len(b)) :
            (a \o b)[j] = IF j <= Len(a) THEN a[j] ELSE b[j - Len(a)]
  BY <1>1, <1>2, ConcatProperties
<1> QED
  BY <1>1, <1>2, <1>3, <1>4, SMT

(* Adding an element at the head of a list, as llist_add() does. *)
LEMMA ConsProperties ==
    ASSUME NEW S, NEW s \in Seq(S), NEW x \in S
    PROVE  /\ <<x>> \o s \in Seq(S)
           /\ Len(<<x>> \o s) = Len(s) + 1
           /\ (<<x>> \o s)[1] = x
           /\ \A j \in 1..Len(s) : (<<x>> \o s)[j+1] = s[j]
<1>1. <<x>> \in Seq(S) /\ Len(<<x>>) = 1 /\ <<x>>[1] = x
  OBVIOUS
<1> QED
  BY <1>1, ConcatProperties, SMT

-----------------------------------------------------------------------------
(* The invariant. *)

(* The inductive invariant: LuOwnsRequest and AnsweredOnce need the types, *)
(* and that a number about to be given out belongs to no request yet.      *)
IInv == TypeOK /\ FutureUnused /\ LuOwnsRequest /\ AnsweredOnce

(* The Init states are typed and have no requests. *)
LEMMA InitIInv == Init => IInv
<1> SUFFICES ASSUME Init PROVE IInv
  OBVIOUS
<1> USE NoVlrAssumption, MaxReqAssumption DEF Init
<1>1. TypeOK
  BY DEF TypeOK, Subscriber, NewSubscr, Peer, Domain, Number, Lu, Nr, Request, Isd
<1>2. FutureUnused /\ LuOwnsRequest /\ AnsweredOnce
  BY DEF FutureUnused, LuOwnsRequest, AnsweredOnce
<1> QED
  BY <1>1, <1>2 DEF IInv

(* The number a location update holds is a request number. *)
LEMMA LuNumbers == IInv => \A k \in DOMAIN lus : lus[k].nr \in Nr
<1> SUFFICES ASSUME IInv, NEW k \in DOMAIN lus PROVE lus[k].nr \in Nr
  OBVIOUS
<1>1. lus \in Seq(Lu)
  BY DEF IInv, TypeOK
<1>2. lus[k] \in Lu
  BY <1>1, LenProperties, ElementOfSeq
<1> QED
  BY <1>2 DEF Lu

(* Ending a location update keeps the requests and the list in step: used  *)
(* by all three ways it ends. rq is the requests after the message that    *)
(* ends it, if any, was recorded under a number not used before.           *)
LEMMA EndLuKeeps ==
    ASSUME IInv, NEW k \in DOMAIN lus, NEW rq \in [Nr -> Request],
           EndLu(k, rq),
           \A r \in Nr : reqs[r].kind = "ulr" \/ rq[r].kind = "ulr" => rq[r] = reqs[r]
    PROVE  /\ lus' \in Seq(Lu)
           /\ reqs' \in [Nr -> Request]
           /\ LuOwnsRequest'
           /\ AnsweredOnce'
           /\ \A r \in Nr : rq[r].kind = "none" => reqs'[r].kind = "none"
<1> DEFINE n == lus[k].nr
<1>1. lus \in Seq(Lu) /\ k \in 1..Len(lus) /\ n \in Nr
  <2>1. lus \in Seq(Lu)
    BY DEF IInv, TypeOK
  <2>2. k \in 1..Len(lus)
    BY <2>1, LenProperties
  <2>3. lus[k] \in Lu
    BY <2>1, <2>2, ElementOfSeq
  <2> QED
    BY <2>1, <2>2, <2>3 DEF Lu
<1>2. /\ lus' \in Seq(Lu) /\ Len(lus') = Len(lus) - 1
      /\ \A j \in 1..(Len(lus) - 1) : lus'[j] = IF j < k THEN lus[j] ELSE lus[j+1]
  BY <1>1, RemoveAtProperties DEF EndLu
<1>3. /\ reqs' \in [Nr -> Request]
      /\ reqs'[n] = Concluded(rq[n])
      /\ \A r \in Nr : r # n => reqs'[r] = rq[r]
  <2>1. rq[n] \in Request
    BY <1>1
  <2>2. reqs' = [rq EXCEPT ![n] = Concluded(rq[n])]
    BY <1>1 DEF EndLu
  <2>3. Concluded(rq[n]) \in Request
    BY <2>1 DEF Concluded, Request
  <2> QED
    BY <1>1, <2>2, <2>3
<1>4. reqs[n].kind = "ulr" /\ reqs[n].open /\ reqs[n].answers = 0
  BY <1>1 DEF IInv, LuOwnsRequest, AnsweredOnce
<1>5. rq[n] = reqs[n]
  BY <1>1, <1>4
<1>6. reqs'[n].kind = "ulr" /\ ~reqs'[n].open /\ reqs'[n].answers = 1
  BY <1>3, <1>4, <1>5 DEF Concluded
<1>7. \A j \in DOMAIN lus : j # k => lus[j].nr # n
  BY <1>1 DEF IInv, LuOwnsRequest
<1>8. \A j \in DOMAIN lus : lus[j].nr \in Nr
  BY LuNumbers
<1>9. LuOwnsRequest'
  <2>1. ASSUME NEW j \in DOMAIN lus'
        PROVE  reqs'[lus'[j].nr].kind = "ulr" /\ reqs'[lus'[j].nr].open
    <3>0. DOMAIN lus = 1..Len(lus) /\ DOMAIN lus' = 1..(Len(lus) - 1) /\ Len(lus) \in Nat
      BY <1>1, <1>2, LenProperties
    <3>1. PICK m \in DOMAIN lus : m # k /\ lus'[j] = lus[m]
      <4>1. CASE j < k
        BY <4>1, <3>0, <1>1, <1>2
      <4>2. CASE ~(j < k)
        <5>1. j+1 \in DOMAIN lus /\ j+1 # k /\ lus'[j] = lus[j+1]
          BY <4>2, <3>0, <1>1, <1>2
        <5> QED
          BY <5>1
      <4> QED
        BY <4>1, <4>2
    <3> QED
      BY <3>1, <1>3, <1>7, <1>8 DEF IInv, LuOwnsRequest
  <2>2. ASSUME NEW i \in DOMAIN lus', NEW j \in DOMAIN lus', lus'[i].nr = lus'[j].nr
        PROVE  i = j
    <3> DEFINE at(m) == IF m < k THEN m ELSE m + 1
    <3>1. i \in 1..(Len(lus) - 1) /\ j \in 1..(Len(lus) - 1) /\ Len(lus) \in Nat
      BY <1>1, <1>2, LenProperties
    <3>2. /\ at(i) \in DOMAIN lus /\ lus'[i] = lus[at(i)]
          /\ at(j) \in DOMAIN lus /\ lus'[j] = lus[at(j)]
      BY <3>1, <1>1, <1>2, LenProperties
    <3>3. at(i) = at(j)
      BY <2>2, <3>2 DEF IInv, LuOwnsRequest
    <3> QED
      BY <3>1, <3>3, <1>1
  <2>3. ASSUME NEW r \in Nr, reqs'[r].kind = "ulr" /\ reqs'[r].open
        PROVE  \E j \in DOMAIN lus' : lus'[j].nr = r
    <3>1. r # n /\ reqs[r].kind = "ulr" /\ reqs[r].open
      BY <2>3, <1>3, <1>6
    <3>2. PICK m \in DOMAIN lus : lus[m].nr = r
      BY <3>1 DEF IInv, LuOwnsRequest
    <3>3. CASE m < k
      BY <3>2, <3>3, <1>1, <1>2
    <3>4. CASE m > k
      <4>1. m-1 \in DOMAIN lus' /\ lus'[m-1] = lus[m]
        BY <3>2, <3>4, <1>1, <1>2
      <4> QED
        BY <4>1, <3>2
    <3> QED
      BY <3>1, <3>2, <3>3, <3>4, <1>1
  <2> QED
    BY <2>1, <2>2, <2>3 DEF LuOwnsRequest
<1>10. AnsweredOnce'
  BY <1>3, <1>6 DEF IInv, AnsweredOnce
<1>11. \A r \in Nr : rq[r].kind = "none" => reqs'[r].kind = "none"
  BY <1>3, <1>4, <1>5
<1> QED
  BY <1>2, <1>3, <1>9, <1>10, <1>11

(* A message that concludes no location update takes a fresh number. *)
LEMMA FreshNumber ==
    ASSUME IInv, nextNr \in Nr, NEW q \in Request,
           reqs' = [reqs EXCEPT ![nextNr] = q], nextNr' = nextNr + 1
    PROVE  /\ reqs' \in [Nr -> Request]
           /\ nextNr' \in 1..(MaxReq + 1)
           /\ FutureUnused'
           /\ \A r \in Nr : r # nextNr => reqs'[r] = reqs[r]
           /\ reqs'[nextNr] = q
           /\ reqs[nextNr].kind = "none"
           /\ \A k \in DOMAIN lus : lus[k].nr # nextNr
<1>1. /\ reqs \in [Nr -> Request] /\ nextNr \in 1..(MaxReq + 1)
  BY DEF IInv, TypeOK
<1>2. reqs[nextNr].kind = "none"
  BY <1>1, MaxReqAssumption DEF IInv, FutureUnused, Nr
<1>3. \A k \in DOMAIN lus : lus[k].nr # nextNr
  BY <1>2 DEF IInv, LuOwnsRequest
<1>4. \A r \in Nr : r # nextNr => reqs'[r] = reqs[r]
  BY <1>1
<1>5. FutureUnused'
  BY <1>1, <1>4, MaxReqAssumption DEF IInv, FutureUnused, Nr
<1> QED
  BY <1>1, <1>2, <1>3, <1>4, <1>5, MaxReqAssumption DEF Nr

(* ... and, unless it is an Update Location request, leaves the location   *)
(* updates and their requests alone.                                       *)
LEMMA OtherMessageKeeps ==
    ASSUME IInv, nextNr \in Nr, NEW open \in BOOLEAN, NEW answers \in Nat,
           osmo_gsup_req_new("other", open, answers), UNCHANGED lus
    PROVE  /\ reqs' \in [Nr -> Request]
           /\ nextNr' \in 1..(MaxReq + 1)
           /\ FutureUnused'
           /\ LuOwnsRequest'
           /\ AnsweredOnce'
<1> DEFINE q == [kind |-> "other", open |-> open, answers |-> answers]
<1>1. q \in Request
  BY DEF Request
<1>2. reqs' = [reqs EXCEPT ![nextNr] = q] /\ nextNr' = nextNr + 1
  BY DEF osmo_gsup_req_new
<1> HIDE DEF q
<1>3. /\ reqs' \in [Nr -> Request]
      /\ nextNr' \in 1..(MaxReq + 1)
      /\ FutureUnused'
      /\ \A r \in Nr : r # nextNr => reqs'[r] = reqs[r]
      /\ reqs'[nextNr] = q
      /\ reqs[nextNr].kind = "none"
      /\ \A k \in DOMAIN lus : lus[k].nr # nextNr
  BY <1>1, <1>2, FreshNumber
<1>4. q.kind = "other"
  BY DEF q
<1>5. \A k \in DOMAIN lus : lus[k].nr \in Nr
  BY LuNumbers
<1>6. LuOwnsRequest'
  BY <1>3, <1>4, <1>5 DEF IInv, LuOwnsRequest
<1>7. AnsweredOnce'
  BY <1>3, <1>4 DEF IInv, AnsweredOnce
<1> QED
  BY <1>3, <1>6, <1>7

(* A step that touches neither the list nor the requests. *)
LEMMA QuietStep ==
    ASSUME IInv, UNCHANGED <<lus, reqs, nextNr>>
    PROVE  FutureUnused' /\ LuOwnsRequest' /\ AnsweredOnce'
BY DEF IInv, FutureUnused, LuOwnsRequest, AnsweredOnce

(* What is known of rows. *)
LEMMA RowTypes ==
    /\ \A nam \in SUBSET Domain : NewSubscr(nam) \in Subscriber
    /\ TypeOK => \A i \in Imsi : OnDemand(i) \subseteq Subscriber \cup {NoSubscr}
<1>1. \A nam \in SUBSET Domain : NewSubscr(nam) \in Subscriber
  BY DEF NewSubscr, Subscriber, Peer, Number
<1>2. NewSubscr(OnDemandNam) \in Subscriber
  BY <1>1, OnDemandAssumption
<1> QED
  BY <1>1, <1>2 DEF OnDemand, TypeOK

(* A message of a client leaves routes of the right type. *)
LEMMA FromTypes ==
    ASSUME TypeOK, NEW c \in Peer, NEW v \in Peer, From(c, v)
    PROVE  conn' \in [Vlr -> Peer]
BY DEF From, TypeOK, Connected, Peer

(* Giving the VLRs of a set a number keeps the type of what they hold. *)
LEMMA DataAtTypes ==
    ASSUME TypeOK, NEW V, NEW i \in Imsi, NEW n \in Number \cup {Unsent}
    PROVE  /\ DataAt(V, i, n) \in [Vlr -> [Imsi -> Number \cup {Unsent}]]
           /\ \A v \in Vlr, j \in Imsi :
                 DataAt(V, i, n)[v][j] = IF v \in V /\ j = i THEN n ELSE data[v][j]
<1>1. data \in [Vlr -> [Imsi -> Number \cup {Unsent}]]
  BY DEF TypeOK
<1> QED
  BY <1>1 DEF DataAt

(* ... and so does giving it to one VLR. *)
LEMMA DataExceptTypes ==
    ASSUME TypeOK, NEW w \in Vlr, NEW i \in Imsi, NEW n \in Number \cup {Unsent},
           data' = [data EXCEPT ![w][i] = n]
    PROVE  /\ data' \in [Vlr -> [Imsi -> Number \cup {Unsent}]]
           /\ \A v \in Vlr, j \in Imsi :
                 data'[v][j] = IF v = w /\ j = i THEN n ELSE data[v][j]
<1>1. data \in [Vlr -> [Imsi -> Number \cup {Unsent}]]
  BY DEF TypeOK
<1> QED
  BY <1>1

(* An Update Location request keeps the invariant. *)
LEMMA UpdLocKeeps ==
    ASSUME IInv, NEW c \in Peer, NEW v \in Peer, NEW i \in Imsi,
           NEW ie \in Domain \cup {"none"}, NEW s \in OnDemand(i),
           NEW fail \in {"none", "early", "late"},
           rx_upd_loc_req(c, v, i, ie, s, fail)
    PROVE  IInv'
<1> DEFINE d == DomainOf(ie)
<1>1. d \in Domain
  BY DEF DomainOf, Domain
<1>2. /\ subscr \in [Imsi -> Subscriber \cup {NoSubscr}] /\ lus \in Seq(Lu)
      /\ reqs \in [Nr -> Request] /\ nextNr \in 1..(MaxReq + 1)
      /\ isd \in [Vlr -> SUBSET Isd] /\ conn \in [Vlr -> Peer]
      /\ sup \in [Vlr -> SUBSET Domain]
      /\ data \in [Vlr -> [Imsi -> Number \cup {Unsent}]]
  BY DEF IInv, TypeOK
<1>3. s \in Subscriber \cup {NoSubscr}
  BY RowTypes DEF IInv
<1>4. nextNr \in Nr
  BY DEF rx_upd_loc_req, osmo_gsup_req_new
<1> HIDE DEF d
<1>5. subscr' \in [Imsi -> Subscriber \cup {NoSubscr}]
  <2>1. ~Refused(v, s, d) => db_subscr_lu(s, v, d, fail) \in Subscriber
    <3> SUFFICES ASSUME ~Refused(v, s, d) PROVE db_subscr_lu(s, v, d, fail) \in Subscriber
      OBVIOUS
    <3>1. s \in Subscriber
      BY <1>3 DEF Refused
    <3>2. [s EXCEPT !.loc[d] = v] \in Subscriber
      BY <3>1, <1>1 DEF Subscriber
    <3> QED
      BY <3>1, <3>2 DEF db_subscr_lu
  <2>2. subscr' = [subscr EXCEPT ![i] =
                     IF Refused(v, s, d) THEN s ELSE db_subscr_lu(s, v, d, fail)]
    BY DEF rx_upd_loc_req, d
  <2> QED
    BY <1>2, <1>3, <2>1, <2>2
<1>6. sup' \in [Vlr -> SUBSET Domain]
  BY <1>1, <1>2 DEF rx_upd_loc_req, d, Peer
<1>7. conn' \in [Vlr -> Peer]
  BY FromTypes DEF rx_upd_loc_req, IInv
<1>8. CASE Refused(v, s, d) \/ fail # "none"
  <2> DEFINE q == [kind |-> "ulr", open |-> FALSE, answers |-> 1]
  <2>1. reqs' = [reqs EXCEPT ![nextNr] = q] /\ nextNr' = nextNr + 1 /\ UNCHANGED <<lus, isd>>
    BY <1>8 DEF rx_upd_loc_req, osmo_gsup_req_new, d
  <2>2. q \in Request
    BY DEF Request
  <2>3. q.kind = "ulr" /\ q.open = FALSE /\ q.answers = 1
    OBVIOUS
  <2> HIDE DEF q
  <2>4. /\ reqs' \in [Nr -> Request]
        /\ nextNr' \in 1..(MaxReq + 1)
        /\ FutureUnused'
        /\ \A r \in Nr : r # nextNr => reqs'[r] = reqs[r]
        /\ reqs'[nextNr] = q
        /\ \A k \in DOMAIN lus : lus[k].nr # nextNr
    BY <1>4, <2>1, <2>2, FreshNumber
  <2>5. LuOwnsRequest'
    BY <2>1, <2>3, <2>4, LuNumbers DEF IInv, LuOwnsRequest
  <2>6. AnsweredOnce'
    BY <2>3, <2>4 DEF IInv, AnsweredOnce
  <2>7. data' \in [Vlr -> [Imsi -> Number \cup {Unsent}]]
    <3>1. CASE v = NoVlr
      BY <3>1, <1>2, <1>8 DEF rx_upd_loc_req, d
    <3>2. CASE v # NoVlr
      <4>1. v \in Vlr /\ data' = [data EXCEPT ![v][i] = Unsent]
        BY <3>2, <1>8 DEF rx_upd_loc_req, d, Peer
      <4> QED
        BY <4>1, DataExceptTypes DEF IInv
    <3> QED
      BY <3>1, <3>2
  <2> QED
    BY <1>2, <1>5, <1>6, <1>7, <2>1, <2>4, <2>5, <2>6, <2>7 DEF IInv, TypeOK
<1>9. CASE ~(Refused(v, s, d) \/ fail # "none")
  <2> DEFINE q == [kind |-> "ulr", open |-> TRUE, answers |-> 0]
             lu == [nr |-> nextNr, imsi |-> i, vlr |-> v]
  <2>1. /\ reqs' = [reqs EXCEPT ![nextNr] = q] /\ nextNr' = nextNr + 1
        /\ lus' = <<lu>> \o lus
        /\ isd' = [isd EXCEPT ![v] = @ \cup {[imsi |-> i, nr |-> nextNr]}]
    BY <1>9 DEF rx_upd_loc_req, osmo_gsup_req_new, d
  <2>2. q \in Request
    BY DEF Request
  <2>3. q.kind = "ulr" /\ q.open = TRUE /\ q.answers = 0
    OBVIOUS
  <2>4. v \in Vlr
    BY <1>9 DEF Refused, Peer
  <2>5. lu \in Lu /\ lu.nr = nextNr
    BY <1>4, <2>4 DEF Lu
  <2>6. isd' \in [Vlr -> SUBSET Isd]
    <3>1. [imsi |-> i, nr |-> nextNr] \in Isd
      BY <1>4, MaxReqAssumption DEF Isd, Nr
    <3> QED
      BY <1>2, <2>1, <2>4, <3>1
  <2> HIDE DEF q, lu
  <2>7. /\ reqs' \in [Nr -> Request]
        /\ nextNr' \in 1..(MaxReq + 1)
        /\ FutureUnused'
        /\ \A r \in Nr : r # nextNr => reqs'[r] = reqs[r]
        /\ reqs'[nextNr] = q
        /\ \A k \in DOMAIN lus : lus[k].nr # nextNr
    BY <1>4, <2>1, <2>2, FreshNumber
  <2>8. /\ lus' \in Seq(Lu) /\ Len(lus') = Len(lus) + 1
        /\ lus'[1] = lu /\ \A j \in 1..Len(lus) : lus'[j+1] = lus[j]
    BY <1>2, <2>1, <2>5, ConsProperties
  <2>9. /\ DOMAIN lus = 1..Len(lus) /\ DOMAIN lus' = 1..(Len(lus) + 1)
        /\ Len(lus) \in Nat
    BY <1>2, <2>8, LenProperties
  <2>10. \A k \in DOMAIN lus' : k # 1 => k-1 \in DOMAIN lus /\ lus'[k] = lus[k-1]
    BY <2>8, <2>9
  <2>11. LuOwnsRequest'
    <3>1. ASSUME NEW k \in DOMAIN lus'
          PROVE  reqs'[lus'[k].nr].kind = "ulr" /\ reqs'[lus'[k].nr].open
      <4>1. CASE k = 1
        BY <4>1, <2>3, <2>5, <2>7, <2>8
      <4>2. CASE k # 1
        BY <4>2, <2>7, <2>10, LuNumbers DEF IInv, LuOwnsRequest
      <4> QED
        BY <4>1, <4>2
    <3>2. ASSUME NEW j \in DOMAIN lus', NEW k \in DOMAIN lus', lus'[j].nr = lus'[k].nr
          PROVE  j = k
      <4>1. CASE j = 1 \/ k = 1
        BY <4>1, <3>2, <2>5, <2>7, <2>8, <2>10
      <4>2. CASE j # 1 /\ k # 1
        <5>1. j-1 = k-1
          BY <4>2, <3>2, <2>10 DEF IInv, LuOwnsRequest
        <5> QED
          BY <5>1, <2>9
      <4> QED
        BY <4>1, <4>2
    <3>3. ASSUME NEW r \in Nr, reqs'[r].kind = "ulr" /\ reqs'[r].open
          PROVE  \E k \in DOMAIN lus' : lus'[k].nr = r
      <4>1. CASE r = nextNr
        BY <4>1, <2>5, <2>8, <2>9
      <4>2. CASE r # nextNr
        <5>1. PICK k \in DOMAIN lus : lus[k].nr = r
          BY <4>2, <3>3, <2>7 DEF IInv, LuOwnsRequest
        <5>2. k+1 \in DOMAIN lus' /\ lus'[k+1] = lus[k]
          BY <2>8, <2>9
        <5> QED
          BY <5>1, <5>2
      <4> QED
        BY <4>1, <4>2
    <3> QED
      BY <3>1, <3>2, <3>3 DEF LuOwnsRequest
  <2>12. AnsweredOnce'
    BY <2>3, <2>7 DEF IInv, AnsweredOnce
  <2>13. data' \in [Vlr -> [Imsi -> Number \cup {Unsent}]]
    <3>1. s \in Subscriber /\ s.msisdn \in Number
      BY <1>3, <1>9 DEF Refused, Subscriber
    <3>2. data' = [data EXCEPT ![v][i] = s.msisdn]
      BY <1>9 DEF rx_upd_loc_req, d
    <3> QED
      BY <2>4, <3>1, <3>2, DataExceptTypes DEF IInv
  <2> QED
    BY <1>5, <1>6, <1>7, <2>6, <2>7, <2>8, <2>11, <2>12, <2>13 DEF IInv, TypeOK
<1> QED
  BY <1>8, <1>9

(* A failed location update makes one VLR drop the subscriber. *)
LEMMA FailLuTypes ==
    ASSUME IInv, NEW k \in DOMAIN lus, NEW rq, FailLu(k, rq)
    PROVE  /\ data' \in [Vlr -> [Imsi -> Number \cup {Unsent}]]
           /\ \A v \in Vlr, i \in Imsi : data'[v][i] \in {data[v][i], Unsent}
<1>1. lus[k] \in Lu
  BY LenProperties, ElementOfSeq DEF IInv, TypeOK
<1>2. lus[k].vlr \in Vlr /\ lus[k].imsi \in Imsi
  BY <1>1 DEF Lu
<1>3. TypeOK /\ data' = [data EXCEPT ![lus[k].vlr][lus[k].imsi] = Unsent]
  BY DEF FailLu, IInv
<1>4. /\ data' \in [Vlr -> [Imsi -> Number \cup {Unsent}]]
      /\ \A v \in Vlr, j \in Imsi :
            data'[v][j] = IF v = lus[k].vlr /\ j = lus[k].imsi THEN Unsent ELSE data[v][j]
  BY <1>2, <1>3, DataExceptTypes
<1> QED
  BY <1>4

(* The two ways an Insert Data answer is received keep the invariant. *)
LEMMA InsertDataKeeps ==
    ASSUME IInv, NEW v \in Vlr, NEW m \in isd[v],
           RxInsertDataResult(v, m) \/ RxInsertDataError(v, m)
    PROVE  IInv'
<1>1. /\ lus \in Seq(Lu) /\ reqs \in [Nr -> Request] /\ nextNr \in 1..(MaxReq + 1)
      /\ isd \in [Vlr -> SUBSET Isd] /\ nextNr \in Nr
      /\ nextNr' = nextNr + 1 /\ UNCHANGED <<subscr, conn, sup>>
      /\ data \in [Vlr -> [Imsi -> Number \cup {Unsent}]]
  BY DEF IInv, TypeOK, RxInsertDataResult, RxInsertDataError
<1>2. isd' \in [Vlr -> SUBSET Isd]
  BY <1>1 DEF RxInsertDataResult, RxInsertDataError
<1>3. m \in Isd /\ m.imsi \in Imsi /\ m.nr \in 0..MaxReq
  BY <1>1 DEF Isd
<1>4. \A open \in BOOLEAN : [kind |-> "other", open |-> open, answers |-> 0] \in Request
  BY DEF Request
<1>5. CASE NoLu(m.imsi) /\ reqs' = Received(FALSE) /\ UNCHANGED <<lus, data>>
  <2>1. osmo_gsup_req_new("other", FALSE, 0)
    BY <1>1, <1>5 DEF osmo_gsup_req_new, Received
  <2>2. /\ reqs' \in [Nr -> Request] /\ nextNr' \in 1..(MaxReq + 1)
        /\ FutureUnused' /\ LuOwnsRequest' /\ AnsweredOnce'
    BY <1>1, <1>5, <2>1, OtherMessageKeeps
  <2> QED
    BY <1>1, <1>2, <1>5, <2>2 DEF IInv, TypeOK
<1>6. ASSUME NEW k \in DOMAIN lus, NEW open \in BOOLEAN,
             EndLu(k, Received(open)),
             data' \in [Vlr -> [Imsi -> Number \cup {Unsent}]]
      PROVE  IInv'
  <2> DEFINE q == [kind |-> "other", open |-> open, answers |-> 0]
             rq == Received(open)
  <2>1. /\ rq \in [Nr -> Request] /\ rq[nextNr] = q
        /\ \A r \in Nr : r # nextNr => rq[r] = reqs[r]
    BY <1>1, <1>4 DEF Received
  <2>2. reqs[nextNr].kind = "none"
    BY <1>1, MaxReqAssumption DEF IInv, FutureUnused, Nr
  <2>3. q.kind = "other"
    OBVIOUS
  <2> HIDE DEF q, rq
  <2>4. EndLu(k, rq)
    BY <1>6 DEF rq
  <2>5. \A r \in Nr : reqs[r].kind = "ulr" \/ rq[r].kind = "ulr" => rq[r] = reqs[r]
    BY <2>1, <2>2, <2>3
  <2>6. /\ lus' \in Seq(Lu) /\ reqs' \in [Nr -> Request]
        /\ LuOwnsRequest' /\ AnsweredOnce'
        /\ \A r \in Nr : rq[r].kind = "none" => reqs'[r].kind = "none"
    BY <2>1, <2>4, <2>5, EndLuKeeps
  <2>7. nextNr' \in 1..(MaxReq + 1)
    BY <1>1, MaxReqAssumption DEF Nr
  <2>8. FutureUnused'
    BY <1>1, <2>1, <2>6, MaxReqAssumption DEF IInv, FutureUnused, Nr
  <2> QED
    BY <1>1, <1>2, <1>6, <2>6, <2>7, <2>8 DEF IInv, TypeOK
<1>7. CASE RxInsertDataResult(v, m)
  BY <1>1, <1>5, <1>6, <1>7 DEF RxInsertDataResult
<1>8. CASE RxInsertDataError(v, m)
  <2>1. ASSUME NEW k \in DOMAIN lus, FailLu(k, Received(TRUE))
        PROVE  IInv'
    BY <1>6, <2>1, FailLuTypes DEF FailLu
  <2> QED
    BY <1>5, <1>8, <2>1 DEF RxInsertDataError
<1> QED
  BY <1>7, <1>8

(* The timer keeps the invariant. *)
LEMMA TimerKeeps ==
    ASSUME IInv, NEW r \in Nr, lu_fsm_timer_cb(r)
    PROVE  IInv'
<1>1. PICK k \in DOMAIN lus : FailLu(k, reqs)
  BY DEF lu_fsm_timer_cb
<1>2. reqs \in [Nr -> Request] /\ nextNr' = nextNr /\ UNCHANGED <<subscr, isd, conn, sup>>
  BY DEF IInv, TypeOK, lu_fsm_timer_cb
<1>3. /\ lus' \in Seq(Lu) /\ reqs' \in [Nr -> Request]
      /\ LuOwnsRequest' /\ AnsweredOnce'
      /\ \A n \in Nr : reqs[n].kind = "none" => reqs'[n].kind = "none"
  BY <1>1, <1>2, EndLuKeeps DEF FailLu
<1>4. FutureUnused'
  BY <1>2, <1>3 DEF IInv, FutureUnused
<1>5. data' \in [Vlr -> [Imsi -> Number \cup {Unsent}]]
  BY <1>1, FailLuTypes
<1> QED
  BY <1>2, <1>3, <1>4, <1>5 DEF IInv, TypeOK

(* Commands and peers touch neither the list nor the requests. *)
LEMMA CommandsKeep ==
    ASSUME IInv, Peers \/ Commands
    PROVE  IInv'
<1>1. /\ subscr \in [Imsi -> Subscriber \cup {NoSubscr}] /\ lus \in Seq(Lu)
      /\ reqs \in [Nr -> Request] /\ nextNr \in 1..(MaxReq + 1)
      /\ isd \in [Vlr -> SUBSET Isd] /\ conn \in [Vlr -> Peer]
      /\ sup \in [Vlr -> SUBSET Domain]
      /\ data \in [Vlr -> [Imsi -> Number \cup {Unsent}]]
  BY DEF IInv, TypeOK
<1>2. UNCHANGED <<lus, reqs, nextNr>>
  BY DEF Peers, Commands, PeerUp, PeerDown, subscriber_create, subscriber_delete,
         subscriber_nam, set_subscr_cs_ps_enabled, subscriber_msisdn
<1>3. FutureUnused' /\ LuOwnsRequest' /\ AnsweredOnce'
  BY <1>2, QuietStep
<1> DEFINE Rest == /\ subscr' \in [Imsi -> Subscriber \cup {NoSubscr}]
                   /\ isd' \in [Vlr -> SUBSET Isd] /\ conn' \in [Vlr -> Peer]
                   /\ sup' \in [Vlr -> SUBSET Domain]
                   /\ data' \in [Vlr -> [Imsi -> Number \cup {Unsent}]]
<1>4. SUFFICES Rest
  BY <1>1, <1>2, <1>3 DEF IInv, TypeOK
<1>5. \A nam \in SUBSET Domain, i \in Imsi :
         subscr[i] # NoSubscr => [subscr[i] EXCEPT !.nam = nam] \in Subscriber
  BY <1>1 DEF Subscriber
<1>6. \A i \in Imsi : subscr[i] # NoSubscr => subscr[i].nam \in SUBSET Domain
  BY <1>1 DEF Subscriber
<1>7. ASSUME NEW c \in Vlr, PeerUp(c)
      PROVE  Rest
  BY <1>1, <1>7 DEF PeerUp, Peer
<1>8. ASSUME NEW c \in Vlr, PeerDown(c)
      PROVE  Rest
  <2>1. data' \in [Vlr -> [Imsi -> Number \cup {Unsent}]]
    BY <1>1, <1>8 DEF PeerDown
  <2>2. conn' \in [Vlr -> Peer] /\ isd' \in [Vlr -> SUBSET Isd]
    BY <1>1, <1>8 DEF PeerDown, Peer
  <2> QED
    BY <1>1, <1>8, <2>1, <2>2 DEF PeerDown
<1> SUFFICES ASSUME NEW i \in Imsi,
                    \/ subscriber_create(i)
                    \/ subscriber_delete(i)
                    \/ \E nam \in Nam : subscriber_nam(i, nam)
                    \/ \E d \in Domain, value \in BOOLEAN :
                          set_subscr_cs_ps_enabled(i, d, value)
                    \/ \E n \in Number, reread \in BOOLEAN :
                          subscriber_msisdn(i, n, reread)
             PROVE  Rest
  BY <1>7, <1>8 DEF Peers, Commands
<1>9. CASE subscriber_create(i) \/ subscriber_delete(i)
  BY <1>1, <1>9, RowTypes DEF subscriber_create, subscriber_delete
<1>10. CASE \E nam \in Nam : subscriber_nam(i, nam)
  <2>1. PICK nam \in SUBSET Domain : subscriber_nam(i, nam)
    BY <1>10, NamAssumption
  <2>2. subscr' = [subscr EXCEPT ![i] = [subscr[i] EXCEPT !.nam = nam]]
    BY <2>1 DEF subscriber_nam
  <2>3. subscr' \in [Imsi -> Subscriber \cup {NoSubscr}]
    BY <1>1, <1>5, <2>1, <2>2 DEF subscriber_nam
  <2>4. data' \in [Vlr -> [Imsi -> Number \cup {Unsent}]]
    BY <1>1, <2>1, DataAtTypes DEF subscriber_nam, IInv
  <2> QED
    BY <1>1, <2>1, <2>3, <2>4 DEF subscriber_nam
<1>11. CASE \E d \in Domain, value \in BOOLEAN : set_subscr_cs_ps_enabled(i, d, value)
  <2>1. PICK d \in Domain, value \in BOOLEAN : set_subscr_cs_ps_enabled(i, d, value)
    BY <1>11
  <2> DEFINE nam == IF value THEN subscr[i].nam \cup {d} ELSE subscr[i].nam \ {d}
  <2>2. subscr' = [subscr EXCEPT ![i] = [subscr[i] EXCEPT !.nam = nam]]
    BY <2>1 DEF set_subscr_cs_ps_enabled
  <2>3. nam \in SUBSET Domain
    BY <1>6, <2>1 DEF set_subscr_cs_ps_enabled
  <2> HIDE DEF nam
  <2>4. [subscr[i] EXCEPT !.nam = nam] \in Subscriber
    <3>1. subscr[i] # NoSubscr
      BY <2>1 DEF set_subscr_cs_ps_enabled
    <3> QED
      BY <1>5, <2>3, <3>1
  <2>5. subscr' \in [Imsi -> Subscriber \cup {NoSubscr}]
    BY <1>1, <2>2, <2>4
  <2> QED
    BY <1>1, <2>1, <2>5 DEF set_subscr_cs_ps_enabled
<1>12. CASE \E n \in Number, reread \in BOOLEAN : subscriber_msisdn(i, n, reread)
  <2>1. PICK n \in Number, reread \in BOOLEAN : subscriber_msisdn(i, n, reread)
    BY <1>12
  <2>2. subscr[i] \in Subscriber /\ subscr[i].msisdn \in Number
    BY <1>1, <2>1 DEF subscriber_msisdn, Subscriber
  <2>3. [subscr[i] EXCEPT !.msisdn = n] \in Subscriber
    BY <2>2 DEF Subscriber
  <2>4. subscr' \in [Imsi -> Subscriber \cup {NoSubscr}]
    <3>1. subscr' = [subscr EXCEPT ![i] = [subscr[i] EXCEPT !.msisdn = n]]
      BY <2>1 DEF subscriber_msisdn
    <3> QED
      BY <1>1, <2>3, <3>1
  <2>5. isd' \in [Vlr -> SUBSET Isd]
    <3>1. [imsi |-> i, nr |-> 0] \in Isd
      BY MaxReqAssumption DEF Isd
    <3> QED
      BY <1>1, <2>1, <3>1 DEF subscriber_msisdn
  <2>6. data' \in [Vlr -> [Imsi -> Number \cup {Unsent}]]
    BY <2>1, <2>2, DataAtTypes DEF subscriber_msisdn, IInv
  <2> QED
    BY <1>1, <2>1, <2>4, <2>5, <2>6 DEF subscriber_msisdn
<1> QED
  BY <1>9, <1>10, <1>11, <1>12

(* Messages that are neither an Update Location request nor an Insert Data *)
(* answer keep the invariant.                                              *)
LEMMA OtherRxKeeps ==
    ASSUME IInv,
           \/ \E c, v \in Peer : RxLocationCancel(c, v)
           \/ \E c, v \in Peer, i \in Imsi, ie \in Domain \cup {"none"},
                 dbok \in BOOLEAN : rx_purge_ms_req(c, v, i, ie, dbok)
           \/ \E c, v \in Peer, i \in Imsi : rx_check_imei_req(c, v, i)
    PROVE  IInv'
<1>1. /\ subscr \in [Imsi -> Subscriber \cup {NoSubscr}] /\ lus \in Seq(Lu)
      /\ isd \in [Vlr -> SUBSET Isd] /\ conn \in [Vlr -> Peer]
      /\ sup \in [Vlr -> SUBSET Domain]
      /\ data \in [Vlr -> [Imsi -> Number \cup {Unsent}]]
  BY DEF IInv, TypeOK
<1>2. /\ osmo_gsup_req_new("other", FALSE, 0)
      /\ UNCHANGED <<lus, isd, sup, data>>
      /\ \E c, v \in Peer : From(c, v)
  BY DEF RxLocationCancel, rx_purge_ms_req, rx_check_imei_req
<1>3. /\ reqs' \in [Nr -> Request] /\ nextNr' \in 1..(MaxReq + 1)
      /\ FutureUnused' /\ LuOwnsRequest' /\ AnsweredOnce'
  BY <1>2, OtherMessageKeeps DEF osmo_gsup_req_new
<1>4. conn' \in [Vlr -> Peer]
  BY <1>2, FromTypes DEF IInv
<1>5. SUFFICES subscr' \in [Imsi -> Subscriber \cup {NoSubscr}]
  BY <1>1, <1>2, <1>3, <1>4 DEF IInv, TypeOK
<1>6. CASE \E c, v \in Peer : RxLocationCancel(c, v)
  BY <1>1, <1>6 DEF RxLocationCancel
<1>7. ASSUME NEW c \in Peer, NEW v \in Peer, NEW i \in Imsi, NEW ie \in Domain \cup {"none"},
             NEW dbok \in BOOLEAN, rx_purge_ms_req(c, v, i, ie, dbok)
      PROVE  subscr' \in [Imsi -> Subscriber \cup {NoSubscr}]
  <2>1. CASE ~dbok
    BY <1>1, <1>7, <2>1 DEF rx_purge_ms_req
  <2>2. CASE dbok
    <3> DEFINE p == subscr[i].purged \cup {DomainOf(ie)}
    <3>1. subscr' = [subscr EXCEPT ![i] = [subscr[i] EXCEPT !.purged = p]]
      BY <1>7, <2>2 DEF rx_purge_ms_req
    <3>2. subscr[i] \in Subscriber
      BY <1>1, <1>7, <2>2 DEF rx_purge_ms_req
    <3>3. p \in SUBSET Domain
      BY <3>2 DEF DomainOf, Domain, Subscriber
    <3>4. [subscr[i] EXCEPT !.purged = p] \in Subscriber
      BY <3>2, <3>3 DEF Subscriber
    <3> QED
      BY <1>1, <3>1, <3>4
  <2> QED
    BY <2>1, <2>2
<1>8. ASSUME NEW c \in Peer, NEW v \in Peer, NEW i \in Imsi, rx_check_imei_req(c, v, i)
      PROVE  subscr' \in [Imsi -> Subscriber \cup {NoSubscr}]
  <2>1. PICK s \in OnDemand(i) : subscr' = [subscr EXCEPT ![i] = s]
    BY <1>8 DEF rx_check_imei_req
  <2>2. s \in Subscriber \cup {NoSubscr}
    BY RowTypes DEF IInv
  <2> QED
    BY <1>1, <2>1, <2>2
<1> QED
  BY <1>6, <1>7, <1>8

(* Every step keeps the invariant. *)
LEMMA NextIInv == IInv /\ [Next]_vars => IInv'
<1> SUFFICES ASSUME IInv, [Next]_vars PROVE IInv'
  OBVIOUS
<1>1. CASE Rx
  BY <1>1, UpdLocKeeps, InsertDataKeeps, OtherRxKeeps DEF Rx
<1>2. CASE Timers
  BY <1>2, TimerKeeps DEF Timers
<1>3. CASE Peers \/ Commands
  BY <1>3, CommandsKeep
<1>4. CASE UNCHANGED vars
  BY <1>4 DEF vars, IInv, TypeOK, FutureUnused, LuOwnsRequest, AnsweredOnce
<1> QED
  BY <1>1, <1>2, <1>3, <1>4 DEF Next

(* Type correctness of LuFsm. *)
THEOREM TypeCorrect == Spec => []TypeOK
<1>1. IInv => TypeOK
  BY DEF IInv
<1> QED
  BY <1>1, InitIInv, NextIInv, PTL DEF Spec

(* A location update in progress owns exactly one open request, and every  *)
(* open Update Location request is owned by one: lu_fsm.c never answers a  *)
(* freed request nor forgets one, in any interleaving of VLR messages,     *)
(* timeouts, disconnects and subscriber commands.                          *)
THEOREM RequestsOwned == Spec => []LuOwnsRequest
<1>1. IInv => LuOwnsRequest
  BY DEF IInv
<1> QED
  BY <1>1, InitIInv, NextIInv, PTL DEF Spec

(* Every Update Location request gets exactly one final response, at the   *)
(* moment its record is freed.                                             *)
THEOREM RequestsAnsweredOnce == Spec => []AnsweredOnce
<1>1. IInv => AnsweredOnce
  BY DEF IInv
<1> QED
  BY <1>1, InitIInv, NextIInv, PTL DEF Spec

-----------------------------------------------------------------------------
(* Locations. *)

(* A step that leaves the subscriber table alone moves no location. *)
LEMMA SameTable == UNCHANGED subscr => LocationStep
BY DEF LocationStep

(* An Update Location request moves one location at most, to its source. *)
LEMMA UpdLocMoves ==
    ASSUME TypeOK, NEW c \in Peer, NEW v \in Peer, NEW i \in Imsi,
           NEW ie \in Domain \cup {"none"}, NEW s \in OnDemand(i),
           NEW fail \in {"none", "early", "late"},
           rx_upd_loc_req(c, v, i, ie, s, fail)
    PROVE  LocationStep
<1> DEFINE d == DomainOf(ie)
<1>1. d \in Domain
  BY DEF DomainOf, Domain
<1>2. /\ From(c, v)
      /\ sup' = IF c = NoVlr THEN sup ELSE [sup EXCEPT ![c] = @ \cup {d}]
      /\ subscr' = [subscr EXCEPT ![i] =
                       IF Refused(v, s, d) THEN s ELSE db_subscr_lu(s, v, d, fail)]
  BY DEF rx_upd_loc_req
<1>3. subscr[i] # NoSubscr => s = subscr[i]
  BY DEF OnDemand
<1> HIDE DEF d
<1> SUFFICES ASSUME NEW j \in Imsi, NEW e \in Domain,
                    subscr[j] # NoSubscr, subscr'[j] # NoSubscr,
                    subscr'[j].loc[e] # subscr[j].loc[e]
             PROVE  /\ subscr'[j].loc[e] \in Routed'
                    /\ e \in sup'[conn'[subscr'[j].loc[e]]]
                    /\ e \in subscr'[j].nam
  BY DEF LocationStep
<1>4. subscr \in [Imsi -> Subscriber \cup {NoSubscr}] /\ conn \in [Vlr -> Peer] /\ sup \in [Vlr -> SUBSET Domain]
  BY DEF TypeOK
<1>5. j = i
  BY <1>2, <1>4
<1>6. s = subscr[j] /\ s \in Subscriber
  BY <1>3, <1>4, <1>5
<1>7. ~Refused(v, s, d) /\ fail # "early" /\ subscr'[j] = [s EXCEPT !.loc[d] = v]
  BY <1>2, <1>4, <1>5, <1>6 DEF db_subscr_lu
<1>8. e = d /\ subscr'[j].loc[e] = v /\ subscr'[j].nam = s.nam
  BY <1>1, <1>6, <1>7 DEF Subscriber
<1>9. v \in Vlr /\ c \in Vlr /\ conn'[v] = c /\ c # NoVlr /\ d \in s.nam
  BY <1>2, <1>4, <1>7, NoVlrAssumption DEF Refused, From, Connected
<1>10. d \in sup'[c]
  BY <1>1, <1>2, <1>4, <1>9
<1> QED
  BY <1>8, <1>9, <1>10 DEF Routed

(* A purge, a Check IMEI request and the commands of the operator change   *)
(* or replace a row, and leave its locations.                              *)
LEMMA RowKeepsLocation ==
    ASSUME TypeOK, NEW i \in Imsi, NEW row,
           subscr' = [subscr EXCEPT ![i] = row],
           subscr[i] # NoSubscr => row = NoSubscr \/ row.loc = subscr[i].loc
    PROVE  LocationStep
<1> SUFFICES ASSUME NEW j \in Imsi, NEW e \in Domain,
                    subscr[j] # NoSubscr, subscr'[j] # NoSubscr
             PROVE  subscr'[j].loc[e] = subscr[j].loc[e]
  BY DEF LocationStep
<1>1. subscr \in [Imsi -> Subscriber \cup {NoSubscr}]
  BY DEF TypeOK
<1> QED
  BY <1>1

(* A purge and a Check IMEI request move no location. *)
LEMMA RequestsMove ==
    ASSUME TypeOK, NEW c \in Peer, NEW v \in Peer, NEW i \in Imsi
    PROVE  /\ \A ie \in Domain \cup {"none"}, dbok \in BOOLEAN :
                 rx_purge_ms_req(c, v, i, ie, dbok) => LocationStep
           /\ rx_check_imei_req(c, v, i) => LocationStep
<1>1. ASSUME NEW ie \in Domain \cup {"none"}, NEW dbok \in BOOLEAN,
             rx_purge_ms_req(c, v, i, ie, dbok)
      PROVE  LocationStep
  <2>1. CASE ~dbok
    BY <1>1, <2>1, SameTable DEF rx_purge_ms_req
  <2>2. CASE dbok
    <3> DEFINE row == [subscr[i] EXCEPT !.purged = @ \cup {DomainOf(ie)}]
    <3>1. subscr' = [subscr EXCEPT ![i] = row]
      BY <1>1, <2>2 DEF rx_purge_ms_req
    <3>2. subscr[i] \in Subscriber
      BY <1>1, <2>2 DEF TypeOK, rx_purge_ms_req
    <3>3. row.loc = subscr[i].loc
      BY <3>2 DEF Subscriber
    <3> HIDE DEF row
    <3> QED
      BY <3>1, <3>3, RowKeepsLocation
  <2> QED
    BY <2>1, <2>2
<1>2. ASSUME rx_check_imei_req(c, v, i)
      PROVE  LocationStep
  <2>1. PICK s \in OnDemand(i) : subscr' = [subscr EXCEPT ![i] = s]
    BY <1>2 DEF rx_check_imei_req
  <2>2. subscr[i] # NoSubscr => s = subscr[i]
    BY DEF OnDemand
  <2> QED
    BY <2>1, <2>2, RowKeepsLocation
<1> QED
  BY <1>1, <1>2

(* The commands of the operator move no location. *)
LEMMA CommandsMove ==
    ASSUME TypeOK, Commands
    PROVE  LocationStep
<1> PICK i \in Imsi :
        \/ subscriber_create(i)
        \/ subscriber_delete(i)
        \/ \E nam \in Nam : subscriber_nam(i, nam)
        \/ \E d \in Domain, value \in BOOLEAN : set_subscr_cs_ps_enabled(i, d, value)
        \/ \E n \in Number, reread \in BOOLEAN : subscriber_msisdn(i, n, reread)
  BY DEF Commands
<1>1. CASE subscriber_create(i)
  BY <1>1, RowKeepsLocation DEF subscriber_create
<1>2. CASE subscriber_delete(i)
  BY <1>2, RowKeepsLocation DEF subscriber_delete
<1>3. ASSUME NEW nam, subscr[i] # NoSubscr, subscr' = [subscr EXCEPT ![i].nam = nam]
      PROVE  LocationStep
  <2> DEFINE row == [subscr[i] EXCEPT !.nam = nam]
  <2>1. subscr[i] \in Subscriber
    BY <1>3 DEF TypeOK
  <2>2. row.loc = subscr[i].loc
    BY <2>1 DEF Subscriber
  <2>3. subscr' = [subscr EXCEPT ![i] = row]
    BY <1>3
  <2> HIDE DEF row
  <2> QED
    BY <2>2, <2>3, RowKeepsLocation
<1>4. ASSUME NEW nam \in Nam, subscriber_nam(i, nam)
      PROVE  LocationStep
  BY <1>3, <1>4 DEF subscriber_nam
<1>5. ASSUME NEW d \in Domain, NEW value \in BOOLEAN, set_subscr_cs_ps_enabled(i, d, value)
      PROVE  LocationStep
  <2> DEFINE nam == IF value THEN subscr[i].nam \cup {d} ELSE subscr[i].nam \ {d}
  <2>1. subscr[i] # NoSubscr /\ subscr' = [subscr EXCEPT ![i].nam = nam]
    BY <1>5 DEF set_subscr_cs_ps_enabled
  <2> HIDE DEF nam
  <2> QED
    BY <1>3, <2>1
<1>6. ASSUME NEW n \in Number, NEW reread \in BOOLEAN, subscriber_msisdn(i, n, reread)
      PROVE  LocationStep
  <2> DEFINE row == [subscr[i] EXCEPT !.msisdn = n]
  <2>1. subscr[i] \in Subscriber
    BY <1>6 DEF TypeOK, subscriber_msisdn
  <2>2. row.loc = subscr[i].loc
    BY <2>1 DEF Subscriber
  <2>3. subscr' = [subscr EXCEPT ![i] = row]
    BY <1>6 DEF subscriber_msisdn
  <2> HIDE DEF row
  <2> QED
    BY <2>2, <2>3, RowKeepsLocation
<1> QED
  BY <1>1, <1>2, <1>4, <1>5, <1>6

(* No command, purge or late answer of a VLR moves a recorded location; an *)
(* Update Location request moves it to its source, a peer with a route,    *)
(* and notes the domain of the client that leads there, be it the VLR or   *)
(* its proxy, if the domain is open to the subscriber.                     *)
THEOREM LocationsFollowUpdates == Spec => LocationMoves
<1>1. ASSUME TypeOK, [Next]_vars
      PROVE  [LocationStep]_vars
  <2>1. CASE Rx
    <3>1. ASSUME NEW c \in Peer, NEW v \in Peer, NEW i \in Imsi, NEW ie \in Domain \cup {"none"},
                 NEW s \in OnDemand(i), NEW fail \in {"none", "early", "late"},
                 rx_upd_loc_req(c, v, i, ie, s, fail)
          PROVE  LocationStep
      BY <1>1, <3>1, UpdLocMoves
    <3>2. ASSUME NEW v \in Vlr, NEW m \in isd[v], RxInsertDataResult(v, m) \/ RxInsertDataError(v, m)
          PROVE  LocationStep
      BY <3>2, SameTable DEF RxInsertDataResult, RxInsertDataError
    <3>3. ASSUME NEW c \in Peer, NEW v \in Peer, RxLocationCancel(c, v)
          PROVE  LocationStep
      BY <3>3, SameTable DEF RxLocationCancel
    <3>4. ASSUME NEW c \in Peer, NEW v \in Peer, NEW i \in Imsi, NEW ie \in Domain \cup {"none"},
                 NEW dbok \in BOOLEAN, rx_purge_ms_req(c, v, i, ie, dbok)
          PROVE  LocationStep
      BY <1>1, <3>4, RequestsMove
    <3>5. ASSUME NEW c \in Peer, NEW v \in Peer, NEW i \in Imsi, rx_check_imei_req(c, v, i)
          PROVE  LocationStep
      BY <1>1, <3>5, RequestsMove
    <3> QED
      BY <2>1, <3>1, <3>2, <3>3, <3>4, <3>5 DEF Rx
  <2>2. CASE Timers
    BY <2>2, SameTable DEF Timers, lu_fsm_timer_cb
  <2>3. CASE Peers
    BY <2>3, SameTable DEF Peers, PeerUp, PeerDown
  <2>4. CASE Commands
    BY <1>1, <2>4, CommandsMove
  <2> QED
    BY <1>1, <2>1, <2>2, <2>3, <2>4 DEF Next
<1> QED
  BY <1>1, TypeCorrect, PTL DEF Spec, LocationMoves

-----------------------------------------------------------------------------
(* Subscriber data at the VLRs. *)

(* What PeerKnowsNumber needs to be kept: a client whose first location    *)
(* update of a domain makes it one of those it speaks of holds no data     *)
(* from before, because data is lost with the route it came over.          *)
DInv == DataHeld /\ PeerKnowsNumber

(* A step that makes VLRs drop data, and changes neither routes, domains,  *)
(* numbers nor locations, keeps both.                                      *)
LEMMA DropKeeps ==
    ASSUME TypeOK, DInv, UNCHANGED <<conn, sup>>,
           \A v \in Vlr, i \in Imsi : data'[v][i] \in {data[v][i], Unsent},
           \A i \in Imsi : subscr'[i] # NoSubscr =>
              \/ /\ subscr[i] # NoSubscr /\ subscr'[i].loc = subscr[i].loc
                 /\ subscr'[i].msisdn = subscr[i].msisdn
              \/ subscr'[i].msisdn = NoMsisdn
    PROVE  DInv'
<1>1. DataHeld'
  BY DEF DInv, DataHeld
<1>2. PeerKnowsNumber'
  BY DEF DInv, PeerKnowsNumber, Connected
<1> QED
  BY <1>1, <1>2 DEF DInv

(* A message that is not an Update Location request may add a route: to a  *)
(* VLR that holds no data.                                                 *)
LEMMA RouteKeeps ==
    ASSUME TypeOK, DInv, NEW c \in Peer, NEW v \in Peer, From(c, v),
           UNCHANGED <<sup, data>>,
           \A i \in Imsi : subscr'[i] # NoSubscr =>
              \/ /\ subscr[i] # NoSubscr /\ subscr'[i].loc = subscr[i].loc
                 /\ subscr'[i].msisdn = subscr[i].msisdn
              \/ subscr'[i].msisdn = NoMsisdn
    PROVE  DInv'
<1>1. conn \in [Vlr -> Peer]
  BY DEF TypeOK
<1>2. \A w \in Vlr : conn'[w] = conn[w] \/ (conn[w] = NoVlr /\ conn'[w] # NoVlr)
  <2>1. CASE UNCHANGED conn
    BY <2>1
  <2>2. CASE c \in Vlr /\ v \in Vlr /\ conn[v] \in {c, NoVlr} /\ conn' = [conn EXCEPT ![v] = c]
    BY <1>1, <2>2, NoVlrAssumption
  <2> QED
    BY <2>1, <2>2 DEF From, Connected
<1>3. DataHeld'
  BY <1>2 DEF DInv, DataHeld
<1>4. PeerKnowsNumber'
  BY <1>2, NoVlrAssumption DEF DInv, DataHeld, PeerKnowsNumber, Connected
<1> QED
  BY <1>3, <1>4 DEF DInv

(* An Update Location request sends its VLR the number of the row, or an   *)
(* error.                                                                  *)
LEMMA UpdLocSends ==
    ASSUME TypeOK, DInv, NEW c \in Peer, NEW v \in Peer, NEW i \in Imsi,
           NEW ie \in Domain \cup {"none"}, NEW s \in OnDemand(i),
           NEW fail \in {"none", "early", "late"},
           rx_upd_loc_req(c, v, i, ie, s, fail)
    PROVE  DInv'
<1> DEFINE d == DomainOf(ie)
           sends == ~(Refused(v, s, d) \/ fail # "none")
<1>1. d \in Domain
  BY DEF DomainOf, Domain
<1>2. /\ From(c, v)
      /\ sup' = IF c = NoVlr THEN sup ELSE [sup EXCEPT ![c] = @ \cup {d}]
      /\ subscr' = [subscr EXCEPT ![i] =
                       IF Refused(v, s, d) THEN s ELSE db_subscr_lu(s, v, d, fail)]
      /\ IF sends THEN data' = [data EXCEPT ![v][i] = s.msisdn]
         ELSE data' = IF v = NoVlr THEN data ELSE [data EXCEPT ![v][i] = Unsent]
      /\ sends => v # NoVlr /\ s # NoSubscr
  BY DEF rx_upd_loc_req, Refused
<1>3. /\ subscr \in [Imsi -> Subscriber \cup {NoSubscr}] /\ conn \in [Vlr -> Peer]
      /\ sup \in [Vlr -> SUBSET Domain]
      /\ data \in [Vlr -> [Imsi -> Number \cup {Unsent}]]
  BY DEF TypeOK
<1>4. s \in Subscriber \cup {NoSubscr}
  BY RowTypes
<1>5. /\ \A w \in Vlr, j \in Imsi : w # v \/ j # i => data'[w][j] = data[w][j]
      /\ v # NoVlr /\ ~sends => data'[v][i] = Unsent
      /\ sends => data'[v][i] = s.msisdn
  <2>1. CASE sends
    <3>1. v \in Vlr /\ s.msisdn \in Number
      BY <2>1, <1>2, <1>4 DEF Peer, Subscriber
    <3> QED
      BY <2>1, <3>1, <1>2, DataExceptTypes
  <2>2. CASE ~sends /\ v # NoVlr
    BY <2>2, <1>2, DataExceptTypes DEF Peer
  <2>3. CASE ~sends /\ v = NoVlr
    BY <2>3, <1>2
  <2> QED
    BY <2>1, <2>2, <2>3
<1>6. /\ \A w \in Vlr : conn'[w] = conn[w] \/ (w = v /\ conn[w] = NoVlr /\ conn'[w] # NoVlr)
      /\ v # NoVlr => v \in Vlr /\ c \in Vlr /\ c # NoVlr /\ conn'[v] = c
      /\ c # NoVlr => c \in Connected
      /\ v = NoVlr => c = NoVlr
  <2>1. CASE c = NoVlr /\ v = NoVlr /\ UNCHANGED conn
    BY <2>1
  <2>2. CASE c \in Vlr /\ conn[c] = c /\ v \in Vlr /\ conn[v] \in {c, NoVlr} /\ conn' = [conn EXCEPT ![v] = c]
    <3>1. c # NoVlr /\ v # NoVlr
      BY <2>2, NoVlrAssumption
    <3> QED
      BY <1>3, <2>2, <3>1 DEF Connected
  <2> QED
    BY <1>2, <2>1, <2>2 DEF From, Connected
<1>7. /\ \A w \in Vlr : w # c => sup'[w] = sup[w]
      /\ \A w \in Vlr : sup[w] \subseteq sup'[w]
      /\ c # NoVlr => d \in sup'[c]
  BY <1>1, <1>2, <1>3, <1>6 DEF Connected
<1>8. /\ \A j \in Imsi : j # i => subscr'[j] = subscr[j]
      /\ subscr'[i] # NoSubscr /\ s # NoSubscr =>
            /\ subscr'[i].msisdn = s.msisdn
            /\ \A e \in Domain : subscr'[i].loc[e] = s.loc[e] \/ subscr'[i].loc[e] = v
      /\ s = NoSubscr => subscr'[i] = NoSubscr
  <2>1. s # NoSubscr => /\ db_subscr_lu(s, v, d, fail).msisdn = s.msisdn
                        /\ \A e \in Domain : \/ db_subscr_lu(s, v, d, fail).loc[e] = s.loc[e]
                                              \/ db_subscr_lu(s, v, d, fail).loc[e] = v
    BY <1>1, <1>4 DEF db_subscr_lu, Subscriber
  <2>2. s = NoSubscr => Refused(v, s, d)
    BY DEF Refused
  <2> QED
    BY <1>2, <1>3, <2>1, <2>2
<1>9. subscr[i] # NoSubscr => s = subscr[i]
  BY DEF OnDemand
<1>10. subscr[i] = NoSubscr /\ s # NoSubscr => s.msisdn = NoMsisdn
  BY DEF OnDemand, NewSubscr
<1> HIDE DEF d, sends
<1>11. DataHeld'
  <2> SUFFICES ASSUME NEW w \in Vlr, NEW j \in Imsi, data'[w][j] # Unsent
               PROVE  conn'[w] # NoVlr /\ (conn'[w] = w => sup'[w] # {})
    BY DEF DataHeld
  <2>1. CASE w = v /\ j = i
    BY <2>1, <1>5, <1>6, <1>7, NoVlrAssumption
  <2>2. CASE ~(w = v /\ j = i)
    BY <2>2, <1>5, <1>6, <1>7 DEF DInv, DataHeld
  <2> QED
    BY <2>1, <2>2
<1>12. PeerKnowsNumber'
  <2> SUFFICES ASSUME NEW w \in Vlr, conn'[w] = w, NEW j \in Imsi, NEW e \in Domain,
                      sup'[w] = {e}, subscr'[j] # NoSubscr, subscr'[j].loc[e] = w,
                      data'[w][j] # Unsent, subscr'[j].msisdn # NoMsisdn
               PROVE  data'[w][j] = subscr'[j].msisdn
    BY DEF PeerKnowsNumber, Connected
  <2>1. CASE w = v /\ j = i
    BY <2>1, <1>5, <1>8, NoVlrAssumption
  <2>2. CASE ~(w = v /\ j = i)
    <3>1. data[w][j] = data'[w][j]
      BY <2>2, <1>5
    <3>2. conn[w] = w /\ sup[w] # {}
      BY <3>1, <1>6, NoVlrAssumption DEF DInv, DataHeld
    <3>3. sup[w] = {e}
      BY <3>2, <1>7
    <3>4. subscr[j] # NoSubscr /\ subscr[j].loc[e] = w /\ subscr[j].msisdn = subscr'[j].msisdn
      BY <2>2, <1>8, <1>9, <1>10
    <3> QED
      BY <3>1, <3>2, <3>3, <3>4 DEF DInv, PeerKnowsNumber, Connected
  <2> QED
    BY <2>1, <2>2
<1> QED
  BY <1>11, <1>12 DEF DInv

(* A changed number is sent to the clients PeerKnowsNumber speaks of.      *)
LEMMA MsisdnSends ==
    ASSUME TypeOK, DInv, NEW i \in Imsi, NEW n \in Number, NEW reread \in BOOLEAN,
           subscriber_msisdn(i, n, reread)
    PROVE  DInv'
<1>1. /\ subscr \in [Imsi -> Subscriber \cup {NoSubscr}] /\ subscr[i] # NoSubscr
      /\ subscr' = [subscr EXCEPT ![i] = [subscr[i] EXCEPT !.msisdn = n]]
      /\ UNCHANGED <<conn, sup>> /\ (n = NoMsisdn => reread)
  BY DEF TypeOK, subscriber_msisdn
<1>2. /\ subscr[i] \in Subscriber /\ subscr[i].msisdn \in Number
      /\ subscr'[i].msisdn = n /\ subscr'[i].loc = subscr[i].loc
      /\ \A j \in Imsi : j # i => subscr'[j] = subscr[j]
  BY <1>1 DEF Subscriber
<1>3. CASE ~reread
  <2>1. \A v \in Vlr, j \in Imsi : data'[v][j] = IF j = i THEN Unsent ELSE data[v][j]
    <3>1. data' = DataAt(Vlr, i, Unsent)
      BY <1>3 DEF subscriber_msisdn
    <3>2. \A v \in Vlr, j \in Imsi :
             DataAt(Vlr, i, Unsent)[v][j] = IF v \in Vlr /\ j = i THEN Unsent ELSE data[v][j]
      <4>1. data \in [Vlr -> [Imsi -> Number \cup {Unsent}]]
        BY DEF TypeOK
      <4> QED
        BY <4>1 DEF DataAt
    <3> QED
      BY <3>1, <3>2
  <2>2. DataHeld'
    BY <1>1, <2>1 DEF DInv, DataHeld
  <2>3. PeerKnowsNumber'
    BY <1>1, <1>2, <2>1 DEF DInv, PeerKnowsNumber, Connected
  <2> QED
    BY <2>2, <2>3 DEF DInv
<1>4. CASE reread
  <2> DEFINE sent == IF n = NoMsisdn THEN subscr[i].msisdn ELSE n
  <2>1. \A v \in Vlr, j \in Imsi :
           data'[v][j] = IF v \in Notified(i) /\ j = i THEN sent ELSE data[v][j]
    <3>1. data' = DataAt(Notified(i), i, sent)
      BY <1>4 DEF subscriber_msisdn
    <3>2. sent \in Number
      BY <1>2
    <3> HIDE DEF sent
    <3> QED
      BY <3>1, <3>2, DataAtTypes
  <2>2. \A v \in Notified(i) : v \in Vlr /\ conn[v] = v /\ sup[v] # {}
    BY DEF Notified, Connected
  <2>3. DataHeld'
    BY <1>1, <2>1, <2>2, NoVlrAssumption DEF DInv, DataHeld
  <2>4. PeerKnowsNumber'
    <3> SUFFICES ASSUME NEW v \in Vlr, conn'[v] = v, NEW j \in Imsi, NEW e \in Domain,
                        sup'[v] = {e}, subscr'[j] # NoSubscr, subscr'[j].loc[e] = v,
                        data'[v][j] # Unsent, subscr'[j].msisdn # NoMsisdn
                 PROVE  data'[v][j] = subscr'[j].msisdn
      BY DEF PeerKnowsNumber, Connected
    <3>1. CASE j # i
      <4>1. data'[v][j] = data[v][j] /\ subscr'[j] = subscr[j]
        BY <3>1, <1>2, <2>1
      <4> QED
        BY <4>1, <1>1 DEF DInv, PeerKnowsNumber, Connected
    <3>2. CASE j = i
      <4>1. e = IF "ps" \in sup[v] THEN "ps" ELSE "cs"
        BY <1>1 DEF Domain
      <4>2. v \in Notified(i)
        BY <3>2, <4>1, <1>1, <1>2 DEF Notified, Connected
      <4>3. data'[v][i] = sent /\ n # NoMsisdn
        BY <3>2, <4>2, <2>1, <1>2
      <4> QED
        BY <3>2, <4>3, <1>2
    <3> QED
      BY <3>1, <3>2
  <2> QED
    BY <2>3, <2>4 DEF DInv
<1> QED
  BY <1>3, <1>4

(* The client that a subscriber is on record with never holds another      *)
(* number than the row, if its role is unambiguous: for every number of    *)
(* clients and subscribers, with proxies and reconnects, moves of the      *)
(* subscriber and operator commands in any order.                          *)
THEOREM PeersKnowNumbers == Spec => []PeerKnowsNumber
<1>1. Init => DInv
  <2> SUFFICES ASSUME Init PROVE DInv
    OBVIOUS
  <2>1. \A v \in Vlr, i \in Imsi : data[v][i] = Unsent
    BY DEF Init
  <2> QED
    BY <2>1 DEF DInv, DataHeld, PeerKnowsNumber, Connected
<1>2. ASSUME IInv, DInv, [Next]_vars
      PROVE  DInv'
  <2>0. TypeOK /\ data \in [Vlr -> [Imsi -> Number \cup {Unsent}]]
        /\ subscr \in [Imsi -> Subscriber \cup {NoSubscr}]
    BY <1>2 DEF IInv, TypeOK
  <2>1. CASE UNCHANGED vars
    BY <1>2, <2>0, <2>1, DropKeeps DEF vars
  <2>2. ASSUME NEW c \in Peer, NEW v \in Peer, NEW i \in Imsi, NEW ie \in Domain \cup {"none"},
               NEW s \in OnDemand(i), NEW fail \in {"none", "early", "late"},
               rx_upd_loc_req(c, v, i, ie, s, fail)
        PROVE  DInv'
    BY <1>2, <2>0, <2>2, UpdLocSends
  <2>3. ASSUME NEW v \in Vlr, NEW m \in isd[v], RxInsertDataResult(v, m) \/ RxInsertDataError(v, m)
        PROVE  DInv'
    <3>1. UNCHANGED <<subscr, conn, sup>>
      BY <2>3 DEF RxInsertDataResult, RxInsertDataError
    <3>2. \A w \in Vlr, j \in Imsi : data'[w][j] \in {data[w][j], Unsent}
      BY <1>2, <2>3, FailLuTypes DEF RxInsertDataResult, RxInsertDataError
    <3> QED
      BY <1>2, <2>0, <3>1, <3>2, DropKeeps
  <2>4. ASSUME NEW r \in Nr, lu_fsm_timer_cb(r)
        PROVE  DInv'
    <3>1. UNCHANGED <<subscr, conn, sup>>
      BY <2>4 DEF lu_fsm_timer_cb
    <3>2. \A w \in Vlr, j \in Imsi : data'[w][j] \in {data[w][j], Unsent}
      BY <1>2, <2>4, FailLuTypes DEF lu_fsm_timer_cb
    <3> QED
      BY <1>2, <2>0, <3>1, <3>2, DropKeeps
  <2>5. ASSUME NEW c \in Peer, NEW v \in Peer, RxLocationCancel(c, v)
        PROVE  DInv'
    <3>1. From(c, v) /\ UNCHANGED <<subscr, sup, data>>
      BY <2>5 DEF RxLocationCancel
    <3> QED
      BY <1>2, <2>0, <3>1, RouteKeeps
  <2>6. ASSUME NEW c \in Peer, NEW v \in Peer, NEW i \in Imsi, NEW ie \in Domain \cup {"none"},
               NEW dbok \in BOOLEAN, rx_purge_ms_req(c, v, i, ie, dbok)
        PROVE  DInv'
    <3>1. From(c, v) /\ UNCHANGED <<sup, data>>
      BY <2>6 DEF rx_purge_ms_req
    <3>2. \A j \in Imsi : subscr'[j] # NoSubscr =>
             /\ subscr[j] # NoSubscr /\ subscr'[j].loc = subscr[j].loc
             /\ subscr'[j].msisdn = subscr[j].msisdn
      BY <2>0, <2>6 DEF rx_purge_ms_req, Subscriber
    <3> QED
      BY <1>2, <2>0, <3>1, <3>2, RouteKeeps
  <2>7. ASSUME NEW c \in Peer, NEW v \in Peer, NEW i \in Imsi, rx_check_imei_req(c, v, i)
        PROVE  DInv'
    <3>1. From(c, v) /\ UNCHANGED <<sup, data>>
      BY <2>7 DEF rx_check_imei_req
    <3>2. PICK s \in OnDemand(i) : subscr' = [subscr EXCEPT ![i] = s]
      BY <2>7 DEF rx_check_imei_req
    <3>3. s = subscr[i] \/ s.msisdn = NoMsisdn
      BY DEF OnDemand, NewSubscr
    <3>4. \A j \in Imsi : subscr'[j] = subscr[j] \/ subscr'[j].msisdn = NoMsisdn
      BY <2>0, <3>2, <3>3
    <3> QED
      BY <1>2, <2>0, <3>1, <3>4, RouteKeeps
  <2>8. ASSUME NEW c \in Vlr, PeerUp(c)
        PROVE  DInv'
    <3>1. /\ conn \in [Vlr -> Peer] /\ conn[c] = NoVlr /\ conn' = [conn EXCEPT ![c] = c]
          /\ UNCHANGED <<subscr, sup, data>>
      BY <1>2, <2>8 DEF IInv, TypeOK, PeerUp
    <3>2. \A v \in Vlr : v # c => conn'[v] = conn[v]
      BY <3>1
    <3>3. \A i \in Imsi : data[c][i] = Unsent
      BY <1>2, <3>1 DEF DInv, DataHeld
    <3>4. DataHeld'
      BY <1>2, <3>1, <3>2, <3>3 DEF DInv, DataHeld
    <3>5. PeerKnowsNumber'
      BY <1>2, <3>1, <3>2, <3>3 DEF DInv, PeerKnowsNumber, Connected
    <3> QED
      BY <3>4, <3>5 DEF DInv
  <2>9. ASSUME NEW c \in Vlr, PeerDown(c)
        PROVE  DInv'
    <3>1. /\ conn \in [Vlr -> Peer] /\ sup \in [Vlr -> SUBSET Domain] /\ UNCHANGED subscr
          /\ conn' = [v \in Vlr |-> IF conn[v] = c THEN NoVlr ELSE conn[v]]
          /\ data' = [v \in Vlr |-> IF conn[v] = c THEN [i \in Imsi |-> Unsent] ELSE data[v]]
          /\ sup' = [sup EXCEPT ![c] = {}] /\ conn[c] = c
      BY <1>2, <2>9 DEF IInv, TypeOK, PeerDown, Connected
    <3>2. /\ \A v \in Vlr, i \in Imsi : conn[v] = c => data'[v][i] = Unsent
          /\ \A v \in Vlr : conn[v] # c => /\ v # c /\ conn'[v] = conn[v]
                                          /\ data'[v] = data[v] /\ sup'[v] = sup[v]
      BY <3>1
    <3>3. DataHeld'
      BY <1>2, <3>2 DEF DInv, DataHeld
    <3>4. PeerKnowsNumber'
      BY <1>2, <3>1, <3>2 DEF DInv, PeerKnowsNumber, Connected
    <3> QED
      BY <3>3, <3>4 DEF DInv
  <2>10. ASSUME NEW i \in Imsi, subscriber_create(i) \/ subscriber_delete(i)
         PROVE  DInv'
    <3>1. UNCHANGED <<conn, sup, data>>
      BY <2>10 DEF subscriber_create, subscriber_delete
    <3>2. NewSubscr(Domain).msisdn = NoMsisdn
      BY DEF NewSubscr
    <3>3. \A j \in Imsi : \/ subscr'[j] = subscr[j]
                           \/ subscr'[j] = NoSubscr \/ subscr'[j].msisdn = NoMsisdn
      BY <2>0, <2>10, <3>2 DEF subscriber_create, subscriber_delete
    <3> QED
      BY <1>2, <2>0, <3>1, <3>3, DropKeeps
  <2>11. ASSUME NEW i \in Imsi, NEW nam, subscr[i] # NoSubscr,
                subscr' = [subscr EXCEPT ![i].nam = nam], UNCHANGED <<conn, sup>>,
                \A w \in Vlr, j \in Imsi : data'[w][j] \in {data[w][j], Unsent}
         PROVE  DInv'
    <3>1. \A j \in Imsi : subscr'[j] # NoSubscr =>
             /\ subscr[j] # NoSubscr /\ subscr'[j].loc = subscr[j].loc
             /\ subscr'[j].msisdn = subscr[j].msisdn
      BY <2>0, <2>11 DEF Subscriber
    <3> QED
      BY <1>2, <2>0, <2>11, <3>1, DropKeeps
  <2>12. ASSUME NEW i \in Imsi, NEW nam \in Nam, subscriber_nam(i, nam)
         PROVE  DInv'
    <3>1. \A w \in Vlr, j \in Imsi : data'[w][j] \in {data[w][j], Unsent}
      <4>1. data' = data \/ data' = DataAt(Responsible(i), i, Unsent)
        BY <2>12 DEF subscriber_nam
      <4>2. \A w \in Vlr, j \in Imsi :
               DataAt(Responsible(i), i, Unsent)[w][j] \in {data[w][j], Unsent}
        <5>1. \A w \in Vlr, j \in Imsi :
                 DataAt(Responsible(i), i, Unsent)[w][j]
                    = IF w \in Responsible(i) /\ j = i THEN Unsent ELSE data[w][j]
          BY <2>0 DEF DataAt
        <5> QED
          BY <5>1
      <4> QED
        BY <4>1, <4>2
    <3> QED
      BY <2>11, <2>12, <3>1 DEF subscriber_nam
  <2>13. ASSUME NEW i \in Imsi, NEW d \in Domain, NEW value \in BOOLEAN,
                set_subscr_cs_ps_enabled(i, d, value)
         PROVE  DInv'
    <3> DEFINE nam == IF value THEN subscr[i].nam \cup {d} ELSE subscr[i].nam \ {d}
    <3>1. /\ subscr[i] # NoSubscr /\ subscr' = [subscr EXCEPT ![i].nam = nam]
          /\ UNCHANGED <<conn, sup, data>>
      BY <2>13 DEF set_subscr_cs_ps_enabled
    <3> HIDE DEF nam
    <3> QED
      BY <2>11, <3>1
  <2>14. ASSUME NEW i \in Imsi, NEW n \in Number, NEW reread \in BOOLEAN,
                subscriber_msisdn(i, n, reread)
         PROVE  DInv'
    BY <1>2, <2>0, <2>14, MsisdnSends
  <2>15. CASE Rx
    BY <2>2, <2>3, <2>5, <2>6, <2>7, <2>15 DEF Rx
  <2>16. CASE Timers \/ Peers
    BY <2>4, <2>8, <2>9, <2>16 DEF Timers, Peers
  <2>17. CASE Commands
    BY <2>10, <2>12, <2>13, <2>14, <2>17 DEF Commands
  <2> QED
    BY <1>2, <2>1, <2>15, <2>16, <2>17 DEF Next
<1>3. DInv => PeerKnowsNumber
  BY DEF DInv
<1> QED
  BY <1>1, <1>2, <1>3, InitIInv, NextIInv, PTL DEF Spec

=============================================================================
