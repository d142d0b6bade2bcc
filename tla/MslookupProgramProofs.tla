----------------------- MODULE MslookupProgramProofs -----------------------
(***************************************************************************)
(* Proofs about the MS lookup client and the programs around it, for any   *)
(* queries, connections, handles, ages and number of requests.             *)
(*                                                                         *)
(* The inductive invariant adds to the agreement of the lists what an open *)
(* request has on record: the youngest result that was received, which the *)
(* user was told of unless the initial delay is not over.                  *)
(***************************************************************************)
EXTENDS MslookupProgram, FiniteSetTheorems, SequenceTheorems, WellFoundedInduction, TLAPS

(* Sets of numbers and lists. *)

(* A non-empty set of natural numbers has a least member. *)
LEMMA LeastNat ==
    ASSUME NEW T \in SUBSET Nat, T # {}
    PROVE  \E x \in T : \A y \in T : x <= y
<1> DEFINE R == OpToRel(<, Nat)
<1>1. IsWellFoundedOn(R, Nat)
  BY NatLessThanWellFounded
<1>2. \A y, x \in Nat : y < x => <<y, x>> \in R
  BY DEF OpToRel
<1> HIDE DEF R
<1>3. PICK x \in T : \A y \in T : ~ (<<y, x>> \in R)
  BY <1>1, WFMin
<1>4. ASSUME NEW y \in T PROVE x <= y
  <2>1. x \in Nat /\ y \in Nat
    OBVIOUS
  <2>2. ~(y < x)
    BY <1>2, <1>3, <2>1
  <2> QED
    BY <2>1, <2>2
<1> QED
  BY <1>4

(* What removing the k-th element of a sequence leaves. *)
LEMMA RemoveAtProperties ==
    ASSUME NEW S, NEW s \in Seq(S), NEW k \in 1..Len(s)
    PROVE  /\ RemoveAt(s, k) \in Seq(S)
           /\ Len(RemoveAt(s, k)) = Len(s) - 1
           /\ \A j \in 1..(Len(s) - 1) :
                 RemoveAt(s, k)[j] = IF j < k THEN s[j] ELSE s[j+1]
<1> DEFINE a == SubSeq(s, 1, k-1)
           b == SubSeq(s, k+1, Len(s))
<1>1. a \in Seq(S) /\ Len(a) = k-1 /\ \A j \in 1..(k-1) : a[j] = s[j]
  BY SMT
<1>2. b \in Seq(S) /\ Len(b) = Len(s)-k /\ \A j \in 1..(Len(s)-k) : b[j] = s[k+j]
  BY SMT
<1>3. RemoveAt(s, k) = a \o b
  BY DEF RemoveAt
<1> HIDE DEF a, b
<1>4. /\ a \o b \in Seq(S)
      /\ Len(a \o b) = Len(a) + Len(b)
      /\ \A j \in 1..(Len(a) + Len(b)) :
            (a \o b)[j] = IF j <= Len(a) THEN a[j] ELSE b[j - Len(a)]
  BY <1>1, <1>2, ConcatProperties
<1> QED
  BY <1>1, <1>2, <1>3, <1>4, SMT

(* Adding an element at the head of a list, as llist_add() does. *)
LEMMA ConsProperties ==
    ASSUME NEW S, NEW s \in Seq(S), NEW x \in S
    PROVE  /\ <<x>> \o s \in Seq(S)
           /\ Len(<<x>> \o s) = Len(s) + 1
           /\ (<<x>> \o s)[1] = x
           /\ \A j \in 1..Len(s) : (<<x>> \o s)[j+1] = s[j]
<1>1. <<x>> \in Seq(S) /\ Len(<<x>>) = 1 /\ <<x>>[1] = x
  OBVIOUS
<1> QED
  BY <1>1, ConcatProperties, SMT

(* Min() of a set of natural numbers. *)
LEMMA MinIs ==
    ASSUME NEW T \in SUBSET Nat, T # {}
    PROVE  Min(T) \in T /\ \A y \in T : Min(T) <= y
  BY LeastNat DEF Min

-----------------------------------------------------------------------------
(* The invariant. *)

(* What a request has on record. *)
Sound(q) ==
    /\ q.age = q.heard
    /\ q.told = IF q.waiting THEN NoAge ELSE q.age

OpenSound == \A r \in Open : Sound(req[r])

ClientInv ==
    /\ TypeOK
    /\ HandlesUnique
    /\ MethodMirrorsRequests
    /\ OpenSound

(* The program's entry for a request. *)
Entry(q) == [handle |-> q.handle, query |-> q.query]

QueriesAgree == Running => queries = {Entry(req[r]) : r \in Open}

NobodyForgotten == \A c \in Conn : client[c] \in Asked => \E q \in queries : q.query = client[c]

(* Another user of the library has no socket, and neither has a program    *)
(* that has ended.                                                         *)
NoSocket == ~Running => queries = {} /\ client = [c \in Conn |-> Closed]

IInv ==
    /\ ProgramTypeOK
    /\ ClientInv
    /\ QueriesAgree
    /\ NobodyForgotten
    /\ NoSocket

-----------------------------------------------------------------------------
(* The list of the mDNS method. *)

(* Cleaning up removes one entry, if there is one with the handle, and     *)
(* keeps all that have another.                                            *)
LEMMA CleanupIs ==
    ASSUME NEW list \in Seq(MdnsRequest), NEW h
    PROVE  /\ mdns_method_request_cleanup(list, h) \in Seq(MdnsRequest)
           /\ (\E i \in DOMAIN list : list[i].handle = h)
                 => Len(mdns_method_request_cleanup(list, h)) = Len(list) - 1
           /\ \A i \in DOMAIN list : list[i].handle # h =>
                 \E j \in DOMAIN mdns_method_request_cleanup(list, h) :
                    mdns_method_request_cleanup(list, h)[j] = list[i]
<1> DEFINE is == {i \in DOMAIN list : list[i].handle = h}
           k == MdnsIndex(list, h)
           less == mdns_method_request_cleanup(list, h)
<1>1. DOMAIN list = 1..Len(list) /\ Len(list) \in Nat
  OBVIOUS
<1>2. is \in SUBSET Nat
  BY <1>1
<1>3. k = IF is = {} THEN 0 ELSE Min(is)
  BY DEF MdnsIndex
<1>4. less = IF k = 0 THEN list ELSE RemoveAt(list, k)
  BY DEF mdns_method_request_cleanup
<1>5. CASE is = {}
  BY <1>3, <1>4, <1>5
<1>6. CASE is # {}
  <2>1. k \in is
    BY <1>2, <1>3, <1>6, MinIs
  <2>2. k \in 1..Len(list) /\ list[k].handle = h
    BY <1>1, <2>1
  <2> HIDE DEF is, k
  <2>3. less = RemoveAt(list, k)
    BY <1>1, <1>4, <2>2
  <2> HIDE DEF less
  <2>4. /\ less \in Seq(MdnsRequest) /\ Len(less) = Len(list) - 1
        /\ \A j \in 1..(Len(list) - 1) : less[j] = IF j < k THEN list[j] ELSE list[j+1]
    BY <2>2, <2>3, RemoveAtProperties
  <2>5. ASSUME NEW i \in DOMAIN list, list[i].handle # h
        PROVE  \E j \in DOMAIN less : less[j] = list[i]
    <3> DEFINE j == IF i < k THEN i ELSE i - 1
    <3>1. i # k /\ i \in 1..Len(list)
      BY <1>1, <2>2, <2>5
    <3>2. j \in 1..(Len(list) - 1) /\ less[j] = list[i]
      BY <1>1, <2>2, <2>4, <3>1
    <3>3. DOMAIN less = 1..(Len(list) - 1)
      BY <2>4
    <3> QED
      BY <3>2, <3>3
  <2> QED
    BY <2>4, <2>5 DEF less
<1> QED
  BY <1>5, <1>6

(* There are finitely many open requests. *)
LEMMA OpenFinite == IsFiniteSet(Open) /\ Cardinality(Open) \in Nat
<1>1. IsFiniteSet(Id)
  BY BoundAssumption, FS_Interval DEF Id
<1>2. IsFiniteSet(Open)
  BY <1>1, FS_Subset DEF Open
<1> QED
  BY <1>2, FS_CardinalityType

(* The method forgets a request with the handle that it had. *)
Forgotten(r) == mdns_method_request_cleanup(mdns, req[r].handle)

LEMMA MirrorForgets ==
    ASSUME TypeOK, HandlesUnique, MethodMirrorsRequests, NEW r \in Open
    PROVE  /\ Forgotten(r) \in Seq(MdnsRequest)
           /\ \A s \in Open \ {r} : \E i \in DOMAIN Forgotten(r) :
                 Forgotten(r)[i].handle = req[s].handle /\ Forgotten(r)[i].query = req[s].query
           /\ Len(Forgotten(r)) = Cardinality(Open) - 1
           /\ Len(Forgotten(r)) = Cardinality(Open \ {r})
<1> DEFINE list == Forgotten(r)
<1>0. list = mdns_method_request_cleanup(mdns, req[r].handle)
  BY DEF Forgotten
<1> HIDE DEF list
<1>1. mdns \in Seq(MdnsRequest)
  BY DEF TypeOK
<1>2. \E i \in DOMAIN mdns : mdns[i].handle = req[r].handle
  BY DEF MethodMirrorsRequests
<1>3. list \in Seq(MdnsRequest) /\ Len(list) = Len(mdns) - 1
  BY <1>0, <1>1, <1>2, CleanupIs
<1>4. ASSUME NEW s \in Open \ {r}
      PROVE  \E i \in DOMAIN list : list[i].handle = req[s].handle /\ list[i].query = req[s].query
  <2>1. req[s].handle # req[r].handle
    BY DEF HandlesUnique
  <2>2. PICK i \in DOMAIN mdns : mdns[i].handle = req[s].handle /\ mdns[i].query = req[s].query
    BY DEF MethodMirrorsRequests
  <2>3. PICK j \in DOMAIN list : list[j] = mdns[i]
    BY <1>0, <1>1, <2>1, <2>2, CleanupIs
  <2> QED
    BY <2>2, <2>3
<1>5. Cardinality(Open \ {r}) = Cardinality(Open) - 1
  BY OpenFinite, FS_RemoveElement
<1>6. Len(mdns) = Cardinality(Open)
  BY DEF MethodMirrorsRequests
<1> QED
  BY <1>3, <1>4, <1>5, <1>6 DEF list

-----------------------------------------------------------------------------
(* Records. *)

(* A result that is not the last one is passed on. *)
ToldMore(q, age) == Told(q, age, FALSE)

LEMMA ToldIs ==
    ASSUME NEW q \in Request, NEW age \in 0..NoAge, NEW t, t = ToldMore(q, age)
    PROVE  /\ t \in Request
           /\ t.st = q.st /\ t.handle = q.handle /\ t.query = q.query
           /\ t.handling = q.handling /\ t.waiting = q.waiting
           /\ t.age = q.age /\ t.heard = q.heard
           /\ t.told = IF age = NoAge THEN q.told ELSE age
           /\ t.calls = q.calls + 1
           /\ t.finals = q.finals
<1> DEFINE told == IF age = NoAge THEN q.told ELSE age
<1>1. told \in 0..NoAge /\ q.calls + 1 \in Nat /\ q.finals + 0 = q.finals
  BY DEF Request
<1> HIDE DEF told
<1>2. t = [st |-> q.st, handle |-> q.handle, query |-> q.query, handling |-> q.handling,
           waiting |-> q.waiting, age |-> q.age, heard |-> q.heard, told |-> told,
           calls |-> q.calls + 1, finals |-> q.finals]
  BY <1>1 DEF ToldMore, Told, Request, told
<1>3. t \in Request
  BY <1>1, <1>2 DEF Request
<1> QED
  BY <1>2, <1>3 DEF told

(* The last result is passed on, and the request ends. *)
LEMMA FinishedIs ==
    ASSUME NEW q \in Request, NEW age \in 0..NoAge, NEW t, t = Finished(q, age)
    PROVE  /\ t \in Request
           /\ t.st = "done" /\ t.handle = q.handle /\ t.query = q.query
           /\ t.age = q.age /\ t.heard = q.heard
           /\ t.told = IF age = NoAge THEN q.told ELSE age
           /\ t.calls = q.calls + 1
           /\ t.finals = q.finals + 1
<1> DEFINE told == IF age = NoAge THEN q.told ELSE age
<1>1. told \in 0..NoAge /\ q.calls + 1 \in Nat /\ q.finals + 1 \in Nat
  BY DEF Request
<1> HIDE DEF told
<1>2. t = [st |-> "done", handle |-> q.handle, query |-> q.query, handling |-> q.handling,
           waiting |-> q.waiting, age |-> q.age, heard |-> q.heard, told |-> told,
           calls |-> q.calls + 1, finals |-> q.finals + 1]
  BY DEF Finished, Told, Request, told
<1>3. t \in Request
  BY <1>1, <1>2 DEF Request
<1> QED
  BY <1>2, <1>3 DEF told

(* A request that its user has cancelled. *)
LEMMA CancelledIs ==
    ASSUME NEW q \in Request, NEW t, t = [q EXCEPT !.st = "cancelled"]
    PROVE  /\ t \in Request
           /\ t.st = "cancelled" /\ t.handle = q.handle /\ t.query = q.query
           /\ t.heard = q.heard /\ t.told = q.told
           /\ t.calls = q.calls /\ t.finals = q.finals
  BY DEF Request

(* The initial delay of a request is over. *)
LEMMA WaitedIs ==
    ASSUME NEW q \in Request, NEW t, t = [q EXCEPT !.waiting = FALSE]
    PROVE  /\ t \in Request
           /\ t.st = q.st /\ t.handle = q.handle /\ t.query = q.query
           /\ t.waiting = FALSE
           /\ t.age = q.age /\ t.heard = q.heard /\ t.told = q.told
           /\ t.calls = q.calls /\ t.finals = q.finals
  BY DEF Request

(* A result is put on record. *)
Stored(q, age) == [[q EXCEPT !.heard = Min({@, age})] EXCEPT !.age = age]

LEMMA AgeIs == Age \subseteq 0..NoAge /\ NoAge \in Nat /\ NoAge \notin Age /\ NoAge # 0
  BY BoundAssumption DEF Age, NoAge

LEMMA MinPair ==
    ASSUME NEW a \in Nat, NEW b \in Nat
    PROVE  Min({a, b}) = IF a <= b THEN a ELSE b
<1>1. Min({a, b}) \in {a, b} /\ Min({a, b}) <= a /\ Min({a, b}) <= b
  BY MinIs
<1> QED
  BY <1>1

LEMMA StoredIs ==
    ASSUME NEW q \in Request, NEW age \in Age, age < q.heard, NEW t, t = Stored(q, age)
    PROVE  /\ t \in Request
           /\ t.st = q.st /\ t.handle = q.handle /\ t.query = q.query
           /\ t.handling = q.handling /\ t.waiting = q.waiting
           /\ t.age = age /\ t.heard = age /\ t.told = q.told
           /\ t.calls = q.calls /\ t.finals = q.finals
<1>1. age \in 0..NoAge /\ age \in Nat /\ q.heard \in Nat
  BY AgeIs DEF Request
<1>2. Min({q.heard, age}) = age
  BY <1>1, MinPair
<1>3. t = [st |-> q.st, handle |-> q.handle, query |-> q.query, handling |-> q.handling,
           waiting |-> q.waiting, age |-> age, heard |-> age, told |-> q.told,
           calls |-> q.calls, finals |-> q.finals]
  BY <1>2 DEF Stored, Request
<1>4. t \in Request
  BY <1>1, <1>3 DEF Request
<1> QED
  BY <1>3, <1>4

-----------------------------------------------------------------------------
(* Steps of a request. *)

(* What the user of a request sees of it. *)
View(q) == [st |-> q.st, heard |-> q.heard, told |-> q.told, calls |-> q.calls, finals |-> q.finals]

(* A step of a request is one that a Lookup may take. *)
Seen(q, n) ==
    \/ View(q) = View(n)
    \/ LookupPromise!Start(View(q), View(n))
    \/ LookupPromise!Hear(View(q), View(n))
    \/ LookupPromise!Tell(View(q), View(n))
    \/ LookupPromise!Finish(View(q), View(n))
    \/ LookupPromise!Cancel(View(q), View(n))

(* The open request r becomes n, and no other request changes. *)
Change(r, n) ==
    /\ r \in Open
    /\ n \in Request /\ n.handle = req[r].handle /\ n.query = req[r].query
    /\ req' = [req EXCEPT ![r] = n]
    /\ next' = next
    /\ dangling' \subseteq Id
    /\ \/ n.st = "open" /\ n.finals = req[r].finals /\ Sound(n) /\ mdns' = mdns
       \/ /\ n.st \in {"done", "cancelled"}
          /\ n.finals = IF n.st = "done" THEN req[r].finals + 1 ELSE req[r].finals
          /\ mdns' = mdns_method_request_cleanup(mdns, req[r].handle)
    /\ Seen(req[r], n)

LEMMA OpenIs ==
    ASSUME TypeOK, NEW r \in Open
    PROVE  r \in Id /\ req[r] \in Request /\ req[r].st = "open"
  BY DEF Open, TypeOK

(* The user cancels a request. *)
LEMMA CancelIs ==
    ASSUME ClientInv, NEW r \in Id, osmo_mslookup_client_request_cancel(r)
    PROVE  \E n : Change(r, n)
<1> DEFINE n == [req[r] EXCEPT !.st = "cancelled"]
<1>1. r \in Open /\ req[r] \in Request /\ req[r].st = "open"
  BY OpenIs DEF osmo_mslookup_client_request_cancel, ClientInv
<1>2. /\ n \in Request
      /\ n.st = "cancelled" /\ n.handle = req[r].handle /\ n.query = req[r].query
      /\ n.heard = req[r].heard /\ n.told = req[r].told
      /\ n.calls = req[r].calls /\ n.finals = req[r].finals
  BY <1>1, CancelledIs
<1>3. req' = [req EXCEPT ![r] = n]
  BY DEF osmo_mslookup_client_request_cancel
<1> HIDE DEF n
<1>4. Seen(req[r], n)
  BY <1>1, <1>2 DEF Seen, View, LookupPromise!Cancel
<1>5. Change(r, n)
  BY <1>1, <1>2, <1>3, <1>4
     DEF Change, osmo_mslookup_client_request_cancel, ClientInv, TypeOK
<1> QED
  BY <1>5

(* A request gets a result. *)
LEMMA RxIs ==
    ASSUME ClientInv, NEW r \in Open, NEW age \in Age, NEW cancel \in BOOLEAN,
           osmo_mslookup_client_rx_result(r, age, cancel), UNCHANGED <<next, dangling>>
    PROVE  \E n : Change(r, n) /\ (cancel = FALSE => n.st # "cancelled")
<1> DEFINE q == req[r]
           s == Stored(q, age)
           told == ToldMore(s, age)
           gone == [told EXCEPT !.st = "cancelled"]
           forget == mdns_method_request_cleanup(mdns, q.handle)
<1>1. q \in Request /\ q.st = "open" /\ Sound(q) /\ dangling \subseteq Id
  BY OpenIs DEF ClientInv, OpenSound, TypeOK
<1>2. next' = next /\ dangling' \subseteq Id
  BY <1>1
<1>3. /\ age \in 0..NoAge /\ age \in Nat /\ age # NoAge /\ NoAge \in Nat
      /\ q.age \in Nat /\ q.heard \in Nat /\ q.finals \in Nat
  BY <1>1, AgeIs DEF Request
<1>4. \/ ~(age < q.age) /\ req' = [req EXCEPT ![r] = [q EXCEPT !.heard = Min({@, age})]]
            /\ mdns' = mdns
      \/ age < q.age /\ req' = [req EXCEPT ![r] = Finished(s, age)] /\ mdns' = forget
      \/ age < q.age /\ q.waiting /\ req' = [req EXCEPT ![r] = s] /\ mdns' = mdns
      \/ age < q.age /\ ~q.waiting /\ cancel = FALSE
            /\ req' = [req EXCEPT ![r] = told] /\ mdns' = mdns
      \/ age < q.age /\ ~q.waiting /\ cancel = TRUE
            /\ req' = [req EXCEPT ![r] = gone] /\ mdns' = forget
  BY DEF osmo_mslookup_client_rx_result, IsYounger, Stored, ToldMore
<1> HIDE DEF forget, told, s
<1>5. CASE ~(age < q.age) /\ req' = [req EXCEPT ![r] = [q EXCEPT !.heard = Min({@, age})]]
               /\ mdns' = mdns
  <2>1. q.heard <= age
    BY <1>1, <1>3, <1>5 DEF Sound
  <2>2. Min({q.heard, age}) = q.heard
    BY <1>3, <2>1, MinPair
  <2>3. [q EXCEPT !.heard = Min({@, age})] = q
    BY <1>1, <2>2 DEF Request
  <2>4. Seen(q, q)
    BY DEF Seen
  <2>5. Change(r, q)
    BY <1>1, <1>2, <1>5, <2>3, <2>4 DEF Change
  <2> QED
    BY <1>1, <2>5
<1>6. CASE age < q.age
  <2>1. age < q.heard
    BY <1>1, <1>6 DEF Sound
  <2>2. /\ s \in Request
        /\ s.st = "open" /\ s.handle = q.handle /\ s.query = q.query /\ s.waiting = q.waiting
        /\ s.age = age /\ s.heard = age /\ s.told = q.told
        /\ s.calls = q.calls /\ s.finals = q.finals
    BY <1>1, <2>1, StoredIs DEF s
  <2>3. CASE req' = [req EXCEPT ![r] = Finished(s, age)] /\ mdns' = forget
    <3> DEFINE n == Finished(s, age)
    <3>1. /\ n \in Request
          /\ n.st = "done" /\ n.handle = s.handle /\ n.query = s.query
          /\ n.heard = s.heard
          /\ n.told = IF age = NoAge THEN s.told ELSE age
          /\ n.calls = s.calls + 1 /\ n.finals = s.finals + 1
      BY <1>3, <2>2, FinishedIs
    <3> HIDE DEF n
    <3>2. Seen(q, n)
      BY <1>1, <1>3, <2>1, <2>2, <3>1 DEF Seen, View, LookupPromise!Finish
    <3>3. Change(r, n)
      BY <1>1, <1>2, <2>2, <2>3, <3>1, <3>2 DEF Change, n, forget
    <3> QED
      BY <3>1, <3>3
  <2>4. CASE q.waiting /\ req' = [req EXCEPT ![r] = s] /\ mdns' = mdns
    <3>1. Sound(s)
      BY <1>1, <2>2, <2>4 DEF Sound
    <3>2. View(s) = [View(q) EXCEPT !.heard = View(s).heard]
      BY <1>1, <2>2 DEF View
    <3>3. Seen(q, s)
      BY <1>1, <2>1, <2>2, <3>2 DEF Seen, View, LookupPromise!Hear
    <3>4. Change(r, s)
      BY <1>1, <1>2, <2>2, <2>4, <3>1, <3>3 DEF Change
    <3> QED
      BY <2>2, <3>4
  <2>5. CASE ~q.waiting
    <3>1. /\ told \in Request
          /\ told.st = "open" /\ told.handle = q.handle /\ told.query = q.query
          /\ told.waiting = q.waiting /\ told.age = age /\ told.heard = age /\ told.told = age
          /\ told.calls = q.calls + 1 /\ told.finals = q.finals
      BY <1>3, <2>2, ToldIs DEF told
    <3>2. age < q.told
      BY <1>1, <1>6, <2>5 DEF Sound
    <3>3. CASE req' = [req EXCEPT ![r] = told] /\ mdns' = mdns
      <4>1. Sound(told)
        BY <2>5, <3>1 DEF Sound
      <4>2. Seen(q, told)
        BY <1>1, <1>3, <2>1, <3>1, <3>2 DEF Seen, View, LookupPromise!Tell
      <4>3. Change(r, told)
        BY <1>1, <1>2, <3>1, <3>3, <4>1, <4>2 DEF Change
      <4> QED
        BY <3>1, <4>3
    <3>4. CASE cancel = TRUE /\ req' = [req EXCEPT ![r] = gone] /\ mdns' = forget
      <4>1. /\ gone \in Request
            /\ gone.st = "cancelled" /\ gone.handle = q.handle /\ gone.query = q.query
            /\ gone.heard = age /\ gone.told = age
            /\ gone.calls = q.calls + 1 /\ gone.finals = q.finals
        BY <3>1, CancelledIs
      <4> HIDE DEF gone
      <4>2. Seen(q, gone)
        BY <1>1, <1>3, <2>1, <3>2, <4>1 DEF Seen, View, LookupPromise!Tell
      <4>3. Change(r, gone)
        BY <1>1, <1>2, <3>4, <4>1, <4>2 DEF Change, forget
      <4> QED
        BY <3>4, <4>3
    <3> QED
      BY <1>3, <1>4, <1>6, <2>3, <2>5, <3>3, <3>4
  <2> QED
    BY <1>4, <1>6, <2>3, <2>4, <2>5
<1> QED
  BY <1>3, <1>4, <1>5, <1>6

(* A reply is for one open request, or changes nothing. *)
LEMMA RecvIs ==
    ASSUME ClientInv, NEW q \in Query, NEW age \in Age, NEW cancel \in BOOLEAN,
           mdns_method_recv(q, age, cancel)
    PROVE  \E r \in Id : \E n : Change(r, n) /\ (cancel = FALSE => n.st # "cancelled")
<1>1. PICK r \in Open : osmo_mslookup_client_rx_result(r, age, cancel)
  BY DEF mdns_method_recv, get_request
<1>2. UNCHANGED <<next, dangling>>
  BY DEF mdns_method_recv
<1>3. \E n : Change(r, n) /\ (cancel = FALSE => n.st # "cancelled")
  BY <1>1, <1>2, RxIs
<1> QED
  BY <1>3 DEF Open

(* The initial delay of a request is over, and it goes on. *)
LEMMA MinWaitIs ==
    ASSUME ClientInv, NEW r \in Open, NEW cancel \in BOOLEAN,
           MinWaitPassed(r, cancel), next' = next
    PROVE  \E n : Change(r, n) /\ (cancel = FALSE => n.st # "cancelled")
<1> DEFINE q == req[r]
           w == [q EXCEPT !.waiting = FALSE]
           told == ToldMore(w, w.age)
           gone == [told EXCEPT !.st = "cancelled"]
           forget == mdns_method_request_cleanup(mdns, w.handle)
<1>1. q \in Request /\ q.st = "open" /\ Sound(q) /\ r \in Id /\ dangling \subseteq Id
  BY OpenIs DEF ClientInv, OpenSound, TypeOK
<1>2. /\ w \in Request
      /\ w.st = "open" /\ w.handle = q.handle /\ w.query = q.query
      /\ w.waiting = FALSE /\ w.age = q.age /\ w.heard = q.heard /\ w.told = q.told
      /\ w.calls = q.calls /\ w.finals = q.finals
  BY <1>1, WaitedIs
<1>3. q.waiting
  BY DEF MinWaitPassed
<1>4. \/ w.age = NoAge /\ req' = [req EXCEPT ![r] = w] /\ mdns' = mdns /\ dangling' = dangling
      \/ w.age # NoAge /\ cancel = FALSE /\ req' = [req EXCEPT ![r] = told]
            /\ mdns' = mdns /\ dangling' = dangling
      \/ w.age # NoAge /\ cancel = TRUE /\ req' = [req EXCEPT ![r] = gone]
            /\ mdns' = forget /\ dangling' = dangling \cup {r}
  BY DEF MinWaitPassed, ToldMore
<1> HIDE DEF w, told
<1>5. q.told = NoAge /\ q.heard = q.age /\ NoAge \in Nat /\ q.age \in 0..NoAge /\ q.finals \in Nat
  BY <1>1, <1>3, AgeIs DEF Sound, Request
<1>6. CASE w.age = NoAge /\ req' = [req EXCEPT ![r] = w] /\ mdns' = mdns /\ dangling' = dangling
  <2>1. Sound(w)
    BY <1>2, <1>5, <1>6 DEF Sound
  <2>2. Seen(q, w)
    BY <1>1, <1>2 DEF Seen, View
  <2>3. Change(r, w)
    BY <1>1, <1>2, <1>6, <2>1, <2>2 DEF Change
  <2> QED
    BY <1>2, <2>3
<1>7. CASE w.age # NoAge
  <2> HIDE DEF q
  <2>0. w \in Request /\ w.age \in 0..NoAge
    BY <1>2, <1>5
  <2>1. /\ told \in Request
        /\ told.st = w.st /\ told.handle = w.handle /\ told.query = w.query
        /\ told.waiting = w.waiting /\ told.age = w.age /\ told.heard = w.heard
        /\ told.told = IF w.age = NoAge THEN w.told ELSE w.age
        /\ told.calls = w.calls + 1 /\ told.finals = w.finals
    BY <2>0, ToldIs DEF told
  <2> USE DEF q
  <2>2. told.told = q.age /\ q.age < q.told /\ told.heard = q.age
    BY <1>2, <1>5, <1>7, <2>1
  <2>3. CASE req' = [req EXCEPT ![r] = told] /\ mdns' = mdns /\ dangling' = dangling
    <3>1. Sound(told)
      BY <1>2, <1>5, <2>1, <2>2 DEF Sound
    <3>2. Seen(q, told)
      BY <1>1, <1>2, <1>5, <2>1, <2>2 DEF Seen, View, LookupPromise!Tell
    <3>3. Change(r, told)
      BY <1>1, <1>2, <2>1, <2>3, <3>1, <3>2 DEF Change
    <3> QED
      BY <1>2, <2>1, <3>3
  <2>4. CASE cancel = TRUE /\ req' = [req EXCEPT ![r] = gone]
             /\ mdns' = forget /\ dangling' = dangling \cup {r}
    <3>1. /\ gone \in Request
          /\ gone.st = "cancelled" /\ gone.handle = told.handle /\ gone.query = told.query
          /\ gone.heard = told.heard /\ gone.told = told.told
          /\ gone.calls = told.calls /\ gone.finals = told.finals
      BY <2>1, CancelledIs
    <3> HIDE DEF gone
    <3>2. Seen(q, gone)
      BY <1>1, <1>2, <1>5, <2>1, <2>2, <3>1 DEF Seen, View, LookupPromise!Tell
    <3>3. Change(r, gone)
      BY <1>1, <1>2, <2>1, <2>4, <3>1, <3>2 DEF Change
    <3> QED
      BY <2>4, <3>3
  <2> QED
    BY <1>4, <1>7, <2>3, <2>4
<1> QED
  BY <1>4, <1>6, <1>7

(* The time of a request is over. *)
LEMMA FinalIs ==
    ASSUME ClientInv, NEW r \in Open, FinalTimeout(r), next' = next
    PROVE  \E n : Change(r, n) /\ n.st # "cancelled"
<1> DEFINE q == req[r]
           w == [q EXCEPT !.waiting = FALSE]
           age == IF q.waiting THEN q.age ELSE NoAge
           n == Finished(w, age)
<1>1. q \in Request /\ q.st = "open" /\ Sound(q) /\ dangling \subseteq Id
  BY OpenIs DEF ClientInv, OpenSound, TypeOK
<1>2. /\ w \in Request
      /\ w.st = "open" /\ w.handle = q.handle /\ w.query = q.query
      /\ w.age = q.age /\ w.heard = q.heard /\ w.told = q.told
      /\ w.calls = q.calls /\ w.finals = q.finals
  BY <1>1, WaitedIs
<1>3. /\ req' = [req EXCEPT ![r] = n]
      /\ mdns' = mdns_method_request_cleanup(mdns, q.handle)
      /\ dangling' = dangling
  BY DEF FinalTimeout
<1> HIDE DEF w
<1>4. /\ age \in 0..NoAge
      /\ q.heard = q.age
      /\ (IF age = NoAge THEN q.told ELSE age) = q.age
  BY <1>1, AgeIs DEF Sound, Request
<1> HIDE DEF age
<1>5. /\ n \in Request
      /\ n.st = "done" /\ n.handle = w.handle /\ n.query = w.query
      /\ n.heard = w.heard
      /\ n.told = IF age = NoAge THEN w.told ELSE age
      /\ n.calls = w.calls + 1 /\ n.finals = w.finals + 1
  BY <1>2, <1>4, FinishedIs
<1> HIDE DEF n
<1>6. n.told = n.heard /\ n.heard = q.heard /\ q.heard \in Nat
  BY <1>1, <1>2, <1>4, <1>5, AgeIs DEF Request
<1>7. Seen(q, n)
  BY <1>1, <1>2, <1>5, <1>6 DEF Seen, View, LookupPromise!Finish
<1>8. Change(r, n)
  BY <1>1, <1>2, <1>3, <1>5, <1>7 DEF Change
<1> QED
  BY <1>5, <1>8

LEMMA TimeoutIs ==
    ASSUME ClientInv, NEW r \in Id, NEW cancel \in BOOLEAN, timeout_cb(r, cancel)
    PROVE  \E n : Change(r, n) /\ (cancel = FALSE => n.st # "cancelled")
<1>1. r \in Open /\ next' = next /\ (MinWaitPassed(r, cancel) \/ FinalTimeout(r))
  BY DEF timeout_cb
<1>2. CASE MinWaitPassed(r, cancel)
  BY <1>1, <1>2, MinWaitIs
<1>3. CASE FinalTimeout(r)
  <2>1. \E n : Change(r, n) /\ n.st # "cancelled"
    BY <1>1, <1>3, FinalIs
  <2> QED
    BY <2>1
<1> QED
  BY <1>1, <1>2, <1>3

-----------------------------------------------------------------------------
(* Steps keep the invariant of the client. *)

(* How the step of one request leaves the others and the lists. *)
LEMMA ChangeKeeps ==
    ASSUME ClientInv, NEW r \in Id, NEW n, Change(r, n)
    PROVE  /\ ClientInv'
           /\ \A s \in Id : Seen(req[s], req'[s])
           /\ Open' \subseteq Open
           /\ Open \ Open' = IF n.st = "open" THEN {} ELSE {r}
           /\ \A s \in Open \cap Open' : Entry(req'[s]) = Entry(req[s])
           /\ req'[r] = n
<1>1. /\ r \in Open /\ n \in Request /\ n.handle = req[r].handle /\ n.query = req[r].query
      /\ req' = [req EXCEPT ![r] = n] /\ next' = next /\ dangling' \subseteq Id
      /\ Seen(req[r], n)
  BY DEF Change
<1>2. TypeOK /\ req \in [Id -> Request]
  BY DEF ClientInv, TypeOK
<1>3. req' \in [Id -> Request] /\ \A s \in Id : req'[s] = IF s = r THEN n ELSE req[s]
  BY <1>1, <1>2
<1>4. Open \subseteq Id /\ Open' = {s \in Id : req'[s].st = "open"} /\ req[r].st = "open"
  BY <1>1 DEF Open
<1>5. /\ Open' \subseteq Open
      /\ Open \ Open' = IF n.st = "open" THEN {} ELSE {r}
      /\ Open' = IF n.st = "open" THEN Open ELSE Open \ {r}
  BY <1>3, <1>4 DEF Open
<1>6. \A s \in Open : req'[s].handle = req[s].handle /\ req'[s].query = req[s].query
  BY <1>1, <1>3, <1>4
<1>7. HandlesUnique'
  BY <1>5, <1>6 DEF ClientInv, HandlesUnique
<1>8. OpenSound'
  <2>1. ASSUME NEW s \in Open' PROVE Sound(req'[s])
    <3>1. CASE s = r
      <4>1. n.st = "open"
        BY <1>5, <3>1
      <4>2. Sound(n)
        BY <4>1 DEF Change
      <4> QED
        BY <1>1, <1>3, <1>4, <3>1, <4>2
    <3>2. CASE s # r
      BY <1>3, <1>4, <1>5, <3>2 DEF ClientInv, OpenSound
    <3> QED
      BY <3>1, <3>2
  <2>2. OpenSound' = \A s \in Open' : Sound(req'[s])
    BY DEF OpenSound, Sound
  <2> QED
    BY <2>1, <2>2
<1>9. mdns' \in Seq(MdnsRequest) /\ MethodMirrorsRequests'
  <2>1. CASE n.st = "open"
    <3>1. mdns' = mdns /\ Open' = Open
      BY <1>5, <2>1 DEF Change
    <3> QED
      BY <1>2, <1>6, <3>1 DEF TypeOK, ClientInv, MethodMirrorsRequests
  <2>2. CASE n.st # "open"
    <3>1. mdns' = mdns_method_request_cleanup(mdns, req[r].handle) /\ Open' = Open \ {r}
      BY <1>5, <2>2 DEF Change
    <3> DEFINE list == Forgotten(r)
    <3>2. TypeOK /\ HandlesUnique /\ MethodMirrorsRequests
      BY DEF ClientInv
    <3>3. /\ list \in Seq(MdnsRequest)
          /\ \A s \in Open \ {r} : \E i \in DOMAIN list :
                list[i].handle = req[s].handle /\ list[i].query = req[s].query
          /\ Len(list) = Cardinality(Open \ {r})
      BY <1>1, <3>2, MirrorForgets
    <3> HIDE DEF list
    <3>4. mdns' = list
      BY <3>1 DEF list, Forgotten
    <3>5. \A s \in Open' : \E i \in DOMAIN mdns' :
             mdns'[i].handle = req'[s].handle /\ mdns'[i].query = req'[s].query
      <4> SUFFICES ASSUME NEW s \in Open'
                   PROVE  \E i \in DOMAIN mdns' :
                             mdns'[i].handle = req'[s].handle /\ mdns'[i].query = req'[s].query
        OBVIOUS
      <4>1. s \in Open \ {r}
        BY <3>1
      <4>2. PICK i \in DOMAIN list : list[i].handle = req[s].handle /\ list[i].query = req[s].query
        BY <3>3, <4>1
      <4> QED
        BY <1>6, <3>4, <4>1, <4>2
    <3> QED
      BY <3>1, <3>3, <3>4, <3>5 DEF MethodMirrorsRequests
  <2> QED
    BY <2>1, <2>2
<1>10. TypeOK'
  BY <1>1, <1>2, <1>3, <1>9 DEF TypeOK
<1>11. ASSUME NEW s \in Id PROVE Seen(req[s], req'[s])
  <2>1. CASE s = r
    BY <1>1, <1>3, <2>1
  <2>2. CASE s # r
    BY <1>3, <2>2 DEF Seen
  <2> QED
    BY <2>1, <2>2
<1>12. \A s \in Open \cap Open' : Entry(req'[s]) = Entry(req[s])
  BY <1>6 DEF Entry
<1>13. ClientInv'
  BY <1>7, <1>8, <1>9, <1>10 DEF ClientInv
<1> QED
  BY <1>1, <1>3, <1>5, <1>11, <1>12, <1>13

(* Handles stay within their width, and zero is left out. *)
LEMMA HandleIs ==
    ASSUME next \in 0..(HandleMod - 1)
    PROVE  /\ NewHandle \in 1..(HandleMod - 1)
           /\ HandleAfter(NewHandle) \in 0..(HandleMod - 1)
<1>1. HandleMod \in Nat /\ HandleMod >= 2
  BY ModAssumption
<1>2. NewHandle \in 1..(HandleMod - 1)
  BY <1>1 DEF NewHandle
<1>3. ASSUME NEW h \in Nat PROVE h % HandleMod \in 0..(HandleMod - 1)
  BY <1>1
<1> QED
  BY <1>1, <1>2, <1>3 DEF HandleAfter

(* An expired request ends with the youngest result that it got. *)
LEMMA ExpiredIs ==
    ASSUME ClientInv, NEW x \in Open, NEW n, n = Finished(req[x], req[x].age)
    PROVE  /\ n \in Request /\ n.st = "done" /\ n.finals = req[x].finals + 1
           /\ Seen(req[x], n)
<1> DEFINE q == req[x]
<1>1. q \in Request /\ q.st = "open" /\ Sound(q)
  BY OpenIs DEF ClientInv, OpenSound
<1>2. q.age \in 0..NoAge /\ q.heard = q.age /\ q.heard \in Nat
      /\ (IF q.age = NoAge THEN q.told ELSE q.age) = q.age
  BY <1>1, AgeIs DEF Sound, Request
<1>3. /\ n \in Request
      /\ n.st = "done" /\ n.heard = q.heard
      /\ n.told = IF q.age = NoAge THEN q.told ELSE q.age
      /\ n.calls = q.calls + 1 /\ n.finals = q.finals + 1
  BY <1>1, <1>2, FinishedIs
<1>4. n.told = n.heard
  BY <1>2, <1>3
<1>5. Seen(q, n)
  BY <1>1, <1>2, <1>3, <1>4 DEF Seen, View, LookupPromise!Finish
<1> QED
  BY <1>3, <1>5

(* A request is started, and one that has its handle ends.                 *)
LEMMA StartKeeps ==
    ASSUME ClientInv, NEW q \in Query, NEW handling \in Handling,
           osmo_mslookup_client_request(q, handling)
    PROVE  /\ ClientInv'
           /\ \A s \in Id : Seen(req[s], req'[s])
           /\ \A s \in Open \ Open' : req'[s].finals = req[s].finals + 1
           /\ \A s \in Open \cap Open' : req'[s] = req[s]
           /\ \E r \in Id \ Open : /\ Open' \ Open = {r}
                                   /\ Entry(req'[r]) = [handle |-> NewHandle, query |-> q]
<1> DEFINE h == NewHandle
           r == Min(Id \ Open)
           n == [st |-> "open", handle |-> h, query |-> q, handling |-> handling,
                 waiting |-> handling # "no_wait", age |-> NoAge,
                 heard |-> NoAge, told |-> NoAge, calls |-> 0, finals |-> 0]
           held == Holder(h)
           list == IF held = {} THEN mdns ELSE mdns_method_request_cleanup(mdns, h)
           e == [handle |-> h, query |-> q]
<1>1. /\ Open # Id
      /\ next' = HandleAfter(h)
      /\ req' = [x \in Id |-> IF x = r THEN n ELSE IF x \in held THEN Finished(req[x], req[x].age)
                              ELSE req[x]]
      /\ mdns' = <<e>> \o list
      /\ dangling' = dangling
  BY DEF osmo_mslookup_client_request
<1>2. /\ TypeOK /\ HandlesUnique /\ MethodMirrorsRequests /\ OpenSound
      /\ next \in 0..(HandleMod - 1) /\ mdns \in Seq(MdnsRequest)
      /\ req \in [Id -> Request] /\ dangling \subseteq Id
  BY DEF ClientInv, TypeOK
<1>3. Open \subseteq Id /\ Id \subseteq Nat
  BY DEF Open, Id
<1>4. r \in Id \ Open
  BY <1>1, <1>3, MinIs
<1>5. h \in 1..(HandleMod - 1) /\ HandleAfter(h) \in 0..(HandleMod - 1)
  BY <1>2, HandleIs
<1>6. h # 0 /\ h \in 0..(HandleMod - 1)
  BY <1>5, ModAssumption
<1>7. held = {x \in Open : req[x].handle = h}
  BY DEF Holder, get_request
<1> HIDE DEF h, r, held
<1>8. n \in Request /\ Sound(n) /\ n.st = "open" /\ n.handle = h /\ n.query = q
  BY <1>6, AgeIs DEF Request, Sound
<1> DEFINE v == View(n)
<1>9. v = [LookupPromise!New EXCEPT !.st = "open"]
  BY DEF View, LookupPromise!New
<1> HIDE DEF n, v
<1>10. ASSUME NEW x \in Id
       PROVE  /\ x = r => req'[x] = n
              /\ x \in held => req'[x] = Finished(req[x], req[x].age)
              /\ x # r /\ x \notin held => req'[x] = req[x]
  BY <1>1, <1>4, <1>7
<1>11. ASSUME NEW x \in held
       PROVE  /\ x \in Id /\ req'[x] \in Request
              /\ req'[x].st = "done" /\ req'[x].finals = req[x].finals + 1
              /\ Seen(req[x], req'[x])
  <2>1. x \in Open /\ x \in Id
    BY <1>3, <1>7
  <2>2. req'[x] = Finished(req[x], req[x].age)
    BY <1>10, <2>1
  <2> DEFINE f == Finished(req[x], req[x].age)
  <2>3. f \in Request /\ f.st = "done" /\ f.finals = req[x].finals + 1 /\ Seen(req[x], f)
    BY <2>1, ExpiredIs
  <2> HIDE DEF f
  <2>4. req'[x] = f
    BY <2>2 DEF f
  <2> QED
    BY <2>1, <2>3, <2>4
<1>12. req' \in [Id -> Request]
  <2>1. ASSUME NEW x \in Id PROVE req'[x] \in Request
    BY <1>2, <1>8, <1>10, <1>11
  <2>2. req' = [x \in Id |-> req'[x]]
    BY <1>1
  <2> QED
    BY <2>1, <2>2
<1>13. Open' = (Open \ held) \cup {r}
  <2>1. Open' = {x \in Id : req'[x].st = "open"} /\ Open = {x \in Id : req[x].st = "open"}
    BY DEF Open
  <2>2. ASSUME NEW x \in Id PROVE req'[x].st = "open" <=> x \in (Open \ held) \cup {r}
    <3>1. CASE x = r
      BY <1>8, <1>10, <3>1
    <3>2. CASE x \in held
      BY <1>4, <1>7, <1>11, <3>2
    <3>3. CASE x # r /\ x \notin held
      BY <1>10, <2>1, <3>3
    <3> QED
      BY <3>1, <3>2, <3>3
  <2> QED
    BY <1>3, <1>4, <2>1, <2>2
<1>14. ASSUME NEW x \in Open \ held PROVE req'[x] = req[x] /\ x # r
  BY <1>3, <1>4, <1>10
<1>15. HandlesUnique'
  <2>1. ASSUME NEW x \in Open' PROVE req'[x].handle # 0 /\ (req'[x].handle = h => x = r)
    <3>1. CASE x = r
      BY <1>4, <1>6, <1>8, <1>10, <3>1
    <3>2. CASE x # r
      <4>1. x \in Open \ held /\ req'[x] = req[x]
        BY <1>13, <1>14, <3>2
      <4> QED
        BY <1>2, <1>7, <4>1 DEF HandlesUnique
    <3> QED
      BY <3>1, <3>2
  <2>2. ASSUME NEW x \in Open', NEW y \in Open', req'[x].handle = req'[y].handle PROVE x = y
    <3>1. req'[r].handle = h
      BY <1>4, <1>8, <1>10
    <3>2. CASE x = r \/ y = r
      BY <2>1, <2>2, <3>1, <3>2
    <3>3. CASE x # r /\ y # r
      <4>1. x \in Open /\ y \in Open /\ req'[x] = req[x] /\ req'[y] = req[y]
        BY <1>13, <1>14, <3>3
      <4> QED
        BY <1>2, <2>2, <4>1 DEF HandlesUnique
    <3> QED
      BY <3>2, <3>3
  <2> QED
    BY <2>1, <2>2 DEF HandlesUnique
<1>16. OpenSound'
  <2>1. ASSUME NEW x \in Open' PROVE Sound(req'[x])
    <3>1. CASE x = r
      BY <1>4, <1>8, <1>10, <3>1
    <3>2. CASE x # r
      BY <1>2, <1>13, <1>14, <3>2 DEF OpenSound
    <3> QED
      BY <3>1, <3>2
  <2>2. OpenSound' = \A x \in Open' : Sound(req'[x])
    BY DEF OpenSound, Sound
  <2> QED
    BY <2>1, <2>2
<1>17. /\ list \in Seq(MdnsRequest)
       /\ \A x \in Open \ held : \E i \in DOMAIN list :
             list[i].handle = req[x].handle /\ list[i].query = req[x].query
       /\ Len(list) = Cardinality(Open \ held)
  <2>1. CASE held = {}
    BY <1>2, <2>1 DEF MethodMirrorsRequests
  <2>2. CASE held # {}
    <3>1. PICK x \in held : TRUE
      BY <2>2
    <3>2. held = {x} /\ x \in Open /\ req[x].handle = h
      BY <1>2, <1>7, <3>1 DEF HandlesUnique
    <3>3. list = Forgotten(x)
      BY <2>2, <3>2 DEF Forgotten
    <3> HIDE DEF list
    <3> QED
      BY <1>2, <3>2, <3>3, MirrorForgets
  <2> QED
    BY <2>1, <2>2
<1> HIDE DEF list
<1>18. e \in MdnsRequest
  BY <1>6 DEF MdnsRequest
<1> HIDE DEF e
<1>19. /\ mdns' \in Seq(MdnsRequest)
       /\ Len(mdns') = Len(list) + 1
       /\ mdns'[1] = e
       /\ \A j \in 1..Len(list) : mdns'[j+1] = list[j]
  <2>1. mdns' = <<e>> \o list /\ list \in Seq(MdnsRequest)
    BY <1>1, <1>17
  <2>2. /\ <<e>> \o list \in Seq(MdnsRequest)
        /\ Len(<<e>> \o list) = Len(list) + 1
        /\ (<<e>> \o list)[1] = e
        /\ \A j \in 1..Len(list) : (<<e>> \o list)[j+1] = list[j]
    BY <1>18, <2>1, ConsProperties
  <2> QED
    BY <2>1, <2>2
<1>20. MethodMirrorsRequests'
  <2>1. /\ DOMAIN mdns' = 1..(Len(list) + 1) /\ DOMAIN list = 1..Len(list)
        /\ Len(list) \in Nat
    BY <1>17, <1>19
  <2>2. ASSUME NEW x \in Open'
        PROVE  \E i \in DOMAIN mdns' :
                  mdns'[i].handle = req'[x].handle /\ mdns'[i].query = req'[x].query
    <3>1. CASE x = r
      <4>1. req'[x].handle = h /\ req'[x].query = q
        BY <1>4, <1>8, <1>10, <3>1
      <4>2. 1 \in DOMAIN mdns' /\ mdns'[1].handle = h /\ mdns'[1].query = q
        BY <1>19, <2>1 DEF e
      <4> QED
        BY <4>1, <4>2
    <3>2. CASE x # r
      <4>1. x \in Open \ held /\ req'[x] = req[x]
        BY <1>13, <1>14, <3>2
      <4>2. PICK i \in DOMAIN list : list[i].handle = req[x].handle /\ list[i].query = req[x].query
        BY <1>17, <4>1
      <4>3. i + 1 \in DOMAIN mdns' /\ mdns'[i + 1] = list[i]
        BY <1>19, <2>1, <4>2
      <4> QED
        BY <4>1, <4>2, <4>3
    <3> QED
      BY <3>1, <3>2
  <2>3. IsFiniteSet(Open \ held) /\ r \notin Open \ held
    BY <1>4, OpenFinite, FS_Subset
  <2>4. Cardinality((Open \ held) \cup {r}) = Cardinality(Open \ held) + 1
    BY <2>3, FS_AddElement
  <2>5. Len(mdns') = Cardinality(Open')
    BY <1>13, <1>17, <1>19, <2>4
  <2> QED
    BY <2>2, <2>5 DEF MethodMirrorsRequests
<1>21. TypeOK'
  BY <1>1, <1>2, <1>5, <1>12, <1>19 DEF TypeOK
<1>22. ASSUME NEW s \in Id PROVE Seen(req[s], req'[s])
  <2>1. CASE s = r
    <3>1. req'[s] = n /\ req[s].st # "open"
      BY <1>4, <1>10, <2>1 DEF Open
    <3>2. View(req[s]).st # "open" /\ View(n) = [LookupPromise!New EXCEPT !.st = "open"]
      BY <1>9, <3>1 DEF View, v
    <3>3. LookupPromise!Start(View(req[s]), View(n))
      BY <3>2 DEF LookupPromise!Start
    <3> QED
      BY <3>1, <3>3 DEF Seen
  <2>2. CASE s \in held
    BY <1>11, <2>2
  <2>3. CASE s # r /\ s \notin held
    BY <1>10, <2>3 DEF Seen
  <2> QED
    BY <2>1, <2>2, <2>3
<1>23. ClientInv'
  BY <1>15, <1>16, <1>20, <1>21 DEF ClientInv
<1>24. Open \ Open' = held /\ Open' \ Open = {r} /\ Open \cap Open' = Open \ held
  BY <1>4, <1>7, <1>13
<1>25. Entry(req'[r]) = [handle |-> NewHandle, query |-> q]
  BY <1>4, <1>8, <1>10 DEF Entry, h
<1> QED
  BY <1>4, <1>11, <1>14, <1>22, <1>23, <1>24, <1>25

-----------------------------------------------------------------------------
(* Steps of the program. *)

(* The requests that end in a step of the program have a last call, and no *)
(* others; those that go on keep their entries.                            *)
LastCallsEnd ==
    /\ LastCalled = Open \ Open'
    /\ \A s \in Open \cap Open' : Entry(req'[s]) = Entry(req[s])

LEMMA ChangeEnds ==
    ASSUME ClientInv, NEW r \in Id, NEW n, Change(r, n), n.st # "cancelled"
    PROVE  LastCallsEnd /\ Open' \ Open = {}
<1>1. /\ Open' \subseteq Open
      /\ Open \ Open' = IF n.st = "open" THEN {} ELSE {r}
      /\ \A s \in Open \cap Open' : Entry(req'[s]) = Entry(req[s])
      /\ req'[r] = n
  BY ChangeKeeps
<1>2. /\ r \in Open /\ req' = [req EXCEPT ![r] = n]
      /\ (n.st = "open" => n.finals = req[r].finals)
      /\ (n.st # "open" => n.finals = req[r].finals + 1)
  BY DEF Change
<1>3. req \in [Id -> Request] /\ Open \subseteq Id
  BY DEF ClientInv, TypeOK, Open
<1>4. ASSUME NEW s \in Open PROVE s \in LastCalled <=> s \notin Open'
  <2>1. req[s].finals \in Nat
    BY <1>3 DEF Request
  <2>2. CASE s = r
    BY <1>1, <1>2, <2>1, <2>2 DEF LastCalled
  <2>3. CASE s # r
    <3>1. req'[s] = req[s] /\ s \in Open'
      BY <1>1, <1>2, <1>3, <2>3
    <3> QED
      BY <2>1, <3>1 DEF LastCalled
  <2> QED
    BY <2>2, <2>3
<1>5. LastCalled = Open \ Open'
  BY <1>4 DEF LastCalled
<1> QED
  BY <1>1, <1>5 DEF LastCallsEnd

LEMMA StartEnds ==
    ASSUME ClientInv, NEW q \in Query, NEW handling \in Handling,
           osmo_mslookup_client_request(q, handling)
    PROVE  /\ LastCallsEnd
           /\ {Entry(req'[s]) : s \in Open' \ Open} = {[handle |-> NewHandle, query |-> q]}
<1>1. /\ \A s \in Open \ Open' : req'[s].finals = req[s].finals + 1
      /\ \A s \in Open \cap Open' : req'[s] = req[s]
      /\ \E r \in Id \ Open : /\ Open' \ Open = {r}
                              /\ Entry(req'[r]) = [handle |-> NewHandle, query |-> q]
  BY StartKeeps
<1>2. req \in [Id -> Request] /\ Open \subseteq Id
  BY DEF ClientInv, TypeOK, Open
<1>3. \A s \in Open : req[s].finals \in Nat
  BY <1>2 DEF Request
<1>4. LastCalled = Open \ Open'
  BY <1>1, <1>3 DEF LastCalled
<1>5. \A s \in Open \cap Open' : Entry(req'[s]) = Entry(req[s])
  BY <1>1 DEF Entry
<1> QED
  BY <1>1, <1>4, <1>5 DEF LastCallsEnd

(* The call-back removes the entries of the requests that end, and no      *)
(* others.                                                                 *)
LEMMA AnsweredIs ==
    ASSUME ClientInv, queries = {Entry(req[r]) : r \in Open}, LastCallsEnd
    PROVE  /\ Answered = {Entry(req[r]) : r \in Open \ Open'}
           /\ queries \ Answered = {Entry(req[r]) : r \in Open \cap Open'}
<1>1. \A r, s \in Open : req[r].handle = req[s].handle => r = s
  BY DEF ClientInv, HandlesUnique
<1>2. \A r : Entry(req[r]).handle = req[r].handle
  BY DEF Entry
<1>3. ASSUME NEW r \in Open
      PROVE  query_by_handle(req[r].handle) = {Entry(req[r])}
  BY <1>1, <1>2 DEF query_by_handle
<1>4. Answered = UNION {query_by_handle(req[r].handle) : r \in Open \ Open'}
  BY DEF Answered, LastCallsEnd
<1>5. Answered = {Entry(req[r]) : r \in Open \ Open'}
  BY <1>3, <1>4
<1>6. \A r, s \in Open : Entry(req[r]) = Entry(req[s]) => r = s
  BY <1>1, <1>2
<1> QED
  BY <1>5, <1>6

(* The lists agree after the call-back, and every client that still waits  *)
(* has an entry, if it had one or gets it now.                             *)
LEMMA CallbackKeeps ==
    ASSUME IInv, Running, LastCallsEnd, NEW clients \in [Conn -> Text \cup {Closed}],
           NEW added, added = {Entry(req'[s]) : s \in Open' \ Open},
           added \subseteq MdnsRequest,
           \A c \in Conn : clients[c] \in Asked =>
                              \E q \in queries \cup added : q.query = clients[c],
           mslookup_result_cb(clients, added)
    PROVE  /\ client' \in [Conn -> Text \cup {Closed}]
           /\ queries' \subseteq MdnsRequest /\ handled' \in BOOLEAN
           /\ queries' = {Entry(req'[r]) : r \in Open'}
           /\ NobodyForgotten'
<1>1. queries = {Entry(req[r]) : r \in Open} /\ queries \subseteq MdnsRequest /\ ClientInv
  BY DEF IInv, QueriesAgree, ProgramTypeOK
<1>2. /\ Answered = {Entry(req[r]) : r \in Open \ Open'}
      /\ queries \ Answered = {Entry(req[r]) : r \in Open \cap Open'}
  BY <1>1, AnsweredIs
<1> DEFINE texts == {q.query : q \in Answered}
<1>3. /\ client' = [c \in Conn |-> IF clients[c] \in texts THEN Closed ELSE clients[c]]
      /\ queries' = (queries \ Answered) \cup added
      /\ handled' \in BOOLEAN
  BY DEF mslookup_result_cb, respond_result
<1>4. queries' = {Entry(req'[r]) : r \in Open'}
  <2>1. queries \ Answered = {Entry(req'[r]) : r \in Open \cap Open'}
    BY <1>2 DEF LastCallsEnd
  <2> QED
    BY <1>3, <2>1
<1>5. ASSUME NEW c \in Conn, client'[c] \in Asked
      PROVE  \E q \in queries' : q.query = client'[c]
  <2>1. Closed \notin Asked
    BY TextAssumption
  <2>2. clients[c] \notin texts /\ client'[c] = clients[c]
    BY <1>3, <1>5, <2>1
  <2>3. PICK q \in queries \cup added : q.query = clients[c]
    BY <1>5, <2>2
  <2>4. q \notin Answered
    BY <2>2, <2>3
  <2> QED
    BY <1>3, <2>2, <2>3, <2>4
<1>6. client' \in [Conn -> Text \cup {Closed}]
  BY <1>3
<1>7. queries' \subseteq MdnsRequest
  BY <1>1, <1>3
<1> QED
  BY <1>3, <1>4, <1>5, <1>6, <1>7 DEF NobodyForgotten

(* What the call-backs and commands of a running program leave behind. *)
Settled ==
    /\ ClientInv'
    /\ \A s \in Id : Seen(req[s], req'[s])
    /\ client' \in [Conn -> Text \cup {Closed}]
    /\ queries' \subseteq MdnsRequest /\ handled' \in BOOLEAN
    /\ queries' = {Entry(req'[r]) : r \in Open'}
    /\ NobodyForgotten'

LEMMA SettledKeeps ==
    ASSUME Settled, mode' \in {"daemon", "once"}, argv' \in Seq(Text), woken' \in BOOLEAN
    PROVE  IInv'
<1>1. Running'
  BY DEF Running
<1>2. QueriesAgree'
  BY DEF Settled, QueriesAgree, Entry
<1>3. NoSocket'
  BY <1>1 DEF NoSocket
<1>4. ProgramTypeOK'
  BY DEF Settled, ClientInv, ProgramTypeOK
<1> QED
  BY <1>2, <1>3, <1>4 DEF Settled, IInv

(* Nothing happens to the client. *)
LEMMA UnchangedKeeps ==
    ASSUME ClientInv, UNCHANGED vars
    PROVE  /\ ClientInv' /\ \A s \in Id : Seen(req[s], req'[s])
           /\ Open' = Open /\ req' = req
<1>1. req' = req /\ next' = next /\ mdns' = mdns /\ dangling' = dangling
  BY DEF vars
<1>2. Open' = Open
  BY <1>1 DEF Open
<1>3. ClientInv'
  BY <1>1, <1>2
     DEF ClientInv, TypeOK, HandlesUnique, MethodMirrorsRequests, OpenSound, Sound
<1>4. \A s \in Id : Seen(req[s], req'[s])
  BY <1>1 DEF Seen
<1> QED
  BY <1>1, <1>2, <1>3, <1>4

(* Clients that wait for an entry, or have asked for text just now. *)
WaitOrAsk(clients, text) ==
    \A c \in Conn : clients[c] \in Asked =>
                       clients[c] = text \/ \E q \in queries : q.query = clients[c]

LEMMA StartQueryKeeps ==
    ASSUME IInv, Running, NEW clients \in [Conn -> Text \cup {Closed}], NEW text \in Text,
           NEW handling \in Handling, WaitOrAsk(clients, text), StartQuery(clients, text, handling)
    PROVE  Settled
<1> DEFINE e == [handle |-> NewHandle, query |-> text]
           added == {e}
<1>1. text \in Query
  BY TextAssumption DEF StartQuery, Text
<1>2. osmo_mslookup_client_request(text, handling) /\ mslookup_result_cb(clients, added)
  BY DEF StartQuery
<1>3. ClientInv
  BY DEF IInv
<1>4. ClientInv' /\ \A s \in Id : Seen(req[s], req'[s])
  BY <1>1, <1>2, <1>3, StartKeeps
<1>5. LastCallsEnd /\ {Entry(req'[s]) : s \in Open' \ Open} = added
  BY <1>1, <1>2, <1>3, StartEnds
<1>6. e \in MdnsRequest /\ e.query = text
  <2>1. next \in 0..(HandleMod - 1)
    BY <1>3 DEF ClientInv, TypeOK
  <2>2. NewHandle \in 1..(HandleMod - 1)
    BY <2>1, HandleIs
  <2>3. NewHandle \in 0..(HandleMod - 1)
    BY <2>2, ModAssumption
  <2> QED
    BY <1>1, <2>3 DEF MdnsRequest
<1> HIDE DEF e
<1>7. \A c \in Conn : clients[c] \in Asked => \E q \in queries \cup added : q.query = clients[c]
  BY <1>6 DEF WaitOrAsk
<1>8. added \subseteq MdnsRequest
  BY <1>6
<1> HIDE DEF added
<1>9. /\ client' \in [Conn -> Text \cup {Closed}]
      /\ queries' \subseteq MdnsRequest /\ handled' \in BOOLEAN
      /\ queries' = {Entry(req'[r]) : r \in Open'}
      /\ NobodyForgotten'
  BY <1>2, <1>5, <1>7, <1>8, CallbackKeeps
<1> QED
  BY <1>4, <1>9 DEF Settled

LEMMA QueryInvalidKeeps ==
    ASSUME IInv, Running, NEW clients \in [Conn -> Text \cup {Closed}], NEW text \in Text,
           WaitOrAsk(clients, text), QueryInvalid(clients, text)
    PROVE  Settled
<1>1. /\ client' = [c \in Conn |-> IF clients[c] \in {text} THEN Closed ELSE clients[c]]
      /\ handled' = TRUE /\ UNCHANGED vars /\ queries' = queries
  BY DEF QueryInvalid, respond_result
<1>2. ClientInv /\ queries \subseteq MdnsRequest /\ queries = {Entry(req[r]) : r \in Open}
  BY DEF IInv, ProgramTypeOK, QueriesAgree
<1>3. /\ ClientInv' /\ \A s \in Id : Seen(req[s], req'[s])
      /\ Open' = Open /\ req' = req
  BY <1>1, <1>2, UnchangedKeeps
<1>4. ASSUME NEW c \in Conn, client'[c] \in Asked
      PROVE  \E q \in queries' : q.query = client'[c]
  <2>1. client'[c] = clients[c] /\ clients[c] # text
    BY <1>1, <1>4, TextAssumption
  <2> QED
    BY <1>1, <1>4, <2>1 DEF WaitOrAsk
<1>5. client' \in [Conn -> Text \cup {Closed}]
  BY <1>1
<1> QED
  BY <1>1, <1>2, <1>3, <1>4, <1>5 DEF Settled, NobodyForgotten

(* A request of a running program changes, and result_cb() cancels nothing. *)
LEMMA ResultKeeps ==
    ASSUME IInv, Running, NEW r \in Id, NEW n, Change(r, n), n.st # "cancelled",
           mslookup_result_cb(client, {})
    PROVE  Settled
<1>1. ClientInv /\ client \in [Conn -> Text \cup {Closed}] /\ NobodyForgotten
  BY DEF IInv, ProgramTypeOK
<1>2. ClientInv' /\ \A s \in Id : Seen(req[s], req'[s])
  BY <1>1, ChangeKeeps
<1>3. LastCallsEnd /\ Open' \ Open = {}
  BY <1>1, ChangeEnds
<1> DEFINE added == {Entry(req'[s]) : s \in Open' \ Open}
<1>4. added = {}
  BY <1>3
<1>5. mslookup_result_cb(client, added)
  BY <1>4
<1>6. /\ added \subseteq MdnsRequest
      /\ \A c \in Conn : client[c] \in Asked => \E q \in queries \cup added : q.query = client[c]
  BY <1>1, <1>4 DEF NobodyForgotten
<1>7. /\ client' \in [Conn -> Text \cup {Closed}]
      /\ queries' \subseteq MdnsRequest /\ handled' \in BOOLEAN
      /\ queries' = {Entry(req'[s]) : s \in Open'}
      /\ NobodyForgotten'
  BY <1>1, <1>3, <1>5, <1>6, CallbackKeeps
<1> QED
  BY <1>2, <1>7 DEF Settled

(* Each step keeps the invariant, and is one that the users of requests    *)
(* may see.                                                                *)
StepKeeps == IInv' /\ \A s \in Id : Seen(req[s], req'[s])

(* Only the clients of a program change, and none is given a query. *)
LEMMA SocketKeeps ==
    ASSUME IInv, Running, UNCHANGED <<vars, queries, handled, mode, argv>>, woken' = TRUE,
           client' \in [Conn -> Text \cup {Closed}],
           \A c \in Conn : client'[c] \in Asked => client'[c] = client[c]
    PROVE  StepKeeps
<1>1. /\ UNCHANGED vars /\ queries' = queries /\ handled' = handled
      /\ mode' = mode /\ argv' = argv
  OBVIOUS
<1>2. /\ ClientInv /\ queries \subseteq MdnsRequest /\ handled \in BOOLEAN
      /\ argv \in Seq(Text) /\ NobodyForgotten
      /\ queries = {Entry(req[r]) : r \in Open}
      /\ mode \in {"daemon", "once"}
  BY DEF IInv, ProgramTypeOK, QueriesAgree, Running
<1>3. /\ ClientInv' /\ \A s \in Id : Seen(req[s], req'[s])
      /\ Open' = Open /\ req' = req
  BY <1>1, <1>2, UnchangedKeeps
<1>4. NobodyForgotten'
  BY <1>1, <1>2 DEF NobodyForgotten
<1>5. Settled
  BY <1>1, <1>2, <1>3, <1>4 DEF Settled
<1>6. IInv'
  BY <1>1, <1>2, <1>5, SettledKeeps
<1> QED
  BY <1>3, <1>6 DEF StepKeeps

(* A user of the library that has no socket. *)
LEMMA LibraryKeeps ==
    ASSUME IInv, mode = "library", UNCHANGED program,
           ClientInv', \A s \in Id : Seen(req[s], req'[s])
    PROVE  StepKeeps
<1>1. /\ mode' = mode /\ argv' = argv /\ client' = client /\ queries' = queries
      /\ handled' = handled /\ woken' = woken
  BY DEF program
<1>2. ~Running /\ ~Running'
  BY <1>1 DEF Running
<1>3. queries = {} /\ client = [c \in Conn |-> Closed]
  BY <1>2 DEF IInv, NoSocket
<1>4. NoSocket' /\ QueriesAgree'
  BY <1>1, <1>2, <1>3 DEF NoSocket, QueriesAgree
<1>5. NobodyForgotten'
  BY <1>1 DEF IInv, NobodyForgotten
<1>6. ProgramTypeOK'
  BY <1>1 DEF IInv, ProgramTypeOK, ClientInv
<1> QED
  BY <1>4, <1>5, <1>6 DEF IInv, StepKeeps

(* main() closes everything. *)
LEMMA ExitKeeps ==
    ASSUME IInv, ProgramExits
    PROVE  StepKeeps
<1>1. /\ mode' = "exited" /\ client' = [c \in Conn |-> Closed] /\ queries' = {}
      /\ mdns' = <<>> /\ next' = next /\ dangling' = dangling
      /\ argv' = argv /\ handled' = handled /\ woken' = woken
      /\ req' = [r \in Id |-> IF r \in Open THEN [req[r] EXCEPT !.st = "cancelled"] ELSE req[r]]
  BY DEF ProgramExits
<1>2. /\ TypeOK /\ req \in [Id -> Request] /\ next \in 0..(HandleMod - 1) /\ dangling \subseteq Id
      /\ argv \in Seq(Text) /\ handled \in BOOLEAN /\ woken \in BOOLEAN
  BY DEF IInv, ProgramTypeOK, TypeOK
<1>3. ASSUME NEW s \in Id
      PROVE  req'[s] \in Request /\ req'[s].st # "open" /\ Seen(req[s], req'[s])
  <2>1. CASE s \in Open
    <3> DEFINE n == [req[s] EXCEPT !.st = "cancelled"]
    <3>1. req'[s] = n /\ req[s] \in Request /\ req[s].st = "open"
      BY <1>1, <1>2, <2>1 DEF Open
    <3>2. /\ n \in Request /\ n.st = "cancelled"
          /\ n.heard = req[s].heard /\ n.told = req[s].told
          /\ n.calls = req[s].calls /\ n.finals = req[s].finals
      BY <3>1, CancelledIs
    <3> HIDE DEF n
    <3>3. Seen(req[s], n)
      BY <3>1, <3>2 DEF Seen, View, LookupPromise!Cancel
    <3> QED
      BY <3>1, <3>2, <3>3
  <2>2. CASE s \notin Open
    BY <1>1, <1>2, <2>2 DEF Open, Seen
  <2> QED
    BY <2>1, <2>2
<1>4. req' \in [Id -> Request] /\ Open' = {}
  <2>1. req' = [s \in Id |-> req'[s]]
    BY <1>1
  <2> QED
    BY <1>3, <2>1 DEF Open
<1>5. mdns' \in Seq(MdnsRequest) /\ Len(mdns') = 0
  BY <1>1
<1>6. TypeOK'
  BY <1>1, <1>2, <1>4, <1>5 DEF TypeOK
<1>7. MethodMirrorsRequests'
  <2>1. Cardinality(Open') = 0
    BY <1>4, FS_EmptySet
  <2> QED
    BY <1>4, <1>5, <2>1 DEF MethodMirrorsRequests
<1>8. ClientInv'
  BY <1>4, <1>6, <1>7 DEF ClientInv, HandlesUnique, OpenSound
<1>9. ProgramTypeOK'
  BY <1>1, <1>2, <1>6 DEF ProgramTypeOK
<1>10. NobodyForgotten'
  BY <1>1, TextAssumption DEF NobodyForgotten
<1>11. QueriesAgree' /\ NoSocket'
  BY <1>1 DEF QueriesAgree, NoSocket, Running
<1> QED
  BY <1>3, <1>8, <1>9, <1>10, <1>11 DEF IInv, StepKeeps

LEMMA NextKeeps ==
    ASSUME IInv, [ProgramNext]_pvars
    PROVE  StepKeeps
<1>1. /\ ClientInv /\ NobodyForgotten /\ client \in [Conn -> Text \cup {Closed}]
      /\ argv \in Seq(Text) /\ woken \in BOOLEAN
      /\ (Running => mode \in {"daemon", "once"})
  BY DEF IInv, ProgramTypeOK, Running
<1>2. ASSUME start_query_strs PROVE StepKeeps
  <2>1. Running /\ argv # <<>> /\ argv' = Tail(argv) /\ mode' = mode /\ woken' = woken
    BY <1>2 DEF start_query_strs
  <2>2. Head(argv) \in Text /\ Tail(argv) \in Seq(Text)
    BY <1>1, <2>1
  <2>3. WaitOrAsk(client, Head(argv))
    BY <1>1 DEF WaitOrAsk, NobodyForgotten
  <2>4. Settled
    <3>1. ASSUME NEW handling \in Handling, StartQuery(client, Head(argv), handling) PROVE Settled
      BY <1>1, <2>1, <2>2, <2>3, <3>1, StartQueryKeeps
    <3>2. ASSUME QueryInvalid(client, Head(argv)) PROVE Settled
      BY <1>1, <2>1, <2>2, <2>3, <3>2, QueryInvalidKeeps
    <3> QED
      BY <1>2, <3>1, <3>2 DEF start_query_strs
  <2>5. IInv'
    BY <1>1, <2>1, <2>2, <2>4, SettledKeeps
  <2> QED
    BY <2>4, <2>5 DEF StepKeeps, Settled
<1>3. ASSUME NEW c \in Conn, socket_accept(c) PROVE StepKeeps
  <2>1. /\ Running /\ client' = [client EXCEPT ![c] = Blank]
        /\ woken' = TRUE /\ UNCHANGED <<vars, queries, handled, mode, argv>>
    BY <1>3 DEF socket_accept, Woken, Listening
  <2>2. client' \in [Conn -> Text \cup {Closed}]
    BY <1>1, <2>1 DEF Text
  <2>3. Blank \notin Asked
    BY TextAssumption
  <2>4. \A d \in Conn : client'[d] \in Asked => client'[d] = client[d]
    BY <1>1, <2>1, <2>3
  <2> QED
    BY <2>1, <2>2, <2>4, SocketKeeps
<1>4. ASSUME NEW c \in Conn, socket_client_close(c) PROVE StepKeeps
  <2>1. /\ Running /\ client' = [client EXCEPT ![c] = Closed]
        /\ woken' = TRUE /\ UNCHANGED <<vars, queries, handled, mode, argv>>
    BY <1>4 DEF socket_client_close, Woken, Listening
  <2>2. client' \in [Conn -> Text \cup {Closed}]
    BY <1>1, <2>1
  <2>3. Closed \notin Asked
    BY TextAssumption
  <2>4. \A d \in Conn : client'[d] \in Asked => client'[d] = client[d]
    BY <1>1, <2>1, <2>3
  <2> QED
    BY <2>1, <2>2, <2>4, SocketKeeps
<1>5. ASSUME NEW c \in Conn, NEW text \in Text, socket_read_cb(c, text) PROVE StepKeeps
  <2> DEFINE asked == [client EXCEPT ![c] = text]
  <2>1. /\ Running /\ woken' = TRUE /\ mode' = mode /\ argv' = argv
        /\ \/ \E handling \in Handling : StartQuery(asked, text, handling)
           \/ QueryInvalid(asked, text)
    BY <1>5 DEF socket_read_cb, Woken, Listening
  <2>2. asked \in [Conn -> Text \cup {Closed}] /\ WaitOrAsk(asked, text)
    BY <1>1 DEF WaitOrAsk, NobodyForgotten
  <2> HIDE DEF asked
  <2>3. Settled
    <3>1. ASSUME NEW handling \in Handling, StartQuery(asked, text, handling) PROVE Settled
      BY <2>1, <2>2, <3>1, StartQueryKeeps
    <3>2. ASSUME QueryInvalid(asked, text) PROVE Settled
      BY <2>1, <2>2, <3>2, QueryInvalidKeeps
    <3> QED
      BY <2>1, <3>1, <3>2
  <2>4. IInv'
    BY <1>1, <2>1, <2>3, SettledKeeps
  <2> QED
    BY <2>3, <2>4 DEF StepKeeps, Settled
<1>6. ASSUME OtherPacket PROVE StepKeeps
  <2>1. /\ Running /\ client' = client /\ woken' = TRUE
        /\ UNCHANGED <<vars, queries, handled, mode, argv>>
    BY <1>6 DEF OtherPacket, Woken, Listening
  <2> QED
    BY <1>1, <2>1, SocketKeeps
<1>7. ASSUME Running, NEW r \in Id, NEW n, Change(r, n), n.st # "cancelled",
             mslookup_result_cb(client, {}), Woken
      PROVE  StepKeeps
  <2>1. Settled
    BY <1>7, ResultKeeps
  <2>2. mode' = mode /\ argv' = argv /\ woken' = TRUE
    BY <1>7 DEF Woken
  <2>3. IInv'
    BY <1>1, <1>7, <2>1, <2>2, SettledKeeps
  <2> QED
    BY <2>1, <2>3 DEF StepKeeps, Settled
<1>8. ASSUME ReplyArrives PROVE StepKeeps
  <2>1. Running /\ mslookup_result_cb(client, {}) /\ Woken
    BY <1>8 DEF ReplyArrives, Listening
  <2>2. PICK q \in Query, age \in Age : mdns_method_recv(q, age, FALSE)
    BY <1>8 DEF ReplyArrives
  <2>3. \E r \in Id : \E n : Change(r, n) /\ n.st # "cancelled"
    BY <1>1, <2>2, RecvIs
  <2> QED
    BY <1>7, <2>1, <2>3
<1>9. ASSUME NEW r \in Id, Listening, timeout_cb(r, FALSE), mslookup_result_cb(client, {}), Woken
      PROVE  StepKeeps
  <2>1. Running
    BY <1>9 DEF Listening
  <2>2. \E n : Change(r, n) /\ n.st # "cancelled"
    BY <1>1, <1>9, TimeoutIs
  <2> QED
    BY <1>7, <1>9, <2>1, <2>2
<1>10. ASSUME mode = "library", UNCHANGED program, NEW r \in Id, NEW n, Change(r, n)
       PROVE  StepKeeps
  BY <1>1, <1>10, ChangeKeeps, LibraryKeeps
<1>11. ASSUME NEW r \in Id, TimerExpires(r) PROVE StepKeeps
  <2>1. CASE mode = "library" /\ UNCHANGED program /\ \E cancel \in MayCancel : timeout_cb(r, cancel)
    <3>1. PICK cancel \in BOOLEAN : timeout_cb(r, cancel)
      BY <2>1, CancelAssumption DEF MayCancel
    <3>2. \E n : Change(r, n)
      BY <1>1, <3>1, TimeoutIs
    <3> QED
      BY <1>10, <2>1, <3>2
  <2> QED
    BY <1>9, <1>11, <2>1 DEF TimerExpires
<1>12. ASSUME ProgramExits PROVE StepKeeps
  BY <1>12, ExitKeeps
<1>13. ASSUME LibraryUse PROVE StepKeeps
  <2>1. mode = "library" /\ UNCHANGED program
    BY <1>13 DEF LibraryUse
  <2>2. ASSUME NEW q \in Query, NEW handling \in Handling, osmo_mslookup_client_request(q, handling)
        PROVE  StepKeeps
    BY <1>1, <2>1, <2>2, StartKeeps, LibraryKeeps
  <2>3. ASSUME NEW r \in Id, osmo_mslookup_client_request_cancel(r) PROVE StepKeeps
    <3>1. \E n : Change(r, n)
      BY <1>1, <2>3, CancelIs
    <3> QED
      BY <1>10, <2>1, <3>1
  <2>4. ASSUME NEW q \in Query, NEW age \in Age, NEW cancel \in BOOLEAN,
               mdns_method_recv(q, age, cancel)
        PROVE  StepKeeps
    <3>1. \E r \in Id : \E n : Change(r, n)
      BY <1>1, <2>4, RecvIs
    <3> QED
      BY <1>10, <2>1, <3>1
  <2> QED
    BY <1>13, <2>2, <2>3, <2>4 DEF LibraryUse
<1>14. ASSUME UNCHANGED pvars PROVE StepKeeps
  <2>1. UNCHANGED vars /\ mode' = mode /\ argv' = argv /\ client' = client
        /\ queries' = queries /\ handled' = handled /\ woken' = woken
    BY <1>14 DEF pvars, program
  <2>2. /\ ClientInv' /\ \A s \in Id : Seen(req[s], req'[s])
        /\ Open' = Open /\ req' = req
    BY <1>1, <2>1, UnchangedKeeps
  <2>3. ProgramTypeOK' /\ QueriesAgree' /\ NobodyForgotten' /\ NoSocket'
    BY <2>1, <2>2
       DEF IInv, ClientInv, ProgramTypeOK, QueriesAgree, NobodyForgotten, NoSocket, Running, Entry
  <2> QED
    BY <2>2, <2>3 DEF IInv, StepKeeps
<1> QED
  BY <1>2, <1>3, <1>4, <1>5, <1>6, <1>8, <1>11, <1>12, <1>13, <1>14 DEF ProgramNext, Exited

LEMMA InitIInv == ProgramInit => IInv
<1> SUFFICES ASSUME ProgramInit PROVE IInv
  OBVIOUS
<1>1. /\ Init
      /\ mode \in {"library", "daemon", "once"}
      /\ argv \in {<<>>} \cup {<<t>> : t \in Text}
      /\ client = [c \in Conn |-> Closed]
      /\ queries = {} /\ handled = FALSE /\ woken = FALSE
  BY DEF ProgramInit
<1> DEFINE n == [st |-> "unused", handle |-> 0, query |-> CHOOSE q \in Query : TRUE,
                 handling |-> "no_wait", waiting |-> FALSE, age |-> NoAge,
                 heard |-> NoAge, told |-> NoAge, calls |-> 0, finals |-> 0]
<1>2. req = [r \in Id |-> n] /\ next = 0 /\ mdns = <<>> /\ dangling = {}
  BY <1>1 DEF Init
<1>3. n \in Request /\ n.st # "open"
  <2>1. (CHOOSE q \in Query : TRUE) \in Query
    BY QueryAssumption
  <2>2. 0 \in 0..(HandleMod - 1) /\ NoAge \in 0..NoAge
    BY ModAssumption, AgeIs
  <2> QED
    BY <2>1, <2>2 DEF Request, Handling
<1> HIDE DEF n
<1>4. Open = {}
  BY <1>2, <1>3 DEF Open
<1>5. mdns \in Seq(MdnsRequest) /\ Len(mdns) = 0
  BY <1>2
<1>6. TypeOK
  BY <1>2, <1>3, <1>5, ModAssumption DEF TypeOK
<1>7. MethodMirrorsRequests
  <2>1. Cardinality(Open) = 0
    BY <1>4, FS_EmptySet
  <2> QED
    BY <1>4, <1>5, <2>1 DEF MethodMirrorsRequests
<1>8. ClientInv
  BY <1>4, <1>6, <1>7 DEF ClientInv, HandlesUnique, OpenSound
<1>9. argv \in Seq(Text)
  <2>1. \A t \in Text : <<t>> \in Seq(Text)
    OBVIOUS
  <2>2. <<>> \in Seq(Text)
    OBVIOUS
  <2> QED
    BY <1>1, <2>1, <2>2
<1>10. ProgramTypeOK
  BY <1>1, <1>6, <1>9 DEF ProgramTypeOK
<1>11. QueriesAgree /\ NoSocket
  BY <1>1, <1>4 DEF QueriesAgree, NoSocket
<1>12. NobodyForgotten
  BY <1>1, TextAssumption DEF NobodyForgotten
<1> QED
  BY <1>8, <1>10, <1>11, <1>12 DEF IInv

(* The invariant holds at all times, and users see the steps of a Lookup.  *)
LEMMA NextIInv == IInv /\ [ProgramNext]_pvars => IInv'
  BY NextKeeps DEF StepKeeps

-----------------------------------------------------------------------------
(* Theorems. *)

(* The variables of the lookup client and of the program keep their types: *)
(* handles stay within their width when the counter wraps around, and the  *)
(* age on record stays one that was received.                              *)
THEOREM TypeCorrect == ProgramSpec => []ProgramTypeOK
<1>1. IInv => ProgramTypeOK
  BY DEF IInv
<1> QED
  BY <1>1, InitIInv, NextIInv, PTL DEF ProgramSpec

(* The lists of the client, of the mDNS method and of the program agree    *)
(* whenever handles are used again, a handle names one request, and no     *)
(* client that waits is without a query: a program that is run for one     *)
(* query does not exit while somebody waits.                               *)
THEOREM ListsAlwaysAgree == ProgramSpec => []ListsAgree
<1>1. IInv => ListsAgree
  BY DEF IInv, ClientInv, QueriesAgree, NobodyForgotten, Entry, ListsAgree
<1> QED
  BY <1>1, InitIInv, NextIInv, PTL DEF ProgramSpec

(* The result on record is the youngest that was received, and the user    *)
(* was told of it unless the initial delay is not over.                    *)
THEOREM RecordsSound == ProgramSpec => []OpenSound
<1>1. IInv => OpenSound
  BY DEF IInv, ClientInv
<1> QED
  BY <1>1, InitIInv, NextIInv, PTL DEF ProgramSpec

(* Steps that the users of requests may see are steps of a Lookup. *)
LEMMA SeenIsLookup ==
    ASSUME \A s \in Id : Seen(req[s], req'[s])
    PROVE  LookupPromise!Next
<1> DEFINE look == [r \in Id |-> [st |-> req[r].st, heard |-> req[r].heard, told |-> req[r].told,
                                  calls |-> req[r].calls, finals |-> req[r].finals]]
<1>1. \A s \in Id : look[s] = View(req[s]) /\ look'[s] = View(req'[s])
  BY DEF View
<1>2. LookupPromise!Next =
        \A r \in Id :
           \/ look[r] = look'[r]
           \/ LookupPromise!Start(look[r], look'[r])
           \/ LookupPromise!Hear(look[r], look'[r])
           \/ LookupPromise!Tell(look[r], look'[r])
           \/ LookupPromise!NotYet(look[r], look'[r])
           \/ LookupPromise!Finish(look[r], look'[r])
           \/ LookupPromise!Cancel(look[r], look'[r])
  BY DEF LookupPromise!Next
<1> HIDE DEF look
<1> QED
  BY <1>1, <1>2 DEF Seen

(* Every request is a Lookup, under the program or another user of the     *)
(* library: result_cb() is called with ever younger results, exactly once  *)
(* with last = true unless the request is cancelled, by then with the      *)
(* youngest result that was received, and never after that.                *)
THEOREM RequestsAreLookups == ProgramSpec => LookupKept
<1>1. ProgramInit => LookupPromise!Init
  BY DEF ProgramInit, Init, LookupPromise!Init, LookupPromise!New
<1>2. IInv /\ [ProgramNext]_pvars => LookupPromise!Next
  BY NextKeeps, SeenIsLookup DEF StepKeeps
<1> QED
  BY <1>1, <1>2, InitIInv, NextIInv, PTL DEF ProgramSpec, LookupKept, LookupPromise!Spec

-----------------------------------------------------------------------------
(* Where the timer of a freed request can come from. *)

OnlyCancelDangles == CancelAnyTime \/ (mode = "library" /\ CancelInTimeout = TRUE)

LEMMA DanglesNot ==
    ASSUME NEW r \in Id, NEW cancel \in BOOLEAN, timeout_cb(r, cancel)
    PROVE  cancel = FALSE => dangling' = dangling
  BY DEF timeout_cb, MinWaitPassed, FinalTimeout

LEMMA NextDangles == OnlyCancelDangles /\ [ProgramNext]_pvars => OnlyCancelDangles'
<1> SUFFICES ASSUME OnlyCancelDangles, [ProgramNext]_pvars
             PROVE  OnlyCancelDangles'
  OBVIOUS
<1>1. ASSUME dangling' = dangling, mode = "library" => mode' = mode
      PROVE  OnlyCancelDangles'
  BY <1>1 DEF OnlyCancelDangles, CancelAnyTime
<1>2. ASSUME start_query_strs PROVE dangling' = dangling /\ mode' = mode
  BY <1>2 DEF start_query_strs, StartQuery, QueryInvalid, osmo_mslookup_client_request, vars
<1>3. ASSUME NEW c \in Conn, socket_accept(c) \/ socket_client_close(c)
      PROVE  dangling' = dangling /\ mode' = mode
  BY <1>3 DEF socket_accept, socket_client_close, Woken, vars
<1>4. ASSUME NEW c \in Conn, NEW text \in Text, socket_read_cb(c, text)
      PROVE  dangling' = dangling /\ mode' = mode
  BY <1>4 DEF socket_read_cb, StartQuery, QueryInvalid, osmo_mslookup_client_request, Woken, vars
<1>5. ASSUME OtherPacket PROVE dangling' = dangling /\ mode' = mode
  BY <1>5 DEF OtherPacket, Woken, vars
<1>6. ASSUME ReplyArrives PROVE dangling' = dangling /\ mode' = mode
  BY <1>6 DEF ReplyArrives, mdns_method_recv, Woken
<1>7. ASSUME NEW r \in Id, TimerExpires(r) PROVE OnlyCancelDangles'
  <2>1. CASE timeout_cb(r, FALSE) /\ Woken
    <3>1. dangling' = dangling /\ mode' = mode
      BY <2>1, DanglesNot DEF Woken
    <3> QED
      BY <1>1, <3>1
  <2>2. CASE mode = "library" /\ (\E cancel \in MayCancel : timeout_cb(r, cancel))
             /\ UNCHANGED program
    <3>1. mode' = "library"
      BY <2>2 DEF program
    <3>2. CASE CancelInTimeout = TRUE
      BY <3>1, <3>2 DEF OnlyCancelDangles
    <3>3. CASE CancelInTimeout = FALSE
      <4>1. PICK cancel \in BOOLEAN : cancel = FALSE /\ timeout_cb(r, cancel)
        BY <2>2, <3>3 DEF MayCancel
      <4>2. dangling' = dangling
        BY <4>1, DanglesNot
      <4> QED
        BY <1>1, <2>2, <3>1, <4>2
    <3> QED
      BY <3>2, <3>3, CancelAssumption
  <2> QED
    BY <1>7, <2>1, <2>2 DEF TimerExpires
<1>8. ASSUME ProgramExits PROVE dangling' = dangling /\ mode # "library"
  BY <1>8 DEF ProgramExits
<1>9. ASSUME LibraryUse PROVE dangling' = dangling /\ mode' = mode
  BY <1>9 DEF LibraryUse, osmo_mslookup_client_request, osmo_mslookup_client_request_cancel,
              mdns_method_recv, program
<1>10. ASSUME UNCHANGED pvars PROVE dangling' = dangling /\ mode' = mode
  BY <1>10 DEF pvars, vars, program
<1> QED
  BY <1>1, <1>2, <1>3, <1>4, <1>5, <1>6, <1>7, <1>8, <1>9, <1>10 DEF ProgramNext, Exited

(* A timer is armed for a freed request in one case only: a user of the    *)
(* library cancels its request in a call from timeout_cb().  The program   *)
(* osmo-mslookup-client, whose result_cb() cancels nothing, never does.    *)
THEOREM TimersFreed == ProgramSpec => []OnlyCancelDangles
<1>1. ProgramInit => OnlyCancelDangles
  BY DEF ProgramInit, Init, OnlyCancelDangles, CancelAnyTime
<1> QED
  BY <1>1, NextDangles, PTL DEF ProgramSpec

-----------------------------------------------------------------------------

(* The program leaves its main loop only when nobody waits for an answer:  *)
(* neither a query of its command line nor one of a client is open.        *)
NobodyLeftBehind ==
    ProgramExits => Open = {} /\ \A c \in Conn : client[c] \notin Asked

(* The loop in main() ends in this way only: no step of the program or of  *)
(* the library takes it there while a query or a client is waiting.        *)
THEOREM ExitsWhenAnswered == ProgramSpec => [][NobodyLeftBehind]_pvars
<1>1. IInv /\ [ProgramNext]_pvars => [NobodyLeftBehind]_pvars
  <2> SUFFICES ASSUME IInv, ProgramExits
               PROVE  Open = {} /\ \A c \in Conn : client[c] \notin Asked
    BY DEF NobodyLeftBehind
  <2>1. queries = {} /\ Running
    BY DEF ProgramExits, Done, Running
  <2>2. Open = {}
    BY <2>1 DEF IInv, QueriesAgree
  <2>3. \A c \in Conn : client[c] \notin Asked
    BY <2>1 DEF IInv, NobodyForgotten
  <2> QED
    BY <2>2, <2>3
<1> QED
  BY <1>1, InitIInv, NextIInv, PTL DEF ProgramSpec

=============================================================================
