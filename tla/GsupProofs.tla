----------------------------- MODULE GsupProofs -----------------------------
(***************************************************************************)
(* Proofs about the two ends of a GSUP connection: the GSUP server of      *)
(* osmo-hlr, for any connections, names and requests, and the GSUP client, *)
(* for any length of its write queue.                                      *)
(*                                                                         *)
(* For the server, the inductive invariant adds to the checked properties  *)
(* that a request remembers only connections that are still open.  For the *)
(* client, it adds that a link that its user does not want has no socket   *)
(* and no timer, so that no call-back is left that could revive it, and    *)
(* that nothing can be queued while a connection is on its way.            *)
(***************************************************************************)
EXTENDS GsupServer, GsupClient, SequenceTheorems, WellFoundedInduction, TLAPS

(* Sets of numbers and lists. *)

(* A non-empty set of natural numbers has a least member. *)
LEMMA LeastNat ==
    ASSUME NEW T \in SUBSET Nat, T # {}
    PROVE  \E x \in T : \A y \in T : x <= y
<1> DEFINE R == OpToRel(<, Nat)
<1>1. IsWellFoundedOn(R, Nat)
  BY NatLessThanWellFounded
<1>2. \A y, x \in Nat : y < x => <<y, x>> \in R
  BY DEF OpToRel
<1> HIDE DEF R
<1>3. PICK x \in T : \A y \in T : ~ (<<y, x>> \in R)
  BY <1>1, WFMin
<1>4. ASSUME NEW y \in T PROVE x <= y
  <2>1. x \in Nat /\ y \in Nat
    OBVIOUS
  <2>2. ~(y < x)
    BY <1>2, <1>3, <2>1
  <2> QED
    BY <2>1, <2>2
<1> QED
  BY <1>4

(* What removing the k-th element of a sequence leaves. *)
LEMMA RemoveAtProperties ==
    ASSUME NEW S, NEW s \in Seq(S), NEW k \in 1..Len(s)
    PROVE  /\ RemoveAt(s, k) \in Seq(S)
           /\ Len(RemoveAt(s, k)) = Len(s) - 1
           /\ \A j \in 1..(Len(s) - 1) :
                 RemoveAt(s, k)[j] = IF j < k THEN s[j] ELSE s[j+1]
<1> DEFINE a == SubSeq(s, 1, k-1)
           b == SubSeq(s, k+1, Len(s))
<1>1. a \in Seq(S) /\ Len(a) = k-1 /\ \A j \in 1..(k-1) : a[j] = s[j]
  BY SMT
<1>2. b \in Seq(S) /\ Len(b) = Len(s)-k /\ \A j \in 1..(Len(s)-k) : b[j] = s[k+j]
  BY SMT
<1>3. RemoveAt(s, k) = a \o b
  BY DEF RemoveAt
<1> HIDE DEF a, b
<1>4. /\ a \o b \in Seq(S)
      /\ Len(a \o b) = Len(a) + Len(b)
      /\ \A j \in 1..(Len(a) + Len(b)) :
            (a \o b)[j] = IF j <= Len(a) THEN a[j] ELSE b[j - Len(a)]
  BY <1>1, <1>2, ConcatProperties
<1> QED
  BY <1>1, <1>2, <1>3, <1>4, SMT

(* Adding an element at the head of a list, as llist_add() does. *)
LEMMA ConsProperties ==
    ASSUME NEW S, NEW s \in Seq(S), NEW x \in S
    PROVE  /\ <<x>> \o s \in Seq(S)
           /\ Len(<<x>> \o s) = Len(s) + 1
           /\ (<<x>> \o s)[1] = x
           /\ \A j \in 1..Len(s) : (<<x>> \o s)[j+1] = s[j]
<1>1. <<x>> \in Seq(S) /\ Len(<<x>>) = 1 /\ <<x>>[1] = x
  OBVIOUS
<1> QED
  BY <1>1, ConcatProperties, SMT

(* What inserting x as the k-th element of a sequence gives. *)
LEMMA InsertAtProperties ==
    ASSUME NEW S, NEW s \in Seq(S), NEW x \in S, NEW k \in 1..(Len(s) + 1)
    PROVE  /\ InsertAt(s, k, x) \in Seq(S)
           /\ Len(InsertAt(s, k, x)) = Len(s) + 1
           /\ \A j \in 1..(Len(s) + 1) :
                 InsertAt(s, k, x)[j] = IF j < k THEN s[j]
                                        ELSE IF j = k THEN x ELSE s[j-1]
<1> DEFINE a == SubSeq(s, 1, k-1)
           b == SubSeq(s, k, Len(s))
           c == a \o <<x>>
<1>1. a \in Seq(S) /\ Len(a) = k-1 /\ \A j \in 1..(k-1) : a[j] = s[j]
  BY SMT
<1>2. /\ b \in Seq(S) /\ Len(b) = Len(s) - k + 1
      /\ \A j \in 1..(Len(s) - k + 1) : b[j] = s[k + j - 1]
  BY SMT
<1>3. InsertAt(s, k, x) = c \o b
  BY DEF InsertAt
<1> HIDE DEF a, b
<1>4. <<x>> \in Seq(S) /\ Len(<<x>>) = 1 /\ <<x>>[1] = x
  OBVIOUS
<1>5. /\ c \in Seq(S) /\ Len(c) = k
      /\ \A j \in 1..k : c[j] = IF j < k THEN a[j] ELSE x
  BY <1>1, <1>4, ConcatProperties, SMT
<1> HIDE DEF c
<1>6. /\ c \o b \in Seq(S)
      /\ Len(c \o b) = Len(c) + Len(b)
      /\ \A j \in 1..(Len(c) + Len(b)) :
            (c \o b)[j] = IF j <= Len(c) THEN c[j] ELSE b[j - Len(c)]
  BY <1>2, <1>5, ConcatProperties
<1> QED
  BY <1>1, <1>2, <1>3, <1>5, <1>6, SMT

-----------------------------------------------------------------------------
(* The invariant. *)

IInv ==
    /\ TypeOK
    /\ ClientsSorted
    /\ RoutesUnique
    /\ RoutesLive
    /\ PendingRouted
    /\ ResponseToOrigin

(* The membership of the client list, without ToSet. *)
LEMMA ConnectedMeans ==
    ASSUME TypeOK
    PROVE  /\ Connected \subseteq Conn
           /\ \A c : c \in Connected <=> \E j \in 1..Len(clients) : clients[j] = c
<1>1. clients \in Seq(Conn)
  BY DEF TypeOK
<1>2. DOMAIN clients = 1..Len(clients) /\ \A j \in 1..Len(clients) : clients[j] \in Conn
  BY <1>1
<1>3. Connected = {clients[j] : j \in 1..Len(clients)}
  BY <1>2 DEF Connected, ToSet
<1> QED
  BY <1>2, <1>3

(* The same after a step. *)
LEMMA ConnectedMeansPrime ==
    ASSUME TypeOK'
    PROVE  /\ Connected' \subseteq Conn
           /\ \A c : c \in Connected' <=> \E j \in 1..Len(clients') : clients'[j] = c
<1>1. clients' \in Seq(Conn)
  BY DEF TypeOK
<1>2. DOMAIN clients' = 1..Len(clients') /\ \A j \in 1..Len(clients') : clients'[j] \in Conn
  BY <1>1
<1>3. Connected' = {clients'[j] : j \in 1..Len(clients')}
  BY <1>2 DEF Connected, ToSet
<1> QED
  BY <1>2, <1>3

(* A name resolves to a connection exactly if there is a route for it. *)
LEMMA RouteFindIs ==
    ASSUME TypeOK, RoutesUnique, NEW n
    PROVE  /\ gsup_route_find(n) \in Conn \cup {NoConn}
           /\ \A c \in Conn : gsup_route_find(n) = c
                                <=> [addr |-> n, conn |-> c] \in routes
<1>1. routes \subseteq Route
  BY DEF TypeOK
<1>2. CASE \E g \in routes : g.addr = n
  <2> DEFINE g == CHOOSE g \in routes : g.addr = n
  <2>1. g \in routes /\ g.addr = n
    BY <1>2
  <2>2. gsup_route_find(n) = g.conn
    BY <1>2 DEF gsup_route_find
  <2> HIDE DEF g
  <2>3. g = [addr |-> n, conn |-> g.conn] /\ g.conn \in Conn
    BY <1>1, <2>1 DEF Route
  <2>4. ASSUME NEW c \in Conn, [addr |-> n, conn |-> c] \in routes
        PROVE  g.conn = c
    BY <2>1, <2>4 DEF RoutesUnique
  <2> QED
    BY <2>1, <2>2, <2>3, <2>4
<1>3. CASE ~ \E g \in routes : g.addr = n
  <2>1. gsup_route_find(n) = NoConn
    BY <1>3 DEF gsup_route_find
  <2>2. \A c \in Conn : [addr |-> n, conn |-> c] \notin routes
    BY <1>3
  <2> QED
    BY <2>1, <2>2, NoConnAssumption
<1> QED
  BY <1>2, <1>3

(* Adding a route keeps the routes well-formed, unique and live, drops     *)
(* none, and leaves one to the connection unless the name was taken.       *)
LEMMA RouteAddKeeps ==
    ASSUME TypeOK, RoutesUnique, RoutesLive,
           NEW c \in Connected, NEW n \in Name,
           routes' = gsup_route_add(c, n), clients' = clients
    PROVE  /\ routes' \subseteq Route /\ routes \subseteq routes'
           /\ RoutesUnique' /\ RoutesLive'
           /\ ~RouteExistsElsewhere(c, n) => [addr |-> n, conn |-> c] \in routes'
<1>1. c \in Conn
  BY ConnectedMeans
<1> DEFINE new == [addr |-> n, conn |-> c]
<1>2. new \in Route /\ new.addr = n /\ new.conn = c
  BY <1>1 DEF Route
<1>3. routes \subseteq Route /\ Connected' = Connected
  BY DEF TypeOK, Connected
<1>4. CASE gsup_route_find(n) # NoConn
  <2>1. routes' = routes
    BY <1>4 DEF gsup_route_add
  <2>2. ~RouteExistsElsewhere(c, n) => new \in routes
    BY <1>1, <1>4, RouteFindIs DEF RouteExistsElsewhere
  <2> QED
    BY <1>3, <2>1, <2>2 DEF RoutesUnique, RoutesLive
<1>5. CASE gsup_route_find(n) = NoConn
  <2>1. routes' = routes \cup {new}
    BY <1>5 DEF gsup_route_add
  <2>2. \A g \in routes : g.addr # n
    <3> SUFFICES ASSUME NEW g \in routes, g.addr = n PROVE FALSE
      OBVIOUS
    <3>1. g.conn \in Conn /\ g = [addr |-> n, conn |-> g.conn]
      BY <1>3 DEF Route
    <3> QED
      BY <1>5, <3>1, RouteFindIs, NoConnAssumption
  <2> HIDE DEF new
  <2>3. RoutesUnique'
    BY <1>2, <2>1, <2>2 DEF RoutesUnique
  <2>4. RoutesLive'
    BY <1>2, <1>3, <2>1 DEF RoutesLive
  <2> QED
    BY <1>2, <1>3, <2>1, <2>3, <2>4 DEF new
<1> QED
  BY <1>4, <1>5

(* The client before the first gap is found, and there is no gap before    *)
(* it: the INDs up to it are 0, 1, 2 and so on.                            *)
LEMMA GapAfterIs ==
    ASSUME TypeOK, ClientsSorted, ~FirstIndexUnused
    PROVE  /\ GapAfter \in 1..Len(clients)
           /\ \A j \in 1..GapAfter : ind[clients[j]] = j - 1
           /\ GapAfter < Len(clients) => ind[clients[GapAfter + 1]] > GapAfter
<1>1. /\ Len(clients) \in Nat /\ Len(clients) >= 1
      /\ \A j \in 1..Len(clients) : clients[j] \in Conn /\ ind[clients[j]] \in Nat
      /\ ind[clients[1]] = 0
  BY DEF TypeOK, FirstIndexUnused
<1> DEFINE n == Len(clients)
           v(j) == ind[clients[j]]
           Gap(i) == i = n \/ v(i+1) > v(i) + 1
           T == {i \in 1..n : Gap(i)}
<1>2. PICK i \in T : \A j \in T : i <= j
  <2>1. T \in SUBSET Nat /\ T # {}
    BY <1>1
  <2> HIDE DEF T
  <2> QED
    BY <2>1, LeastNat
<1>3. \A j \in 1..(i-1) : v(j+1) <= v(j) + 1
  <2> SUFFICES ASSUME NEW j \in 1..(i-1) PROVE v(j+1) <= v(j) + 1
    OBVIOUS
  <2>1. j \in 1..n /\ j+1 \in 1..n /\ j # n /\ j \notin T
    BY <1>1, <1>2
  <2>2. v(j) \in Nat /\ v(j+1) \in Nat
    BY <1>1, <2>1
  <2> QED
    BY <2>1, <2>2
<1>4. /\ GapAfter \in 1..n /\ Gap(GapAfter)
      /\ \A j \in 1..(GapAfter-1) : v(j+1) <= v(j) + 1
  <2> DEFINE P(k) == /\ k = Len(clients) \/ ind[clients[k+1]] > ind[clients[k]] + 1
                     /\ \A j \in 1..(k-1) : ind[clients[j+1]] <= ind[clients[j]] + 1
  <2>1. i \in 1..Len(clients) /\ P(i)
    BY <1>2, <1>3
  <2>2. GapAfter = CHOOSE k \in 1..Len(clients) : P(k)
    BY DEF GapAfter
  <2> QED
    BY <2>1, <2>2
<1> DEFINE g == GapAfter
           B == {j \in 1..g : v(j) # j - 1}
<1> HIDE DEF g
<1>5. g \in 1..n /\ \A j \in 1..(g-1) : v(j+1) <= v(j) + 1
  BY <1>4 DEF g
<1>6. B = {}
  <2> SUFFICES ASSUME B # {} PROVE FALSE
    OBVIOUS
  <2>1. B \in SUBSET Nat
    BY <1>1, <1>5
  <2> HIDE DEF B
  <2>2. PICK b \in B : \A j \in B : b <= j
    BY <2>1, LeastNat
  <2>3. b \in 1..g /\ v(b) # b - 1
    BY <2>2 DEF B
  <2>4. b # 1
    BY <1>1, <2>3
  <2>5. b-1 \in 1..(g-1) /\ b-1 \in 1..n /\ b \in 1..n
    BY <1>1, <1>5, <2>3, <2>4
  <2>6. b-1 \notin B
    BY <2>1, <2>2
  <2>7. v(b-1) = b-2
    BY <2>5, <2>6, <1>1, <1>5 DEF B
  <2>8. v((b-1)+1) <= v(b-1) + 1
    BY <1>5, <2>5
  <2>9. v(b-1) < v(b)
    BY <2>5 DEF ClientsSorted
  <2>10. v(b) \in Nat /\ (b-1)+1 = b /\ b \in Nat
    BY <1>1, <2>5
  <2> QED
    BY <2>3, <2>7, <2>8, <2>9, <2>10
<1>7. \A j \in 1..g : v(j) = j - 1
  BY <1>6
<1>8. g < n => v(g+1) > g
  BY <1>1, <1>4, <1>5, <1>7 DEF g
<1> QED
  BY <1>5, <1>7, <1>8 DEF g

(* Adding a connection inserts it at a position p with IND p - 1; the      *)
(* clients before it have the INDs below, those after it larger ones.      *)
LEMMA AddConnIs ==
    ASSUME TypeOK, ClientsSorted, NEW c \in Conn, osmo_gsup_server_add_conn(c)
    PROVE  \E p \in 1..(Len(clients) + 1) :
              /\ clients' \in Seq(Conn) /\ Len(clients') = Len(clients) + 1
              /\ \A j \in 1..(Len(clients) + 1) :
                    clients'[j] = IF j < p THEN clients[j]
                                  ELSE IF j = p THEN c ELSE clients[j-1]
              /\ ind' = [ind EXCEPT ![c] = p - 1]
              /\ \A j \in 1..Len(clients) :
                    /\ j < p => ind[clients[j]] = j - 1
                    /\ j >= p => ind[clients[j]] > p - 1
<1> DEFINE At(p) ==
              /\ clients' \in Seq(Conn) /\ Len(clients') = Len(clients) + 1
              /\ \A j \in 1..(Len(clients) + 1) :
                    clients'[j] = IF j < p THEN clients[j]
                                  ELSE IF j = p THEN c ELSE clients[j-1]
              /\ ind' = [ind EXCEPT ![c] = p - 1]
              /\ \A j \in 1..Len(clients) :
                    /\ j < p => ind[clients[j]] = j - 1
                    /\ j >= p => ind[clients[j]] > p - 1
<1> SUFFICES \E p \in 1..(Len(clients) + 1) : At(p)
  OBVIOUS
<1>1. /\ clients \in Seq(Conn) /\ Len(clients) \in Nat
      /\ \A j \in 1..Len(clients) : clients[j] \in Conn /\ ind[clients[j]] \in Nat
  BY DEF TypeOK
<1>2. CASE FirstIndexUnused
  <2>1. clients' = <<c>> \o clients /\ ind' = [ind EXCEPT ![c] = 0]
    BY <1>2 DEF osmo_gsup_server_add_conn
  <2>2. /\ clients' \in Seq(Conn) /\ Len(clients') = Len(clients) + 1
        /\ clients'[1] = c
        /\ \A j \in 1..Len(clients) : clients'[j+1] = clients[j]
    BY <1>1, <2>1, ConsProperties
  <2>3. \A j \in 1..(Len(clients) + 1) :
           clients'[j] = IF j < 1 THEN clients[j]
                         ELSE IF j = 1 THEN c ELSE clients[j-1]
    <3> SUFFICES ASSUME NEW j \in 1..(Len(clients) + 1), j # 1
                 PROVE  clients'[j] = clients[j-1]
      BY <1>1, <2>2
    <3>1. j-1 \in 1..Len(clients) /\ (j-1)+1 = j
      BY <1>1
    <3> QED
      BY <2>2, <3>1
  <2>4. \A j \in 1..Len(clients) : ind[clients[j]] > 0
    <3> SUFFICES ASSUME NEW j \in 1..Len(clients) PROVE ind[clients[j]] > 0
      OBVIOUS
    <3>1. 1 \in 1..Len(clients) /\ clients # <<>>
      BY <1>1
    <3>2. ind[clients[1]] > 0
      BY <1>2, <3>1 DEF FirstIndexUnused
    <3>3. j = 1 \/ ind[clients[1]] < ind[clients[j]]
      BY <1>1, <3>1 DEF ClientsSorted
    <3> QED
      BY <1>1, <3>1, <3>2, <3>3
  <2>5. 1 \in 1..(Len(clients) + 1) /\ 1 - 1 = 0
    BY <1>1
  <2>6. ind' = [ind EXCEPT ![c] = 1 - 1]
    BY <2>1, <2>5
  <2>7. \A j \in 1..Len(clients) : ~(j < 1) /\ ind[clients[j]] > 1 - 1
    BY <1>1, <2>4
  <2>8. At(1)
    BY <2>2, <2>3, <2>6, <2>7
  <2> HIDE DEF At
  <2> QED
    BY <2>5, <2>8
<1>3. CASE ~FirstIndexUnused
  <2> DEFINE g == GapAfter
  <2>1. /\ g \in 1..Len(clients)
        /\ \A j \in 1..g : ind[clients[j]] = j - 1
        /\ g < Len(clients) => ind[clients[g + 1]] > g
    BY <1>3, GapAfterIs
  <2>2. /\ clients' = InsertAt(clients, g + 1, c)
        /\ ind' = [ind EXCEPT ![c] = ind[clients[g]] + 1]
    BY <1>3 DEF osmo_gsup_server_add_conn
  <2> HIDE DEF g
  <2> DEFINE k == g + 1
  <2>3. k \in 1..(Len(clients) + 1) /\ k - 1 = g /\ k = g + 1 /\ g \in Nat
    BY <1>1, <2>1
  <2>4. clients' = InsertAt(clients, k, c)
    BY <2>2
  <2> HIDE DEF k
  <2>5. ind' = [ind EXCEPT ![c] = k - 1]
    <3>1. ind[clients[g]] + 1 = g
      BY <1>1, <2>1
    <3> QED
      BY <2>2, <2>3, <3>1
  <2>6. /\ clients' \in Seq(Conn) /\ Len(clients') = Len(clients) + 1
        /\ \A j \in 1..(Len(clients) + 1) :
              clients'[j] = IF j < k THEN clients[j]
                            ELSE IF j = k THEN c ELSE clients[j-1]
    <3>1. /\ InsertAt(clients, k, c) \in Seq(Conn)
          /\ Len(InsertAt(clients, k, c)) = Len(clients) + 1
          /\ \A j \in 1..(Len(clients) + 1) :
                InsertAt(clients, k, c)[j] =
                   IF j < k THEN clients[j]
                   ELSE IF j = k THEN c ELSE clients[j-1]
      <4>1. clients \in Seq(Conn) /\ c \in Conn /\ k \in 1..(Len(clients) + 1)
        BY <1>1, <2>3
      <4> QED
        BY <4>1, InsertAtProperties, SMTT(30)
    <3> QED
      BY <2>4, <3>1
  <2>7. \A j \in 1..Len(clients) : j < k => ind[clients[j]] = j - 1
    BY <1>1, <2>1, <2>3
  <2>8. \A j \in 1..Len(clients) : j >= k => ind[clients[j]] > k - 1
    <3> SUFFICES ASSUME NEW j \in 1..Len(clients), j >= k
                 PROVE  ind[clients[j]] > g
      BY <2>3
    <3>1. g < Len(clients) /\ k \in 1..Len(clients)
      BY <1>1, <2>1, <2>3
    <3>2. j = k \/ ind[clients[k]] < ind[clients[j]]
      BY <1>1, <2>3, <3>1 DEF ClientsSorted
    <3>3. ind[clients[k]] \in Nat /\ ind[clients[j]] \in Nat
      BY <1>1, <3>1
    <3> QED
      BY <2>1, <2>3, <3>1, <3>2, <3>3
  <2>9. At(k)
    BY <2>5, <2>6, <2>7, <2>8
  <2> HIDE DEF At
  <2> QED
    BY <2>3, <2>9
<1> QED
  BY <1>2, <1>3

(* Accepting a connection keeps the invariant and takes the lowest IND. *)
LEMMA AcceptKeeps ==
    ASSUME IInv, NEW c \in Conn, osmo_gsup_server_accept_cb(c)
    PROVE  IInv' /\ LowestIndTaken
<1>1. /\ c \notin Connected /\ osmo_gsup_server_add_conn(c)
      /\ UNCHANGED <<peer, routes, reqs, tx>>
  BY DEF osmo_gsup_server_accept_cb
<1>2. /\ TypeOK /\ ClientsSorted /\ Len(clients) \in Nat
      /\ \A j \in 1..Len(clients) : clients[j] \in Conn /\ ind[clients[j]] \in Nat
  BY DEF IInv, TypeOK
<1>3. PICK p \in 1..(Len(clients) + 1) :
         /\ clients' \in Seq(Conn) /\ Len(clients') = Len(clients) + 1
         /\ \A j \in 1..(Len(clients) + 1) :
               clients'[j] = IF j < p THEN clients[j]
                             ELSE IF j = p THEN c ELSE clients[j-1]
         /\ ind' = [ind EXCEPT ![c] = p - 1]
         /\ \A j \in 1..Len(clients) :
               /\ j < p => ind[clients[j]] = j - 1
               /\ j >= p => ind[clients[j]] > p - 1
  BY <1>1, <1>2, AddConnIs
<1>4. p \in Nat /\ p - 1 \in Nat
  BY <1>2, <1>3
<1>5. TypeOK'
  BY <1>1, <1>2, <1>3, <1>4 DEF TypeOK
<1>6. \A j \in 1..Len(clients) : clients[j] # c /\ ind'[clients[j]] = ind[clients[j]]
  BY <1>1, <1>2, <1>3, ConnectedMeans DEF TypeOK
<1>7. ind'[c] = p - 1
  BY <1>2, <1>3 DEF TypeOK
<1>8. Connected' = Connected \cup {c}
  <2>1. ASSUME NEW j \in 1..Len(clients)
        PROVE  \E k \in 1..Len(clients') : clients'[k] = clients[j]
    <3>1. CASE j < p
      BY <1>2, <1>3, <3>1
    <3>2. CASE j >= p
      <4>1. j + 1 \in 1..(Len(clients) + 1) /\ ~(j + 1 < p) /\ j + 1 # p /\ (j+1)-1 = j
        BY <1>2, <1>4, <3>2
      <4> QED
        BY <1>3, <4>1
    <3> QED
      BY <1>4, <3>1, <3>2
  <2>2. ASSUME NEW k \in 1..Len(clients')
        PROVE  clients'[k] = c \/ \E j \in 1..Len(clients) : clients'[k] = clients[j]
    <3>1. k \in 1..(Len(clients) + 1)
      BY <1>3
    <3>2. CASE k < p
      <4>1. k \in 1..Len(clients)
        BY <1>2, <1>3, <3>1, <3>2
      <4> QED
        BY <1>3, <3>1, <3>2, <4>1
    <3>3. CASE k = p
      BY <1>3, <3>1, <3>3, <1>4
    <3>4. CASE k > p
      <4>1. k - 1 \in 1..Len(clients) /\ ~(k < p) /\ k # p
        BY <1>2, <1>3, <1>4, <3>1, <3>4
      <4> QED
        BY <1>3, <3>1, <4>1
    <3> QED
      BY <1>4, <3>1, <3>2, <3>3, <3>4
  <2>3. p \in 1..Len(clients') /\ clients'[p] = c
    BY <1>3, <1>4
  <2> QED
    BY <1>2, <1>5, <2>1, <2>2, <2>3, ConnectedMeans, ConnectedMeansPrime
<1>9. ClientsSorted'
  <2> SUFFICES ASSUME NEW i \in 1..Len(clients'), NEW j \in 1..Len(clients'), i < j
               PROVE  ind'[clients'[i]] < ind'[clients'[j]]
    BY DEF ClientsSorted
  <2>1. i \in 1..(Len(clients)+1) /\ j \in 1..(Len(clients)+1)
    BY <1>3
  <2> DEFINE w(k) == ind'[clients'[k]]
             v(k) == ind[clients[k]]
  <2>2. \A k \in 1..(Len(clients)+1) :
           /\ k < p => k \in 1..Len(clients) /\ w(k) = v(k) /\ v(k) = k - 1
           /\ k = p => w(k) = p - 1
           /\ k > p => k-1 \in 1..Len(clients) /\ w(k) = v(k-1) /\ v(k-1) > p - 1
    <3> SUFFICES ASSUME NEW k \in 1..(Len(clients)+1)
                 PROVE /\ k < p => k \in 1..Len(clients) /\ w(k) = v(k) /\ v(k) = k - 1
                       /\ k = p => w(k) = p - 1
                       /\ k > p => k-1 \in 1..Len(clients) /\ w(k) = v(k-1) /\ v(k-1) > p - 1
      OBVIOUS
    <3>1. CASE k < p
      <4>1. k \in 1..Len(clients) /\ clients'[k] = clients[k]
        BY <1>2, <1>3, <3>1
      <4> QED
        BY <1>3, <1>4, <1>6, <3>1, <4>1
    <3>2. CASE k = p
      BY <1>3, <1>4, <1>7, <3>2
    <3>3. CASE k > p
      <4>1. k-1 \in 1..Len(clients) /\ k-1 >= p /\ ~(k < p) /\ k # p
        BY <1>2, <1>4, <3>3
      <4>2. clients'[k] = clients[k-1]
        BY <1>3, <4>1
      <4> QED
        BY <1>3, <1>4, <1>6, <3>3, <4>1, <4>2
    <3> QED
      BY <1>4, <3>1, <3>2, <3>3
  <2>3. \A k \in 1..Len(clients) : v(k) \in Nat
    BY <1>2
  <2>4. \A k, l \in 1..Len(clients) : k < l => v(k) < v(l)
    BY <1>2 DEF ClientsSorted
  <2> HIDE DEF v, w
  <2>5. w(i) < w(j)
    <3>1. CASE j < p \/ j = p
      BY <1>4, <2>1, <2>2, <3>1
    <3>2. CASE j > p /\ i <= p
      BY <1>4, <2>1, <2>2, <2>3, <3>2
    <3>3. CASE i > p
      <4>1. i-1 \in 1..Len(clients) /\ j-1 \in 1..Len(clients) /\ i-1 < j-1 /\ j > p
        BY <1>4, <2>1, <2>2, <3>3
      <4> QED
        BY <2>1, <2>2, <2>4, <3>3, <4>1
    <3> QED
      BY <1>4, <2>1, <3>1, <3>2, <3>3
  <2> QED
    BY <2>5 DEF w
<1>10. LowestIndTaken
  <2>1. \A d \in Connected : ind'[d] = ind[d] /\ d # c
    BY <1>1, <1>2, <1>6, ConnectedMeans
  <2>2. \A d \in Connected : ind[d] # ind'[c]
    <3> SUFFICES ASSUME NEW j \in 1..Len(clients) PROVE ind[clients[j]] # p - 1
      BY <1>2, <1>7, ConnectedMeans
    <3> QED
      BY <1>2, <1>3, <1>4
  <2>3. \A k \in 0..(ind'[c] - 1) : \E d \in Connected : ind[d] = k
    <3> SUFFICES ASSUME NEW k \in 0..(p - 2) PROVE \E d \in Connected : ind[d] = k
      BY <1>4, <1>7
    <3>1. k + 1 \in 1..Len(clients) /\ k + 1 < p /\ (k + 1) - 1 = k
      BY <1>2, <1>3, <1>4
    <3>2. ind[clients[k + 1]] = k
      BY <1>3, <3>1
    <3> QED
      BY <1>2, <3>1, <3>2, ConnectedMeans
  <2> QED
    BY <1>8, <2>1, <2>2, <2>3 DEF LowestIndTaken
<1>11. RoutesLive' /\ RoutesUnique' /\ PendingRouted' /\ ResponseToOrigin'
  BY <1>1, <1>8 DEF IInv, RoutesLive, RoutesUnique, PendingRouted, ResponseToOrigin
<1> QED
  BY <1>5, <1>9, <1>10, <1>11 DEF IInv

(* An identity response keeps the invariant. *)
LEMMA CcmKeeps ==
    ASSUME IInv, NEW c \in Conn, NEW n \in Name, osmo_gsup_server_ccm_cb(c, n)
    PROVE  IInv' /\ LowestIndTaken
<1>1. /\ c \in Connected /\ peer' = [peer EXCEPT ![c] = n]
      /\ routes' = gsup_route_add(c, n)
      /\ UNCHANGED <<clients, ind, reqs, tx>>
  BY DEF osmo_gsup_server_ccm_cb
<1>2. TypeOK /\ RoutesUnique /\ RoutesLive /\ PendingRouted
  BY DEF IInv
<1>3. /\ routes' \subseteq Route /\ routes \subseteq routes'
      /\ RoutesUnique' /\ RoutesLive'
  BY <1>1, <1>2, RouteAddKeeps
<1>4. TypeOK'
  BY <1>1, <1>2, <1>3 DEF TypeOK
<1>5. PendingRouted'
  BY <1>1, <1>2, <1>3 DEF PendingRouted
<1>6. ClientsSorted' /\ ResponseToOrigin' /\ LowestIndTaken
  BY <1>1 DEF IInv, ClientsSorted, ResponseToOrigin, LowestIndTaken, Connected
<1> QED
  BY <1>3, <1>4, <1>5, <1>6 DEF IInv

(* Closing a connection keeps the invariant: its routes go with it, and    *)
(* those of the others stay.                                               *)
LEMMA ClosedKeeps ==
    ASSUME IInv, NEW c \in Conn, osmo_gsup_server_closed_cb(c)
    PROVE  IInv' /\ LowestIndTaken
<1>1. /\ c \in Connected /\ routes' = gsup_route_del_conn(c)
      /\ reqs' = [r \in Req |-> IF reqs[r] # NoReq /\ reqs[r].conn = c
                                THEN [reqs[r] EXCEPT !.conn = NoConn]
                                ELSE reqs[r]]
      /\ ind' = [ind EXCEPT ![c] = 0] /\ peer' = [peer EXCEPT ![c] = NoName]
      /\ tx' = tx
  BY DEF osmo_gsup_server_closed_cb
<1>2. PICK i \in 1..Len(clients) : clients[i] = c /\ clients' = RemoveAt(clients, i)
  BY DEF osmo_gsup_server_closed_cb
<1>3. /\ TypeOK /\ ClientsSorted /\ Len(clients) \in Nat /\ clients \in Seq(Conn)
      /\ \A j \in 1..Len(clients) : clients[j] \in Conn /\ ind[clients[j]] \in Nat
  BY DEF IInv, TypeOK
<1>4. /\ clients' \in Seq(Conn) /\ Len(clients') = Len(clients) - 1
      /\ \A j \in 1..(Len(clients) - 1) :
            clients'[j] = IF j < i THEN clients[j] ELSE clients[j+1]
  BY <1>2, <1>3, RemoveAtProperties
<1>5. \A j \in 1..Len(clients) : j # i => /\ clients[j] # c
                                          /\ ind'[clients[j]] = ind[clients[j]]
  <2> SUFFICES ASSUME NEW j \in 1..Len(clients), j # i
               PROVE  clients[j] # c /\ ind'[clients[j]] = ind[clients[j]]
    OBVIOUS
  <2>1. ind[clients[j]] # ind[clients[i]]
    BY <1>3, <1>2 DEF ClientsSorted
  <2> QED
    BY <1>1, <1>2, <1>3, <2>1 DEF TypeOK
<1>6. TypeOK'
  <2>1. routes' \subseteq Route
    BY <1>1, <1>3 DEF TypeOK, gsup_route_del_conn
  <2>2. reqs' \in [Req -> Request \cup {NoReq}]
    <3> SUFFICES ASSUME NEW r \in Req, reqs[r] # NoReq, reqs[r].conn = c
                 PROVE  [reqs[r] EXCEPT !.conn = NoConn] \in Request
      BY <1>1, <1>3 DEF TypeOK
    <3>1. reqs[r] \in Request
      BY <1>3 DEF TypeOK
    <3> QED
      BY <3>1 DEF Request
  <2> QED
    BY <1>1, <1>3, <1>4, <2>1, <2>2 DEF TypeOK
<1>7. Connected' = Connected \ {c}
  <2>1. ASSUME NEW j \in 1..Len(clients), j # i
        PROVE  \E k \in 1..Len(clients') : clients'[k] = clients[j]
    <3>1. CASE j < i
      <4>1. j \in 1..(Len(clients) - 1)
        BY <1>2, <1>3, <3>1
      <4> QED
        BY <1>4, <3>1, <4>1
    <3>2. CASE j > i
      <4>1. j - 1 \in 1..(Len(clients) - 1) /\ ~(j - 1 < i) /\ (j-1)+1 = j
        BY <1>2, <1>3, <3>2
      <4> QED
        BY <1>4, <4>1
    <3> QED
      BY <1>2, <1>3, <2>1, <3>1, <3>2
  <2>2. ASSUME NEW k \in 1..Len(clients')
        PROVE  \E j \in 1..Len(clients) : j # i /\ clients'[k] = clients[j]
    <3>1. k \in 1..(Len(clients) - 1) /\ k \in 1..Len(clients) /\ k+1 \in 1..Len(clients)
      BY <1>3, <1>4
    <3>2. CASE k < i
      BY <1>2, <1>4, <3>1, <3>2
    <3>3. CASE ~(k < i)
      <4>1. k + 1 # i
        BY <1>2, <3>1, <3>3
      <4> QED
        BY <1>4, <3>1, <3>3, <4>1
    <3> QED
      BY <3>2, <3>3
  <2>3. ASSUME NEW d \in Connected' PROVE d \in Connected /\ d # c
    <3>1. PICK k \in 1..Len(clients') : clients'[k] = d
      BY <1>6, ConnectedMeansPrime
    <3>2. PICK j \in 1..Len(clients) : j # i /\ d = clients[j]
      BY <2>2, <3>1
    <3> QED
      BY <1>3, <1>5, <3>2, ConnectedMeans
  <2>4. ASSUME NEW d \in Connected, d # c PROVE d \in Connected'
    <3>1. PICK j \in 1..Len(clients) : clients[j] = d
      BY <1>3, ConnectedMeans
    <3>2. j # i
      BY <1>2, <2>4, <3>1
    <3>3. PICK k \in 1..Len(clients') : clients'[k] = d
      BY <2>1, <3>1, <3>2
    <3> QED
      BY <1>6, <3>3, ConnectedMeansPrime
  <2> QED
    BY <2>3, <2>4
<1>8. ClientsSorted'
  <2> SUFFICES ASSUME NEW a \in 1..Len(clients'), NEW b \in 1..Len(clients'), a < b
               PROVE  ind'[clients'[a]] < ind'[clients'[b]]
    BY DEF ClientsSorted
  <2> DEFINE at(k) == IF k < i THEN k ELSE k + 1
  <2>1. \A k \in 1..Len(clients') :
           at(k) \in 1..Len(clients) /\ at(k) # i /\ clients'[k] = clients[at(k)]
    <3> SUFFICES ASSUME NEW k \in 1..Len(clients')
                 PROVE  /\ at(k) \in 1..Len(clients) /\ at(k) # i
                        /\ clients'[k] = clients[at(k)]
      OBVIOUS
    <3>1. k \in 1..(Len(clients) - 1) /\ k \in 1..Len(clients) /\ k+1 \in 1..Len(clients)
      BY <1>3, <1>4
    <3>2. at(k) \in 1..Len(clients) /\ at(k) # i
      BY <1>2, <3>1
    <3> QED
      BY <1>4, <3>1, <3>2
  <2>2. at(a) < at(b)
    BY <1>2, <1>3, <1>4
  <2> HIDE DEF at
  <2>3. /\ ind'[clients'[a]] = ind[clients[at(a)]]
        /\ ind'[clients'[b]] = ind[clients[at(b)]]
    BY <1>5, <2>1
  <2> QED
    BY <1>3, <2>1, <2>2, <2>3 DEF ClientsSorted
<1>9. RoutesUnique' /\ RoutesLive'
  BY <1>1, <1>7 DEF IInv, RoutesUnique, RoutesLive, gsup_route_del_conn
<1>10. PendingRouted'
  <2> SUFFICES ASSUME NEW r \in Req, reqs'[r] # NoReq, reqs'[r].routed,
                      reqs'[r].conn # NoConn
               PROVE  [addr |-> reqs'[r].source, conn |-> reqs'[r].conn] \in routes'
    BY DEF PendingRouted
  <2>1. reqs[r] # NoReq /\ reqs[r].conn # c /\ reqs'[r] = reqs[r]
    <3>1. CASE reqs[r] # NoReq /\ reqs[r].conn = c
      <4>1. reqs[r] \in Request
        BY <1>3, <3>1 DEF TypeOK
      <4>2. reqs'[r] = [reqs[r] EXCEPT !.conn = NoConn]
        BY <1>1, <3>1
      <4>3. reqs'[r].conn = NoConn
        BY <4>1, <4>2 DEF Request
      <4> QED
        BY <4>3
    <3>2. CASE ~(reqs[r] # NoReq /\ reqs[r].conn = c)
      BY <1>1, <3>2
    <3> QED
      BY <3>1, <3>2
  <2>2. [addr |-> reqs[r].source, conn |-> reqs[r].conn] \in routes
    BY <2>1 DEF IInv, PendingRouted
  <2> QED
    BY <1>1, <2>1, <2>2 DEF gsup_route_del_conn
<1>11. ResponseToOrigin'
  BY <1>1 DEF IInv, ResponseToOrigin
<1>12. LowestIndTaken
  BY <1>1, <1>3, <1>5, <1>7, <1>2, ConnectedMeans DEF LowestIndTaken
<1> QED
  BY <1>6, <1>8, <1>9, <1>10, <1>11, <1>12 DEF IInv

(* A received message keeps the invariant: if its record says that its     *)
(* source is routed, it is.                                                *)
LEMMA RxKeeps ==
    ASSUME IInv, NEW c \in Conn, NEW r \in Req, NEW ie \in Name \cup {NoName},
           osmo_gsup_conn_rx(c, r, ie)
    PROVE  IInv' /\ LowestIndTaken
<1> DEFINE q == NewRequest(c, ie, FALSE)
<1>1. /\ TypeOK /\ RoutesUnique /\ RoutesLive /\ PendingRouted /\ ResponseToOrigin
      /\ c \in Connected /\ UNCHANGED <<clients, ind, peer>>
  BY DEF IInv, osmo_gsup_conn_rx
<1>2. ClientsSorted' /\ LowestIndTaken
  BY <1>1 DEF IInv, ClientsSorted, LowestIndTaken, Connected
<1>3. \A routed \in BOOLEAN :
         /\ NewRequest(c, ie, routed) \in Request
         /\ NewRequest(c, ie, routed).conn = c
         /\ NewRequest(c, ie, routed).source = q.source
         /\ NewRequest(c, ie, routed).routed = routed
  BY <1>1 DEF NewRequest, Request, TypeOK
<1>4. q.via # NoName => q.source \in Name
  BY DEF NewRequest
<1>5. \A n : gsup_route_find(n) \in Conn \cup {NoConn}
  BY <1>1, RouteFindIs
<1>6. CASE q.via # NoName /\ RouteExistsElsewhere(c, q.source)
  <2>1. /\ Transmit(q, "routing_error", SendTo(q, "routing_error"))
        /\ UNCHANGED <<routes, reqs>>
    BY <1>6 DEF osmo_gsup_conn_rx
  <2>2. SendTo(q, "routing_error") \in Conn \cup {NoConn}
    BY <1>5 DEF SendTo
  <2>3. tx' \in Tx /\ tx'.kind = "routing_error"
    BY <1>3, <2>1, <2>2 DEF Transmit, Tx, Request
  <2>4. TypeOK' /\ ResponseToOrigin'
    BY <1>1, <2>1, <2>3 DEF TypeOK, ResponseToOrigin
  <2>5. RoutesUnique' /\ RoutesLive' /\ PendingRouted'
    BY <1>1, <2>1 DEF RoutesUnique, RoutesLive, PendingRouted, Connected
  <2> QED
    BY <1>2, <2>4, <2>5 DEF IInv
<1>7. CASE ~(q.via # NoName /\ RouteExistsElsewhere(c, q.source))
  <2> DEFINE routed == q.via # NoName \/ gsup_route_find(q.source) = c
  <2>1. /\ routes' = IF q.via # NoName THEN gsup_route_add(c, q.source) ELSE routes
        /\ reqs' = [reqs EXCEPT ![r] = NewRequest(c, ie, routed)]
        /\ tx' = tx
    BY <1>7 DEF osmo_gsup_conn_rx
  <2>2. /\ routes' \subseteq Route /\ routes \subseteq routes'
        /\ RoutesUnique' /\ RoutesLive'
        /\ routed => [addr |-> q.source, conn |-> c] \in routes'
    <3>1. CASE q.via # NoName
      BY <1>1, <1>4, <1>7, <2>1, <3>1, RouteAddKeeps
    <3>2. CASE q.via = NoName
      <4>1. routes' = routes
        BY <2>1, <3>2
      <4>2. routed => [addr |-> q.source, conn |-> c] \in routes
        BY <1>1, <3>2, RouteFindIs
      <4> QED
        BY <1>1, <4>1, <4>2 DEF TypeOK, RoutesUnique, RoutesLive, Connected
    <3> QED
      BY <3>1, <3>2
  <2>3. routed \in BOOLEAN
    OBVIOUS
  <2> HIDE DEF routed
  <2> DEFINE new == NewRequest(c, ie, routed)
  <2>4. new \in Request /\ new.conn = c /\ new.source = q.source /\ new.routed = routed
    BY <1>3, <2>3
  <2> HIDE DEF new, q
  <2>5. reqs' = [reqs EXCEPT ![r] = new]
    BY <2>1 DEF new
  <2>6. TypeOK'
    BY <1>1, <2>1, <2>2, <2>4, <2>5 DEF TypeOK
  <2>7. PendingRouted'
    <3> SUFFICES ASSUME NEW s \in Req, reqs'[s] # NoReq, reqs'[s].routed,
                        reqs'[s].conn # NoConn
                 PROVE  [addr |-> reqs'[s].source, conn |-> reqs'[s].conn] \in routes'
      BY DEF PendingRouted
    <3>1. CASE s = r
      BY <1>1, <2>2, <2>4, <2>5, <3>1 DEF TypeOK
    <3>2. CASE s # r
      BY <1>1, <2>2, <2>5, <3>2 DEF TypeOK, PendingRouted
    <3> QED
      BY <3>1, <3>2
  <2>8. ResponseToOrigin'
    BY <1>1, <2>1 DEF ResponseToOrigin
  <2> QED
    BY <1>2, <2>2, <2>6, <2>7, <2>8 DEF IInv
<1> QED
  BY <1>6, <1>7

(* A record stays as it is or is freed, and something is sent. *)
LEMMA AnswerKeeps ==
    ASSUME IInv, UNCHANGED <<clients, ind, peer, routes>>,
           reqs' \in [Req -> Request \cup {NoReq}],
           \A r \in Req : reqs'[r] \in {reqs[r], NoReq},
           tx' \in Tx, ResponseToOrigin'
    PROVE  IInv' /\ LowestIndTaken
<1>1. TypeOK'
  BY DEF IInv, TypeOK
<1>2. PendingRouted'
  BY DEF IInv, PendingRouted
<1>3. ClientsSorted' /\ RoutesUnique' /\ RoutesLive' /\ LowestIndTaken
  BY DEF IInv, ClientsSorted, RoutesUnique, RoutesLive, LowestIndTaken, Connected
<1> QED
  BY <1>1, <1>2, <1>3 DEF IInv

(* Answering, forwarding and freeing a request keep the invariant. *)
LEMMA RequestKeeps ==
    ASSUME IInv, NEW r \in Req,
           \/ \E final \in BOOLEAN : osmo_gsup_req_respond(r, final)
           \/ \E n \in Name : read_cb_forward(r, n)
           \/ osmo_gsup_req_free(r)
    PROVE  IInv' /\ LowestIndTaken
<1>1. /\ TypeOK /\ RoutesUnique /\ PendingRouted /\ ResponseToOrigin /\ reqs[r] # NoReq
      /\ UNCHANGED <<clients, ind, peer, routes>>
  BY DEF IInv, osmo_gsup_req_respond, read_cb_forward,
         osmo_gsup_req_free
<1>2. /\ reqs' \in [Req -> Request \cup {NoReq}]
      /\ \A s \in Req : reqs'[s] \in {reqs[s], NoReq}
  BY <1>1 DEF TypeOK, osmo_gsup_req_respond, read_cb_forward, osmo_gsup_req_free
<1>3. reqs[r] \in Request
  BY <1>1 DEF TypeOK
<1>4. \A n : gsup_route_find(n) \in Conn \cup {NoConn}
  BY <1>1, RouteFindIs
<1>5. \A kind : SendTo(reqs[r], kind) \in Conn \cup {NoConn}
  BY <1>4 DEF SendTo
<1>6. CASE \E final \in BOOLEAN : osmo_gsup_req_respond(r, final)
  <2>1. Transmit(reqs[r], "response", SendTo(reqs[r], "response"))
    BY <1>6 DEF osmo_gsup_req_respond
  <2>2. /\ tx' \in Tx /\ tx'.origin = reqs[r].conn /\ tx'.routed = reqs[r].routed
        /\ tx'.to = gsup_route_find(reqs[r].source)
    BY <1>3, <1>5, <2>1 DEF Transmit, Tx, Request, SendTo
  <2>3. ASSUME reqs[r].routed, reqs[r].conn # NoConn
        PROVE  gsup_route_find(reqs[r].source) = reqs[r].conn
    <3>1. [addr |-> reqs[r].source, conn |-> reqs[r].conn] \in routes
      BY <1>1, <2>3 DEF PendingRouted
    <3>2. reqs[r].conn \in Conn
      BY <1>3, <2>3 DEF Request
    <3> QED
      BY <1>1, <3>1, <3>2, RouteFindIs
  <2>4. ResponseToOrigin'
    BY <2>2, <2>3 DEF ResponseToOrigin
  <2> QED
    BY <1>1, <1>2, <2>2, <2>4, AnswerKeeps
<1>7. CASE \E n \in Name : read_cb_forward(r, n)
  <2>1. PICK kind \in {"forward", "routing_error"}, to \in Conn \cup {NoConn} :
           Transmit(reqs[r], kind, to)
    BY <1>4, <1>5, <1>7 DEF read_cb_forward
  <2>2. tx' \in Tx /\ tx'.kind # "response"
    BY <1>3, <2>1 DEF Transmit, Tx, Request
  <2>3. ResponseToOrigin'
    BY <2>2 DEF ResponseToOrigin
  <2> QED
    BY <1>1, <1>2, <2>2, <2>3, AnswerKeeps
<1>8. CASE osmo_gsup_req_free(r)
  <2>1. tx' = tx /\ tx' \in Tx /\ ResponseToOrigin'
    BY <1>1, <1>8 DEF osmo_gsup_req_free, TypeOK, ResponseToOrigin
  <2> QED
    BY <1>1, <1>2, <2>1, AnswerKeeps
<1> QED
  BY <1>6, <1>7, <1>8

(* A rejected request keeps the invariant. *)
LEMMA RejectKeeps ==
    ASSUME IInv, NEW c \in Conn, NEW ie \in Name \cup {NoName}, RxInvalidImsi(c, ie)
    PROVE  IInv' /\ LowestIndTaken
<1> DEFINE q == NewRequest(c, ie, FALSE)
<1>1. /\ TypeOK /\ RoutesUnique
      /\ UNCHANGED <<clients, ind, peer, routes, reqs>>
      /\ Transmit(q, "response", SendTo(q, "response"))
  BY DEF IInv, RxInvalidImsi
<1>2. q.conn = c /\ q.routed = FALSE
  BY DEF NewRequest
<1>3. SendTo(q, "response") \in Conn \cup {NoConn}
  BY <1>1, RouteFindIs DEF SendTo
<1> HIDE DEF q
<1>4. tx' \in Tx /\ ~tx'.routed
  BY <1>1, <1>2, <1>3 DEF Transmit, Tx
<1>5. ResponseToOrigin'
  BY <1>4 DEF ResponseToOrigin
<1>6. reqs' \in [Req -> Request \cup {NoReq}] /\ \A r \in Req : reqs'[r] \in {reqs[r], NoReq}
  BY <1>1 DEF TypeOK
<1> QED
  BY <1>1, <1>4, <1>5, <1>6, AnswerKeeps

(* The initial state satisfies the invariant. *)
LEMMA InitIInv == Init => IInv
<1> SUFFICES ASSUME Init PROVE IInv
  OBVIOUS
<1>1. TypeOK
  BY DEF Init, TypeOK, Route, Tx, NoTx
<1>2. ClientsSorted /\ RoutesUnique /\ RoutesLive /\ PendingRouted /\ ResponseToOrigin
  BY DEF Init, NoTx, ClientsSorted, RoutesUnique, RoutesLive, PendingRouted,
         ResponseToOrigin
<1> QED
  BY <1>1, <1>2 DEF IInv

(* Every step keeps the invariant, and allocates INDs from the bottom. *)
LEMMA NextIInv == IInv /\ [Next]_vars => IInv' /\ [LowestIndTaken]_vars
<1> SUFFICES ASSUME IInv, [Next]_vars PROVE IInv' /\ [LowestIndTaken]_vars
  OBVIOUS
<1>1. CASE Next
  BY <1>1, AcceptKeeps, CcmKeeps, ClosedKeeps, RxKeeps, RejectKeeps, RequestKeeps
     DEF Next
<1>2. CASE UNCHANGED vars
  BY <1>2 DEF vars, IInv, TypeOK, ClientsSorted, RoutesUnique, RoutesLive,
              PendingRouted, ResponseToOrigin, Connected
<1> QED
  BY <1>1, <1>2

(* Type correctness of GsupServer. *)
THEOREM TypeCorrect == Spec => []TypeOK
<1>1. IInv => TypeOK
  BY DEF IInv
<1> QED
  BY <1>1, InitIInv, NextIInv, PTL DEF Spec

(* Routes stay unique and never lead to a freed connection, in whatever    *)
(* order clients connect, identify themselves, proxy for others and go.    *)
THEOREM RoutesSound == Spec => [](RoutesUnique /\ RoutesLive)
<1>1. IInv => RoutesUnique /\ RoutesLive
  BY DEF IInv
<1> QED
  BY <1>1, InitIInv, NextIInv, PTL DEF Spec

(* The response to a request that was routed when it was received reaches  *)
(* the connection it came from, or that connection is gone.                *)
THEOREM ResponsesReachOrigin == Spec => []ResponseToOrigin
<1>1. IInv => ResponseToOrigin
  BY DEF IInv
<1> QED
  BY <1>1, InitIInv, NextIInv, PTL DEF Spec

(* No two connected clients ever share an IND, for any number of clients. *)
THEOREM IndsDistinct == Spec => []ClientsSorted
<1>1. IInv => ClientsSorted
  BY DEF IInv
<1> QED
  BY <1>1, InitIInv, NextIInv, PTL DEF Spec

(* A new client always takes the lowest free IND and nobody else's changes. *)
THEOREM IndsFromTheBottom == Spec => IndAllocation
BY InitIInv, NextIInv, PTL DEF Spec, IndAllocation

(* Adding a route is a claim of the directory, or nothing. *)
LEMMA RouteAddClaims ==
    ASSUME TypeOK, NEW c \in Connected, NEW n \in Name,
           routes' = gsup_route_add(c, n), clients' = clients
    PROVE  DirectoryPromise!Claim(c, n) \/ UNCHANGED DirectoryPromise!vars
<1>1. Connected' = Connected
  BY DEF Connected
<1>2. CASE \E g \in routes : g.addr = n
  <2>1. gsup_route_find(n) # NoConn
    <3>1. PICK g \in routes : g.addr = n /\ gsup_route_find(n) = g.conn
      BY <1>2 DEF gsup_route_find
    <3> QED
      BY <3>1, NoConnAssumption DEF TypeOK, Route
  <2> QED
    BY <1>1, <2>1 DEF gsup_route_add, DirectoryPromise!vars
<1>3. CASE \A g \in routes : g.addr # n
  <2>1. routes' = routes \cup {[addr |-> n, conn |-> c]}
    BY <1>3 DEF gsup_route_add, gsup_route_find
  <2> QED
    BY <1>1, <1>3, <2>1 DEF DirectoryPromise!Claim
<1> QED
  BY <1>2, <1>3

(* Accepting a connection enters it, closing it makes it leave. *)
LEMMA AcceptEnters ==
    ASSUME IInv, NEW c \in Conn, osmo_gsup_server_accept_cb(c)
    PROVE  DirectoryPromise!Enter(c)
<1>1. /\ c \notin Connected /\ osmo_gsup_server_add_conn(c) /\ routes' = routes
      /\ TypeOK /\ ClientsSorted /\ Len(clients) \in Nat
  BY DEF osmo_gsup_server_accept_cb, IInv, TypeOK
<1>2. TypeOK'
  BY AcceptKeeps DEF IInv
<1>3. PICK p \in 1..(Len(clients) + 1) :
         /\ Len(clients') = Len(clients) + 1
         /\ \A j \in 1..(Len(clients) + 1) :
               clients'[j] = IF j < p THEN clients[j]
                             ELSE IF j = p THEN c ELSE clients[j-1]
  BY <1>1, AddConnIs
<1>4. \A d : (\E j \in 1..Len(clients') : clients'[j] = d)
                <=> d = c \/ \E j \in 1..Len(clients) : clients[j] = d
  <2> SUFFICES ASSUME NEW d
               PROVE  (\E j \in 1..Len(clients') : clients'[j] = d)
                         <=> d = c \/ \E j \in 1..Len(clients) : clients[j] = d
    OBVIOUS
  <2>1. ASSUME NEW j \in 1..Len(clients'), clients'[j] = d
        PROVE  d = c \/ \E k \in 1..Len(clients) : clients[k] = d
    <3>1. j \in 1..(Len(clients) + 1)
      BY <1>3
    <3>2. CASE j < p
      <4>1. j \in 1..Len(clients) /\ clients[j] = d
        BY <1>1, <1>3, <2>1, <3>1, <3>2
      <4> QED
        BY <4>1
    <3>3. CASE j = p
      BY <1>3, <2>1, <3>1, <3>3
    <3>4. CASE j > p
      <4>1. j - 1 \in 1..Len(clients) /\ clients[j-1] = d
        BY <1>1, <1>3, <2>1, <3>1, <3>4
      <4> QED
        BY <4>1
    <3> QED
      BY <1>1, <1>3, <3>1, <3>2, <3>3, <3>4
  <2>2. ASSUME d = c
        PROVE  \E j \in 1..Len(clients') : clients'[j] = d
    <3>1. p \in 1..Len(clients') /\ clients'[p] = d
      BY <1>1, <1>3, <2>2
    <3> QED
      BY <3>1
  <2>3. ASSUME NEW j \in 1..Len(clients), clients[j] = d
        PROVE  \E k \in 1..Len(clients') : clients'[k] = d
    <3>1. CASE j < p
      <4>1. j \in 1..Len(clients') /\ clients'[j] = d
        BY <1>1, <1>3, <2>3, <3>1
      <4> QED
        BY <4>1
    <3>2. CASE j >= p
      <4>1. j + 1 \in 1..Len(clients') /\ clients'[j+1] = d
        BY <1>1, <1>3, <2>3, <3>2
      <4> QED
        BY <4>1
    <3> QED
      BY <1>1, <1>3, <3>1, <3>2
  <2> QED
    BY <2>1, <2>2, <2>3
<1>5. Connected' = Connected \cup {c}
  BY <1>1, <1>2, <1>4, ConnectedMeans, ConnectedMeansPrime
<1> QED
  BY <1>1, <1>5 DEF DirectoryPromise!Enter

(* The other half of the above. *)
LEMMA ClosedLeaves ==
    ASSUME IInv, NEW c \in Conn, osmo_gsup_server_closed_cb(c)
    PROVE  DirectoryPromise!Leave(c)
<1>1. /\ c \in Connected /\ routes' = gsup_route_del_conn(c)
      /\ TypeOK /\ ClientsSorted /\ Len(clients) \in Nat /\ clients \in Seq(Conn)
      /\ \A j \in 1..Len(clients) : clients[j] \in Conn /\ ind[clients[j]] \in Nat
  BY DEF osmo_gsup_server_closed_cb, IInv, TypeOK
<1>2. TypeOK'
  BY ClosedKeeps DEF IInv
<1>3. PICK i \in 1..Len(clients) : clients[i] = c /\ clients' = RemoveAt(clients, i)
  BY DEF osmo_gsup_server_closed_cb
<1>4. /\ Len(clients') = Len(clients) - 1
      /\ \A j \in 1..(Len(clients) - 1) :
            clients'[j] = IF j < i THEN clients[j] ELSE clients[j+1]
  BY <1>1, <1>3, RemoveAtProperties
<1>5. \A j \in 1..Len(clients) : j # i => clients[j] # c
  BY <1>1, <1>3 DEF ClientsSorted
<1>6. \A d : (\E j \in 1..Len(clients') : clients'[j] = d)
                <=> d # c /\ \E j \in 1..Len(clients) : clients[j] = d
  <2> SUFFICES ASSUME NEW d
               PROVE  (\E j \in 1..Len(clients') : clients'[j] = d)
                         <=> d # c /\ \E j \in 1..Len(clients) : clients[j] = d
    OBVIOUS
  <2>1. ASSUME NEW j \in 1..Len(clients'), clients'[j] = d
        PROVE  d # c /\ \E k \in 1..Len(clients) : clients[k] = d
    <3>1. j \in 1..(Len(clients) - 1)
      BY <1>4
    <3>2. CASE j < i
      <4>1. j \in 1..Len(clients) /\ clients[j] = d /\ j # i
        BY <1>1, <1>3, <1>4, <2>1, <3>1, <3>2
      <4> QED
        BY <1>5, <4>1
    <3>3. CASE j >= i
      <4>1. j + 1 \in 1..Len(clients) /\ clients[j+1] = d /\ j + 1 # i
        BY <1>1, <1>3, <1>4, <2>1, <3>1, <3>3
      <4> QED
        BY <1>5, <4>1
    <3> QED
      BY <1>1, <1>3, <3>1, <3>2, <3>3
  <2>2. ASSUME d # c, NEW j \in 1..Len(clients), clients[j] = d
        PROVE  \E k \in 1..Len(clients') : clients'[k] = d
    <3>1. j # i
      BY <1>3, <2>2
    <3>2. CASE j < i
      <4>1. j \in 1..Len(clients') /\ clients'[j] = d
        BY <1>1, <1>3, <1>4, <2>2, <3>2
      <4> QED
        BY <4>1
    <3>3. CASE j > i
      <4>1. j - 1 \in 1..Len(clients') /\ clients'[j-1] = d
        BY <1>1, <1>3, <1>4, <2>2, <3>3
      <4> QED
        BY <4>1
    <3> QED
      BY <1>1, <1>3, <3>1, <3>2, <3>3
  <2> QED
    BY <2>1, <2>2
<1>7. Connected' = Connected \ {c}
  BY <1>1, <1>2, <1>6, ConnectedMeans, ConnectedMeansPrime
<1> QED
  BY <1>1, <1>7 DEF DirectoryPromise!Leave, gsup_route_del_conn

(* Every step of the server is a step of the directory. *)
LEMMA NextDirectory ==
    ASSUME IInv, [Next]_vars
    PROVE  [DirectoryPromise!Next]_(DirectoryPromise!vars)
<1>1. ASSUME NEW c \in Conn, osmo_gsup_server_accept_cb(c)
      PROVE  DirectoryPromise!Next
  BY <1>1, AcceptEnters DEF DirectoryPromise!Next
<1>2. ASSUME NEW c \in Conn, osmo_gsup_server_closed_cb(c)
      PROVE  DirectoryPromise!Next
  BY <1>2, ClosedLeaves DEF DirectoryPromise!Next
<1>3. ASSUME NEW c \in Conn, NEW n \in Name, osmo_gsup_server_ccm_cb(c, n)
      PROVE  [DirectoryPromise!Next]_(DirectoryPromise!vars)
  <2>1. c \in Connected /\ routes' = gsup_route_add(c, n) /\ clients' = clients /\ TypeOK
    BY <1>3 DEF osmo_gsup_server_ccm_cb, IInv
  <2> QED
    BY <2>1, RouteAddClaims DEF DirectoryPromise!Next
<1>4. ASSUME UNCHANGED <<clients, routes>>
      PROVE  UNCHANGED DirectoryPromise!vars
  BY <1>4 DEF DirectoryPromise!vars, Connected
<1>5. ASSUME NEW c \in Conn, NEW r \in Req, NEW ie \in Name \cup {NoName},
             osmo_gsup_conn_rx(c, r, ie)
      PROVE  [DirectoryPromise!Next]_(DirectoryPromise!vars)
  <2> DEFINE q == NewRequest(c, ie, FALSE)
  <2>1. c \in Connected /\ clients' = clients /\ TypeOK
    BY <1>5 DEF osmo_gsup_conn_rx, IInv
  <2>2. q.via # NoName => q.source \in Name
    BY DEF NewRequest
  <2>3. \/ routes' = routes
        \/ q.via # NoName /\ routes' = gsup_route_add(c, q.source)
    BY <1>5 DEF osmo_gsup_conn_rx
  <2> HIDE DEF q
  <2>4. CASE routes' = routes
    BY <1>4, <2>1, <2>4
  <2>5. CASE q.via # NoName /\ routes' = gsup_route_add(c, q.source)
    BY <2>1, <2>2, <2>5, RouteAddClaims DEF DirectoryPromise!Next
  <2> QED
    BY <2>3, <2>4, <2>5
<1>6. ASSUME NEW c \in Conn, NEW ie \in Name \cup {NoName}, RxInvalidImsi(c, ie)
      PROVE  UNCHANGED DirectoryPromise!vars
  BY <1>4, <1>6 DEF RxInvalidImsi
<1>7. ASSUME NEW r \in Req,
             \/ \E final \in BOOLEAN : osmo_gsup_req_respond(r, final)
             \/ \E n \in Name : read_cb_forward(r, n)
             \/ osmo_gsup_req_free(r)
      PROVE  UNCHANGED DirectoryPromise!vars
  BY <1>4, <1>7 DEF osmo_gsup_req_respond, read_cb_forward, osmo_gsup_req_free
<1>8. CASE UNCHANGED vars
  BY <1>4, <1>8 DEF vars
<1> QED
  BY <1>1, <1>2, <1>3, <1>5, <1>6, <1>7, <1>8 DEF Next

(* The server implements the directory: a name belongs to the first        *)
(* connection that claims it, until that connection is closed.             *)
THEOREM ServerIsDirectory == Spec => DirectoryKept
<1>1. Init => DirectoryPromise!Init
  BY DEF Init, DirectoryPromise!Init, Connected, ToSet
<1>2. IInv /\ [Next]_vars => [DirectoryPromise!Next]_(DirectoryPromise!vars)
  BY NextDirectory
<1> QED
  BY <1>1, <1>2, InitIInv, NextIInv, PTL DEF Spec, DirectoryKept, DirectoryPromise!Spec

-----------------------------------------------------------------------------
(***************************************************************************)
(* The client end.  It shares no state with the server.                    *)
(***************************************************************************)
ClientQuiet ==
    ~LinkPromise!Wanted =>
        sock = "closed" /\ ~is_connected /\ ~connect_timer /\ ~ping_timer

EmptyAtFirst == sock = "connecting" => queue = <<>>

ClientIInv ==
    /\ ClientTypeOK
    /\ Supervised
    /\ NothingStale
    /\ EmptyAtFirst
    /\ ClientQuiet

(* An empty queue is a queue. *)
LEMMA EmptyQueue == <<>> \in Seq(Message) /\ Len(<<>>) <= MaxQueue
<1>1. <<>> \in Seq(Message) /\ Len(<<>>) = 0
  OBVIOUS
<1> QED
  BY <1>1, MaxQueueAssumption

(* Closing keeps the messages and forgets where they belong. *)
LEMMA StaleKeeps ==
    ASSUME NEW q \in Seq(Message), Len(q) <= MaxQueue
    PROVE  Stale(q) \in Seq(Message) /\ Len(Stale(q)) <= MaxQueue
<1>1. ASSUME NEW i \in 1..Len(q)
      PROVE  [q[i] EXCEPT !.fresh = FALSE] \in Message
  <2>1. q[i] \in Message
    OBVIOUS
  <2> QED
    BY <2>1 DEF Message
<1>2. Stale(q) = [i \in 1..Len(q) |-> [q[i] EXCEPT !.fresh = FALSE]]
  BY DEF Stale
<1>3. Stale(q) \in [1..Len(q) -> Message] /\ Len(q) \in Nat
  BY <1>1, <1>2
<1>4. Stale(q) \in Seq(Message) /\ Len(Stale(q)) = Len(q)
  BY <1>3
<1> QED
  BY <1>4

(* A message is put behind those that are there, or dropped. *)
LEMMA QueuedKeeps ==
    ASSUME NEW q \in Seq(Message), Len(q) <= MaxQueue,
           NEW k \in {"ping", "gsup"}, NEW f \in BOOLEAN
    PROVE  /\ Queued(q, k, f) \in Seq(Message) /\ Len(Queued(q, k, f)) <= MaxQueue
           /\ f /\ (\A i \in DOMAIN q : q[i].fresh)
                => \A i \in DOMAIN Queued(q, k, f) : Queued(q, k, f)[i].fresh
<1> DEFINE m == [kind |-> k, fresh |-> f]
<1>1. m \in Message /\ m.fresh = f
  BY DEF Message
<1> HIDE DEF m
<1>2. CASE Len(q) = MaxQueue
  BY <1>2 DEF Queued
<1>3. CASE Len(q) # MaxQueue
  <2>1. Queued(q, k, f) = Append(q, m)
    BY <1>3 DEF Queued, m
  <2>2. /\ Append(q, m) \in Seq(Message) /\ Len(Append(q, m)) = Len(q) + 1
        /\ \A i \in 1..Len(q) : Append(q, m)[i] = q[i]
        /\ Append(q, m)[Len(q) + 1] = m
    BY <1>1
  <2>3. Len(q) + 1 <= MaxQueue
    BY <1>3, MaxQueueAssumption
  <2>4. DOMAIN Append(q, m) = 1..(Len(q) + 1) /\ DOMAIN q = 1..Len(q)
    BY <2>2
  <2>5. ASSUME f, \A i \in DOMAIN q : q[i].fresh, NEW i \in DOMAIN Append(q, m)
        PROVE  Append(q, m)[i].fresh
    <3>1. CASE i = Len(q) + 1
      BY <1>1, <2>2, <2>5, <3>1
    <3>2. CASE i # Len(q) + 1
      <4>1. i \in 1..Len(q)
        BY <2>4, <2>5, <3>2
      <4> QED
        BY <2>2, <2>4, <2>5, <4>1
    <3> QED
      BY <3>1, <3>2
  <2> QED
    BY <2>1, <2>2, <2>3, <2>5
<1> QED
  BY <1>2, <1>3

(* An attempt to connect leaves a link without messages and without the    *)
(* supervision of the one before.                                          *)
LEMMA ConnectKeeps ==
    ASSUME NEW result \in Outcome, gsup_client_connect(result),
           LinkPromise!Wanted', is_connected' = FALSE,
           got_ipa_pong' \in BOOLEAN, told' \in LinkPromise!Told
    PROVE  ClientIInv'
<1>1. /\ sock' \in {"closed", "connecting"} /\ queue' = <<>> /\ ping_timer' = FALSE
      /\ connect_timer' \in BOOLEAN /\ refused' \in BOOLEAN
  BY DEF gsup_client_connect
<1>2. ClientTypeOK'
  BY <1>1, EmptyQueue DEF ClientTypeOK, LinkPromise!Told
<1>3. Supervised'
  BY <1>1 DEF gsup_client_connect, Supervised, Outcome
<1>4. NothingStale' /\ EmptyAtFirst' /\ ClientQuiet'
  BY <1>1 DEF NothingStale, EmptyAtFirst, ClientQuiet
<1> QED
  BY <1>2, <1>3, <1>4 DEF ClientIInv

(* Nothing is left of a client that is destroyed. *)
LEMMA DestroyKeeps ==
    ASSUME osmo_gsup_client_destroy
    PROVE  ClientIInv'
<1>1. ClientTypeOK'
  BY EmptyQueue DEF osmo_gsup_client_destroy, ClientTypeOK
<1> QED
  BY <1>1 DEF osmo_gsup_client_destroy, ClientIInv, Supervised, NothingStale, EmptyAtFirst,
              ClientQuiet, LinkPromise!Wanted

LEMMA ClientInitIInv == ClientInit => ClientIInv
<1>1. ClientInit => ClientTypeOK
  BY EmptyQueue DEF ClientInit, ClientTypeOK
<1>2. ClientInit => Supervised /\ NothingStale /\ EmptyAtFirst /\ ClientQuiet
  BY DEF ClientInit, Supervised, NothingStale, EmptyAtFirst, ClientQuiet, LinkPromise!Wanted
<1> QED
  BY <1>1, <1>2 DEF ClientIInv

LEMMA ClientNextIInv == ClientIInv /\ [ClientNext]_cvars => ClientIInv'
<1> SUFFICES ASSUME ClientIInv, [ClientNext]_cvars
             PROVE  ClientIInv'
  OBVIOUS
<1> USE DEF ClientIInv
<1>1. ASSUME NEW result \in Outcome, osmo_gsup_client_create3(result)
      PROVE  ClientIInv'
  <2>1. CASE result = "never"
    BY <1>1, <2>1 DEF osmo_gsup_client_create3, cvars, ClientTypeOK, Supervised, NothingStale,
                      EmptyAtFirst, ClientQuiet,
                      LinkPromise!Wanted
  <2>2. CASE result # "never"
    <3>1. gsup_client_connect(result) /\ told = "none" /\ told' = "waiting"
          /\ UNCHANGED <<is_connected, got_ipa_pong>>
      BY <1>1, <2>2 DEF osmo_gsup_client_create3, Exists
    <3>2. is_connected' = FALSE /\ got_ipa_pong' \in BOOLEAN
      BY <3>1 DEF ClientQuiet, ClientTypeOK, LinkPromise!Wanted
    <3> QED
      BY <3>1, <3>2, ConnectKeeps DEF LinkPromise!Wanted, LinkPromise!Told
  <2> QED
    BY <2>1, <2>2
<1>2. ASSUME NEW answer \in Answer, NEW result \in Outcome, connect_timer_cb(answer, result)
      PROVE  ClientIInv'
  <2>1. ~is_connected /\ sock = "closed" /\ is_connected = FALSE
    BY <1>2 DEF connect_timer_cb, Supervised, ClientTypeOK
  <2>2. CASE answer = "destroy"
    BY <1>2, <2>1, <2>2, DestroyKeeps DEF connect_timer_cb
  <2>3. CASE answer = "retry"
    <3>1. gsup_client_connect(result) /\ told' = "down"
          /\ UNCHANGED <<is_connected, got_ipa_pong>>
      BY <1>2, <2>1, <2>3 DEF connect_timer_cb, ToldDown
    <3> QED
      BY <2>1, <3>1, ConnectKeeps DEF ClientTypeOK, LinkPromise!Wanted, LinkPromise!Told
  <2>4. CASE answer = "stop"
    <3>1. /\ told' = "stopped" /\ connect_timer' = FALSE
          /\ UNCHANGED <<sock, queue, ping_timer, refused, is_connected, got_ipa_pong>>
      BY <1>2, <2>1, <2>4 DEF connect_timer_cb, ToldDown
    <3>2. ~ping_timer
      BY <1>2 DEF connect_timer_cb, Supervised
    <3> QED
      BY <2>1, <3>1, <3>2 DEF ClientTypeOK, Supervised, NothingStale, EmptyAtFirst,
                              ClientQuiet, LinkPromise!Wanted
  <2> QED
    BY <2>2, <2>3, <2>4 DEF Answer
<1>3. ASSUME LinkUp
      PROVE  ClientIInv'
  <2>1. LinkPromise!Wanted /\ ~is_connected
    BY <1>3 DEF LinkUp, Supervised, ClientQuiet
  <2>2. /\ sock' = "up" /\ is_connected' = TRUE /\ ping_timer' = TRUE
        /\ got_ipa_pong' = FALSE /\ connect_timer' = FALSE /\ told' = "up"
        /\ refused' = refused /\ queue' = Queued(queue, "ping", TRUE)
    BY <1>3 DEF LinkUp, start_test_procedure
  <2>3. ClientTypeOK'
    BY <2>2, QueuedKeeps DEF ClientTypeOK
  <2>4. Supervised' /\ EmptyAtFirst' /\ ClientQuiet'
    BY <2>2 DEF Supervised, EmptyAtFirst, ClientQuiet, LinkPromise!Wanted
  <2>5. NothingStale'
    <3>1. queue = <<>>
      BY <1>3 DEF LinkUp, EmptyAtFirst
    <3>2. \A i \in DOMAIN queue : queue[i].fresh
      BY <3>1
    <3> QED
      BY <2>2, <3>2, QueuedKeeps DEF ClientTypeOK, NothingStale
  <2> QED
    BY <2>3, <2>4, <2>5
<1>4. ASSUME NEW answer \in Answer, LinkDown(answer)
      PROVE  ClientIInv'
  <2>1. LinkPromise!Wanted /\ (sock = "up" => ~connect_timer)
    BY <1>4 DEF LinkDown, Supervised, ClientQuiet
  <2>2. CASE answer = "destroy"
    BY <1>4, <2>2, DestroyKeeps DEF LinkDown
  <2>3. CASE answer # "destroy"
    <3>1. /\ sock' = "closed" /\ queue' = Stale(queue) /\ is_connected' = FALSE
          /\ ping_timer' = FALSE /\ told' = ToldDown(answer)
          /\ connect_timer' = (answer = "retry" \/ connect_timer)
          /\ got_ipa_pong' = got_ipa_pong /\ refused' = refused
      BY <1>4, <2>3 DEF LinkDown, ipa_client_conn_close
    <3>2. ~connect_timer
      BY <1>4 DEF LinkDown, Supervised
    <3>3. ClientTypeOK'
      BY <3>1, StaleKeeps DEF ClientTypeOK, ToldDown
    <3>4. Supervised' /\ NothingStale' /\ EmptyAtFirst' /\ ClientQuiet'
      BY <2>3, <3>1, <3>2 DEF Supervised, NothingStale, EmptyAtFirst, ClientQuiet, ToldDown,
                              Answer, LinkPromise!Wanted
    <3> QED
      BY <3>3, <3>4
  <2> QED
    BY <2>2, <2>3
<1>5. ASSUME RxPong
      PROVE  ClientIInv'
  BY <1>5 DEF RxPong, ClientTypeOK, Supervised, NothingStale, EmptyAtFirst, ClientQuiet,
              LinkPromise!Wanted
<1>6. ASSUME RxInvalidCcm
      PROVE  ClientIInv'
  <2>1. /\ sock' = "closed" /\ queue' = Stale(queue) /\ is_connected' = FALSE
        /\ UNCHANGED <<connect_timer, ping_timer, got_ipa_pong, told, refused>>
    BY <1>6 DEF RxInvalidCcm, ipa_client_conn_close
  <2>2. ping_timer /\ ~connect_timer /\ LinkPromise!Wanted
    BY <1>6 DEF RxInvalidCcm, Supervised, ClientQuiet
  <2>3. ClientTypeOK'
    BY <2>1, StaleKeeps DEF ClientTypeOK
  <2>4. Supervised' /\ NothingStale' /\ EmptyAtFirst' /\ ClientQuiet'
    BY <2>1, <2>2 DEF Supervised, NothingStale, EmptyAtFirst, ClientQuiet, LinkPromise!Wanted
  <2> QED
    BY <2>3, <2>4
<1>7. ASSUME NEW result \in Outcome, ping_timer_cb(result)
      PROVE  ClientIInv'
  <2>1. LinkPromise!Wanted /\ LinkPromise!Wanted' /\ ~connect_timer
    BY <1>7 DEF ping_timer_cb, ClientQuiet, Supervised, LinkPromise!Wanted
  <2>2. CASE got_ipa_pong
    <3>1. /\ got_ipa_pong' = FALSE /\ ping_timer' = TRUE
          /\ queue' = Queued(queue, "ping", sock = "up")
          /\ UNCHANGED <<sock, is_connected, connect_timer, refused, told>>
      BY <1>7, <2>2 DEF ping_timer_cb, start_test_procedure
    <3>2. ClientTypeOK'
      BY <3>1, QueuedKeeps DEF ClientTypeOK
    <3>3. NothingStale'
      BY <3>1, QueuedKeeps DEF ClientTypeOK, NothingStale
    <3>4. Supervised' /\ EmptyAtFirst' /\ ClientQuiet'
      BY <1>7, <2>1, <3>1 DEF ping_timer_cb, Supervised, EmptyAtFirst, ClientQuiet,
                              LinkPromise!Wanted
    <3> QED
      BY <3>2, <3>3, <3>4
  <2>3. CASE ~got_ipa_pong
    <3>1. gsup_client_connect(result) /\ is_connected' = FALSE
          /\ UNCHANGED <<got_ipa_pong, told>>
      BY <1>7, <2>3 DEF ping_timer_cb
    <3>2. got_ipa_pong' \in BOOLEAN /\ told' \in LinkPromise!Told
      BY <3>1 DEF ClientTypeOK, LinkPromise!Told
    <3> QED
      BY <2>1, <3>1, <3>2, ConnectKeeps
  <2> QED
    BY <2>2, <2>3
<1>8. ASSUME osmo_gsup_client_send
      PROVE  ClientIInv'
  <2>1. /\ is_connected /\ queue' = Queued(queue, "gsup", sock = "up")
        /\ UNCHANGED <<sock, is_connected, connect_timer, ping_timer, got_ipa_pong, told, refused>>
    BY <1>8 DEF osmo_gsup_client_send
  <2>2. ClientTypeOK'
    BY <2>1, QueuedKeeps DEF ClientTypeOK
  <2>3. NothingStale'
    BY <2>1, QueuedKeeps DEF ClientTypeOK, NothingStale
  <2>4. Supervised' /\ EmptyAtFirst' /\ ClientQuiet'
    BY <2>1 DEF Supervised, EmptyAtFirst, ClientQuiet, LinkPromise!Wanted
  <2> QED
    BY <2>2, <2>3, <2>4
<1>9. ASSUME ipa_client_write
      PROVE  ClientIInv'
  <2>1. /\ sock = "up" /\ queue # <<>> /\ queue' = Tail(queue)
        /\ UNCHANGED <<sock, is_connected, connect_timer, ping_timer, got_ipa_pong, told, refused>>
    BY <1>9 DEF ipa_client_write
  <2>2. /\ Tail(queue) \in Seq(Message) /\ Len(Tail(queue)) = Len(queue) - 1
        /\ \A i \in 1..Len(Tail(queue)) : Tail(queue)[i] = queue[i + 1] /\ i + 1 \in DOMAIN queue
    BY <2>1 DEF ClientTypeOK
  <2>3. ClientTypeOK'
    BY <2>1, <2>2, MaxQueueAssumption DEF ClientTypeOK
  <2>4. NothingStale'
    BY <2>1, <2>2 DEF ClientTypeOK, NothingStale
  <2>5. Supervised' /\ EmptyAtFirst' /\ ClientQuiet'
    BY <2>1 DEF Supervised, EmptyAtFirst, ClientQuiet, LinkPromise!Wanted
  <2> QED
    BY <2>3, <2>4, <2>5
<1>10. ASSUME UserDestroys
       PROVE  ClientIInv'
  BY <1>10, DestroyKeeps DEF UserDestroys
<1>11. CASE UNCHANGED cvars
  BY <1>11 DEF cvars, ClientTypeOK, Supervised, NothingStale, EmptyAtFirst, ClientQuiet,
               LinkPromise!Wanted
<1> QED
  BY <1>1, <1>2, <1>3, <1>4, <1>5, <1>6, <1>7, <1>8, <1>9, <1>10, <1>11 DEF ClientNext

(* The variables of the link keep their types, and the queue its bound. *)
THEOREM ClientTypeCorrect == ClientSpec => []ClientTypeOK
<1>1. ClientIInv => ClientTypeOK
  BY DEF ClientIInv
<1> QED
  BY <1>1, ClientInitIInv, ClientNextIInv, PTL DEF ClientSpec

(* Nothing that was queued for one connection is written to a later one,   *)
(* however the connection before ended.                                    *)
THEOREM NeverStale == ClientSpec => []NothingStale
<1>1. ClientIInv => NothingStale
  BY DEF ClientIInv
<1> QED
  BY <1>1, ClientInitIInv, ClientNextIInv, PTL DEF ClientSpec

(* No socket is lost, a connected link is supervised, and a link that is   *)
(* wanted and not connected is on its way or has a timer, unless the last  *)
(* attempt failed for good.                                                *)
THEOREM LinkSupervised == ClientSpec => []Supervised
<1>1. ClientIInv => Supervised
  BY DEF ClientIInv
<1> QED
  BY <1>1, ClientInitIInv, ClientNextIInv, PTL DEF ClientSpec

(* A step of the client is one that the user of a Link may see. *)
LEMMA NextLink ==
    ASSUME ClientIInv, [ClientNext]_cvars
    PROVE  [LinkPromise!Next]_(LinkPromise!vars)
<1> USE DEF LinkPromise!Next, LinkPromise!vars, LinkPromise!Wanted
<1>1. ASSUME NEW result \in Outcome, osmo_gsup_client_create3(result)
      PROVE  LinkPromise!Create \/ UNCHANGED LinkPromise!vars
  <2>1. told = "none" /\ is_connected = FALSE
    BY <1>1 DEF osmo_gsup_client_create3, Exists, ClientIInv, ClientQuiet, ClientTypeOK
  <2> QED
    BY <1>1, <2>1 DEF osmo_gsup_client_create3, cvars, LinkPromise!Create
<1>2. ASSUME osmo_gsup_client_destroy, told # "none"
      PROVE  LinkPromise!Destroy
  BY <1>2 DEF osmo_gsup_client_destroy, LinkPromise!Destroy
<1>3. ASSUME NEW answer \in Answer, NEW result \in Outcome, connect_timer_cb(answer, result)
      PROVE  LinkPromise!TellDown
  <2>1. is_connected = FALSE /\ LinkPromise!Wanted
    BY <1>3 DEF connect_timer_cb, ClientIInv, Supervised, ClientQuiet, ClientTypeOK
  <2> QED
    BY <1>3, <2>1 DEF connect_timer_cb, osmo_gsup_client_destroy, ToldDown, LinkPromise!TellDown
<1>4. ASSUME LinkUp
      PROVE  LinkPromise!TellUp
  <2>1. ~is_connected /\ LinkPromise!Wanted
    BY <1>4 DEF LinkUp, ClientIInv, Supervised, ClientQuiet
  <2> QED
    BY <1>4, <2>1 DEF LinkUp, LinkPromise!TellUp
<1>5. ASSUME NEW answer \in Answer, LinkDown(answer)
      PROVE  LinkPromise!TellDown
  <2>1. LinkPromise!Wanted
    BY <1>5 DEF LinkDown, ClientIInv, ClientQuiet
  <2> QED
    BY <1>5, <2>1 DEF LinkDown, osmo_gsup_client_destroy, ToldDown, LinkPromise!TellDown
<1>6. ASSUME told' = told, is_connected' = FALSE
      PROVE  LinkPromise!LoseSilently \/ UNCHANGED LinkPromise!vars
  BY <1>6 DEF ClientIInv, ClientTypeOK, LinkPromise!LoseSilently
<1>7. ASSUME NEW result \in Outcome, ping_timer_cb(result)
      PROVE  told' = told /\ (is_connected' = FALSE \/ is_connected' = is_connected)
  BY <1>7 DEF ping_timer_cb
<1>8. ASSUME RxInvalidCcm
      PROVE  told' = told /\ is_connected' = FALSE
  BY <1>8 DEF RxInvalidCcm
<1>9. ASSUME RxPong \/ osmo_gsup_client_send \/ ipa_client_write \/ UNCHANGED cvars
      PROVE  UNCHANGED LinkPromise!vars
  BY <1>9 DEF RxPong, osmo_gsup_client_send, ipa_client_write, cvars
<1> QED
  BY <1>1, <1>2, <1>3, <1>4, <1>5, <1>6, <1>7, <1>8, <1>9 DEF ClientNext, UserDestroys, Exists

(* The client implements the link that its user is promised: messages are  *)
(* taken only after the user was told that the link is up, and a link that *)
(* it gave up is never heard of again.                                     *)
THEOREM ClientIsLink == ClientSpec => LinkKept
<1>1. ClientInit => LinkPromise!Init
  BY DEF ClientInit, LinkPromise!Init
<1>2. ClientIInv /\ [ClientNext]_cvars => [LinkPromise!Next]_(LinkPromise!vars)
  BY NextLink
<1> QED
  BY <1>1, <1>2, ClientInitIInv, ClientNextIInv, PTL DEF ClientSpec, LinkKept, LinkPromise!Spec

=============================================================================
