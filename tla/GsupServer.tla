----------------------------- MODULE GsupServer -----------------------------
(***************************************************************************)
(* The GSUP server of osmo-hlr: accepted connections, the IND each of them *)
(* is given for 3G authentication, the routes by which a peer name is      *)
(* resolved to a connection, and the life of a received request between    *)
(* osmo_gsup_conn_rx() and its final response.                             *)
(*                                                                         *)
(* Models src/src/gsup_server.c, src/src/gsup_router.c,                    *)
(* src/src/gsup_send.c and the routing half of                             *)
(* src/src/gsupclient/gsup_req.c.  What the handlers do with an accepted   *)
(* request is the subject of the other modules; here a handler merely      *)
(* picks one of the ways a request can be concluded.                       *)
(***************************************************************************)
EXTENDS Naturals, SequencesExt

CONSTANTS
    Conn,     \* TCP connections that clients may open
    Name,     \* IPA unit names (the SERNR of the CCM identity response)
    Req,      \* identities of osmo_gsup_req records
    NoConn,   \* no connection: lookup failed, or the connection is gone
    NoName,   \* an empty peer name / an absent name IE
    NoReq     \* req record is not allocated

ASSUME NoConnAssumption == NoConn \notin Conn
ASSUME NoNameAssumption == NoName \notin Name

VARIABLES
    clients,  \* gs->clients, in list order
    ind,      \* conn->auc_3g_ind
    peer,     \* conn->peer_name
    routes,   \* gs->routes
    reqs,     \* the allocated requests
    tx        \* the last GSUP message the server sent

vars == <<clients, ind, peer, routes, reqs, tx>>

Route == [addr: Name, conn: Conn]

(***************************************************************************)
(* source, via: req->source_name and req->via_proxy.  conn and routed are  *)
(* history: the connection the message came in on (NoConn once that is     *)
(* closed), and whether the reception left a route to it for source.       *)
(***************************************************************************)
Request == [conn: Conn \cup {NoConn}, source: Name \cup {NoName},
            via: Name \cup {NoName}, routed: BOOLEAN]

(* origin: where the request being answered came from. to: the receiver.   *)
Tx == [kind: {"none", "response", "routing_error", "forward"},
       origin: Conn \cup {NoConn}, routed: BOOLEAN, to: Conn \cup {NoConn}]

NoTx == [kind |-> "none", origin |-> NoConn, routed |-> FALSE, to |-> NoConn]

TypeOK ==
    /\ clients \in Seq(Conn)
    /\ ind \in [Conn -> Nat]
    /\ peer \in [Conn -> Name \cup {NoName}]
    /\ routes \subseteq Route
    /\ reqs \in [Req -> Request \cup {NoReq}]
    /\ tx \in Tx

Connected == ToSet(clients)

Init ==
    /\ clients = <<>>
    /\ ind = [c \in Conn |-> 0]
    /\ peer = [c \in Conn |-> NoName]
    /\ routes = {}
    /\ reqs = [r \in Req |-> NoReq]
    /\ tx = NoTx

-----------------------------------------------------------------------------
(* Router.  The order of gs->routes matters only between two routes for    *)
(* one address; RoutesUnique says there are never two.                     *)

gsup_route_find(n) ==
    IF \E g \in routes : g.addr = n
    THEN (CHOOSE g \in routes : g.addr = n).conn
    ELSE NoConn

(* -EEXIST: the address is already routed to another connection. *)
RouteExistsElsewhere(c, n) == gsup_route_find(n) \notin {c, NoConn}

(* Mutant: no check for an existing route; the newest client wins. *)
RouteAddUnchecked(c, n) == routes \cup {[addr |-> n, conn |-> c]}

gsup_route_add(c, n) ==
    IF gsup_route_find(n) # NoConn THEN routes
    ELSE routes \cup {[addr |-> n, conn |-> c]}

gsup_route_del_conn(c) == {g \in routes : g.conn # c}

-----------------------------------------------------------------------------
(* Connections. *)

(* The list position of prev_conn, the client before the first gap. *)
GapAfter ==
    CHOOSE i \in 1..Len(clients) :
        /\ i = Len(clients) \/ ind[clients[i+1]] > ind[clients[i]] + 1
        /\ \A j \in 1..(i-1) : ind[clients[j+1]] <= ind[clients[j]] + 1

FirstIndexUnused == clients = <<>> \/ ind[clients[1]] > 0

(* Mutant: always one above the last client. *)
AddConnAtEnd(c) ==
    /\ ind' = [ind EXCEPT ![c] = IF clients = <<>> THEN 0
                                 ELSE ind[clients[Len(clients)]] + 1]
    /\ clients' = Append(clients, c)

osmo_gsup_server_add_conn(c) ==
    IF FirstIndexUnused
    THEN /\ ind' = [ind EXCEPT ![c] = 0]
         /\ clients' = <<c>> \o clients
    ELSE /\ ind' = [ind EXCEPT ![c] = ind[clients[GapAfter]] + 1]
         /\ clients' = InsertAt(clients, GapAfter + 1, c)

(* A new socket is accepted.  If the identity request cannot be sent the   *)
(* connection is closed again at once, which leaves no trace.              *)
osmo_gsup_server_accept_cb(c) ==
    /\ c \notin Connected
    /\ osmo_gsup_server_add_conn(c)
    /\ UNCHANGED <<peer, routes, reqs, tx>>

(* Mutant: the route is added before the name is stored. *)
CcmRouteFirst(c, n) ==
    /\ c \in Connected
    /\ routes' = gsup_route_add(c, peer[c])
    /\ peer' = [peer EXCEPT ![c] = n]
    /\ UNCHANGED <<clients, ind, reqs, tx>>

(* The identity response: the name is stored with the connection whether   *)
(* or not the route could be added.                                        *)
osmo_gsup_server_ccm_cb(c, n) ==
    /\ c \in Connected
    /\ peer' = [peer EXCEPT ![c] = n]
    /\ routes' = gsup_route_add(c, n)
    /\ UNCHANGED <<clients, ind, reqs, tx>>

(* The connection is lost, or identified itself without a name: its record *)
(* is freed, and zeroed when it is allocated again.                        *)
osmo_gsup_server_closed_cb(c) ==
    /\ c \in Connected
    /\ routes' = gsup_route_del_conn(c)
    /\ \E i \in 1..Len(clients) :
          clients[i] = c /\ clients' = RemoveAt(clients, i)
    /\ reqs' = [r \in Req |-> IF reqs[r] # NoReq /\ reqs[r].conn = c
                              THEN [reqs[r] EXCEPT !.conn = NoConn]
                              ELSE reqs[r]]
    /\ ind' = [ind EXCEPT ![c] = 0]
    /\ peer' = [peer EXCEPT ![c] = NoName]
    /\ UNCHANGED tx

-----------------------------------------------------------------------------
(* Requests. *)

(* Mutant: every answer goes to the immediate peer. *)
SendToImmediate(q, kind) ==
    gsup_route_find(IF q.via # NoName THEN q.via ELSE q.source)

(* gsup_server_send_req_response(): a response goes to the route of the    *)
(* source name; a routing error goes to the immediate peer's name.         *)
SendTo(q, kind) ==
    gsup_route_find(IF kind = "routing_error" /\ q.via # NoName
                    THEN q.via ELSE q.source)

Transmit(q, kind, to) ==
    tx' = [kind |-> kind, origin |-> q.conn, routed |-> q.routed, to |-> to]

(* The record osmo_gsup_req_new() builds for a message that arrives on c   *)
(* with Source Name IE ie.                                                 *)
NewRequest(c, ie, routed) ==
    [conn |-> c,
     source |-> IF ie # NoName THEN ie ELSE peer[c],
     via |-> IF ie # NoName /\ ie # peer[c] THEN peer[c] ELSE NoName,
     routed |-> routed]

(* A decodable message with a valid IMSI.  Only a proxied source is added  *)
(* to the routes here; a direct peer was added by its identity response.   *)
osmo_gsup_conn_rx(c, r, ie) ==
    LET q == NewRequest(c, ie, FALSE) IN
    /\ c \in Connected
    /\ reqs[r] = NoReq
    /\ IF q.via # NoName /\ RouteExistsElsewhere(c, q.source)
       THEN /\ Transmit(q, "routing_error", SendTo(q, "routing_error"))
            /\ UNCHANGED <<routes, reqs>>
       ELSE /\ routes' = IF q.via # NoName
                         THEN gsup_route_add(c, q.source) ELSE routes
            /\ reqs' = [reqs EXCEPT ![r] = NewRequest(c, ie,
                           q.via # NoName \/ gsup_route_find(q.source) = c)]
            /\ UNCHANGED tx
    /\ UNCHANGED <<clients, ind, peer>>

(* A request with an invalid IMSI: osmo_gsup_req_new() answers and frees   *)
(* it, before a route is looked at.                                        *)
RxInvalidImsi(c, ie) ==
    LET q == NewRequest(c, ie, FALSE) IN
    /\ c \in Connected
    /\ Transmit(q, "response", SendTo(q, "response"))
    /\ UNCHANGED <<clients, ind, peer, routes, reqs>>

(* A handler responds; only a final response frees the request. *)
osmo_gsup_req_respond(r, final) ==
    /\ reqs[r] # NoReq
    /\ Transmit(reqs[r], "response", SendTo(reqs[r], "response"))
    /\ reqs' = IF final THEN [reqs EXCEPT ![r] = NoReq] ELSE reqs
    /\ UNCHANGED <<clients, ind, peer, routes>>

(* A message with a destination other than this HLR is passed on to that   *)
(* peer.  If it is not connected, the message has no Source Name IE or its *)
(* destination is no name, the sender gets a routing error.                *)
read_cb_forward(r, n) ==
    /\ reqs[r] # NoReq
    /\ \/ /\ gsup_route_find(n) # NoConn
          /\ Transmit(reqs[r], "forward", gsup_route_find(n))
       \/ Transmit(reqs[r], "routing_error", SendTo(reqs[r], "routing_error"))
    /\ reqs' = [reqs EXCEPT ![r] = NoReq]
    /\ UNCHANGED <<clients, ind, peer, routes>>

(* A message that needs no answer: only its record is freed. *)
osmo_gsup_req_free(r) ==
    /\ reqs[r] # NoReq
    /\ reqs' = [reqs EXCEPT ![r] = NoReq]
    /\ UNCHANGED <<clients, ind, peer, routes, tx>>

Next ==
    \/ \E c \in Conn : osmo_gsup_server_accept_cb(c)
    \/ \E c \in Conn, n \in Name : osmo_gsup_server_ccm_cb(c, n)
    \/ \E c \in Conn : osmo_gsup_server_closed_cb(c)
    \/ \E c \in Conn, r \in Req, ie \in Name \cup {NoName} :
          osmo_gsup_conn_rx(c, r, ie)
    \/ \E c \in Conn, ie \in Name \cup {NoName} : RxInvalidImsi(c, ie)
    \/ \E r \in Req, final \in BOOLEAN : osmo_gsup_req_respond(r, final)
    \/ \E r \in Req, n \in Name : read_cb_forward(r, n)
    \/ \E r \in Req : osmo_gsup_req_free(r)

Spec == Init /\ [][Next]_vars

-----------------------------------------------------------------------------
(* Properties. *)

(* The client list is sorted by IND and no two connected clients share an  *)
(* IND: the comment above osmo_gsup_server_add_conn(), and what keeps the  *)
(* SQN arrays of two VLRs apart in the USIM.                               *)
ClientsSorted ==
    \A i, j \in 1..Len(clients) :
        i < j => ind[clients[i]] < ind[clients[j]]

(* At most one route per peer name, so a name never resolves to two        *)
(* connections (gsup_route_add() refuses a second one).                    *)
RoutesUnique == \A g, h \in routes : g.addr = h.addr => g = h

(* Every route leads to a connected client: gsup_route_find() never        *)
(* returns a freed connection, in whatever order clients come and go.      *)
RoutesLive == \A g \in routes : g.conn \in Connected

(* The routes are a Directory of the connected clients: first come, first  *)
(* served, nothing is taken from a holder that is connected, and nothing   *)
(* of one that is gone stays, whichever way requests through proxies,      *)
(* identity responses and disconnections interleave.                       *)
DirectoryPromise == INSTANCE Directory WITH present <- Connected, listed <- routes

DirectoryKept == DirectoryPromise!Spec

(* A response to a request whose reception left a route reaches the        *)
(* connection the request came from, as long as that is connected: no      *)
(* other client can take the name over while a request is pending.         *)
ResponseToOrigin ==
    tx.kind = "response" /\ tx.routed /\ tx.origin # NoConn
        => tx.to = tx.origin

(* What ResponseToOrigin rests on, as a part of the inductive invariant:   *)
(* the route of a pending request stays.                                   *)
PendingRouted ==
    \A r \in Req :
        reqs[r] # NoReq /\ reqs[r].routed /\ reqs[r].conn # NoConn
            => [addr |-> reqs[r].source, conn |-> reqs[r].conn] \in routes

(* A new client takes the lowest IND that no connected client uses, and    *)
(* the clients that stay connected keep theirs.                            *)
LowestIndTaken ==
    /\ \A c \in Connected' \ Connected :
          /\ \A d \in Connected : ind[d] # ind'[c]
          /\ \A k \in 0..(ind'[c] - 1) : \E d \in Connected : ind[d] = k
    /\ \A c \in Connected \cap Connected' : ind'[c] = ind[c]

(* LowestIndTaken holds of every step: IND values are stable and reused.   *)
IndAllocation == [][LowestIndTaken]_vars

=============================================================================
