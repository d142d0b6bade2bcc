------------------------------- MODULE LuFsm -------------------------------
(***************************************************************************)
(* Location Updating in the HLR: the list of location updates in progress, *)
(* the GSUP requests they hold open, the subscriber rows they read and     *)
(* write, and the operator interfaces that change those rows meanwhile.    *)
(*                                                                         *)
(* Models src/src/lu_fsm.c, the location-related handlers of src/src/hlr.c *)
(* and src/src/db_hlr.c, and the subscriber commands of the VTY            *)
(* (src/src/hlr_vty_subscr.c) and CTRL (src/src/ctrl.c) interfaces.        *)
(*                                                                         *)
(* A VLR (MSC or SGSN) is known by its peer name.  It is a GSUP client     *)
(* itself, or speaks through a client that is its proxy.  It answers the   *)
(* Insert Data requests it was sent at any later time and in any order, or *)
(* never, and clients may disconnect at any moment.  The HLR is one event  *)
(* loop: a handler runs to completion, and is one action.                  *)
(***************************************************************************)
EXTENDS Naturals, SequencesExt

CONSTANTS
    Imsi,            \* subscriber identities
    Vlr,             \* peer names of MSCs and SGSNs
    NoVlr,           \* no peer name: not attached / client not identified
    NoSubscr,        \* no row in the subscriber table
    Msisdn,          \* phone numbers
    NoMsisdn,        \* the subscriber has none
    Unsent,          \* a VLR holds no data of a subscriber
    Nam,             \* bound on the access modes the operator sets
    MaxReq,          \* bound on the GSUP messages received in a behaviour
    CreateOnDemand,  \* 'subscriber-create-on-demand' is configured
    OnDemandNam      \* the domains such a subscriber is given

Domain == {"cs", "ps"}

ASSUME NoVlrAssumption == NoVlr \notin Vlr
ASSUME MsisdnAssumption == NoMsisdn \notin Msisdn /\ Unsent \notin Msisdn \cup {NoMsisdn}
ASSUME MaxReqAssumption == MaxReq \in Nat
ASSUME NamAssumption == Nam \subseteq SUBSET Domain
ASSUME OnDemandAssumption == CreateOnDemand \in BOOLEAN /\ OnDemandNam \subseteq Domain

VARIABLES
    subscr,   \* the subscriber table
    lus,      \* g_all_lu, newest first
    reqs,     \* the osmo_gsup_req records, by req->nr
    nextNr,   \* next_req_nr
    isd,      \* Insert Data requests a VLR has received and not answered
    conn,     \* the GSUP routes: the client that leads to a peer name
    sup,      \* conn->supports_cs, conn->supports_ps of each client
    data      \* history: the phone number of the subscriber in the last
              \* Insert Data that a VLR was sent, on the present connection,
              \* unless an error or Delete Data made it drop the subscriber

vars == <<subscr, lus, reqs, nextNr, isd, conn, sup, data>>

Peer == Vlr \cup {NoVlr}
Nr == 1..MaxReq
Number == Msisdn \cup {NoMsisdn}

(* vlr_number/sgsn_number are one function of the domain, and so are       *)
(* nam_cs/nam_ps and ms_purged_cs/ms_purged_ps.                            *)
Subscriber == [nam: SUBSET Domain, loc: [Domain -> Peer], purged: SUBSET Domain,
               msisdn: Number]

(* struct lu.  All members of the list wait for an Insert Data result: the *)
(* UNVALIDATED state does not outlive lu_start(), and after it is_ps is    *)
(* read no more.                                                           *)
Lu == [nr: Nr, imsi: Imsi, vlr: Vlr]

(* kind: not received yet, an Update Location request, any other message.  *)
(* answers counts the final responses to an Update Location request.       *)
Request == [kind: {"none", "ulr", "other"}, open: BOOLEAN, answers: Nat]

(* An Insert Data request; nr is the Update Location request it belongs    *)
(* to, 0 for a notification of changed subscriber data.                    *)
Isd == [imsi: Imsi, nr: 0..MaxReq]

TypeOK ==
    /\ subscr \in [Imsi -> Subscriber \cup {NoSubscr}]
    /\ lus \in Seq(Lu)
    /\ reqs \in [Nr -> Request]
    /\ nextNr \in 1..(MaxReq + 1)
    /\ isd \in [Vlr -> SUBSET Isd]
    /\ conn \in [Vlr -> Peer]
    /\ sup \in [Vlr -> SUBSET Domain]
    /\ data \in [Vlr -> [Imsi -> Number \cup {Unsent}]]

NewSubscr(nam) ==
    [nam |-> nam, loc |-> [d \in Domain |-> NoVlr], purged |-> {},
     msisdn |-> NoMsisdn]

Init ==
    /\ subscr \in [Imsi -> {NoSubscr, NewSubscr(Domain)}]
    /\ lus = <<>>
    /\ reqs = [r \in Nr |-> [kind |-> "none", open |-> FALSE, answers |-> 0]]
    /\ nextNr = 1
    /\ isd = [v \in Vlr |-> {}]
    /\ conn = [v \in Vlr |-> NoVlr]
    /\ sup = [v \in Vlr |-> {}]
    /\ data = [v \in Vlr |-> [i \in Imsi |-> Unsent]]

(* The clients, and the VLRs that a message can be sent to. *)
Connected == {c \in Vlr : conn[c] = c}
Routed == {v \in Vlr : conn[v] # NoVlr}

(* Client c sends a message of VLR v: of itself, or with the name of v in  *)
(* the Source Name IE, which makes it the route to v.  A client that has   *)
(* not identified itself yet has no name.                                  *)
From(c, v) ==
    \/ c = NoVlr /\ v = NoVlr /\ UNCHANGED conn
    \/ /\ c \in Connected /\ v \in Vlr /\ conn[v] \in {c, NoVlr}
       /\ conn' = [conn EXCEPT ![v] = c]

-----------------------------------------------------------------------------
(* Requests (gsup_req.c). *)

(* osmo_gsup_req_new(): the next number is taken by a message of a kind,   *)
(* left open or concluded by its handler with so many final responses.     *)
osmo_gsup_req_new(kind, open, answers) ==
    /\ nextNr \in Nr
    /\ reqs' = [reqs EXCEPT ![nextNr] =
                   [kind |-> kind, open |-> open, answers |-> answers]]
    /\ nextNr' = nextNr + 1

(* The final response to a request record that is now freed. *)
Concluded(q) == [kind |-> q.kind, open |-> FALSE, answers |-> q.answers + 1]

-----------------------------------------------------------------------------
(* Location Updating (lu_fsm.c). *)

(* Mutant: no default for an absent CN Domain IE. *)
DomainAsSent(ie) == ie

(* "According to GSUP specs, OSMO_GSUP_CN_DOMAIN_PS is the default."  ie   *)
(* is the CN Domain IE, "none" if absent.                                  *)
DomainOf(ie) == IF ie = "cs" THEN "cs" ELSE "ps"

(* subscr_create_on_demand() before a handler: it may create the row if it *)
(* is configured and there is none; its failure is ignored.                *)
OnDemand(i) ==
    IF CreateOnDemand /\ subscr[i] = NoSubscr
    THEN {NoSubscr, NewSubscr(OnDemandNam)} ELSE {subscr[i]}

(* lu_start() refuses: no VLR name, no such subscriber, domain disabled. *)
Refused(v, s, d) == v = NoVlr \/ s = NoSubscr \/ d \notin s.nam

(* Mutant: both numbers are written. *)
LuBothDomains(s, v, d, fail) ==
    IF fail = "early" THEN s ELSE [s EXCEPT !.loc = [e \in Domain |-> v]]

(* db_subscr_lu() writes the number, then the time stamp: it can fail      *)
(* "early", before the number is written, or "late", after it.             *)
db_subscr_lu(s, v, d, fail) ==
    IF fail = "early" THEN s ELSE [s EXCEPT !.loc[d] = v]

(* rx_upd_loc_req() and lu_start(), up to and including the onenter of     *)
(* WAIT_INSERT_DATA_RESULT, which sends the Insert Data request to the     *)
(* VLR.  A request that cannot be encoded or sent is a "late" failure too. *)
(* The domain is noted of the client, the location is that of the VLR.  s  *)
(* is the row as it is after subscr_create_on_demand().                    *)
rx_upd_loc_req(c, v, i, ie, s, fail) ==
    LET d == DomainOf(ie) IN
    /\ From(c, v)
    /\ Refused(v, s, d) => fail = "none"
    /\ sup' = IF c = NoVlr THEN sup ELSE [sup EXCEPT ![c] = @ \cup {d}]
    /\ IF Refused(v, s, d) \/ fail # "none"
       THEN /\ osmo_gsup_req_new("ulr", FALSE, 1)
            /\ data' = IF v = NoVlr THEN data ELSE [data EXCEPT ![v][i] = Unsent]
            /\ UNCHANGED <<lus, isd>>
       ELSE /\ osmo_gsup_req_new("ulr", TRUE, 0)
            /\ lus' = <<[nr |-> nextNr, imsi |-> i, vlr |-> v]>> \o lus
            /\ isd' = [isd EXCEPT ![v] = @ \cup {[imsi |-> i, nr |-> nextNr]}]
            /\ data' = [data EXCEPT ![v][i] = s.msisdn]
    /\ subscr' = [subscr EXCEPT ![i] =
                     IF Refused(v, s, d) THEN s ELSE db_subscr_lu(s, v, d, fail)]

(* Mutants: the FSM terminates without a response; lu_fsm_cleanup() sends  *)
(* a second response because update_location_req was not reset.            *)
EndLuUnanswered(k, rq) ==
    /\ lus' = RemoveAt(lus, k)
    /\ reqs' = rq
EndLuAnsweredTwice(k, rq) ==
    /\ lus' = RemoveAt(lus, k)
    /\ reqs' = [rq EXCEPT ![lus[k].nr] = Concluded(Concluded(@))]

(* lu_success() and lu_failure(): the request is answered and freed, the   *)
(* FSM instance terminates and leaves the list.                            *)
EndLu(k, rq) ==
    /\ lus' = RemoveAt(lus, k)
    /\ reqs' = [rq EXCEPT ![lus[k].nr] = Concluded(rq[lus[k].nr])]

(* lu_failure(): the VLR, told of the error, drops the subscriber. *)
FailLu(k, rq) ==
    /\ EndLu(k, rq)
    /\ data' = [data EXCEPT ![lus[k].vlr][lus[k].imsi] = Unsent]

(* The first location update of the list for this IMSI, whoever asked for  *)
(* it and for whatever domain: the one lu_rx_gsup() dispatches to.         *)
IsFirstLu(k, i) ==
    /\ k \in DOMAIN lus
    /\ lus[k].imsi = i
    /\ \A j \in 1..(k-1) : lus[j].imsi # i

NoLu(i) == \A k \in DOMAIN lus : lus[k].imsi # i

(* A message record that stays allocated, and one that is freed. *)
Received(open) ==
    [reqs EXCEPT ![nextNr] = [kind |-> "other", open |-> open, answers |-> 0]]

(* INSERT_DATA_RESULT from v in answer to m. *)
RxInsertDataResult(v, m) ==
    /\ v \in Routed /\ m \in isd[v] /\ nextNr \in Nr
    /\ nextNr' = nextNr + 1
    /\ isd' = [isd EXCEPT ![v] = @ \ {m}]
    /\ \/ /\ NoLu(m.imsi)
          /\ reqs' = Received(FALSE)
          /\ UNCHANGED lus
       \/ \E k \in DOMAIN lus :
             /\ IsFirstLu(k, m.imsi)
             /\ EndLu(k, Received(FALSE))
    /\ UNCHANGED <<subscr, conn, sup, data>>

(* INSERT_DATA_ERROR from v in answer to m: the location update fails, but *)
(* the record of the error message itself is not freed.                    *)
RxInsertDataError(v, m) ==
    /\ v \in Routed /\ m \in isd[v] /\ nextNr \in Nr
    /\ nextNr' = nextNr + 1
    /\ isd' = [isd EXCEPT ![v] = @ \ {m}]
    /\ \/ /\ NoLu(m.imsi)
          /\ reqs' = Received(FALSE)
          /\ UNCHANGED <<lus, data>>
       \/ \E k \in DOMAIN lus :
             /\ IsFirstLu(k, m.imsi)
             /\ FailLu(k, Received(TRUE))
    /\ UNCHANGED <<subscr, conn, sup>>

(* A Location Cancel answer: no state accepts it, its record is freed. *)
RxLocationCancel(c, v) ==
    /\ From(c, v)
    /\ osmo_gsup_req_new("other", FALSE, 0)
    /\ UNCHANGED <<subscr, lus, isd, sup, data>>

(* Timer -4222 of the location update for request r. *)
lu_fsm_timer_cb(r) ==
    /\ \E k \in DOMAIN lus : lus[k].nr = r /\ FailLu(k, reqs)
    /\ UNCHANGED <<subscr, nextNr, isd, conn, sup>>

-----------------------------------------------------------------------------
(* Other handlers and the commands of the operator. *)

rx_purge_ms_req(c, v, i, ie, dbok) ==
    /\ From(c, v)
    /\ osmo_gsup_req_new("other", FALSE, 0)
    /\ dbok => subscr[i] # NoSubscr
    /\ subscr' = IF dbok THEN [subscr EXCEPT ![i].purged = @ \cup {DomainOf(ie)}]
                 ELSE subscr
    /\ UNCHANGED <<lus, isd, sup, data>>

(* Check IMEI may create the subscriber; it answers in every case.  To the *)
(* state of this module rx_send_auth_info() does the same.                 *)
rx_check_imei_req(c, v, i) ==
    /\ From(c, v)
    /\ osmo_gsup_req_new("other", FALSE, 0)
    /\ \E s \in OnDemand(i) : subscr' = [subscr EXCEPT ![i] = s]
    /\ UNCHANGED <<lus, isd, sup, data>>

(* A client connects and identifies itself; it disconnects, and with it go *)
(* all routes that lead to it.                                             *)
PeerUp(c) ==
    /\ conn[c] = NoVlr
    /\ conn' = [conn EXCEPT ![c] = c]
    /\ UNCHANGED <<subscr, lus, reqs, nextNr, isd, sup, data>>

PeerDown(c) ==
    /\ c \in Connected
    /\ conn' = [v \in Vlr |-> IF conn[v] = c THEN NoVlr ELSE conn[v]]
    /\ isd' = [v \in Vlr |-> IF conn[v] = c THEN {} ELSE isd[v]]
    /\ data' = [v \in Vlr |-> IF conn[v] = c THEN [i \in Imsi |-> Unsent] ELSE data[v]]
    /\ sup' = [sup EXCEPT ![c] = {}]
    /\ UNCHANGED <<subscr, lus, reqs, nextNr>>

subscriber_create(i) ==
    /\ subscr[i] = NoSubscr
    /\ subscr' = [subscr EXCEPT ![i] = NewSubscr(Domain)]
    /\ UNCHANGED <<lus, reqs, nextNr, isd, conn, sup, data>>

subscriber_delete(i) ==
    /\ subscr[i] # NoSubscr
    /\ subscr' = [subscr EXCEPT ![i] = NoSubscr]
    /\ UNCHANGED <<lus, reqs, nextNr, isd, conn, sup, data>>

(* The VLRs hlr_subscr_nam() sends a Delete Data request to when it        *)
(* disables a domain: those of both domains.                               *)
Responsible(i) == {v \in Routed : \E d \in Domain : subscr[i].loc[d] = v}

(* The number of subscriber i at the VLRs of a set becomes n. *)
DataAt(V, i, n) ==
    [v \in Vlr |-> IF v \in V THEN [data[v] EXCEPT ![i] = n] ELSE data[v]]

(* The VTY command network-access-mode, through hlr_subscr_nam(). *)
subscriber_nam(i, nam) ==
    /\ subscr[i] # NoSubscr /\ subscr[i].nam # nam
    /\ subscr' = [subscr EXCEPT ![i].nam = nam]
    /\ data' = IF subscr[i].nam \subseteq nam THEN data
               ELSE DataAt(Responsible(i), i, Unsent)
    /\ UNCHANGED <<lus, reqs, nextNr, isd, conn, sup>>

(* The CTRL command cs-enabled / ps-enabled, which tells nobody. *)
set_subscr_cs_ps_enabled(i, d, value) ==
    /\ subscr[i] # NoSubscr
    /\ subscr' = [subscr EXCEPT ![i].nam = IF value THEN @ \cup {d} ELSE @ \ {d}]
    /\ subscr'[i].nam \in Nam
    /\ UNCHANGED <<lus, reqs, nextNr, isd, conn, sup, data>>

(* Mutant: every client is looked at as a VLR. *)
NotifiedVlrs(i) == {c \in Connected : sup[c] # {} /\ subscr[i].loc["cs"] = c}

(* osmo_hlr_subscriber_update_notify(): a client is looked at as an SGSN   *)
(* if it ever sent a PS location update, else as a VLR, and compared by    *)
(* its own name: a VLR behind a proxy is none of them.                     *)
Notified(i) ==
    {c \in Connected : /\ sup[c] # {}
                       /\ subscr[i].loc[IF "ps" \in sup[c] THEN "ps" ELSE "cs"] = c}

(* msisdn is a UNIQUE column. *)
Taken(i, n) == \E j \in Imsi \ {i} : subscr[j] # NoSubscr /\ subscr[j].msisdn = n

(* The VTY command that changes the MSISDN.  Clients are sent a new number *)
(* from the row, read again by it; if that fails they are sent nothing,    *)
(* and data says nothing of the subscriber any more.  When the number is   *)
(* removed the row is not read again: it is sent as it was before.         *)
subscriber_msisdn(i, n, reread) ==
    LET told == IF reread THEN Notified(i) ELSE {}
        sent == IF n = NoMsisdn THEN subscr[i].msisdn ELSE n
    IN
    /\ subscr[i] # NoSubscr
    /\ IF n = NoMsisdn THEN reread ELSE ~Taken(i, n)
    /\ subscr' = [subscr EXCEPT ![i].msisdn = n]
    /\ isd' = [v \in Vlr |-> IF v \in told THEN isd[v] \cup {[imsi |-> i, nr |-> 0]}
                             ELSE isd[v]]
    /\ data' = IF reread THEN DataAt(told, i, sent) ELSE DataAt(Vlr, i, Unsent)
    /\ UNCHANGED <<lus, reqs, nextNr, conn, sup>>

Rx ==
    \/ \E c, v \in Peer, i \in Imsi, ie \in Domain \cup {"none"},
          fail \in {"none", "early", "late"} :
             \E s \in OnDemand(i) : rx_upd_loc_req(c, v, i, ie, s, fail)
    \/ \E v \in Vlr : \E m \in isd[v] : RxInsertDataResult(v, m)
    \/ \E v \in Vlr : \E m \in isd[v] : RxInsertDataError(v, m)
    \/ \E c, v \in Peer : RxLocationCancel(c, v)
    \/ \E c, v \in Peer, i \in Imsi, ie \in Domain \cup {"none"},
          dbok \in BOOLEAN : rx_purge_ms_req(c, v, i, ie, dbok)
    \/ \E c, v \in Peer, i \in Imsi : rx_check_imei_req(c, v, i)

Peers == \E c \in Vlr : PeerUp(c) \/ PeerDown(c)

Commands ==
    \E i \in Imsi :
        \/ subscriber_create(i)
        \/ subscriber_delete(i)
        \/ \E nam \in Nam : subscriber_nam(i, nam)
        \/ \E d \in Domain, value \in BOOLEAN :
              set_subscr_cs_ps_enabled(i, d, value)
        \/ \E n \in Number, reread \in BOOLEAN : subscriber_msisdn(i, n, reread)

Timers == \E r \in Nr : lu_fsm_timer_cb(r)

Next == Rx \/ Timers \/ Peers \/ Commands

Spec == Init /\ [][Next]_vars

(* osmo_fsm arms timer -4222 when a location update starts to wait and     *)
(* nothing restarts it; the event loop serves every expired timer.         *)
Fairness == \A r \in Nr : WF_vars(lu_fsm_timer_cb(r))

FairSpec == Spec /\ Fairness

-----------------------------------------------------------------------------
(* Properties. *)

(* Each location update in progress holds a request of its own that is     *)
(* open and unanswered, and each open Update Location request is held by   *)
(* a location update: nothing responds to a freed request, and no request  *)
(* is left behind when an FSM instance terminates (lu->update_location_req *)
(* is the only pointer to it).                                             *)
LuOwnsRequest ==
    /\ \A k \in DOMAIN lus : /\ reqs[lus[k].nr].kind = "ulr"
                             /\ reqs[lus[k].nr].open
    /\ \A j, k \in DOMAIN lus : lus[j].nr = lus[k].nr => j = k
    /\ \A r \in Nr : reqs[r].kind = "ulr" /\ reqs[r].open
                        => \E k \in DOMAIN lus : lus[k].nr = r

(* An Update Location request gets exactly one final response, and gets it *)
(* when its record is freed.                                               *)
AnsweredOnce ==
    \A r \in Nr : reqs[r].kind = "ulr"
        => reqs[r].answers = IF reqs[r].open THEN 0 ELSE 1

(* Numbers not yet given out are unused. *)
FutureUnused == \A r \in Nr : r >= nextNr => reqs[r].kind = "none"

(* The recorded location of a subscriber only ever moves to a peer with a  *)
(* route, over a connection that has carried a location update for that    *)
(* domain, and to which the domain is open: no command, purge or late      *)
(* Insert Data answer changes it, and a CS update never touches the SGSN.  *)
LocationStep ==
    \A i \in Imsi, d \in Domain :
        /\ subscr[i] # NoSubscr /\ subscr'[i] # NoSubscr
        /\ subscr'[i].loc[d] # subscr[i].loc[d]
        => /\ subscr'[i].loc[d] \in Routed'
           /\ d \in sup'[conn'[subscr'[i].loc[d]]]
           /\ d \in subscr'[i].nam

(* LocationStep holds of every step of the HLR. *)
LocationMoves == [][LocationStep]_vars

(* A client that has sent location updates for one domain only, and is on  *)
(* record for that domain, holds the number of the subscriber's row, if it *)
(* holds data of the subscriber and there is a number: whatever updates    *)
(* moved the subscriber away and back, over which connections and proxies, *)
(* no change of the number (osmo_hlr_subscriber_update_notify(), lu_fsm.c) *)
(* passes such a client by.                                                *)
PeerKnowsNumber ==
    \A c \in Connected, i \in Imsi, d \in Domain :
        /\ sup[c] = {d} /\ subscr[i] # NoSubscr
        /\ subscr[i].loc[d] = c
        /\ data[c][i] # Unsent /\ subscr[i].msisdn # NoMsisdn
        => data[c][i] = subscr[i].msisdn

(* Data is held by VLRs with a route, and by a client only if it has sent  *)
(* location updates.                                                       *)
DataHeld ==
    \A v \in Vlr, i \in Imsi :
        data[v][i] # Unsent => /\ conn[v] # NoVlr
                               /\ conn[v] = v => sup[v] # {}

(* The step changes the number of a subscriber, who is on record with the  *)
(* client c, and c holds data of the subscriber before and after it.       *)
NumberChanges(i, c) ==
    /\ subscr[i] # NoSubscr /\ subscr'[i] # NoSubscr
    /\ subscr'[i].msisdn # subscr[i].msisdn
    /\ c \in Connected /\ \E d \in Domain : subscr[i].loc[d] = c
    /\ data[c][i] # Unsent /\ data'[c][i] # Unsent

(* "Trigger 'Insert Subscriber Data' messages to all connected GSUP        *)
(* clients" (hlr.c:67): a new number is sent to every client on record.    *)
AllClientsTold ==
    [][\A i \in Imsi, c \in Vlr :
          NumberChanges(i, c) /\ subscr'[i].msisdn # NoMsisdn
              => data'[c][i] = subscr'[i].msisdn]_vars

(* "A subscriber we have new data to send for" (hlr.c:69): a client that   *)
(* is on record for one domain is told when the number is removed.         *)
RemovalTold ==
    [][\A i \in Imsi, c \in Vlr :
          NumberChanges(i, c) /\ sup[c] # Domain /\ subscr'[i].msisdn = NoMsisdn
              => data'[c][i] = NoMsisdn]_vars

(* Every Update Location request is concluded, whether or not the VLR      *)
(* answers, disconnects, or the subscriber is deleted meanwhile.           *)
LuConcludes ==
    \A r \in Nr : (reqs[r].kind = "ulr" /\ reqs[r].open) ~> ~reqs[r].open

=============================================================================
