--------------------------- MODULE MslookupServer ---------------------------
(***************************************************************************)
(* Where is a subscriber?  Several HLR sites answer the question, each     *)
(* from its own database and its own proxy entries, and whoever asked      *)
(* takes the youngest answer.                                              *)
(*                                                                         *)
(* src/src/mslookup_server.c and mslookup_server_mdns.c at every site,     *)
(* with what they read: the CS location in the database (db_subscr_lu())   *)
(* and in the proxy (src/src/proxy.c), and the services configured through *)
(* src/src/dgsm_vty.c.  One subscriber, one service, CS only.  Update      *)
(* Location messages travel from site to site and may be lost; how one     *)
(* site forwards and defers them is in Proxy, how it answers in LuFsm.     *)
(* A time stamp is kept as its age in seconds.                             *)
(***************************************************************************)
EXTENDS Naturals, SequencesExt

CONSTANTS
    Site,       \* HLRs, with the MSCs around them
    Managed,    \* the sites whose mslookup server is reconfigured
    Family,     \* address families
    Configured, \* the MSCs, or NoVlr, for which services are set and removed
    Vlr,        \* IPA names of MSCs; sites may use the same names
    NoVlr,      \* an empty name, also that of mslookup_server_msc_wildcard
    NoRow,      \* the subscriber is not in the site's database
    NoEntry,    \* the subscriber is not in the site's proxy
    NoHost,     \* no service entry
    MaxAge,     \* local_attach_max_age
    FreshTime,  \* fresh_time of the proxy
    MaxFlight   \* bound on the Update Location messages under way

ASSUME ManagedAssumption == Managed \subseteq Site /\ Configured \subseteq Vlr \cup {NoVlr}
ASSUME NoVlrAssumption == NoVlr \notin Vlr
ASSUME MaxFlightAssumption == MaxFlight \in Nat
ASSUME FamilyAssumption == Family # {} /\ \A F \in SUBSET Family : F # NoHost
(* dgsm_init() and proxy_init() set both to an hour. *)
ASSUME AgesAssumption == MaxAge \in Nat /\ FreshTime \in Nat /\ MaxAge <= FreshTime

VARIABLES
    db,        \* the row of the subscriber in the database of a site
    entry,     \* the proxy entry of the subscriber at a site
    flight,    \* Update Location requests and results under way
    hosts,     \* service_hosts of an MSC at a site, or of the wildcard
    last,      \* history: the latest location update that was begun
    state,     \* history: that one has begun or is done, or a message of an
               \* earlier one was handled since it began
    visited    \* history: the sites and VLRs where one was begun

vars == <<db, entry, flight, hosts, last, state, visited>>

(* Ages above FreshTime are not told apart; a time stamp that was never    *)
(* set is as old.                                                          *)
TooOld == FreshTime + 1
Age == 0..TooOld
Older(a) == IF a < TooOld THEN a + 1 ELSE a

Row == [vlr: Vlr \cup {NoVlr}, via: BOOLEAN, age: Age]

(* via: vlr_via_proxy is set.  next: remote_hlr_addr. *)
Entry == [next: Site, prelim: Vlr \cup {NoVlr}, vlr: Vlr \cup {NoVlr}, via: BOOLEAN,
          age: Age]

ASSUME MarkersAssumption == NoRow \notin Row /\ NoEntry \notin Entry

(* back: the proxies that a request has passed and its result must pass.   *)
(* cur: it belongs to the latest location update.                          *)
Message == [at: Site, back: Seq(Site), result: BOOLEAN, vlr: Vlr, cur: BOOLEAN]

TypeOK ==
    /\ db \in [Site -> Row \cup {NoRow}]
    /\ entry \in [Site -> Entry \cup {NoEntry}]
    /\ flight \subseteq Message
    /\ hosts \in [Site -> [Vlr \cup {NoVlr} -> ((SUBSET Family) \ {{}}) \cup {NoHost}]]
    /\ last \in [site: Site, vlr: Vlr, age: Age]
    /\ state \in {"begun", "done", "mixed"}
    /\ visited \subseteq Site \X Vlr

NewRow == [vlr |-> NoVlr, via |-> FALSE, age |-> TooOld]

Init ==
    /\ \E h \in Site : db = [s \in Site |-> IF s = h THEN NewRow ELSE NoRow]
    /\ entry = [s \in Site |-> NoEntry]
    /\ flight = {}
    /\ hosts = [s \in Site |-> [v \in Vlr \cup {NoVlr} |-> IF v = NoVlr THEN Family ELSE NoHost]]
    /\ \E s \in Site, v \in Vlr : last = [site |-> s, vlr |-> v, age |-> TooOld]
    /\ state = "mixed"
    /\ visited = {}

-----------------------------------------------------------------------------
(* Answering a query. *)

NotHere == [found |-> FALSE]
Here(v, a) == [found |-> TRUE, vlr |-> v, age |-> a]

(* Mutant: where the VLR is does not matter. *)
HereHlrAnyVlr(s) ==
    IF db[s] # NoRow /\ db[s].vlr # NoVlr /\ db[s].age <= MaxAge
    THEN Here(db[s].vlr, db[s].age) ELSE NotHere

subscriber_has_done_lu_here_hlr(s) ==
    IF db[s] # NoRow /\ db[s].vlr # NoVlr /\ ~db[s].via /\ db[s].age <= MaxAge
    THEN Here(db[s].vlr, db[s].age) ELSE NotHere

subscriber_has_done_lu_here_proxy(s) ==
    IF entry[s] # NoEntry /\ entry[s].age <= MaxAge /\ ~entry[s].via
    THEN Here(entry[s].vlr, entry[s].age) ELSE NotHere

(* Mutant: the proxy has the say. *)
HereProxyFirst(s) ==
    LET hlr == subscriber_has_done_lu_here_hlr(s)
        proxy == subscriber_has_done_lu_here_proxy(s)
    IN  IF proxy.found THEN proxy ELSE hlr

subscriber_has_done_lu_here(s) ==
    LET hlr == subscriber_has_done_lu_here_hlr(s)
        proxy == subscriber_has_done_lu_here_proxy(s)
    IN  IF proxy.found /\ (~hlr.found \/ proxy.age < hlr.age) THEN proxy ELSE hlr

(* The entry for the MSC, or the one for all: its addresses. *)
mslookup_server_service_get(s, v) ==
    IF hosts[s][v] # NoHost THEN hosts[s][v] ELSE hosts[s][NoVlr]

(* mslookup_server_rx() for a service other than hlr.gsup: found only with *)
(* an address.                                                             *)
mslookup_server_rx(s) ==
    LET here == subscriber_has_done_lu_here(s)
    IN  IF here.found
           /\ mslookup_server_service_get(s, here.vlr) \notin {NoHost, {}}
        THEN here ELSE NotHere

(* The home HLRs that another site finds. *)
mslookup_server_rx_hlr_gsup(s) == db[s] # NoRow

-----------------------------------------------------------------------------
(* A location update of the subscriber. *)

(* A VLR of the site sends an Update Location request for CS. *)
BeginLu(s, v) ==
    /\ Cardinality(flight) < MaxFlight
    /\ flight' = {[m EXCEPT !.cur = FALSE] : m \in flight}
                   \cup {[at |-> s, back |-> <<>>, result |-> FALSE, vlr |-> v, cur |-> TRUE]}
    /\ last' = [site |-> s, vlr |-> v, age |-> 0]
    /\ state' = "begun"
    /\ visited' = visited \cup {<<s, v>>}
    /\ UNCHANGED <<db, entry, hosts>>

(* The messages after m was handled and the messages in S were sent. *)
Handled(m, S) == (flight \ {m}) \cup S

(* The result of m on its way back, unless it is where it started. *)
Back(m) ==
    IF m.back = <<>> THEN {}
    ELSE {[m EXCEPT !.at = Last(m.back), !.back = Front(m.back), !.result = TRUE]}

(* m is handled at a site, and ends there if done. *)
StateAfter(m, done) ==
    IF ~m.cur THEN "mixed" ELSE IF done /\ state = "begun" THEN "done" ELSE state

(* db_subscr_lu(): the number with the proxy it came through, then the     *)
(* time stamp.                                                             *)
db_subscr_lu(row, m) == [vlr |-> m.vlr, via |-> m.back # <<>>, age |-> 0]

(* lu_start() at a site that has the subscriber.  If the time stamp cannot *)
(* be written the location update fails with the VLR recorded.             *)
lu_start(m) ==
    /\ m \in flight /\ ~m.result /\ db[m.at] # NoRow
    /\ \/ /\ db' = [db EXCEPT ![m.at] = db_subscr_lu(@, m)]
          /\ flight' = Handled(m, Back(m))
          /\ state' = StateAfter(m, m.back = <<>>)
       \/ /\ db' = [db EXCEPT ![m.at] = [db_subscr_lu(@, m) EXCEPT !.age = db[m.at].age]]
          /\ flight' = Handled(m, {})
          /\ state' = "mixed"
    /\ UNCHANGED <<entry, hosts, last, visited>>

(* The entry after a request for m.vlr was forwarded to h. *)
Forwarding(e, m, h) ==
    IF e = NoEntry
    THEN [next |-> h, prelim |-> m.vlr, vlr |-> NoVlr, via |-> FALSE, age |-> TooOld]
    ELSE [e EXCEPT !.prelim = m.vlr]

(* dgsm_check_forward_gsup_msg() at a site that does not have it: forward  *)
(* to the HLR in the proxy entry, or to one that mslookup finds.  A site   *)
(* that has forwarded the request before would do so for ever: such a loop *)
(* is cut off.                                                             *)
dgsm_check_forward_gsup_msg(m) ==
    /\ m \in flight /\ ~m.result /\ db[m.at] = NoRow
    /\ m.at \notin ToSet(m.back)
    /\ \E h \in Site :
         /\ IF entry[m.at] # NoEntry THEN h = entry[m.at].next
            ELSE h # m.at /\ mslookup_server_rx_hlr_gsup(h)
         /\ entry' = [entry EXCEPT ![m.at] = Forwarding(@, m, h)]
         /\ flight' = Handled(m, {[m EXCEPT !.at = h, !.back = Append(@, m.at)]})
    /\ UNCHANGED <<db, hosts, last, state, visited>>

(* proxy_acknowledge_gsup_from_remote_hlr() of a result: the VLR must be   *)
(* the one that the site forwarded for last.                               *)
proxy_acknowledge_gsup_from_remote_hlr(m) ==
    /\ m \in flight /\ m.result
    /\ entry[m.at] # NoEntry /\ entry[m.at].prelim = m.vlr
    /\ entry' = [entry EXCEPT ![m.at].prelim = NoVlr, ![m.at].vlr = m.vlr,
                              ![m.at].via = m.back # <<>>,
                              ![m.at].age = 0]
    /\ flight' = Handled(m, Back(m))
    /\ state' = StateAfter(m, m.back = <<>>)
    /\ UNCHANGED <<db, hosts, last, visited>>

(* A message ends: a link fails, no home HLR is found, a site forwarded it *)
(* before, or a result does not match a proxy entry.                       *)
MessageLost(m) ==
    /\ m \in flight
    /\ flight' = Handled(m, {})
    /\ UNCHANGED <<db, entry, hosts, last, state, visited>>

(* An entry that proxy_cleanup() may discard: its last update is not older *)
(* than its last location update.                                          *)
Stale(e) == e # NoEntry /\ e.age > FreshTime

proxy_cleanup(s) ==
    /\ Stale(entry[s])
    /\ entry' = [entry EXCEPT ![s] = NoEntry]
    /\ UNCHANGED <<db, flight, hosts, last, state, visited>>

(* A second passes at all sites. *)
Tick ==
    /\ db' = [s \in Site |-> IF db[s] = NoRow THEN NoRow ELSE [db[s] EXCEPT !.age = Older(@)]]
    /\ entry' = [s \in Site |-> IF entry[s] = NoEntry THEN NoEntry
                                ELSE [entry[s] EXCEPT !.age = Older(@)]]
    /\ last' = [last EXCEPT !.age = Older(@)]
    /\ UNCHANGED <<flight, hosts, state, visited>>

-----------------------------------------------------------------------------
(* The operators of the sites. *)

subscriber_create(s) ==
    /\ db[s] = NoRow
    /\ db' = [db EXCEPT ![s] = NewRow]
    /\ UNCHANGED <<entry, flight, hosts, last, state, visited>>

subscriber_delete(s) ==
    /\ db[s] # NoRow
    /\ db' = [db EXCEPT ![s] = NoRow]
    /\ state' = IF s = last.site THEN "mixed" ELSE state
    /\ UNCHANGED <<entry, flight, hosts, last, visited>>

(* service NAME at IP, for an MSC or for all. *)
mslookup_server_msc_service_set(s, v, f) ==
    /\ hosts' = [hosts EXCEPT ![s][v] = IF @ = NoHost THEN {f} ELSE @ \cup {f}]
    /\ UNCHANGED <<db, entry, flight, last, state, visited>>

(* Mutant: the entry stays when its last address is removed. *)
WithoutKept(h, F) == h \ F

(* An entry goes with its last address. *)
Without(h, F) == IF h \subseteq F THEN NoHost ELSE h \ F

(* no service NAME, or no service NAME at IP. *)
mslookup_server_msc_service_del(s, v, F) ==
    /\ hosts[s][v] # NoHost /\ hosts[s][v] \cap F # {}
    /\ hosts' = [hosts EXCEPT ![s][v] = Without(@, F)]
    /\ UNCHANGED <<db, entry, flight, last, state, visited>>

Next ==
    \/ \E s \in Site, v \in Vlr : BeginLu(s, v)
    \/ \E m \in flight :
          \/ lu_start(m)
          \/ dgsm_check_forward_gsup_msg(m)
          \/ proxy_acknowledge_gsup_from_remote_hlr(m)
          \/ MessageLost(m)
    \/ \E s \in Site : proxy_cleanup(s) \/ subscriber_create(s) \/ subscriber_delete(s)
    \/ \E s \in Managed, v \in Configured :
          \/ \E f \in Family : mslookup_server_msc_service_set(s, v, f)
          \/ \E F \in (SUBSET Family) \ {{}} : mslookup_server_msc_service_del(s, v, F)
    \/ Tick

Spec == Init /\ [][Next]_vars

-----------------------------------------------------------------------------
(* Properties. *)

(* The operator of the site has left an address for the MSC or for all. *)
Offered(s, v) == \E u \in {v, NoVlr} : hosts[s][u] # NoHost /\ hosts[s][u] # {}

(* If the latest location update succeeded, without a message of an        *)
(* earlier one in between, is not too old, and its site offers the         *)
(* service, then this site answers, with the VLR of that location update,  *)
(* and no other site has a younger answer: in whatever order the           *)
(* subscriber visits sites and the sites gain or lose it.                  *)
YoungestWins ==
    state = "done" /\ last.age <= MaxAge /\ Offered(last.site, last.vlr)
      => LET answer == mslookup_server_rx(last.site)
         IN  /\ answer.found
             /\ answer.vlr = last.vlr
             /\ \A s \in Site : mslookup_server_rx(s).found
                                   => answer.age <= mslookup_server_rx(s).age

(* A site answers only for a VLR of its own where the subscriber has begun *)
(* a location update, also if it is the home HLR of the subscriber or      *)
(* stands between the home HLR and another site.                           *)
AnswersWhereAttached ==
    \A s \in Site : mslookup_server_rx(s).found
                       => <<s, mslookup_server_rx(s).vlr>> \in visited

=============================================================================
