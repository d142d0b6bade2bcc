------------------------------- MODULE Proxy -------------------------------
(***************************************************************************)
(* Distributed GSM: messages about subscribers that are not in the local   *)
(* database are forwarded to their home HLR, which is looked up first, and *)
(* to which a link must be established; they are deferred until then.      *)
(*                                                                         *)
(* Composes src/src/dgsm.c, src/src/proxy.c and src/src/remote_hlr.c.  The *)
(* mslookup client is seen as in MslookupClient: a lookup ends once, with  *)
(* an address or without.  A link is seen as by the up/down call-back of   *)
(* src/src/gsupclient/gsup_client.c.                                       *)
(***************************************************************************)
EXTENDS Naturals

CONSTANTS
    Imsi,      \* subscriber identities
    Vlr,       \* peer names of local MSCs and SGSNs
    Hlr,       \* addresses of remote HLRs
    NoVlr,     \* an empty name
    NoAddr,    \* an address of zeros
    NoEntry,   \* no proxy entry for the IMSI
    MaxReq     \* bound on the messages received in a behaviour

ASSUME NoAddrAssumption == NoAddr \notin Hlr
ASSUME NoVlrAssumption == NoVlr \notin Vlr
ASSUME MaxReqAssumption == MaxReq \in Nat

VARIABLES
    entry,     \* proxy->subscr_list, by IMSI
    reqs,      \* the messages received, by the order of reception
    nextNr,    \* the number of the next message
    lookup,    \* IMSIs with an mslookup request in progress
    link,      \* remote_hlrs, by address
    local,     \* IMSIs in the local subscriber database
    active,    \* osmo_mslookup_client_active()
    gateway,   \* gsup_gateway_proxy
    latest,    \* history: who sent the latest Update Location to the proxy
    lost       \* history: messages that were deferred when the link they
               \* waited for failed, or their proxy entry was discarded

vars == <<entry, reqs, nextNr, lookup, link, local, active, gateway, latest, lost>>

Domain == {"cs", "ps"}
Nr == 1..MaxReq
Names == [Domain -> Vlr \cup {NoVlr}]

(* vlr, prelim: vlr_name and vlr_name_preliminary of cs and ps. *)
Entry == [addr: Hlr \cup {NoAddr}, vlr: Names, prelim: Names]

ASSUME NoEntryAssumption == NoEntry \notin Entry

(* An Update Location request for a domain, or for none, or another kind   *)
(* of message.                                                             *)
Kind == Domain \cup {"no_domain", "other"}

(* proxy->pending_gsup_reqs are the deferred ones, in this order.          *)
Request == [st: {"unused", "local", "deferred", "forwarded", "refused"},
            imsi: Imsi, vlr: Vlr, kind: Kind]

(* No struct remote_hlr; one that is connecting, with or without members   *)
(* in pending_up_callbacks; and one that is connected.                     *)
Link == {"none", "connecting", "awaited", "up"}

TypeOK ==
    /\ entry \in [Imsi -> Entry \cup {NoEntry}]
    /\ reqs \in [Nr -> Request]
    /\ nextNr \in 1..(MaxReq + 1)
    /\ lookup \subseteq Imsi
    /\ link \in [Hlr -> Link]
    /\ local \subseteq Imsi
    /\ active \in BOOLEAN
    /\ gateway \in Hlr \cup {NoAddr}
    /\ latest \in [Imsi -> Names]
    /\ lost \subseteq Nr

NoNames == [d \in Domain |-> NoVlr]

Init ==
    /\ entry = [i \in Imsi |-> NoEntry]
    /\ \E i \in Imsi, v \in Vlr :
          reqs = [n \in Nr |-> [st |-> "unused", imsi |-> i, vlr |-> v, kind |-> "other"]]
    /\ nextNr = 1
    /\ lookup = {}
    /\ link = [h \in Hlr |-> "none"]
    /\ local = {}
    /\ active \in BOOLEAN
    /\ gateway \in Hlr \cup {NoAddr}
    /\ latest = [i \in Imsi |-> NoNames]
    /\ lost = {}

-----------------------------------------------------------------------------
(* Deferred messages and links.  The operators below take the links l, the *)
(* messages r and the proxy entries e in the midst of a handler, and       *)
(* return the links and messages that may result.                          *)

Outcome(l, r) == [link |-> l, reqs |-> r]

proxy_deferred_gsup_req_waiting(r, i) ==
    \E n \in Nr : r[n].st = "deferred" /\ r[n].imsi = i

(* The messages of the IMSIs in S leave the queue: with a link that is up  *)
(* they are forwarded, else their senders get an error.                    *)
proxy_deferred_gsup_req_pop(r, S, st) ==
    [n \in Nr |-> IF r[n].st = "deferred" /\ r[n].imsi \in S
                  THEN [r[n] EXCEPT !.st = st] ELSE r[n]]

(* The subscribers of the HLR at an address. *)
HomedAt(e, h) == {i \in Imsi : e[i] # NoEntry /\ e[i].addr = h}

proxy_remote_hlr_connect_result_cb(r, e, h, st) ==
    proxy_deferred_gsup_req_pop(r, HomedAt(e, h), st)

(* remote_hlr_get_or_connect() with that call-back: called at once if the  *)
(* link is up or cannot be created, else remembered.                       *)
remote_hlr_get_or_connect(l, r, e, h) ==
    IF l[h] = "up"
    THEN {Outcome(l, proxy_remote_hlr_connect_result_cb(r, e, h, "forwarded"))}
    ELSE IF l[h] = "none"
    THEN {Outcome([l EXCEPT ![h] = "awaited"], r),
          Outcome(l, proxy_remote_hlr_connect_result_cb(r, e, h, "refused"))}
    ELSE {Outcome([l EXCEPT ![h] = "awaited"], r)}

(* Mutant: messages that are spooled already wait for the next one. *)
ResolvedQuietly(l, r, e, i, h) == {Outcome(l, r)}

(* proxy_subscr_remote_hlr_resolved(), after the address was stored. *)
proxy_subscr_remote_hlr_resolved(l, r, e, i, h) ==
    IF proxy_deferred_gsup_req_waiting(r, i)
    THEN remote_hlr_get_or_connect(l, r, e, h)
    ELSE {Outcome(l, r)}

(* Mutant: one preliminary name, not one per domain. *)
AcknowledgeOneName(x, v, kind) ==
    IF kind \in Domain THEN [x EXCEPT !.prelim = v] ELSE x

(* proxy_acknowledge_gsup_to_remote_hlr(): the entry afterwards. *)
proxy_acknowledge_gsup_to_remote_hlr(x, v, kind) ==
    IF kind \in Domain THEN [x EXCEPT !.prelim[kind] = v] ELSE x

(* Mutant: a message that has to wait does not ask for the link. *)
ForwardPassively(l, r, e, i, n) ==
    {Outcome(l, [r EXCEPT ![n].st = "deferred"])}

(* Mutant: a link that exists is taken for one that is up. *)
ForwardIfExists(l, r, e, i, n) ==
    LET deferred == [r EXCEPT ![n].st = "deferred"] IN
    IF e[i].addr = NoAddr THEN {Outcome(l, deferred)}
    ELSE IF l[e[i].addr] # "none" THEN {Outcome(l, [r EXCEPT ![n].st = "forwarded"])}
    ELSE remote_hlr_get_or_connect(l, deferred, e, e[i].addr)

(* proxy_subscr_forward_to_remote_hlr() for message n. *)
proxy_subscr_forward_to_remote_hlr(l, r, e, i, n) ==
    LET deferred == [r EXCEPT ![n].st = "deferred"] IN
    IF e[i].addr = NoAddr THEN {Outcome(l, deferred)}
    ELSE IF l[e[i].addr] = "up" THEN {Outcome(l, [r EXCEPT ![n].st = "forwarded"])}
    ELSE remote_hlr_get_or_connect(l, deferred, e, e[i].addr)

-----------------------------------------------------------------------------
(* Messages from a VLR. *)

(* read_cb() takes a message to the proxy only if D-GSM is configured.     *)
(* dgsm_check_forward_gsup_msg() leaves local subscribers to the handlers. *)
HandledLocally(i) == ~(active \/ gateway # NoAddr) \/ i \in local

(* The proxy entry with which the message is forwarded or deferred: an     *)
(* existing one, one with the address of the gateway, or an empty one to   *)
(* show that a lookup is under way.                                        *)
EntryFor(i) ==
    IF entry[i] # NoEntry THEN entry[i]
    ELSE [addr |-> gateway, vlr |-> NoNames, prelim |-> NoNames]

Rx(v, i, kind) ==
    LET n == nextNr
        r == [reqs EXCEPT ![n] = [st |-> "local", imsi |-> i, vlr |-> v, kind |-> kind]]
        first == [entry EXCEPT ![i] = EntryFor(i)]
        e == [entry EXCEPT ![i] =
                 proxy_acknowledge_gsup_to_remote_hlr(EntryFor(i), v, kind)]
    IN
    /\ nextNr \in Nr
    /\ nextNr' = nextNr + 1
    /\ \/ /\ HandledLocally(i)
          /\ reqs' = r
          /\ UNCHANGED <<entry, lookup, link, latest>>
       \/ /\ ~HandledLocally(i)
          /\ entry' = e
          /\ \E found \in
                IF entry[i] = NoEntry /\ gateway # NoAddr
                THEN proxy_subscr_remote_hlr_resolved(link, r, first, i, gateway)
                ELSE {Outcome(link, r)} :
             \E sent \in
                proxy_subscr_forward_to_remote_hlr(found.link, found.reqs, e, i, n) :
                   link' = sent.link /\ reqs' = sent.reqs
          /\ lookup' = IF EntryFor(i).addr = NoAddr THEN lookup \cup {i} ELSE lookup
          /\ latest' = IF kind \in Domain THEN [latest EXCEPT ![i][kind] = v] ELSE latest
    /\ UNCHANGED <<local, active, gateway, lost>>

-----------------------------------------------------------------------------
(* Results of lookups. *)

(* resolve_hlr_result_cb() with an address. *)
LookupSucceeds(i, h) ==
    LET e == [entry EXCEPT ![i] = [@ EXCEPT !.addr = h]] IN
    /\ i \in lookup
    /\ lookup' = lookup \ {i}
    /\ IF entry[i] = NoEntry THEN UNCHANGED <<entry, link, reqs>>
       ELSE /\ entry' = e
            /\ \E found \in proxy_subscr_remote_hlr_resolved(link, reqs, e, i, h) :
                  link' = found.link /\ reqs' = found.reqs
    /\ UNCHANGED <<nextNr, local, active, gateway, latest, lost>>

proxy_subscr_del(i) ==
    /\ reqs' = proxy_deferred_gsup_req_pop(reqs, {i}, "refused")
    /\ entry' = [entry EXCEPT ![i] = NoEntry]

(* resolve_hlr_result_cb() without a result, or without a valid address. *)
LookupFails(i) ==
    /\ i \in lookup
    /\ lookup' = lookup \ {i}
    /\ proxy_subscr_del(i)
    /\ UNCHANGED <<nextNr, link, local, active, gateway, latest, lost>>

-----------------------------------------------------------------------------
(* Links. *)

(* remote_hlr_up_down(true): the pending call-backs are called. *)
LinkUp(h) ==
    /\ link[h] \in {"connecting", "awaited"}
    /\ link' = [link EXCEPT ![h] = "up"]
    /\ reqs' = IF link[h] = "awaited"
               THEN proxy_remote_hlr_connect_result_cb(reqs, entry, h, "forwarded")
               ELSE reqs
    /\ UNCHANGED <<entry, nextNr, lookup, local, active, gateway, latest, lost>>

DeferredOf(S) == {n \in Nr : reqs[n].st = "deferred" /\ reqs[n].imsi \in S}

(* remote_hlr_up_down(false): the link drops or cannot be established.     *)
(* The pending call-backs are freed with it, and not called.               *)
LinkDown(h) ==
    /\ link[h] # "none"
    /\ link' = [link EXCEPT ![h] = "none"]
    /\ lost' = lost \cup DeferredOf(HomedAt(entry, h))
    /\ UNCHANGED <<entry, reqs, nextNr, lookup, local, active, gateway, latest>>

(* A PONG is missing: the link is opened again, and the user not told. *)
ping_timer_cb(h) ==
    /\ link[h] = "up"
    /\ link' = [link EXCEPT ![h] = "connecting"]
    /\ UNCHANGED <<entry, reqs, nextNr, lookup, local, active, gateway, latest, lost>>

(* Mutant: the name is taken from the result, whoever asked last. *)
AcknowledgeAny(x, v) ==
    [x EXCEPT !.vlr = [d \in Domain |-> IF x.prelim[d] # NoVlr THEN v ELSE x.vlr[d]],
              !.prelim = NoNames]

(* proxy_acknowledge_gsup_from_remote_hlr() for an Update Location result  *)
(* to v: the entry afterwards.  If v is in neither domain the one that is  *)
(* expected, the entry is unchanged and the result is not forwarded.       *)
proxy_acknowledge_gsup_from_remote_hlr(x, v) ==
    [x EXCEPT !.vlr = [d \in Domain |-> IF x.prelim[d] = v THEN v ELSE x.vlr[d]],
              !.prelim = [d \in Domain |-> IF x.prelim[d] = v THEN NoVlr ELSE x.prelim[d]]]

(* remote_hlr_rx(): the home HLR accepts a location update it was sent,    *)
(* early, late or once more, and its VLR has a route.  Other messages, and *)
(* those to a VLR that is not connected, change nothing modelled here.     *)
remote_hlr_rx(h, n) ==
    LET i == reqs[n].imsi IN
    /\ link[h] = "up"
    /\ reqs[n].st = "forwarded" /\ reqs[n].kind # "other"
    /\ entry[i] # NoEntry
    /\ entry' = [entry EXCEPT ![i] =
                    proxy_acknowledge_gsup_from_remote_hlr(@, reqs[n].vlr)]
    /\ UNCHANGED <<reqs, nextNr, lookup, link, local, active, gateway, latest, lost>>

-----------------------------------------------------------------------------
(* Time, configuration and the local database. *)

(* Entries are discarded an hour after their last update, which is long    *)
(* after a lookup has ended.  Messages deferred for them are not popped.   *)
proxy_cleanup(S) ==
    /\ S # {}
    /\ \A i \in S : entry[i] # NoEntry /\ i \notin lookup
    /\ entry' = [i \in Imsi |-> IF i \in S THEN NoEntry ELSE entry[i]]
    /\ lost' = lost \cup DeferredOf(S)
    /\ UNCHANGED <<reqs, nextNr, lookup, link, local, active, gateway, latest>>

(* The mDNS method is started or stopped; open requests run until their    *)
(* time-out.                                                               *)
dgsm_mdns_client_config_apply ==
    /\ active' = ~active
    /\ UNCHANGED <<entry, reqs, nextNr, lookup, link, local, gateway, latest, lost>>

cfg_gateway_proxy(h) ==
    /\ gateway' = h
    /\ UNCHANGED <<entry, reqs, nextNr, lookup, link, local, active, latest, lost>>

(* A subscriber is created or deleted. *)
LocalSubscriber(i) ==
    /\ local' = IF i \in local THEN local \ {i} ELSE local \cup {i}
    /\ UNCHANGED <<entry, reqs, nextNr, lookup, link, active, gateway, latest, lost>>

Next ==
    \/ \E v \in Vlr, i \in Imsi, kind \in Kind : Rx(v, i, kind)
    \/ \E i \in Imsi : \/ \E h \in Hlr : LookupSucceeds(i, h)
                       \/ LookupFails(i)
                       \/ LocalSubscriber(i)
    \/ \E h \in Hlr : \/ LinkUp(h) \/ LinkDown(h) \/ ping_timer_cb(h)
                      \/ \E n \in Nr : remote_hlr_rx(h, n)
    \/ \E S \in SUBSET Imsi : proxy_cleanup(S)
    \/ dgsm_mdns_client_config_apply
    \/ \E h \in Hlr \cup {NoAddr} : cfg_gateway_proxy(h)

Spec == Init /\ [][Next]_vars

(* An mslookup request always ends (RequestEnds of MslookupClient), and so *)
(* does an attempt to connect.                                             *)
Fairness ==
    /\ \A i \in Imsi : WF_vars(LookupFails(i) \/ \E h \in Hlr : LookupSucceeds(i, h))
    /\ \A h \in Hlr : WF_vars(LinkUp(h) \/ (link[h] # "up" /\ LinkDown(h)))

FairSpec == Spec /\ Fairness

-----------------------------------------------------------------------------
(* Properties. *)

(* A proxy entry without an address means that a lookup is under way, and  *)
(* a lookup always finds its entry: no subscriber is left with an entry    *)
(* that nothing will complete or delete, and no IMSI is looked up twice    *)
(* at a time.                                                              *)
LookupMatchesEntry ==
    \A i \in Imsi : i \in lookup <=> entry[i] # NoEntry /\ entry[i].addr = NoAddr

(* Messages about one subscriber are forwarded in the order of their       *)
(* reception: none is forwarded past one that is still deferred, not even  *)
(* past one that was left behind when a link failed.                       *)
ForwardedInOrder ==
    \A m, n \in Nr : m < n /\ reqs[m].imsi = reqs[n].imsi /\ reqs[n].st = "forwarded"
                        => reqs[m].st # "deferred"

(* A deferred message has something under way that will conclude it: the   *)
(* lookup, or a pending call-back of the link to its HLR.  The exceptions  *)
(* are a link that failed and an entry that was discarded meanwhile.       *)
Awaited ==
    \A n \in Nr : reqs[n].st = "deferred" /\ n \notin lost =>
        LET x == entry[reqs[n].imsi]
        IN  x # NoEntry /\ (x.addr = NoAddr \/ link[x.addr] = "awaited")

(* The VLR on record for a domain only changes to the one that sent the    *)
(* latest location update for it: the result of an earlier one, from the   *)
(* VLR that the subscriber has left, does not move it back.                *)
LatestStep ==
    \A i \in Imsi, d \in Domain :
        /\ entry[i] # NoEntry /\ entry'[i] # NoEntry
        /\ entry'[i].vlr[d] # entry[i].vlr[d]
        => entry'[i].vlr[d] = latest[i][d]

(* LatestStep holds of every step. *)
VlrMovesToLatest == [][LatestStep]_vars

(* What remote_hlr.h says of the call-back, "The connected remote_hlr      *)
(* ready for sending, or NULL if connecting failed": when a link that is   *)
(* waited for fails, the senders of the messages deferred for it are told. *)
FailureReported ==
    [][\A h \in Hlr, n \in Nr :
          /\ link[h] = "awaited" /\ link'[h] = "none"
          /\ n \in DeferredOf(HomedAt(entry, h))
          => reqs'[n].st = "refused"]_vars

(* A deferred message is forwarded or refused, unless it was lost. *)
DeferredConcludes ==
    \A n \in Nr : reqs[n].st = "deferred" ~> reqs[n].st # "deferred" \/ n \in lost

=============================================================================
