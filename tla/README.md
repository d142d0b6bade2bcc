# A verification project for osmo-hlr

TLA+ models of osmo-hlr, the Osmocom Home Location Register: an HLR/AuC that
serves MSCs and SGSNs over GSUP, relays supplementary services, and, with
D-GSM, finds subscribers of other sites by multicast lookup. The modules are
translated from `src/src/` and `src/include/`; `PROJECT.json` maps each
definition to its lines. TLC checks small instances, TLAPS proves the central
invariants for all instances.

1. [The system](#1-the-system)
2. [Plan](#2-plan)
3. [Modules and how they correspond to the code](#3-modules-and-how-they-correspond-to-the-code)
4. [Runs](#4-runs)
5. [Proofs](#5-proofs)
6. [Disagreements between code and documentation](#6-disagreements-between-code-and-documentation)
7. [What is not modelled](#7-what-is-not-modelled)

## 1. The system

osmo-hlr is one process with one thread: `osmo_select_main()` calls a handler
for each readable socket and expired timer, and a handler runs to completion.
So there are no data races; what makes the program hard is that every dialogue
spans several handlers, and that between two of them anything may happen:
messages of other peers, time-outs, operator commands, connections closing.
Pointers, cached names and copied rows that a dialogue keeps across that gap
are where it can go wrong.

| component | state it keeps | operations | must be right about |
|---|---|---|---|
| GSUP server and router (`gsup_server.c`, `gsup_router.c`, `gsup_send.c`) | list of clients sorted by IND; peer name of each; routes name -> connection | accept, identify (CCM), close, receive, send to a connection or a name, forward to a local peer | a name leads to one live connection; a response reaches the client that asked; INDs distinct and stable |
| GSUP requests (`gsupclient/gsup_req.c`, `cni_peer_id.c`) | one record per received message: source, via-proxy, serial number | new, respond (final or intermediate), free | every request is concluded exactly once |
| Location Updating (`lu_fsm.c`, handlers in `hlr.c`, rows in `db_hlr.c`) | `g_all_lu`: per update in progress, its request, subscriber copy, domain, VLR | Update Location, Insert Data Result/Error, timer -4222, Purge MS, Check IMEI, access mode | one answer per request; the location moves only when it should; serving peers are told of changes |
| Supplementary services (`hlr_ussd.c`, parts of `hlr_vty.c`) | sessions by IMSI and ID, with the first request, cached VLR, responsible EUSE or internal handler; EUSE list, routes, default | BEGIN, CONTINUE, END, error, guard timer; configuration of EUSEs and routes | a session stays with its two ends, ends, and frees its request |
| mslookup client (`mslookup_client.c`, `mslookup_client_mdns.c`) | open requests with handle, timer, best result; the mDNS method's own list | request, cancel, reply, two time-outs | handles name one request; the youngest result is passed on; one last call; always an end |
| D-GSM proxy (`dgsm.c`, `proxy.c`) | proxy entries by IMSI with remote HLR, VLR names (also preliminary), time stamps; deferred messages | forward or defer, mslookup result, response from the home HLR, garbage collection | deferred messages are forwarded or refused, never stuck or used after they are freed |
| links to remote HLRs (`remote_hlr.c`) | list of clients by address; pending call-backs | get-or-connect, up, down | each pending call-back is called once |
| GSUP client link (`gsupclient/gsup_client.c`) | socket, write queue, `is_connected`, connect and ping timers, PONG flag | create, connect, reconnect, PING, send, destroy | a wanted link recovers; nothing leaves on the wrong connection; silence after the user gave up |
| osmo-mslookup-client (`mslookup/osmo-mslookup-client.c`) | clients of its socket, each with the text it asked; list of queries by handle | accept, read a line, start a query, pass on results, exit | everybody who asked is answered, whoever else asks |
| mslookup server (`mslookup_server.c`, `mslookup_server_mdns.c`) | per-MSC service addresses; reads subscriber rows and proxy | answer a query for a service | only one that serves the subscriber answers, with its attach age |
| AuC (`auc.c`, `db_auc.c`) | SQN, IND per subscriber in the database | generate vectors, resynchronise, store SQN | SQNs are fresh for the USIM |
| database (`db.c`, `db_hlr.c`, `hlr_db_tool.c`) | SQLite tables, schema version | open, bootstrap, upgrade, update rows, import | an interrupted upgrade can be taken up again; a subscriber never gets another one's keys |
| VTY and CTRL (`hlr_vty*.c`, `dgsm_vty.c`, `ctrl.c`) | none of their own | change rows and configuration while dialogues are in progress | the same as the handlers they compete with |
| mDNS encoding, mslookup strings, tools, logging | none that outlives a call | encode and decode | not a state machine; left to unit tests |

How they interact: `read_cb()` in `hlr.c` dispatches a GSUP message by type, to
`lu_fsm`, to `hlr_ussd`, to the AuC, or, if the IMSI is not one of the HLR's
own, to `dgsm`. Each of these keeps the `osmo_gsup_req` it was given and answers
it later through the GSUP server, which finds the connection by the *name* of
the requester and not by the connection the message came from. The operator
interfaces call the database functions directly and, for some changes,
`osmo_hlr_subscriber_update_notify()`, which sends Insert Data to the serving
clients. `dgsm` starts an mslookup request, and its result makes `remote_hlr`
open a GSUP client link over which the deferred messages leave.

The hazards that follow from this are listed in `PROJECT.json` with their lines
and the properties that watch over them. Five are typical:

* An answer is matched by IMSI only (`lu_fsm.c:209`), by name only
  (`gsup_server.c:85`), by query only (`mslookup_client_mdns.c:61`): it may be
  the answer to something else.
* A time-out races the answer it is meant to replace (`lu_fsm.c:222`,
  `mslookup_client.c:200`, `hlr_ussd.c:204`).
* Something is freed while another dialogue refers to it: a connection
  (`gsup_server.c:300`), a subscriber (`lu_fsm.c:138`), an EUSE
  (`hlr_vty.c:315`), a request cancelled from its own call-back
  (`mslookup_client.c:214`).
* A counter or table meets its boundary: IND allocation from gaps
  (`gsup_server.c:337`), request handles that wrap around
  (`mslookup_client.c:258`), INDs that share slots (`db_auc.c:210`).
* One step of several fails or the program stops in between: a location is
  recorded and its time stamp not (`lu_fsm.c:188`), vectors are made and the SQN
  is not stored (`db_auc.c:236`), a schema is upgraded in part (`db.c:603`), a
  subscriber is deleted and its keys are not (`db_hlr.c:132`).

## 2. Plan

In order of importance; all steps are done.

1. `GsupServer` (done, proved): connections, INDs, routes, requests. All other
   components answer through it.
2. `LuFsm` (done, proved): the dialogue that the HLR exists for.
3. `Ussd` (done, proved): the longest-lived dialogues, with configuration changing
   under them.
4. `MslookupClient` (done, proved): the asynchronous part of D-GSM that everything else
   there waits for.
5. `Proxy` (done, proved): `dgsm.c`, `proxy.c` and `remote_hlr.c` as
   one composition: deferred messages, mslookup results, links that come up
   late or never, garbage collection.
6. `Auc` (done, proved): SQN and IND arithmetic against the USIM's freshness rule, with
   failed updates and resynchronisation, using the INDs `GsupServer` gives out.
7. `MslookupServer` (done, proved): several sites as a whole. Who answers a query, from
   subscriber rows and proxy entries, while location updates travel between the
   sites.
8. `DbOpen` (done, proved): bootstrapping and schema upgrades, stopped anywhere.
9. `GsupClient` (done, proved): connect, ping and reconnect timers, and the
   up/down call-back, against the abstract `Link`.
10. Row updates that are several statements (done, in `DbOpen`, because the
    crash model is the same): creation, deletion, keys and the import, with the
    row ids that SQLite gives away again.
11. Abstract specifications (done): `Directory`, which `GsupServer` implements
    (proved); `Link`, which `GsupClient` implements (proved); `Lookup`, which
    `MslookupClient` implements inside `MslookupProgram` (proved). And
    `MslookupProgram` (done, proved): the program that asks for others, composed
    with the client.
12. Proofs (section 5): done for `GsupServer`, `GsupClient`, `LuFsm`, `Proxy`,
    `Auc`, `DbOpen`, `Ussd`, `MslookupServer` and `MslookupProgram` with
    `MslookupClient`, each with all the safety properties that its passing runs
    check.

## 3. Modules and how they correspond to the code

All modules take one handler for one action, because the event loop does. What
a handler calls, down to the database update and the message it sends, is in
the same action. Names are those of the C functions; a handler with several
outcomes is one action with disjuncts. History variables are said to be so
where they are declared and are read by properties only.

### GsupServer

`clients` is `gs->clients` in list order, `ind` and `peer` are
`conn->auc_3g_ind` and `conn->peer_name`, `routes` is `gs->routes`, `reqs` the
allocated `osmo_gsup_req` records. `tx` records the last message sent.

* `osmo_gsup_server_accept_cb` inserts the connection behind the first client
  that has a gap after it, or at the front if IND 0 is free, exactly where
  `osmo_gsup_server_add_conn()` does.
* `osmo_gsup_server_ccm_cb` stores the name and adds a route. A name that
  another connection has is refused by `gsup_route_add()`, and the caller
  ignores that.
* `osmo_gsup_conn_rx` fixes the source of a request: the name in the Source
  Name IE, which adds a route through the sending proxy, or else the client's
  own name. Messages without a usable IMSI are rejected at once.
* `osmo_gsup_req_respond` and `osmo_gsup_req_free` are what handlers may do with a
  request, now or later.
* `read_cb_forward` is what `hlr.c` does with a message that has another
  destination: it goes to that peer, or the sender gets a routing error.
* `osmo_gsup_server_closed_cb` removes the connection and its routes. Requests
  that came from it stay, as in the code: they hold names only.

Abstracted: payloads, and the handlers (any allowed conclusion at any time).

`Directory` is what the server is to all who send by name: a name is given to the
first connection that claims it, is never taken from a connected holder or given
to another, and is free again when its holder leaves. The mapping is `present`
<- the connections in `clients`, `listed` <- `routes`. `DirectoryKept` says
`GsupServer` implements it: no step adds two names, moves a name, or takes away
a name together with anything but all names of one connection.

### GsupClient

`sock` and `queue` are the IPA connection under the client (libosmo-abis,
external); the other variables are fields of `struct osmo_gsup_client` and its
two timers. `told` (what the user heard and answered), `refused` and the `fresh`
mark of messages are history.

* `gsup_client_connect` clears the queue, stops the ping timer and opens the
  socket, which is on its way, failed for now (the timer is set), or failed for
  good (nothing is set, and only `osmo_gsup_client_create3` looks at the result).
* `connect_timer_cb`, `LinkUp`, `LinkDown` call `up_down_cb()`; the user may want
  the link, answer false, or destroy the client from within, as
  `remote_hlr_up_down()` does.
* `ping_timer_cb` sends the next PING, or closes and opens the link when no PONG
  came, without telling the user. `RxInvalidCcm` is a link that was closed by the
  CCM handler, also silently.

`Link` is what the user may rely on: messages are taken only after it was told
that the link is up, each loss may be silent, and after it gave the link up it
hears nothing more.

### LuFsm

`subscr` is the subscriber table with the fields that location handling reads
(network access mode, VLR/SGSN number, purged flags, per domain), `lus` is
`g_all_lu` newest first, `reqs` the requests by number, `isd` what the VLRs have
been sent and not answered. `conn` is the router as seen from here: the client
that leads to a peer name. `sup` is `supports_cs`/`supports_ps` of each client's
connection. `data` is history: the number that the last Insert Data told a VLR of
a subscriber, `Unsent` if it was sent none on the present connection, or was told
since to drop the subscriber (an Update Location error, Delete Data).

* `From` is the reception of a message: a client speaks for itself or, with a
  Source Name IE, as the proxy of another VLR, which adds a route through it. The
  client may still be without a name.
* `rx_upd_loc_req` is the handler and `lu_start()` as a whole: the domain is noted
  of the *client's* connection (`hlr.c:336`, `:344`), then on-demand creation
  (which may fail), the refusals in the order of the code, `db_subscr_lu()` for the
  *VLR* with its failure before (`early`) or after (`late`) the row was changed,
  then Insert Data and a new list member. The via-proxy name that is stored with
  the location is in `MslookupServer`, the only reader of it.
* `RxInsertDataResult` and `RxInsertDataError` go through `lu_rx_gsup()`, which
  picks the *first* list member with the IMSI. `lu_fsm_timer_cb` ends one.
* `rx_purge_ms_req`, `rx_check_imei_req`, `RxLocationCancel` are the other
  location messages; `PeerUp`/`PeerDown` come from the GSUP server. Two
  connections that claim one name are the subject of `GsupServer`, not of this
  module.
* `subscriber_create`, `subscriber_delete`, `subscriber_nam`,
  `subscriber_msisdn` and `set_subscr_cs_ps_enabled` are the operator's
  commands. `subscriber_nam` tells serving peers through `hlr_subscr_nam()`;
  `set_subscr_cs_ps_enabled` does not. `subscriber_msisdn` sends the row it has
  read again if the number is new, nothing if that reading fails (no more is then
  claimed of what VLRs know), and the row it had read *before* if the number is
  removed.

Left out: the random MSISDN that on-demand creation may assign, the domains that a
client is marked with before it has identified itself, and the Source Name IE of
such a client.

### Ussd

`sess` maps IMSI and session ID to `struct ss_session`; `euses`, `route`,
`default` are the configuration; `up` the connected peers; `vlrOf` the
subscriber's VLR number; `due` the sessions whose guard time has passed and
whose timer has not been served.

* `RxBegin`, `RxContinue`, `RxEnd` are the three cases of `rx_proc_ss_req()`,
  each with structured and unstructured requests, from phone and EUSE.
  `handle_ussd` and `ss_gsup_send_to_ms` say what the session is afterwards.
* `cfg_no_euse` frees an EUSE and leaves the pointers of routes and sessions:
  they become `Freed`. Reading a freed name may find any name or end the
  program; calling the list pointer of an EUSE record as if it were an internal
  handler ends it. `Restart` then is what systemd does.
* `LocationChanges` and `PeerConnects` stand for the other components.

USSD code prefixes are abstracted to disjoint classes. Contents are left out.

### MslookupClient

`req` holds the requests, `mdns` the method's list, `next` the handle counter
modulo `HandleMod`. `timeout_cb` has the two cases of the code (`MinWaitPassed`,
`FinalTimeout`); `mdns_method_recv` delivers a reply to the newest request with
the query and calls `osmo_mslookup_client_rx_result`, whose user may cancel from
within. With `CancelInTimeout` the user may do so from `timeout_cb()` as well
(`MayCancel`).
The fields `heard`, `told`, `calls` and `finals` of a request, and `dangling`,
are history.

`Lookup` is what a request promises its user, as `mslookup_client.h` has it: ever
younger results, "not found yet" as long as there is none (`NotYet`), one last call
with the youngest that was received, and no call after that. It takes over the
record of each request without handle, query and timers. The client never takes
the step `NotYet`, although the header promises it for the end of the initial
delay: that is `CalledAfterDelay` (section 6).

### MslookupProgram

osmo-mslookup-client on top of `MslookupClient`; in mode `library`, another user
of the library that asks and cancels as it likes. `client` is the text each
connection of the socket has asked, `queries` the program's own list by handle,
`argv` what is left of the command line, `handled` and `woken` what the main loop
looks at before it exits.

* `socket_read_cb` records the text of a client before it starts the query, which
  may expire an older request with the same handle and so call back in between.
* `mslookup_result_cb` answers to all clients with the text of the query, and
  closes them if it is the last answer. `QueryInvalid` is `respond_err()`.
* `TimerExpires` lets a user of the library cancel in a call from `timeout_cb()`,
  and the program not: its `mslookup_result_cb()` cancels nothing.
* `ProgramExits` is the end of the loop in `main()`: one-shot mode, at least one
  query was handled, none is left, and `osmo_select_main_ctx()` has returned.

The output texts are left out, and so is every answer that is not the last:
`respond_result()` keeps such a client open.

### Proxy

`entry` is `proxy->subscr_list` by IMSI, `reqs` the messages by the order of
their reception (those in state `deferred` are `proxy->pending_gsup_reqs`),
`lookup` the IMSIs with an mslookup request, `link` the `struct remote_hlr` of
each address with whether call-backs are pending. `latest` and `lost` are
history.

The handlers call down several layers (`Rx` -> `proxy_subscr_remote_hlr_resolved`
-> `remote_hlr_get_or_connect` -> `proxy_remote_hlr_connect_result_cb` ->
`proxy_deferred_gsup_req_pop`), and creating a client may fail on the way. The
operators of these functions therefore take links, messages and entries as they
are in the midst of a handler and return the *set* of links and messages that
may result; the action picks one.

* `Rx` is `dgsm_check_forward_gsup_msg()` behind the condition of `read_cb()`:
  a local subscriber, an existing entry, the gateway, or a new entry and lookup.
* `LookupSucceeds` and `LookupFails` are `resolve_hlr_result_cb()`. The request
  is made with `min_wait_milliseconds` only, so the call-back is called once.
* `LinkUp`, `LinkDown` are `remote_hlr_up_down()`; on the way down pending
  call-backs are freed with the `remote_hlr`, and what waited is recorded in
  `lost`. `ping_timer_cb` is a reconnect that the user is not told of.
* `remote_hlr_rx` is an Update Location result of the home HLR, at any time and
  any number of times after the request was forwarded.
* `proxy_cleanup` may discard any set of entries that no lookup is open for. The
  exclusion is an argument about time: entries are kept for `fresh_time` = 1 h
  after their last change, and a lookup ends after at most 100 s (the largest
  value of the `timeout` command).
* `dgsm_mdns_client_config_apply`, `cfg_gateway_proxy` and `LocalSubscriber`
  change the configuration and the database under open dialogues.

### Auc

One subscriber. `row3g` is the SQN in its row of `auc_3g`, `ind` the IND of each
client's connection, `held` the unused vectors of each VLR (of a vector, only
the SQN: SEQ above, IND in the lower `ind_bitlen` bits), `auts` a
resynchronisation that a VLR has to hand on, `usim` the highest SEQ the USIM
has accepted in each slot. `askers` and `setBack` are history.

* `rx_send_auth_info` is the whole of `db_get_auc()`: the number of calls that
  have incremented the SQN, the number of vectors returned (one less if the
  separate 2G part of the last one failed) and the success of `db_update_sqn()`
  are chosen, so that every early exit of the loop in `auc_compute_vectors()` is
  there. If the update fails nothing is sent and the row keeps its SQN.
* `Start` is the difference that an AUTS makes: the SQN of the USIM replaces that
  of the row, unconditionally.
* `Reconnect` gives a VLR another IND, as `GsupServer` does; `IndMasked` maps it
  to one of `Slots` slots, which two VLRs may have to share.
* `subscriber_aud3g` is the operator's replacement or removal of the keys, by two
  statements of which each may fail.
* `Authenticate` is the VLR and the USIM, external: a SEQ is accepted if it is
  above the highest one of its slot, else an AUTS with the highest SQN of all
  slots comes back.

### MslookupServer

Several sites, each an HLR with the MSCs around it, and one subscriber. `db` and
`entry` are its row and its proxy entry at each site, with the age of the last
location update in place of a time stamp; `hosts` the service addresses for each
MSC and for all (`NoVlr`). `flight` holds Update Location messages between sites.
`last`, `state` and `visited` are history.

* `mslookup_server_rx` and the operators it uses are the answer that a site would
  give now; `mslookup_server_rx_hlr_gsup` decides where a request can be
  forwarded.
* `lu_start`, `dgsm_check_forward_gsup_msg` and
  `proxy_acknowledge_gsup_from_remote_hlr` are the effects of a message on rows
  and entries. What `LuFsm` and `Proxy` say about waiting, deferring and links is
  here one step or a `MessageLost`.
* `subscriber_create` and `subscriber_delete` make a site a home HLR or not, also
  while it has a proxy entry for the subscriber. Requests then may loop between
  sites; a request is dropped where it would pass a site twice.
* `mslookup_server_msc_service_set` and `..._del` are the operator's commands.

### DbOpen

`disk` is the content of the file (user_version, columns and rows of the
subscriber table; of the other tables, the keys), `view` what the connection
sees, `backup` the temporary table of `db_upgrade_v3()`, `todo` the statements
that the function under way has yet to run: the process runs nothing else until
they are done. A row is an id and an IMSI, a key an id, its kind, and (history)
the subscriber it was set for. `torn`, `failed` and `left` are history.

* `db_open` reads the version and decides on bootstrapping; `RunStatement` runs
  one statement; `NextVersion` is a round of the upgrade loop; `OpenEnds` is the
  final comparison and the preparation of all statements. Then the process is the
  HLR or the database tool.
* A statement that does not fit the schema fails (`StatementUnfit`).
  `Interrupted` is a crash, or in `db_open()` a statement that fails for another
  reason: what was not committed is gone. Then the program is started again, with
  or without `--db-upgrade`.
* Each version of the schema is the list of statements in the code;
  `CREATE TEMPORARY TABLE` with the `INSERT` into it is one, and the tables other
  than `subscriber` are created by one.
* `subscriber_create`, `subscriber_delete`, `subscriber_aud`, `subscriber_no_aud`
  are VTY commands of the HLR, `import_nitb_subscr` and `import_nitb_subscr_aud`
  the import of an OsmoNITB database. Each starts its statements; `StepDone` and
  `StepFails` run them, with the different consequences of an error (`GoesOn`).

## 4. Runs

| run | question | result |
|---|---|---|
| `gsup` | three connections, two names, one request: is the server a `Directory`, do responses reach who asked and INDs stay right while clients come, go and claim names? | passes, 310 095 states |
| `lu_safety` | two VLRs, three messages, all operator commands, on-demand creation: does each request keep one owner and get one answer, do locations move only by an update? | passes, 294 959 states |
| `lu_live` | two messages, numbers that change: does every Update Location end, does a client that serves one domain ever keep an old number? | passes, 93 896 states |
| `ussd` | one session among two VLRs and two EUSEs: does it keep its first request, stay with its ends, and end? | passes, 196 864 states |
| `ussd_lookup` | do the messages of an EUSE follow the phone to another VLR? | violated |
| `mslookup` | two overlapping requests, handles 1 and 2, by a user that cancels or by osmo-mslookup-client for two clients: do the lists of client, method and program agree, is each request a `Lookup`, does it end, and is every client answered? | passes, 134 963 states |
| `mslookup_cancel` | can a request be cancelled at any time? | violated |
| `proxy` | two subscribers, two VLRs, a remote HLR, two messages: do messages leave in order, is something under way for each deferred one, which ends its waiting, does the subscriber end up at the latest VLR? | passes, 775 232 states |
| `gsup_client` | a link that is created, lost in every way, given up and destroyed: is it a `Link`, is nothing stale written, is it always supervised, does it recover? | passes, 130 states |
| `auc` | two VLRs, two slots, INDs 0 to 2, up to two vectors a time: is a vector ever used twice, does the USIM accept what it gets, does resynchronisation heal? | passes, 302 001 states |
| `mslookup_server` | two sites, one MSC name at each, two messages under way: does the site of the latest location update answer, youngest, and nobody else for its VLR? | passes, 3 298 288 states |
| `db_open` | a database of any version and an empty file, two subscribers with keys, any number of starts and interruptions: what can a start rely on, is a subscriber or a key lost, does anybody get another one's key? | passes, 405 183 states |

Each run takes at most about three minutes with two workers (`mslookup_server`).

**Bounds.** `gsup`: three connections are the fewest with which a gap in the
INDs can open in the middle of the list and a name can be disputed while a third
client asks; two names give a proxy a peer to speak for. `lu_safety`: `MaxReq` =
3 messages allow two updates to overlap, with a third message (an answer, purge
or repetition) in between; two VLRs are the old and the new one, or a proxy and
the VLR behind it. It has no numbers, which none of its properties reads;
`lu_live` has, with two messages: one that makes a client a known one and one that
moves the subscriber or overlaps. One number suffices there, because
`PeerKnowsNumber` only tells an old number from the present one, and none is as
good an old one as any. One IMSI is enough, since everything is keyed by IMSI and updates of different subscribers
share nothing but the list. `ussd`: a second EUSE and a second VLR are there for
a message to go astray to; one request record is enough, since a session that
would need another one finds that the leaked one is not there.
`mslookup`: `HandleMod` = 3 leaves two valid handles for `MaxRequest` = 2
requests, so that the wrap-around over zero and the collision with an open
request happen within three requests; ages 0, 1, 2 are the final one, a younger
and an older one. Two connections may ask the same query (`Asked` has one, the
case in which their answers are mixed up); two queries are asked in `library`
mode. `proxy`: two messages are a message that
overtakes another one, or a move with a late result of the first update (which may
come any number of times); if they are about two subscribers they wait for the same
call-back. More messages are left to the theorems, which are about any number. One
remote HLR suffices because an entry has one address that does not change while it
exists.
`gsup_client`: `MaxQueue` = 3 holds a PING and two messages; the queue decides
nothing else, and the state is otherwise finite, so that 130 states are all.
`auc`: two slots (`Slots`) and INDs up to `MaxInd` = 2 are the fewest with which
two VLRs may have slots of their own or share one; `MaxSeq` = 3 leaves room for a
batch of two, a failure, and a resynchronisation, and only cuts off requests
above it. `mslookup_server`: `MaxAge` = `FreshTime` = 1, the relation they have
in the code, with ages above not told apart; `MaxFlight` = 2 lets a late message
of an earlier location update meet the latest one; a second address family, or
services of both sites changing, multiply the states without touching
`hosts` in another way, and three sites are out of reach. `db_open`: `MaxId` = 2
ids for two IMSIs let an id be given to the other subscriber after a deletion;
creating a third row fails, as on a full disk. The rest is finite without
bounds. Symmetry is used in safety runs only. No run disables
deadlock checking: a client may always connect or send; a program that has
exited stutters by `Exited`.

**Fairness.** Only timers are assumed to be served: `lu_fsm_timer_cb` in
`LuFsm`, `timeout_cb` in
`MslookupClient` (as `TimerExpires` in `MslookupProgram`), `GuardElapses` and
`ss_session_timeout` in `Ussd`. Each is armed when the waiting starts
(`osmo_fsm_inst_state_chg` with a timeout; `set_timer()`; `ss_session_alloc()`),
time passes, and `osmo_select_main()` serves every expired timer, so weak
fairness is what the event loop gives. In `Proxy` a lookup ends, which is
`RequestEnds` of `MslookupClient`, and an attempt to connect ends with the
link up or down, as a TCP connect does; the same, and the two timers, are assumed
in `GsupClient`. `MslookupProgram` also starts the queries of its command line,
which it does before it listens. Nothing is assumed of peers, which may
never answer. The guard timer of a session is restarted by each CONTINUE, hence
`SessionEnds` excludes a session that is continued forever, and it assumes
`ncss_guard_timeout` > 0. `Recovers` speaks of runs in which, from some time on,
no attempt to connect fails and no established link is lost (`Mishap`), and the
last attempt did not fail for good.

**What the properties are for.** The type invariants also say that a name, a
handle or a domain that goes into the state has been validated (the mutants
break them by leaving the validation out). Each property of a passing run
has a mutant of the code that violates it, listed in `PROJECT.json`; the mutants
stand in the modules before the definition they replace.

**What the passing properties leave out.** Where the code does go wrong a history
variable marks it, and the property is about the rest: it shows that the marked
case is the only one. `lost` (`Awaited`, `DeferredConcludes`) marks messages whose
link failed, shown by `MCProxyFailure.cfg`, or whose entry was discarded; `left`
(`KeysFollow`) keys that a deletion left, shown by `MCDbOpenDelete.cfg`, or that a crash in a
deletion left; `torn` (`FitsUnlessTorn`) a stop between two statements of one
version; `setBack` (`NoReuse`, `NextAccepted`) a stale AUTS; `refused` (`Supervised`,
`Recovers`) a socket that failed for good. `DialogueStable` says nothing of a
session whose EUSE was removed (`Freed`), and a program that uses it may end
(`Restart`). `torn`, `setBack`, `refused` and `Freed` have no counterexample of their own,
because no text of the repository promises otherwise; section 6 describes them.

## 5. Proofs

`GsupProofs`, its first half about `GsupServer`, for any sets `Conn`, `Name`,
`Req` with `NoConn`, `NoName` outside of them:

* `TypeCorrect`, `RoutesSound` (`RoutesUnique` and `RoutesLive`),
  `ResponsesReachOrigin`, `IndsDistinct` (`ClientsSorted`), the action
  property `IndsFromTheBottom` (`IndAllocation`), and `ServerIsDirectory`
  (`DirectoryKept`: the refinement).
* The inductive invariant is `TypeOK /\ ClientsSorted /\ RoutesUnique /\
  RoutesLive /\ PendingRouted /\ ResponseToOrigin`. `ResponseToOrigin` speaks
  of the last message only; that it holds of the next one needs
  `PendingRouted` (the route that a request left is still there when it is
  answered) and `RoutesUnique` (so it is the one found). `PendingRouted` in turn
  is kept because `gsup_route_add()` never replaces a route, and because closing
  a connection removes exactly its routes. `RoutesLive` needs the client list
  to have no duplicates, which `ClientsSorted` gives.
* `IndsFromTheBottom` follows the loop in `osmo_gsup_server_add_conn()`:
  `GapAfterIs` shows that the INDs before the first gap are 0, 1, 2, ..., and
  `AddConnIs` that inserting behind it keeps the order.
* `ServerIsDirectory` maps each action to `Enter`, `Claim`, `Leave` or a stutter.
  `RoutesUnique` is needed for a claim, and `ClientsSorted` for a departure: the
  connection that leaves is in the list once.

`GsupProofs`, its second half about `GsupClient`, the other end of the protocol, for
any `MaxQueue` > 0:

* `ClientTypeCorrect`, `NeverStale` (`NothingStale`), `LinkSupervised` (`Supervised`)
  and `ClientIsLink` (`LinkKept`: the refinement).
* The inductive invariant adds two facts to the properties. `EmptyAtFirst`:
  nothing is queued while the link is connecting, so that what is queued when it
  comes up was queued on it. `ClientQuiet`: a link that is not wanted has neither socket
  nor timer, which is why its user is never called again.

`LuFsmProofs`, for any `Imsi`, `Vlr`, `Msisdn`, `Nam`, `MaxReq`, `CreateOnDemand` and
`OnDemandNam` that meet the named assumptions:

* `TypeCorrect`, `RequestsOwned` (`LuOwnsRequest`), `RequestsAnsweredOnce`
  (`AnsweredOnce`), `PeersKnowNumbers` (`PeerKnowsNumber`) and the
  action property `LocationsFollowUpdates` (`LocationMoves`).
* The inductive invariant adds `FutureUnused`: a number not yet given out has no
  request, so a new one cannot collide with one that is waiting. `EndLuKeeps`
  is the core: whichever of the three events ends a location update, the
  request and the list member go together.
* `LocationsFollowUpdates` rests on types, and on a look at every action.
* `PeersKnowNumbers` needs `DataHeld`: data is held only by VLRs with a route, and by
  a client only once it has sent a location update. Without it a client could come
  on record for its first domain with a number from a time when changes passed it
  by. A client that is added to the record gets the number with the update
  (`UpdLocSends`); one that is on record for its only domain is a member of
  `Notified` when the number changes (`MsisdnSends`); `DropKeeps` and `RouteKeeps`
  are the actions that only take data away or add a route.

`ProxyProofs`, for any `Imsi`, `Vlr`, `Hlr` and `MaxReq`:

* `TypeCorrect`, `LookupsHaveEntries` (`LookupMatchesEntry`, which no run lists
  because it is proved here), `DeferredAwaited`
  (`Awaited`) and the action property `VlrIsLatest` (`VlrMovesToLatest`).
* The first three together are inductive. `Awaited` needs
  `LookupMatchesEntry`: a message deferred for want of an address is awaited
  only because an entry without address has a lookup. The lemmas follow the
  call chain: `PopIs`, `ConnectKeeps`, `ResolvedKeeps`, `ForwardKeeps` say what
  each layer does to the messages that wait, whatever the outcome.
* `VlrIsLatest` adds `PrelimLatest`: a preliminary name is that of the latest
  update. It is why the result of an earlier update, for the VLR that was left,
  is recognised and changes nothing.
* `OrderKept` (`ForwardedInOrder`) adds `OrderInv`. That a message is not
  forwarded past a deferred one needs to know where deferred messages can be:
  `NoneBehind` says that none belongs to a remote HLR whose link is up or will
  come up without a pending call-back, and `UnusedFrom` that a new message has
  the highest number. A link that comes up pops all its deferred messages before
  anything else is forwarded over it (`PopInOrder`, `ConnectInOrder`).

`AucProofs`, for any VLRs, slots, INDs, batch size and bound on SEQ:

* `TypeCorrect`, `VectorsUnique` (`NoReuse`), `OwnSlotAccepted` (`NextAccepted`)
  and the action property `AutsHeals` (`ResyncHeals`).
* The inductive invariant says how SQNs are spread: a batch is in one slot with
  rising SEQ (`Batch`), the SQN in the database is above all that the USIM has
  seen (`Covered`), and what `NextAccepted` says of the next vector of a VLR
  holds of each one it has (`Accepted`: the next becomes the last one seen, the
  one after it the next). `AskersKnown` and `AutsEmpty` tie vectors to the VLRs
  they were given to. `NoReuse` then follows because new SQNs are above the one in
  the database, and the parts of an SQN are unique (`SqnParts`, `SqnOf`).

`UssdProofs`, for any subscribers, session IDs, VLRs, EUSEs and codes, if no peer
has the name of a marker:

* `TypeCorrect`, `BeginsHeld` (`BeginHeld`), `DialoguesStable`
  (`DialogueStable`), `TimersSound` (a guard timer is pending for a session that
  exists) and `DefaultSound` (the default EUSE is configured).
* The properties are inductive together with `TimersHaveSessions`: without it a
  time-out could free a request that another session holds. `SendKeeps`,
  `HandleKeeps` and `BegunIs` say what happens to one session, `ChangeKeeps`,
  `AddKeeps` and `FreeKeeps` what that means for all of them.

`MslookupServerProofs`, for any sites, VLRs, configuration and number of messages
under way, and any ages with `MaxAge <= FreshTime` (the code sets both to an hour):

* `TypeCorrect`, `YoungestIsLatest` (`YoungestWins`) and `OnlyAttachedAnswer`
  (`AnswersWhereAttached`).
* The inductive invariant follows the latest location update. It has one message
  at most, which leads back to where it was begun (`OneCurrent`; `BackIs` and
  `ForwardIs` say that a proxy on the way does not change that). While it is under
  way no site has anything of its own that is younger, and once it was forwarded
  its own site has no VLR in its database (`WhileBegun`). When it is done either
  the row or the entry of its site has its VLR, and the other one has nothing
  younger (`WhenDone`): that is why the comparison of ages in
  `subscriber_has_done_lu_here()` picks the right one, also if both are of the same
  second. `Attached` is the same for all messages and gives
  `AnswersWhereAttached`. `MaxAge <= FreshTime` is needed where `proxy_cleanup()`
  discards an entry: it must not be one that would still be an answer.

`MslookupProgramProofs`, for any queries, connections, texts asked, ages, number of
requests and width of handles (`HandleMod` >= 2, zero being no handle), and both for
the program and for other users of the library:

* `TypeCorrect` (`ProgramTypeOK`), `ListsAlwaysAgree` (`ListsAgree`), `RecordsSound`
  (what an open request has on record), `RequestsAreLookups` (`LookupKept`: the
  refinement), `TimersFreed` and the action property `ExitsWhenAnswered`
  (`NobodyLeftBehind`: the main loop ends with no request and no client open).
* The inductive invariant adds `OpenSound` to the agreement of the lists: the age
  on record is the youngest that was received, and the user was told of it unless
  the initial delay is not over. Without it the last call of a request could not be
  shown to be with the youngest result, nor a call before it to be with a younger
  one than the last. `NobodyForgotten` (a client that waits has a query in the
  list) is why the program neither exits nor closes the list too early;
  `MethodMirrorsRequests` with `HandlesUnique` is why cleaning up the method's list
  by handle removes the entry of that request (`CleanupIs`, `MirrorForgets`).
* All steps of a request are instances of two: one open request changes or ends
  (`ChangeKeeps`), or one is started and the holder of the same handle, if the
  counter has come round to it, is expired on the way (`StartKeeps`).
  `CallbackKeeps` and `AnsweredIs` do the same for the program's list, also when
  the call-back comes from within the start of another query.
* `TimersFreed`: a timer stays armed for a freed request only if a user of the
  library cancels in a call from `timeout_cb()` (section 6). What the code does
  when such a timer fires is undefined; the model does not follow it further, so
  the other theorems are about programs that do not do this, such as
  osmo-mslookup-client, and about the others up to that moment.

`DbOpenProofs`, for any subscribers, any `MaxId` > 0 and any number of restarts:

* `TypeCorrect`, `VersionsTruthful` (`VersionTruthful`), `OnlyTornFails`
  (`FitsUnlessTorn`), `KeysFollowSubscribers` (`KeysFollow`) and the action
  property `SubscribersNotLost` (`SubscribersKept`).
* None of them is inductive, because each depends on what the statements before
  did. The invariant names the program points: `Opening` lists every list of
  statements that can be left while `db_open()` is at work, each with what file
  and connection hold there (`Begun`, `Altering`, `Transacting`, `Committed`,
  `Bootstrapping`), and `InProgress` does so for operations. `Exact` says that the
  columns are those of the version unless an opening was torn, which gives
  `FitsUnlessTorn`; `Sound` is what holds even then. In the transaction of version
  3 the view differs from the file in its subscriber table only, and the backup has
  the rows of the file, so that an interruption restores them and a commit keeps
  them. `Orphans` (a key without a subscriber is about to be deleted, or is one
  that a deletion cut short left) is why a new subscriber, even with an id that
  was used before, finds nobody's key.

Facts about lists (`RemoveAt`, `InsertAt`, an element at the head) and about sets
of numbers (the least, the greatest) come first in the modules that need them.

Every inductive invariant was checked by TLC on an instance of its component
before it was proved.

Only model-checked: `LuConcludes`, `RequestEnds`, `Served`, `SessionEnds`,
`DeferredConcludes` and `Recovers`, because liveness under fairness is beyond the
prover. Every safety property of a passing run is proved.

## 6. Disagreements between code and documentation

Shown by a run; `PROJECT.json` quotes the text:

* `mslookup_cancel`: cancelling from `result_cb()` when the initial delay ends
  leaves a timer armed in freed memory.
* `ussd_lookup`: the VLR is looked up once per session that an EUSE began
  (`hlr_ussd.c:260`). Two comments in the same struct disagree: "looked up once per
  session and cached here" (`:170-172`), which is what `DialogueStable` says, and
  "every time we receive an USSD component from the EUSE" (`:175-177`).

Shown by a further configuration, which is no run of `PROJECT.json`: it checks one
property that a text of the repository states, and TLC answers with a counterexample
(`tlc -config MCLuFsmClients.cfg MCLuFsm`, and likewise for the others, each in
seconds):

* `MCMslookupClientDelay.cfg` (`CalledAfterDelay`): no "not found yet" call follows
  the initial delay (`mslookup_client.c:212-217` and `mslookup_client.h:42-44`).
* `MCLuFsmClients.cfg` (`AllClientsTold`): a client that is on record as the VLR,
  and has also sent a PS location update, be it for an SGSN behind it, is looked at
  as an SGSN only and not told of a new number (`hlr.c:97`); the comment at
  `hlr.c:67` speaks of all connected clients.
* `MCLuFsmRemoval.cfg` (`RemovalTold`): when the number of a subscriber is removed,
  the old one is sent (`hlr_vty_subscr.c:336`).
* `MCUssdExternal.cfg` (`MarkedExternal`): a session begun by an EUSE is not marked
  external (`hlr_ussd.c:578`, against the comment at `:161`); when the phone
  continues it, the EUSE record is called as an internal handler. In `Ussd` this is
  a case of `MayDie`.
* `MCProxyFailure.cfg` (`FailureReported`): pending call-backs of a remote HLR are
  dropped when it cannot be reached (`remote_hlr.c:115`), although
  `remote_hlr.h:46-50` promises a call with NULL.
* `MCDbOpenDelete.cfg` (`DeletedCompletely`): `db_subscr_delete_by_id()` deletes the
  row, then the keys, without a transaction, and returns 0 if a key cannot be
  deleted, although it is documented to "also remove authentication data". SQLite
  gives the highest id away again, so that the next subscriber may inherit the keys.
  `KeysFollow` excludes exactly this case, and a crash at the same place, by `left`.

Seen while reading and modelling, without a run:

* An Insert Data Result ends the newest location update of the IMSI
  (`lu_fsm.c:209`), also when it answers an older one or a subscriber data
  notification; `gsup_req.c:51-61` describes the dialogue as one with the "same
  peer".
* `cs-enabled`/`ps-enabled` over CTRL notify nobody (`ctrl.c:320`), although
  `control.adoc:89-92` says that connected clients will be notified.
* An AUTS sets the SQN of the database to that of the USIM even if it is lower
  (`auc.c:126`). If other VLRs have been given vectors since the USIM made it,
  the same SQNs are made again; `Auc` excludes this from `NoReuse` by `setBack`.
* An upgrade that is stopped between its `ALTER TABLE` and its `PRAGMA
  user_version` can never be completed: the next start adds the column again and
  fails. Likewise a bootstrap stopped after its first table is taken for a
  database of version 0 (`db.c:284-294`). `DbOpen` records this in `torn`.
* `PRAGMA synchonous` (`db.c:576`) is misspelt, which SQLite ignores; the default
  stays.
* `db_upgrade_v3()` drops `idx_subscr_imsi` with the table and does not create it
  again; the UNIQUE constraint of the column remains.
* A site whose operator has removed the service stays silent about a subscriber
  that is attached there, so that an older answer of another site is believed
  (`YoungestWins` asks for the service to be offered). A late result of an earlier
  location update makes the site that the subscriber has left the youngest.
* After a subscriber has moved from one site's database to another's, proxy
  entries may point at each other until `proxy_cleanup()` discards them.
* `mslookup_server.c` does not look at `ms_purged_cs`.
* A client that reconnects under its name before the old connection is noticed
  dead is served but not routed: `gsup_server.c:296` ignores `-EEXIST`, and the
  responses go to the old connection. `gsup_req.h:58` says the source name "is
  implicitly added to the routes".
* The record of an Insert Data Error is not freed (`lu_fsm.c:278`), nor is that
  of an END for an unknown session (`hlr_ussd.c:628-632`) or of an SS error
  (`hlr_ussd.c:657-661`); `gsup_req.c:84` asks that each is concluded. `LuFsm`
  and `Ussd` keep such records open.
* Garbage collection does not pop deferred messages (`proxy.c:218`). Like those of a
  link that failed (`MCProxyFailure.cfg`) they stay in the queue, which `Proxy` records in
  `lost`, and leave it when the subscriber's next message does.
* `dgsm.c:131-132` says that open proxy entries are serviced when the mslookup
  client is gone; `hlr.c:510-511` does not get there without client or gateway.
* An Update Location without CN domain sets no preliminary name
  (`proxy.c:274-283`), so that its result is not relayed (`:381-386`), while
  `lu_fsm.c` takes it for PS. A result for a VLR that is preliminary in both
  domains confirms both.
* `gsup_client.h:74` says that `up_down_cb()` is invoked "when the link drops". A
  lost PONG (`gsup_client.c:259`) and an invalid CCM message
  (`gsup_client.c:193-202`) drop it without a call, which `Link` has as
  `LoseSilently`.
* A failure to open the socket that is not worth a new attempt (EBADF and the
  like) is returned by `gsup_client_connect()`, and both timer call-backs ignore
  the result: the link stays down without a timer. `Supervised` and `Recovers`
  exclude it by `refused`.
* A link that comes up again registers with OAP only if the OAP state is still
  the initial one (`gsup_client.c:144`), and nothing sets it back.
* Setting a key deletes the old one first; if the insertion fails the subscriber
  has none. The import does the same to a subscriber that exists already, and only
  deletes its 2G key if the algorithm in the OsmoNITB database is NONE.
* The help text of osmo-mslookup-client (`osmo-mslookup-client.c:81-82`) says that
  the daemon returns "only those results matching requests issued on that socket
  connection". Results go to every connection with the same text
  (`:578-593`); a malformed delay before `@` closes all connections that wait for
  the text behind it; and an empty text closes all that have not asked yet.
* In one-shot mode with invalid queries only, the program waits in
  `osmo_select_main_ctx()` before it looks whether it is done (`:869-876`), and
  exits when a packet happens to arrive. `ProgramExits` needs `woken`.
* The packet ID of mDNS replies is decoded and not compared
  (`mslookup_client_mdns.c:52-68`; the comment at `:164-167` says it is).
* `no euse` checks for the default only (`hlr_vty.c:301-317`); in the model this
  is what `Freed` is for.

## 7. What is not modelled

* Of the proxy: MSISDNs stored from Insert Data. Of the mslookup server: starting
  and stopping its mDNS socket, and queries by MSISDN. Of the subscriber table:
  the update of the IMEI. Of the mslookup client: methods added and removed while
  requests are open.
* `osmo_gsup_forward_to_local_peer()` of the GSUP server, which nothing calls, and
  peer ids of another type than an IPA name, which nothing makes
  (`gsup_server.c:114-117`).
* Of osmo-mslookup-client: `--send`, the output formats and the options; and the
  fake method that only tests use.
* mDNS packets, multicast sockets, and the mslookup names and results (`mdns*.c`,
  `mslookup.c`): functions from bytes to bytes without state. What a packet
  means is an input of `MslookupClient` and `MslookupServer`.
* The VTY's output, its configuration writer, and the addresses and domain
  suffixes of the mDNS sockets.
* Byte formats: GSUP, IPA, mDNS and ASN.1 encoding, mslookup strings. What a
  message means to a handler is an input of its action.
* Cryptography (Milenage and COMP128 are a library's) and random numbers.
* SQLite itself: a statement succeeds or fails, is durable when it is done or
  committed, and `db_subscr_lu()` may fail between its two.
* Memory exhaustion, logging, command-line tools, `show` commands and the
  writing of the configuration file.
* OAP registration, on either side (`osmo_gsup_conn_oap_handle()`,
  `gsup_client_oap_register()`).
