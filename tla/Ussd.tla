-------------------------------- MODULE Ussd --------------------------------
(***************************************************************************)
(* Supplementary service sessions: dialogues between a phone, behind the   *)
(* VLR that serves it, and an internal or external USSD entity (EUSE),     *)
(* relayed by the HLR; and the configuration of EUSEs and USSD routes,     *)
(* which an operator may change while sessions are in progress.            *)
(*                                                                         *)
(* Models src/src/hlr_ussd.c and the EUSE commands of src/src/hlr_vty.c.   *)
(* The prefixes of USSD routes are abstracted to disjoint classes of USSD  *)
(* codes.  What the phone and the entity say is not modelled.              *)
(***************************************************************************)
EXTENDS Naturals

CONSTANTS
    Imsi,         \* subscribers
    SessionId,    \* GSUP session IDs
    Vlr,          \* peer names of MSCs
    Euse,         \* names of external USSD entities
    Code,         \* classes of USSD codes
    Req,          \* osmo_gsup_req records
    NoSession,    \* not in hlr->ss_sessions
    Null,         \* a NULL pointer, a name of length 0
    Empty,        \* a subscriber's empty vlr_number
    NoSubscr,     \* no such subscriber
    Internal,     \* an internal USSD handler
    Freed,        \* a pointer to an EUSE that was removed
    Guard         \* ncss_guard_timeout > 0

ASSUME GuardAssumption == Guard \in BOOLEAN
(* No peer is called like one of the markers, and those for the entity     *)
(* that is responsible for a session are told apart.                       *)
ASSUME NamesAssumption == {Null, Empty, NoSubscr, Internal, Freed} \cap (Vlr \cup Euse) = {}
ASSUME MarkersAssumption == Null # Internal /\ Null # Freed /\ Internal # Freed

VARIABLES
    sess,      \* hlr->ss_sessions, by IMSI and session ID
    reqs,      \* the requests: free, or which message they hold
    euses,     \* hlr->euse_list
    route,     \* hlr->ussd_routes
    default,   \* hlr->euse_default
    up,        \* the peers with a GSUP route
    vlrOf,     \* vlr_number in the subscriber table
    due        \* the sessions whose guard time has passed

vars == <<sess, reqs, euses, route, default, up, vlrOf, due>>

Key == Imsi \X SessionId

(***************************************************************************)
(* req, mo: initial_req_from_ms if mo, else initial_req_from_euse.         *)
(* ext, use: is_external and the pointer in the union.  vlr: vlr_name.     *)
(* toMs and toEuse are history: the peers that messages of this session    *)
(* were sent to.                                                           *)
(***************************************************************************)
Session == [req: Req, mo: BOOLEAN, ext: BOOLEAN, use: Euse \cup {Null, Internal, Freed},
            vlr: Vlr \cup {Null, Empty}, toMs: SUBSET Vlr, toEuse: SUBSET Euse]

ASSUME NoSessionAssumption == NoSession \notin Session

TypeOK ==
    /\ sess \in [Key -> Session \cup {NoSession}]
    /\ reqs \in [Req -> {"free", "begin", "other"}]
    /\ euses \subseteq Euse
    /\ route \in [Code -> Euse \cup {Null, Internal, Freed}]
    /\ default \in Euse \cup {Null}
    /\ up \subseteq Vlr \cup Euse
    /\ vlrOf \in [Imsi -> Vlr \cup {Empty, NoSubscr}]
    /\ due \subseteq Key

Init ==
    /\ sess = [k \in Key |-> NoSession]
    /\ reqs = [r \in Req |-> "free"]
    /\ euses = {}
    /\ route = [c \in Code |-> Null]
    /\ default = Null
    /\ up = {}
    /\ vlrOf \in [Imsi -> {Empty, NoSubscr}]
    /\ due = {}

-----------------------------------------------------------------------------
(* Sending. *)

(* Mutant: the serving VLR is looked up for every message. *)
LookupEachTime(s, i) ==
    LET v == IF s.mo THEN s.vlr ELSE vlrOf[i]
    IN  [s EXCEPT !.vlr = IF v = NoSubscr THEN @ ELSE v, !.toMs = @ \cup ({v} \cap up)]

(* Mutant: the result of the subscriber look-up is not checked. *)
LookupUnchecked(s, i) ==
    LET v == IF s.mo \/ s.vlr # Null THEN s.vlr ELSE vlrOf[i]
    IN  [s EXCEPT !.vlr = v, !.toMs = @ \cup ({v} \cap up)]

(* ss_gsup_send_to_ms(): the session after a message to the phone.  In a   *)
(* session begun by the phone it is a response to its first message; in    *)
(* one begun by an EUSE the VLR number is looked up once and cached, the   *)
(* empty one too.  A message to a VLR that is not connected is lost.       *)
ss_gsup_send_to_ms(s, i) ==
    LET v == IF s.mo \/ s.vlr # Null THEN s.vlr ELSE vlrOf[i]
    IN  [s EXCEPT !.vlr = IF v = NoSubscr THEN @ ELSE v, !.toMs = @ \cup ({v} \cap up)]

(* The message goes to the EUSE, by the name in its record. *)
ReadsEuseName(s, euse) == ~euse /\ s.ext /\ s.use # Null

(* The names that may be found there: any, if the record was freed. *)
EuseName(s) == IF s.use = Freed THEN Euse ELSE {s.use}

(* handle_ussd() if it returns: the session afterwards, if name was found. *)
(* Only a message from the phone to a connected EUSE does not lead to one  *)
(* to the phone, be it forwarded, an error or the answer of an internal    *)
(* handler.                                                                *)
handle_ussd(s, i, euse, name) ==
    IF ReadsEuseName(s, euse) /\ name \in up
    THEN [s EXCEPT !.toEuse = @ \cup {name}]
    ELSE ss_gsup_send_to_ms(s, i)

(* The phone speaks in a session that is not marked external but has an    *)
(* EUSE: that record is taken for an internal handler, and its list        *)
(* pointer is called.                                                      *)
CallsEuseRecord(s, euse) == ~euse /\ ~s.ext /\ s.use \notin {Null, Internal}

(* The program may die: of that call, or of reading a freed EUSE's name. *)
MayDie(s, euse) ==
    CallsEuseRecord(s, euse) \/ (ReadsEuseName(s, euse) /\ s.use = Freed)

(* The internal handler answers, and the session is freed at once. *)
HandledInternally(s, euse) == ~euse /\ ~s.ext /\ s.use = Internal

-----------------------------------------------------------------------------
(* GSUP messages. *)

(* osmo-hlr dies and is started again (contrib/systemd): sessions and      *)
(* connections are gone, configuration and subscribers are read again,     *)
(* where a route to an EUSE that is not configured is not accepted.        *)
Restart ==
    /\ sess' = [k \in Key |-> NoSession]
    /\ reqs' = [r \in Req |-> "free"]
    /\ up' = {}
    /\ due' = {}
    /\ route' = [c \in Code |-> IF route[c] = Freed THEN Null ELSE route[c]]
    /\ UNCHANGED <<euses, default, vlrOf>>

(* Mutant: the first request is not freed with its session. *)
FreeKeepsRequest(k, rq) ==
    /\ sess' = [sess EXCEPT ![k] = NoSession]
    /\ reqs' = rq
    /\ due' = due \ {k}

ss_session_free(k, rq) ==
    /\ sess' = [sess EXCEPT ![k] = NoSession]
    /\ reqs' = [rq EXCEPT ![sess[k].req] = "free"]
    /\ due' = due \ {k}

(* The session ss_session_alloc() returns for the first message, and what  *)
(* is responsible for it: a structured SS request finds nobody.            *)
NewSession(r, p, ext, use) ==
    [req |-> r, mo |-> p \in Vlr, ext |-> ext, use |-> use,
     vlr |-> IF p \in Vlr THEN p ELSE Null, toMs |-> {}, toEuse |-> {}]

Begun(r, p, c) ==
    IF p \in Euse THEN NewSession(r, p, FALSE, IF p \in euses THEN p ELSE Null)
    ELSE IF route[c] = Null THEN NewSession(r, p, default # Null, default)
    ELSE NewSession(r, p, route[c] # Internal, route[c])

(* A new session handles its first message. *)
Dispatched(k, r, s, euse) ==
    \/ MayDie(s, euse) /\ Restart
    \/ /\ IF HandledInternally(s, euse) THEN UNCHANGED <<sess, reqs>>
          ELSE /\ \E name \in EuseName(s) :
                     sess' = [sess EXCEPT ![k] = handle_ussd(s, k[1], euse, name)]
               /\ reqs' = [reqs EXCEPT ![r] = "begin"]
       /\ UNCHANGED <<euses, route, default, up, vlrOf, due>>

(* rx_proc_ss_req(), session state BEGIN.  ussd: an unstructured request,  *)
(* else a structured one, which is rejected.  The ID must be unused; the   *)
(* request is refused and freed otherwise.                                 *)
RxBegin(p, k, r, ussd, c) ==
    /\ p \in up /\ reqs[r] = "free"
    /\ IF sess[k] # NoSession THEN UNCHANGED vars
       ELSE IF ussd THEN Dispatched(k, r, Begun(r, p, c), p \in Euse)
       ELSE /\ sess' = [sess EXCEPT ![k] =
                          ss_gsup_send_to_ms(NewSession(r, p, FALSE, Null), k[1])]
            /\ reqs' = [reqs EXCEPT ![r] = "begin"]
            /\ UNCHANGED <<euses, route, default, up, vlrOf, due>>

(* Session state CONTINUE: the guard timer starts again, the message's own *)
(* request is freed.  For an unknown session it is refused.                *)
RxContinue(p, k, ussd) ==
    /\ p \in up /\ sess[k] # NoSession
    /\ \/ ussd /\ MayDie(sess[k], p \in Euse) /\ Restart
       \/ /\ ~(ussd /\ CallsEuseRecord(sess[k], p \in Euse))
          /\ \E name \in EuseName(sess[k]) :
                sess' = [sess EXCEPT ![k] =
                           IF ussd THEN handle_ussd(@, k[1], p \in Euse, name)
                           ELSE ss_gsup_send_to_ms(@, k[1])]
          /\ due' = due \ {k}
          /\ UNCHANGED <<reqs, euses, route, default, up, vlrOf>>

(* Session state END.  payload: an unstructured request is attached, which *)
(* is handled first.  The message's own request is freed, but for an END   *)
(* for an unknown session, where it never is.                              *)
RxEnd(p, k, payload) ==
    /\ p \in up
    /\ \/ /\ sess[k] = NoSession
          /\ \E r \in Req : reqs[r] = "free" /\ reqs' = [reqs EXCEPT ![r] = "other"]
          /\ UNCHANGED <<sess, due, euses, route, default, up, vlrOf>>
       \/ /\ sess[k] # NoSession /\ payload /\ MayDie(sess[k], p \in Euse)
          /\ Restart
       \/ /\ sess[k] # NoSession
          /\ ~(payload /\ CallsEuseRecord(sess[k], p \in Euse))
          /\ ss_session_free(k, reqs)
          /\ UNCHANGED <<euses, route, default, up, vlrOf>>

(* Its request is never freed. *)
rx_proc_ss_error(p, r) ==
    /\ p \in up /\ reqs[r] = "free"
    /\ reqs' = [reqs EXCEPT ![r] = "other"]
    /\ UNCHANGED <<sess, euses, route, default, up, vlrOf, due>>

(* Mutant: only sessions begun by a phone are guarded. *)
GuardPhonesOnly(k) ==
    /\ Guard /\ sess[k] # NoSession /\ k \notin due
    /\ sess[k].mo
    /\ due' = due \cup {k}
    /\ UNCHANGED <<sess, reqs, euses, route, default, up, vlrOf>>

(* The guard time of a session passes; osmo_select runs its timer. *)
GuardElapses(k) ==
    /\ Guard /\ sess[k] # NoSession /\ k \notin due
    /\ due' = due \cup {k}
    /\ UNCHANGED <<sess, reqs, euses, route, default, up, vlrOf>>

ss_session_timeout(k) ==
    /\ k \in due
    /\ ss_session_free(k, reqs)
    /\ UNCHANGED <<euses, route, default, up, vlrOf>>

-----------------------------------------------------------------------------
(* Configuration and surroundings. *)

cfg_euse(e) ==
    /\ e \notin euses
    /\ euses' = euses \cup {e}
    /\ UNCHANGED <<sess, reqs, route, default, up, vlrOf, due>>

(* Only the default EUSE cannot be removed.  Routes and sessions that      *)
(* refer to the EUSE keep pointing to where it was.                        *)
cfg_no_euse(e) ==
    /\ e \in euses /\ default # e
    /\ euses' = euses \ {e}
    /\ route' = [c \in Code |-> IF route[c] = e THEN Freed ELSE route[c]]
    /\ sess' = [k \in Key |-> IF sess[k] # NoSession /\ sess[k].use = e
                              THEN [sess[k] EXCEPT !.use = Freed] ELSE sess[k]]
    /\ UNCHANGED <<reqs, default, up, vlrOf, due>>

cfg_ussd_route_pfx(c, target) ==
    /\ route[c] = Null /\ target \in euses \cup {Internal}
    /\ route' = [route EXCEPT ![c] = target]
    /\ UNCHANGED <<sess, reqs, euses, default, up, vlrOf, due>>

cfg_ussd_no_route_pfx(c) ==
    /\ route[c] # Null
    /\ route' = [route EXCEPT ![c] = Null]
    /\ UNCHANGED <<sess, reqs, euses, default, up, vlrOf, due>>

cfg_ussd_defaultroute(e) ==
    /\ e \in euses \cup {Null}
    /\ default' = e
    /\ UNCHANGED <<sess, reqs, euses, route, up, vlrOf, due>>

(* The subscriber is attached elsewhere, or created or deleted. *)
LocationChanges(i, v) ==
    /\ vlrOf' = [vlrOf EXCEPT ![i] = v]
    /\ UNCHANGED <<sess, reqs, euses, route, default, up, due>>

PeerConnects(p) ==
    /\ up' = IF p \in up THEN up \ {p} ELSE up \cup {p}
    /\ UNCHANGED <<sess, reqs, euses, route, default, vlrOf, due>>

Rx ==
    \E p \in Vlr \cup Euse, k \in Key :
        \/ \E r \in Req, ussd \in BOOLEAN, c \in Code : RxBegin(p, k, r, ussd, c)
        \/ \E ussd \in BOOLEAN : RxContinue(p, k, ussd)
        \/ \E payload \in BOOLEAN : RxEnd(p, k, payload)
        \/ \E r \in Req : rx_proc_ss_error(p, r)

Config ==
    \/ \E e \in Euse : cfg_euse(e) \/ cfg_no_euse(e)
    \/ \E c \in Code : \/ \E t \in Euse \cup {Internal} : cfg_ussd_route_pfx(c, t)
                       \/ cfg_ussd_no_route_pfx(c)
    \/ \E e \in Euse \cup {Null} : cfg_ussd_defaultroute(e)

Surroundings ==
    \/ \E i \in Imsi, v \in Vlr \cup {Empty, NoSubscr} : LocationChanges(i, v)
    \/ \E p \in Vlr \cup Euse : PeerConnects(p)

Next ==
    \/ Rx
    \/ \E k \in Key : GuardElapses(k) \/ ss_session_timeout(k)
    \/ Config
    \/ Surroundings

Spec == Init /\ [][Next]_vars

(* Time passes, and osmo_select_main() serves an expired timer. *)
Fairness ==
    \A k \in Key : WF_vars(GuardElapses(k)) /\ WF_vars(ss_session_timeout(k))

FairSpec == Spec /\ Fairness

-----------------------------------------------------------------------------
(* Properties. *)

(* Each session holds the request of its first message, no two hold the    *)
(* same, and no BEGIN request is open that no session holds: sessions end  *)
(* by END, by time-out or at once, and in each case ss_session_free() is   *)
(* what concludes the request.  A session that an internal handler         *)
(* answered does not outlive the message, whatever routes are set up       *)
(* later: an END with payload would release it twice.                      *)
BeginHeld ==
    /\ \A k \in Key : sess[k] # NoSession => sess[k].use # Internal
    /\ \A k \in Key : sess[k] # NoSession => reqs[sess[k].req] = "begin"
    /\ \A j, k \in Key : sess[j] # NoSession /\ sess[k] # NoSession
                            /\ sess[j].req = sess[k].req => j = k
    /\ \A r \in Req : reqs[r] = "begin"
                         => \E k \in Key : sess[k] # NoSession /\ sess[k].req = r

(* All messages of a session go to one VLR and to one EUSE, although the   *)
(* phone may move and the operator may change the routes meanwhile.  The   *)
(* VLR is the one that ss_session.vlr_name is documented to hold: the      *)
(* "originating MSC" of a phone's session, for an EUSE's the one "looked   *)
(* up once per session and cached here".  The next comment in that struct  *)
(* says otherwise: see LooksUpEachTime.  The EUSE is the one the session   *)
(* was begun with; of one that was removed nothing is said.                *)
DialogueStable ==
    \A k \in Key : sess[k] # NoSession =>
        /\ sess[k].toMs \subseteq {sess[k].vlr}
        /\ sess[k].use # Freed => sess[k].toEuse \subseteq {sess[k].use}

(* What the comment on is_external says, "is this USSD for an external     *)
(* handler (EUSE): true": a session for which an EUSE is responsible is    *)
(* marked so, whoever began it.  The mark tells which member of the union  *)
(* is valid, and it is what handle_ussd() goes by when the phone speaks.   *)
MarkedExternal ==
    \A k \in Key : sess[k] # NoSession /\ sess[k].use \in Euse => sess[k].ext

(* What the comment on the absent route pointer says, "we simply look-up   *)
(* the serving MSC/VLR every time we receive an USSD component from the    *)
(* EUSE": after an inter-VLR hand-over in a session that an EUSE began, its *)
(* next message reaches the VLR that serves the phone by then, if that is  *)
(* connected.                                                              *)
LooksUpEachTime ==
    [][\A p \in Euse, k \in Key, ussd \in BOOLEAN :
          /\ RxContinue(p, k, ussd)
          /\ ~sess[k].mo /\ sess[k].toMs # {} /\ vlrOf[k[1]] \in up
          => vlrOf[k[1]] \in sess'[k].toMs]_vars

(* With a guard timer every session ends, unless messages continue it     *)
(* again and again.                                                        *)
SessionEnds ==
    \A k \in Key :
        <>[][~(\E p \in Vlr \cup Euse, ussd \in BOOLEAN : RxContinue(p, k, ussd))]_vars
            => (sess[k] # NoSession ~> sess[k] = NoSession)

=============================================================================
