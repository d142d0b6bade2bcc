----------------------------- MODULE GsupClient -----------------------------
(***************************************************************************)
(* The client end of a GSUP connection: a TCP connection to a server that  *)
(* is opened, supervised with PING and PONG, and opened again when it is   *)
(* lost.  It is used by osmo-hlr for its links to remote HLRs and by every *)
(* client of the HLR.                                                      *)
(*                                                                         *)
(* Models src/src/gsupclient/gsup_client.c.  The IPA connection under it   *)
(* (ipa_client_conn of libosmo-abis) is external: it tells that it is      *)
(* connected or lost, keeps a queue of messages to write, and is silent    *)
(* when it is closed by its user or by an invalid CCM message.  The OAP    *)
(* registration is left out; nothing here depends on its outcome.  A user  *)
(* without up_down_cb() is one that always answers true.                   *)
(***************************************************************************)
EXTENDS Naturals, Sequences

CONSTANT MaxQueue   \* bound: messages in the write queue

ASSUME MaxQueueAssumption == MaxQueue \in Nat \ {0}

VARIABLES
    sock,           \* the socket of gsupc->link
    queue,          \* the messages waiting to be written to it
    is_connected,   \* gsupc->is_connected
    connect_timer,  \* osmo_timer_pending(&gsupc->connect_timer)
    ping_timer,     \* osmo_timer_pending(&gsupc->ping_timer)
    got_ipa_pong,   \* gsupc->got_ipa_pong
    told,           \* history: what the user heard and answered last
    refused         \* history: the last attempt to connect failed for good

cvars == <<sock, queue, is_connected, connect_timer, ping_timer, got_ipa_pong,
           told, refused>>

(* fresh is history: the message was queued on this connection. *)
Message == [kind: {"ping", "gsup"}, fresh: BOOLEAN]

ClientTypeOK ==
    /\ sock \in {"closed", "connecting", "up"}
    /\ queue \in Seq(Message) /\ Len(queue) <= MaxQueue
    /\ is_connected \in BOOLEAN
    /\ connect_timer \in BOOLEAN
    /\ ping_timer \in BOOLEAN
    /\ got_ipa_pong \in BOOLEAN
    /\ told \in {"none", "waiting", "up", "down", "stopped"}
    /\ refused \in BOOLEAN

ClientInit ==
    /\ sock = "closed"
    /\ queue = <<>>
    /\ is_connected = FALSE
    /\ connect_timer = FALSE
    /\ ping_timer = FALSE
    /\ got_ipa_pong = FALSE
    /\ told = "none"
    /\ refused = FALSE

Exists == told # "none"

-----------------------------------------------------------------------------
(* The IPA connection. *)

Stale(q) == [i \in DOMAIN q |-> [q[i] EXCEPT !.fresh = FALSE]]

(* ipa_client_conn_close(): the socket is closed, the queue is kept. *)
ipa_client_conn_close ==
    /\ sock' = "closed"
    /\ queue' = Stale(queue)

(* ipa_client_conn_send(); what is beyond the bound is dropped. *)
Queued(q, kind, fresh) ==
    IF Len(q) = MaxQueue THEN q ELSE Append(q, [kind |-> kind, fresh |-> fresh])

-----------------------------------------------------------------------------

(* How ipa_client_conn_open() may end: on its way, failed for now, failed  *)
(* in a way that trying again would not mend (EBADF and the like).         *)
Outcome == {"connecting", "later", "never"}

(* Mutant: messages of the connection before are kept. *)
ConnectKeepsQueue(result) ==
    /\ sock' = IF result = "connecting" THEN "connecting" ELSE "closed"
    /\ queue' = Stale(queue)
    /\ ping_timer' = FALSE
    /\ connect_timer' = (result = "later")
    /\ refused' = (result = "never")

(* For a client that is not connected. *)
gsup_client_connect(result) ==
    /\ sock' = IF result = "connecting" THEN "connecting" ELSE "closed"
    /\ queue' = <<>>
    /\ ping_timer' = FALSE
    /\ connect_timer' = (result = "later")
    /\ refused' = (result = "never")

(* The timer restarts and a PING is queued, also on a closed link. *)
start_test_procedure(up) ==
    /\ got_ipa_pong' = FALSE
    /\ ping_timer' = TRUE
    /\ queue' = Queued(queue, "ping", up)

(* A client that cannot connect for good is destroyed at once. *)
osmo_gsup_client_create3(result) ==
    /\ ~Exists
    /\ IF result = "never" THEN UNCHANGED cvars
       ELSE /\ gsup_client_connect(result)
            /\ told' = "waiting"
            /\ UNCHANGED <<is_connected, got_ipa_pong>>

(* All is freed; a new client starts from zero. *)
osmo_gsup_client_destroy ==
    /\ sock' = "closed"
    /\ queue' = <<>>
    /\ is_connected' = FALSE
    /\ connect_timer' = FALSE
    /\ ping_timer' = FALSE
    /\ got_ipa_pong' = FALSE
    /\ told' = "none"
    /\ refused' = FALSE

(* The call-back up_down_cb(false).  The user may answer false, after which *)
(* the client does nothing more, or destroy the client in the call-back    *)
(* and answer false, as remote_hlr_up_down() does.                         *)
Answer == {"retry", "stop", "destroy"}

ToldDown(answer) == IF answer = "retry" THEN "down" ELSE "stopped"

(* The wait for the next attempt to connect is over. *)
connect_timer_cb(answer, result) ==
    /\ connect_timer
    /\ IF answer = "destroy" /\ ~is_connected THEN osmo_gsup_client_destroy
       ELSE /\ told' = IF is_connected THEN told ELSE ToldDown(answer)
            /\ IF answer = "retry" /\ ~is_connected THEN gsup_client_connect(result)
               ELSE connect_timer' = FALSE /\ UNCHANGED <<sock, queue, ping_timer, refused>>
            /\ UNCHANGED <<is_connected, got_ipa_pong>>

(* gsup_client_updown_cb(): the connection is established. *)
LinkUp ==
    /\ sock = "connecting"
    /\ sock' = "up"
    /\ is_connected' = TRUE
    /\ start_test_procedure(TRUE)
    /\ connect_timer' = FALSE
    /\ told' = "up"
    /\ UNCHANGED refused

(* Mutant: the answer of the call-back is not looked at. *)
LinkDownAnyway(answer) ==
    /\ sock # "closed"
    /\ ipa_client_conn_close
    /\ is_connected' = FALSE
    /\ ping_timer' = FALSE
    /\ told' = ToldDown(answer)
    /\ connect_timer' = TRUE
    /\ UNCHANGED <<got_ipa_pong, refused>>

(* gsup_client_updown_cb(): the connection could not be established, or is *)
(* lost.                                                                   *)
LinkDown(answer) ==
    /\ sock # "closed"
    /\ IF answer = "destroy" THEN osmo_gsup_client_destroy
       ELSE /\ ipa_client_conn_close
            /\ is_connected' = FALSE
            /\ ping_timer' = FALSE
            /\ told' = ToldDown(answer)
            /\ connect_timer' = (answer = "retry" \/ connect_timer)
            /\ UNCHANGED <<got_ipa_pong, refused>>

(* gsup_client_read_cb(): a PONG.  Other messages change nothing here. *)
RxPong ==
    /\ sock = "up"
    /\ got_ipa_pong' = TRUE
    /\ UNCHANGED <<sock, queue, is_connected, connect_timer, ping_timer, told, refused>>

(* Mutants: the flag is not reset; the link is no longer supervised. *)
InvalidCcmStaysConnected ==
    /\ sock = "up"
    /\ ipa_client_conn_close
    /\ UNCHANGED <<is_connected, connect_timer, ping_timer, got_ipa_pong, told, refused>>
InvalidCcmStopsTest ==
    /\ sock = "up"
    /\ ipa_client_conn_close
    /\ is_connected' = FALSE
    /\ ping_timer' = FALSE
    /\ UNCHANGED <<connect_timer, got_ipa_pong, told, refused>>

(* gsup_client_read_cb(): an invalid CCM message.  The handler of libosmo- *)
(* abis has closed the link, without a call-back; only the ping timer goes *)
(* on.                                                                     *)
RxInvalidCcm ==
    /\ sock = "up"
    /\ ipa_client_conn_close
    /\ is_connected' = FALSE
    /\ UNCHANGED <<connect_timer, ping_timer, got_ipa_pong, told, refused>>

(* The PONG is there, or the link is closed and opened again. *)
ping_timer_cb(result) ==
    /\ ping_timer
    /\ IF got_ipa_pong
       THEN start_test_procedure(sock = "up") /\ UNCHANGED <<sock, is_connected, connect_timer, refused>>
       ELSE /\ gsup_client_connect(result)
            /\ is_connected' = FALSE
            /\ UNCHANGED got_ipa_pong
    /\ UNCHANGED told

(* Refused with -ENOTCONN if not connected. *)
osmo_gsup_client_send ==
    /\ Exists /\ is_connected /\ Len(queue) < MaxQueue
    /\ queue' = Queued(queue, "gsup", sock = "up")
    /\ UNCHANGED <<sock, is_connected, connect_timer, ping_timer, got_ipa_pong, told, refused>>

(* A queued message leaves. *)
ipa_client_write ==
    /\ sock = "up" /\ queue # <<>>
    /\ queue' = Tail(queue)
    /\ UNCHANGED <<sock, is_connected, connect_timer, ping_timer, got_ipa_pong, told, refused>>

UserDestroys == Exists /\ osmo_gsup_client_destroy

ClientNext ==
    \/ \E result \in Outcome : osmo_gsup_client_create3(result)
    \/ \E answer \in Answer, result \in Outcome : connect_timer_cb(answer, result)
    \/ LinkUp
    \/ \E answer \in Answer : LinkDown(answer)
    \/ RxPong
    \/ RxInvalidCcm
    \/ \E result \in Outcome : ping_timer_cb(result)
    \/ osmo_gsup_client_send
    \/ ipa_client_write
    \/ UserDestroys

ClientSpec == ClientInit /\ [][ClientNext]_cvars

(* Timers expire, and the kernel ends each attempt to connect. *)
Fairness ==
    /\ WF_cvars(\E answer \in Answer, result \in Outcome : connect_timer_cb(answer, result))
    /\ WF_cvars(\E result \in Outcome : ping_timer_cb(result))
    /\ WF_cvars(LinkUp \/ \E answer \in Answer : LinkDown(answer))

ClientFairSpec == ClientSpec /\ Fairness

-----------------------------------------------------------------------------
(* Properties. *)

(* The client implements what a Link promises: osmo_gsup_client_send()     *)
(* takes messages only after the user was told that the link is up, and    *)
(* after up_down_cb() answered false, or the client was destroyed, it is   *)
(* neither connected nor heard of again, whichever timers were running.    *)
LinkPromise == INSTANCE Link WITH usable <- is_connected

LinkKept == LinkPromise!Spec

(* A message that was queued for one connection, a GSUP message or a PING, *)
(* is never written to a later one: gsup_client_connect() empties the      *)
(* queue before it opens the link again.                                   *)
NothingStale == sock = "up" => \A i \in DOMAIN queue : queue[i].fresh

(* The link is opened only when it is closed, so that no socket is lost;   *)
(* a connected link is supervised; and a link that is not connected is on  *)
(* its way or a timer will see to it, unless the user does not want it or  *)
(* the last attempt to open it failed for good, which the timer call-backs *)
(* ignore.                                                                 *)
Supervised ==
    /\ is_connected = (sock = "up")
    /\ connect_timer => sock = "closed" /\ ~ping_timer
    /\ sock = "connecting" => ~ping_timer
    /\ is_connected => ping_timer
    /\ LinkPromise!Wanted /\ sock = "closed" /\ ~refused => connect_timer \/ ping_timer

(* A connection fails: the server cannot be reached, goes away, sends an   *)
(* invalid message or no PONG in time; or the user gives the link up.      *)
Mishap ==
    \/ \E answer \in Answer : LinkDown(answer)
    \/ \E answer \in Answer, result \in {"later", "never"} : connect_timer_cb(answer, result)
    \/ \E answer \in {"stop", "destroy"} : connect_timer_cb(answer, "connecting")
    \/ RxInvalidCcm
    \/ ping_timer /\ ~got_ipa_pong /\ sock = "up" /\ \E result \in Outcome : ping_timer_cb(result)
    \/ \E result \in {"later", "never"} : ping_timer_cb(result) /\ ~got_ipa_pong
    \/ UserDestroys

(* Whatever happened to the link, when the server can be reached from some *)
(* time on the client is connected again, and stays so; also after the     *)
(* silent loss by an invalid CCM message, where nothing but the ping timer *)
(* is left running and an earlier PONG may still be on record.             *)
Recovers ==
    /\ <>[]~refused
    /\ <>[][~Mishap]_cvars
    => <>[](LinkPromise!Wanted => is_connected)

=============================================================================
