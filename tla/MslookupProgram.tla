-------------------------- MODULE MslookupProgram --------------------------
(***************************************************************************)
(* The programs around an MS lookup client: osmo-mslookup-client, which    *)
(* asks for others that connect to its socket or gave queries on its       *)
(* command line, or a user of the library that asks and cancels as it      *)
(* likes, as osmo-hlr does.                                                *)
(*                                                                         *)
(* Models the main loop, the socket and the list of queries of             *)
(* src/src/mslookup/osmo-mslookup-client.c on top of MslookupClient.       *)
(* Answers are formatted texts; what matters here is who gets a last one.  *)
(***************************************************************************)
EXTENDS MslookupClient

CONSTANTS
    Conn,      \* connections to the socket
    Asked,     \* bound: the queries that clients of the program ask
    Closed,    \* no connection
    Blank      \* the empty text: of a client that has not asked, and what is
               \* left of a line that ends with '@'

ASSUME TextAssumption ==
    Asked \subseteq Query /\ Closed # Blank /\ {Closed, Blank} \cap Query = {}

VARIABLES
    mode,      \* the program; what it does after the last query
    argv,      \* queries on the command line, not started yet
    client,    \* globals.socket_clients: the query_str of each
    queries,   \* globals.queries, without order
    handled,   \* globals.requests_handled is not zero
    woken      \* osmo_select_main_ctx() has returned

program == <<mode, argv, client, queries, handled, woken>>

pvars == <<vars, program>>

Text == Asked \cup {Blank}

ProgramTypeOK ==
    /\ TypeOK
    /\ mode \in {"library", "daemon", "once", "exited"}
    /\ argv \in Seq(Text)
    /\ client \in [Conn -> Text \cup {Closed}]
    /\ queries \subseteq MdnsRequest
    /\ handled \in BOOLEAN /\ woken \in BOOLEAN

ProgramInit ==
    /\ Init
    /\ mode \in {"library", "daemon", "once"}
    /\ argv \in {<<>>} \cup {<<t>> : t \in Text}
    /\ mode = "once" => argv # <<>>
    /\ mode = "library" => argv = <<>>
    /\ client = [c \in Conn |-> Closed]
    /\ queries = {}
    /\ handled = FALSE /\ woken = FALSE

Running == mode \in {"daemon", "once"}

(* In the main loop. *)
Listening == Running /\ argv = <<>>

-----------------------------------------------------------------------------
(* Answers. *)

(* The clients after last answers for these texts: all that have one of    *)
(* them get it and are closed.                                             *)
respond_result(clients, texts) ==
    [c \in Conn |-> IF clients[c] \in texts THEN Closed ELSE clients[c]]

(* The requests that call mslookup_result_cb() with last = true in a step; *)
(* earlier results are passed on and change nothing here.                  *)
LastCalled == {r \in Open : req'[r].finals = req[r].finals + 1}

query_by_handle(h) == {q \in queries : q.handle = h}

(* The entries that the call-back removes. *)
Answered == UNION {query_by_handle(req[r].handle) : r \in LastCalled}

(* Mutant: the clients wait while another query with their text is open. *)
RespondWhenNoneLeft(clients, added) ==
    /\ client' = respond_result(clients, {q.query : q \in Answered}
                                             \ {q.query : q \in queries \ Answered})
    /\ queries' = (queries \ Answered) \cup added
    /\ handled' = (handled \/ Answered # {})

(* What the call-back does, if it is called in this step, to the clients   *)
(* given, and with an entry that is added after it.                        *)
mslookup_result_cb(clients, added) ==
    /\ client' = respond_result(clients, {q.query : q \in Answered})
    /\ queries' = (queries \ Answered) \cup added
    /\ handled' = (handled \/ Answered # {})

-----------------------------------------------------------------------------
(* Queries. *)

(* start_query_str(): a request is started, unless the text is no query. *)
StartQuery(clients, text, handling) ==
    /\ text # Blank
    /\ osmo_mslookup_client_request(text, handling)
    /\ mslookup_result_cb(clients, {[handle |-> NewHandle, query |-> text]})

(* start_query_str(): the numbers before '@' or the text are not usable.   *)
(* respond_err() answers to the text.                                      *)
QueryInvalid(clients, text) ==
    /\ client' = respond_result(clients, {text})
    /\ handled' = TRUE
    /\ UNCHANGED <<vars, queries>>

(* start_query_strs(), before the main loop. *)
start_query_strs ==
    /\ Running /\ argv # <<>>
    /\ \/ \E handling \in Handling : StartQuery(client, Head(argv), handling)
       \/ QueryInvalid(client, Head(argv))
    /\ argv' = Tail(argv)
    /\ UNCHANGED <<mode, woken>>

Woken == woken' = TRUE /\ UNCHANGED <<mode, argv>>

socket_accept(c) ==
    /\ Listening /\ client[c] = Closed
    /\ client' = [client EXCEPT ![c] = Blank]
    /\ Woken
    /\ UNCHANGED <<vars, queries, handled>>

(* socket_read_cb(): the client has closed its end, or sent nothing usable *)
(* as a line.  Its request goes on.                                        *)
socket_client_close(c) ==
    /\ Listening /\ client[c] # Closed
    /\ client' = [client EXCEPT ![c] = Closed]
    /\ Woken
    /\ UNCHANGED <<vars, queries, handled>>

(* socket_read_cb(): the first line of a client.  It is on record before   *)
(* the query is started.  A later line gets an error and changes nothing.  *)
socket_read_cb(c, text) ==
    /\ Listening /\ client[c] = Blank
    /\ LET asked == [client EXCEPT ![c] = text]
       IN  \/ \E handling \in Handling : StartQuery(asked, text, handling)
           \/ QueryInvalid(asked, text)
    /\ Woken

(* A packet that is not for a request. *)
OtherPacket ==
    /\ Listening /\ ~woken
    /\ Woken
    /\ UNCHANGED <<vars, client, queries, handled>>

(* A reply, with what result_cb() does.  It cancels nothing. *)
ReplyArrives ==
    /\ Listening
    /\ \E q \in Query, age \in Age : mdns_method_recv(q, age, FALSE)
    /\ mslookup_result_cb(client, {})
    /\ Woken

(* A timer expires here, where result_cb() cancels nothing, or in another  *)
(* user of the library.                                                    *)
TimerExpires(r) ==
    \/ /\ Listening
       /\ timeout_cb(r, FALSE)
       /\ mslookup_result_cb(client, {})
       /\ Woken
    \/ /\ mode = "library"
       /\ \E cancel \in MayCancel : timeout_cb(r, cancel)
       /\ UNCHANGED program

(* The condition in the main loop. *)
Done == handled /\ queries = {}

(* main() leaves the loop and closes everything. *)
ProgramExits ==
    /\ mode = "once" /\ argv = <<>> /\ woken /\ Done
    /\ mode' = "exited"
    /\ client' = [c \in Conn |-> Closed]
    /\ queries' = {}
    /\ req' = [r \in Id |-> IF r \in Open THEN [req[r] EXCEPT !.st = "cancelled"] ELSE req[r]]
    /\ mdns' = <<>>
    /\ UNCHANGED <<next, dangling, argv, handled, woken>>

(* Another user of the library. *)
LibraryUse ==
    /\ mode = "library"
    /\ \/ \E q \in Query, handling \in Handling : osmo_mslookup_client_request(q, handling)
       \/ \E r \in Id : osmo_mslookup_client_request_cancel(r)
       \/ \E q \in Query, age \in Age, cancel \in BOOLEAN : mdns_method_recv(q, age, cancel)
    /\ UNCHANGED program

(* The program has ended. *)
Exited == mode = "exited" /\ UNCHANGED pvars

ProgramNext ==
    \/ start_query_strs
    \/ \E c \in Conn : socket_accept(c) \/ socket_client_close(c)
    \/ \E c \in Conn, text \in Text : socket_read_cb(c, text)
    \/ OtherPacket
    \/ ReplyArrives
    \/ \E r \in Id : TimerExpires(r)
    \/ ProgramExits
    \/ LibraryUse
    \/ Exited

ProgramSpec == ProgramInit /\ [][ProgramNext]_pvars

(* Timers expire in the program and elsewhere. *)
ProgramFairness ==
    /\ WF_pvars(start_query_strs)
    /\ \A r \in Id : WF_pvars(TimerExpires(r))

ProgramFairSpec == ProgramSpec /\ ProgramFairness

-----------------------------------------------------------------------------
(* Properties. *)

(* The lists of the client, of the mDNS method and of the program agree,   *)
(* though a handle may be used again while its request is open: a handle   *)
(* names one request to all of them, and none is zero.  And nobody is      *)
(* forgotten: a client that waits has a query in the program's list, so    *)
(* that the program does not exit, or drop the query, while it waits.      *)
ListsAgree ==
    /\ HandlesUnique
    /\ MethodMirrorsRequests
    /\ Running => queries = {[handle |-> req[r].handle, query |-> req[r].query] : r \in Open}
    /\ \A c \in Conn : client[c] \in Asked => \E q \in queries : q.query = client[c]

(* A client that has asked is answered and closed, whatever other clients  *)
(* ask, also the same, and whatever arrives.                               *)
Served == \A c \in Conn : client[c] \in Asked ~> client[c] = Closed


=============================================================================
