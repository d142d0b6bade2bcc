--------------------------- MODULE MslookupClient ---------------------------
(***************************************************************************)
(* The MS lookup client: requests for a service location, the results that *)
(* lookup methods return for them, and the mDNS method's own list of the   *)
(* queries it has sent.                                                    *)
(*                                                                         *)
(* Models src/src/mslookup/mslookup_client.c and the list keeping of       *)
(* src/src/mslookup/mslookup_client_mdns.c.  Replies arrive by multicast:  *)
(* any reply may be received at any time, in answer to a query of this     *)
(* client or of another host.                                              *)
(***************************************************************************)
EXTENDS Integers, SequencesExt, FiniteSetsExt

CONSTANTS
    Query,            \* service and subscriber ID
    HandleMod,        \* request handles are a uint32_t; here 0..HandleMod-1
    MaxAge,           \* bound on the age of a result
    MaxRequest,       \* bound on the requests open at a time
    CancelInTimeout   \* result_cb() of a user may cancel its request when
                      \* it is called from timeout_cb()

ASSUME QueryAssumption == Query # {}
ASSUME ModAssumption == HandleMod \in Nat /\ HandleMod >= 2
ASSUME BoundAssumption == MaxAge \in Nat /\ MaxRequest \in Nat
ASSUME CancelAssumption == CancelInTimeout \in BOOLEAN

VARIABLES
    req,        \* client->requests; an ended request stays on record
                \* until its place is used again
    next,       \* client->next_request_handle
    mdns,       \* state->requests of the mDNS method, newest first
    dangling    \* requests that are freed while their timer is armed

vars == <<req, next, mdns, dangling>>

Id == 1..MaxRequest
Age == 0..MaxAge
NoAge == MaxAge + 1   \* no result with rc RESULT yet: older than any

(* min_wait_milliseconds: zero, at least result_timeout, or shorter. *)
Handling == {"no_wait", "wait_only", "wait_then_listen"}

(***************************************************************************)
(* age is result.age, NoAge if result.rc is not RESULT.  The others are    *)
(* history: heard is the youngest age received, told the age last passed   *)
(* to result_cb(), calls the number of result_cb() calls, finals the       *)
(* number of those with last = true.                                       *)
(***************************************************************************)
Request == [st: {"unused", "open", "done", "cancelled"}, handle: 0..(HandleMod - 1),
            query: Query, handling: Handling, waiting: BOOLEAN,
            age: 0..NoAge, heard: 0..NoAge, told: 0..NoAge,
            calls: Nat, finals: Nat]

MdnsRequest == [handle: 0..(HandleMod - 1), query: Query]

TypeOK ==
    /\ req \in [Id -> Request]
    /\ next \in 0..(HandleMod - 1)
    /\ mdns \in Seq(MdnsRequest)
    /\ dangling \subseteq Id

Init ==
    /\ req = [r \in Id |->
                [st |-> "unused", handle |-> 0, query |-> CHOOSE q \in Query : TRUE,
                 handling |-> "no_wait", waiting |-> FALSE, age |-> NoAge,
                 heard |-> NoAge, told |-> NoAge, calls |-> 0, finals |-> 0]]
    /\ next = 0
    /\ mdns = <<>>
    /\ dangling = {}

Open == {r \in Id : req[r].st = "open"}

-----------------------------------------------------------------------------
(* Ending a request. *)

(* The place in the mDNS list of the first entry with handle h, 0 if none. *)
MdnsIndex(list, h) ==
    LET is == {i \in DOMAIN list : list[i].handle = h}
    IN  IF is = {} THEN 0 ELSE Min(is)

mdns_method_request_cleanup(list, h) ==
    IF MdnsIndex(list, h) = 0 THEN list ELSE RemoveAt(list, MdnsIndex(list, h))

(* q after result_cb() was given its result: rc NONE and NOT_FOUND tell    *)
(* no age.                                                                 *)
Told(q, age, last) ==
    [q EXCEPT !.told = IF age = NoAge THEN @ ELSE age, !.calls = @ + 1,
              !.finals = @ + (IF last THEN 1 ELSE 0)]

(* osmo_mslookup_request_send_result() with finish = true. *)
Finished(q, age) == [Told(q, age, TRUE) EXCEPT !.st = "done"]

-----------------------------------------------------------------------------
(* Requests. *)

(* A handle of zero is skipped. *)
NewHandle == IF next = 0 THEN 1 ELSE next

(* Mutant: the counter is wider than the handles. *)
HandleTooWide(h) == h + 1

HandleAfter(h) == (h + 1) % HandleMod

(* The open request with handle h, if there is one. *)
get_request(h) == {r \in Open : req[r].handle = h}

(* Mutant: no check for a request that has the handle already. *)
HolderIgnored(h) == {}

(* The request to expire, if the handles wrapped around. *)
Holder(h) == get_request(h)

(* osmo_mslookup_client_request(): an older request with the same handle   *)
(* is expired first, with whatever result it has.                          *)
osmo_mslookup_client_request(q, handling) ==
    LET h == NewHandle
        r == Min(Id \ Open)
        new == [st |-> "open", handle |-> h, query |-> q, handling |-> handling,
                waiting |-> handling # "no_wait", age |-> NoAge,
                heard |-> NoAge, told |-> NoAge, calls |-> 0, finals |-> 0]
    IN
    /\ Open # Id
    /\ next' = HandleAfter(h)
    /\ req' = [x \in Id |-> IF x = r THEN new
                            ELSE IF x \in Holder(h) THEN Finished(req[x], req[x].age)
                            ELSE req[x]]
    /\ mdns' = <<[handle |-> h, query |-> q]>>
                  \o (IF Holder(h) = {} THEN mdns
                      ELSE mdns_method_request_cleanup(mdns, h))
    /\ UNCHANGED dangling

(* The user ends a request outside of a callback. *)
osmo_mslookup_client_request_cancel(r) ==
    /\ r \in Open
    /\ req' = [req EXCEPT ![r].st = "cancelled"]
    /\ mdns' = mdns_method_request_cleanup(mdns, req[r].handle)
    /\ UNCHANGED <<next, dangling>>

(* The result on record is kept if it is as young. *)
IsYounger(r, age) == age < req[r].age

(* osmo_mslookup_client_rx_result() for request r.  cancel: result_cb()    *)
(* calls osmo_mslookup_client_request_cancel().                            *)
osmo_mslookup_client_rx_result(r, age, cancel) ==
    LET heard == [req[r] EXCEPT !.heard = Min({@, age})]
        stored == [heard EXCEPT !.age = age]
        forget == mdns_method_request_cleanup(mdns, req[r].handle)
    IN
    \/ /\ ~IsYounger(r, age)
       /\ req' = [req EXCEPT ![r] = heard]
       /\ UNCHANGED mdns
    \/ /\ IsYounger(r, age) /\ age = 0
       /\ req' = [req EXCEPT ![r] = Finished(stored, age)]
       /\ mdns' = forget
    \/ /\ IsYounger(r, age) /\ age > 0 /\ req[r].waiting
       /\ req' = [req EXCEPT ![r] = stored]
       /\ UNCHANGED mdns
    \/ /\ IsYounger(r, age) /\ age > 0 /\ ~req[r].waiting
       /\ req' = [req EXCEPT ![r] = IF cancel
                     THEN [Told(stored, age, FALSE) EXCEPT !.st = "cancelled"]
                     ELSE Told(stored, age, FALSE)]
       /\ mdns' = IF cancel THEN forget ELSE mdns

(* mdns_method_recv(): a reply goes to the newest request for the same     *)
(* query; the packet ID is not looked at, and left out.  Replies that are  *)
(* not successful change nothing.                                          *)
mdns_method_recv(q, age, cancel) ==
    /\ \E i \in DOMAIN mdns :
          /\ mdns[i].query = q
          /\ \A j \in 1..(i-1) : mdns[j].query # q
          /\ \E r \in get_request(mdns[i].handle) :
                osmo_mslookup_client_rx_result(r, age, cancel)
    /\ UNCHANGED <<next, dangling>>

(* Mutant: a result on record when the delay ends is not passed on. *)
MinWaitSilent(r, cancel) ==
    /\ req[r].waiting /\ req[r].handling = "wait_then_listen"
    /\ req' = [req EXCEPT ![r].waiting = FALSE]
    /\ UNCHANGED <<mdns, dangling>>

(* timeout_cb(), the initial delay has passed and listening continues: a   *)
(* result on record is passed on, then the timer is set again, even if     *)
(* result_cb() has cancelled the request.                                  *)
MinWaitPassed(r, cancel) ==
    LET q == [req[r] EXCEPT !.waiting = FALSE] IN
    /\ req[r].waiting /\ req[r].handling = "wait_then_listen"
    /\ \/ /\ q.age = NoAge
          /\ req' = [req EXCEPT ![r] = q]
          /\ UNCHANGED <<mdns, dangling>>
       \/ /\ q.age # NoAge
          /\ req' = [req EXCEPT ![r] = IF cancel
                        THEN [Told(q, q.age, FALSE) EXCEPT !.st = "cancelled"]
                        ELSE Told(q, q.age, FALSE)]
          /\ mdns' = IF cancel THEN mdns_method_request_cleanup(mdns, q.handle) ELSE mdns
          /\ dangling' = IF cancel THEN dangling \cup {r} ELSE dangling

(* Mutant: no timer is set for a request without an initial delay. *)
FinalTimeoutIfWaited(r) ==
    LET age == IF req[r].waiting THEN req[r].age ELSE NoAge IN
    /\ req[r].handling # "no_wait"
    /\ ~(req[r].waiting /\ req[r].handling = "wait_then_listen")
    /\ req' = [req EXCEPT ![r] = Finished([req[r] EXCEPT !.waiting = FALSE], age)]
    /\ mdns' = mdns_method_request_cleanup(mdns, req[r].handle)
    /\ UNCHANGED dangling

(* timeout_cb(), the request ends: with the result on record if none was   *)
(* passed on while waiting, else with rc NONE or NOT_FOUND.                *)
FinalTimeout(r) ==
    LET age == IF req[r].waiting THEN req[r].age ELSE NoAge IN
    /\ ~(req[r].waiting /\ req[r].handling = "wait_then_listen")
    /\ req' = [req EXCEPT ![r] = Finished([req[r] EXCEPT !.waiting = FALSE], age)]
    /\ mdns' = mdns_method_request_cleanup(mdns, req[r].handle)
    /\ UNCHANGED dangling

(* cancel: result_cb() calls osmo_mslookup_client_request_cancel(). *)
timeout_cb(r, cancel) ==
    /\ r \in Open
    /\ MinWaitPassed(r, cancel) \/ FinalTimeout(r)
    /\ UNCHANGED next

(* What a user may do in a call from timeout_cb(). *)
MayCancel == {FALSE, CancelInTimeout}

Next ==
    \/ \E q \in Query, handling \in Handling : osmo_mslookup_client_request(q, handling)
    \/ \E r \in Id : osmo_mslookup_client_request_cancel(r)
    \/ \E q \in Query, age \in Age, cancel \in BOOLEAN :
          mdns_method_recv(q, age, cancel)
    \/ \E r \in Id, cancel \in MayCancel : timeout_cb(r, cancel)

Spec == Init /\ [][Next]_vars

(* A request's timer is set when it starts, set once more at most, and     *)
(* replies do not touch it.                                                *)
Fairness == \A r \in Id : WF_vars(\E cancel \in MayCancel : timeout_cb(r, cancel))

FairSpec == Spec /\ Fairness

-----------------------------------------------------------------------------
(* Properties. *)

(* Handles of open requests are distinct and never zero, also after the    *)
(* counter has wrapped around: a handle names one request, to the user as  *)
(* well as to the lookup methods.                                          *)
HandlesUnique ==
    \A r, s \in Open : /\ req[r].handle # 0
                       /\ req[r].handle = req[s].handle => r = s

(* The mDNS method has exactly one entry for each open request, with its   *)
(* query: mslookup_client.h guarantees request_cleanup() exactly once per  *)
(* request(), however a request ends.                                      *)
MethodMirrorsRequests ==
    /\ \A r \in Open : \E i \in DOMAIN mdns :
          mdns[i].handle = req[r].handle /\ mdns[i].query = req[r].query
    /\ Len(mdns) = Cardinality(Open)

(* Each request is a Lookup: result_cb() is given ever younger results and *)
(* exactly one last call, by then with the youngest that was received,     *)
(* whenever that came: before or after the initial delay, as the last or   *)
(* before older ones, or before the handle was reused.  (A call at the end *)
(* of the delay with nothing to tell is allowed, and is CalledAfterDelay's *)
(* subject.)                                                               *)
LookupPromise ==
    INSTANCE Lookup WITH
        lookup <- [r \in Id |->
                     [st |-> req[r].st, heard |-> req[r].heard, told |-> req[r].told,
                      calls |-> req[r].calls, finals |-> req[r].finals]]

LookupKept == LookupPromise!Spec

(* Every request ends. *)
RequestEnds == \A r \in Id : req[r].st = "open" ~> req[r].st # "open"

-----------------------------------------------------------------------------
(* What a comment says, and the code does not do. *)

(* mslookup_client.h: "osmo_mslookup_client_request_cancel() can be called *)
(* any time to end the request": no timer is armed for a freed request.    *)
CancelAnyTime == dangling = {}

(* mslookup_client.h: "result_cb will be called as soon as this delay has  *)
(* elapsed, either with the so far youngest age result, or with a "not     *)
(* found yet" result".                                                     *)
CalledAfterDelay ==
    [][\A r \in Id : req[r].st = "open" /\ req[r].waiting /\ ~req'[r].waiting
                        => req'[r].calls > req[r].calls]_vars

=============================================================================
