------------------------------- MODULE Lookup -------------------------------
(***************************************************************************)
(* What lookups promise to the users who asked for the location of a       *)
(* subscriber: for each request, result_cb() is called with younger and    *)
(* younger results, possibly told that there is none yet, once more when   *)
(* the request ends by itself, by then with the youngest that was          *)
(* received, and never after that.                                         *)
(***************************************************************************)
EXTENDS Naturals

CONSTANTS
    Id,       \* the requests
    NoAge     \* no result: older than all ages

(* One record per request.  st: unused, open, or how it ended.  heard: the *)
(* youngest age received.  told: the age last passed to result_cb().       *)
(* calls, finals: how often result_cb() was called, and with last = true.  *)
VARIABLE lookup

New == [st |-> "unused", heard |-> NoAge, told |-> NoAge, calls |-> 0, finals |-> 0]

Init == lookup = [r \in Id |-> New]

(* The record of a request that has ended is used for another. *)
Start(q, n) == q.st # "open" /\ n = [New EXCEPT !.st = "open"]

Hear(q, n) == q.st = "open" /\ n.heard < q.heard /\ n = [q EXCEPT !.heard = n.heard]

(* The youngest result so far, one that arrives now included, is passed    *)
(* on.  The user may cancel the request when it gets it.                   *)
Tell(q, n) ==
    /\ q.st = "open" /\ n.st \in {"open", "cancelled"}
    /\ n.heard <= q.heard
    /\ n.told = n.heard /\ n.told < q.told
    /\ n.calls = q.calls + 1
    /\ n.finals = q.finals

(* "either with the so far youngest age result, or with a 'not found yet'  *)
(* result" (mslookup_client.h): as long as nothing was received the user   *)
(* may be told so, and may cancel the request then.                        *)
NotYet(q, n) ==
    /\ q.st = "open" /\ q.heard = NoAge
    /\ \E st \in {"open", "cancelled"} : n = [q EXCEPT !.st = st, !.calls = @ + 1]

Finish(q, n) ==
    /\ q.st = "open" /\ n.st = "done"
    /\ n.heard <= q.heard
    /\ n.told = n.heard
    /\ n.calls = q.calls + 1
    /\ n.finals = q.finals + 1

Cancel(q, n) == q.st = "open" /\ n = [q EXCEPT !.st = "cancelled"]

(* Requests are independent: several may change in one step. *)
Next ==
    \A r \in Id :
        LET q == lookup[r]
            n == lookup'[r]
        IN  \/ q = n \/ Start(q, n) \/ Hear(q, n) \/ Tell(q, n) \/ NotYet(q, n)
            \/ Finish(q, n) \/ Cancel(q, n)

Spec == Init /\ [][Next]_lookup

=============================================================================
