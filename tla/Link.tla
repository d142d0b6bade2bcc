-------------------------------- MODULE Link --------------------------------
(***************************************************************************)
(* What a GSUP client link promises to its user: the program that created  *)
(* it with osmo_gsup_client_create3() and an up_down_cb().                 *)
(*                                                                         *)
(* The user may send as long as the link is usable.  It is told when the   *)
(* link becomes usable, each time.  It is not always told when the link    *)
(* stops being usable, but once it answered that it does not want the link *)
(* any more, it hears nothing further until it creates another one.        *)
(***************************************************************************)
VARIABLES
    told,    \* the last the user heard
    usable   \* osmo_gsup_client_send() takes messages

vars == <<told, usable>>

(* none: there is no link. waiting: created, not heard of. stopped: the    *)
(* user answered that the link shall not be connected again.               *)
Told == {"none", "waiting", "up", "down", "stopped"}

Wanted == told \in {"waiting", "up", "down"}

Init == told = "none" /\ usable = FALSE

Create == told = "none" /\ told' = "waiting" /\ usable' = FALSE

TellUp == Wanted /\ ~usable /\ told' = "up" /\ usable' = TRUE

(* The user hears that the link is down; it goes on, stops or destroys. *)
TellDown == Wanted /\ told' \in {"down", "stopped", "none"} /\ usable' = FALSE

LoseSilently == usable /\ usable' = FALSE /\ UNCHANGED told

Destroy == told # "none" /\ told' = "none" /\ usable' = FALSE

Next == Create \/ TellUp \/ TellDown \/ LoseSilently \/ Destroy

Spec == Init /\ [][Next]_vars

=============================================================================
