----------------------------- MODULE Directory ------------------------------
(***************************************************************************)
(* What the GSUP server is to everyone who sends by name: a directory of   *)
(* the connected peers.  A name that nobody has is given to the first who  *)
(* claims it.  It is not taken from its holder, nor given to another, as   *)
(* long as the holder is connected; when the holder leaves, all its names  *)
(* are free again.  A name that was refused is not given later by itself.  *)
(***************************************************************************)
CONSTANTS
    Conn,
    Name

VARIABLES
    present,   \* the connected peers
    listed     \* the pairs of a name and its holder

vars == <<present, listed>>

Init == present = {} /\ listed = {}

Enter(c) ==
    /\ c \notin present
    /\ present' = present \cup {c}
    /\ UNCHANGED listed

Claim(c, n) ==
    /\ c \in present
    /\ \A l \in listed : l.addr # n
    /\ listed' = listed \cup {[addr |-> n, conn |-> c]}
    /\ UNCHANGED present

Leave(c) ==
    /\ c \in present
    /\ present' = present \ {c}
    /\ listed' = {l \in listed : l.conn # c}

Next == \E c \in Conn : Enter(c) \/ Leave(c) \/ \E n \in Name : Claim(c, n)

Spec == Init /\ [][Next]_vars

=============================================================================
