------------------------------- MODULE Delivery -------------------------------
(***************************************************************************)
(* What a HopShot receiver promises for one payload: whatever the network  *)
(* does to the burst copies, a channel hands a payload to the application  *)
(* at most once, unaltered, and only if a client sent it. The server       *)
(* header puts it as a burst receiver that deduplicates redundant copies,  *)
(* of which the first to arrive wins. A payload may never arrive.          *)
(***************************************************************************)
EXTENDS Naturals

CONSTANTS
    Payloads,   \* what a client can send
    Channels,   \* the receiving ends; a server Session object is one
    Corrupt     \* stands for every byte string no client sent: not in Payloads

VARIABLES
    sent,       \* payloads handed to the sender
    out         \* out[c][v]: how often channel c handed v to the application

vars == <<sent, out>>

Init ==
    /\ sent = {}
    /\ out = [c \in Channels |-> [v \in Payloads \union {Corrupt} |-> 0]]

Send(p) ==
    /\ sent' = sent \union {p}
    /\ UNCHANGED out

Deliver(c, p) ==
    /\ p \in sent
    /\ out[c][p] = 0
    /\ out' = [out EXCEPT ![c][p] = 1]
    /\ UNCHANGED sent

Next ==
    \/ \E p \in Payloads : Send(p)
    \/ \E c \in Channels, p \in Payloads : Deliver(c, p)

Spec == Init /\ [][Next]_vars
===============================================================================
