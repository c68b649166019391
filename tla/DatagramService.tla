--------------------------- MODULE DatagramService ---------------------------
(***************************************************************************)
(* What a packet relay owes its users in one direction: datagrams may be   *)
(* lost, delayed, reordered and repeated, but each one that is delivered   *)
(* was sent, arrives whole, and is one that may be delivered.              *)
(***************************************************************************)
CONSTANTS
    Datagram,      \* what can be sent
    Deliverable    \* what may be delivered

VARIABLES sent, delivered

Init == sent = {} /\ delivered = {}

Send == \E m \in Datagram : sent' = sent \cup {m} /\ UNCHANGED delivered

Deliver ==
    /\ \E m \in sent \cap Deliverable : delivered' = delivered \cup {m}
    /\ UNCHANGED sent

Spec == Init /\ [][Send \/ Deliver]_<<sent, delivered>>

=============================================================================
