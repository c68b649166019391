---------------------------- MODULE ReplayMemory ----------------------------
(***************************************************************************)
(* What a ReplayCache promises its callers, without its two maps: an Add   *)
(* of one of the last Capacity handshakes is refused, an Add of a          *)
(* handshake that collides with nothing seen before is accepted, and       *)
(* between the two the cache is free to answer either way.                 *)
(***************************************************************************)
EXTENDS Integers

CONSTANTS
    Handshake,    \* the (key ID, salt) pairs clients may present
    HashOf,       \* the 32-bit value preHash reduces each of them to
    Capacity      \* the capacity the cache was made with

VARIABLES
    age,          \* how many Adds ago a handshake was last added; Capacity
                  \* stands for that many or more, or never
    seen,         \* the handshakes ever added
    accepted      \* what the last Add returned

vars == <<age, seen, accepted>>

Forgettable(h) == age[h] = Capacity

New(h) == \A g \in seen : HashOf[g] # HashOf[h]

Init ==
    /\ age = [h \in Handshake |-> Capacity]
    /\ seen = {}
    /\ accepted = TRUE

Older(n) == IF n < Capacity THEN n + 1 ELSE Capacity

\* One call of Add has been made, for handshake h: every handshake but h is one
\* call older than before.
Remember(h) ==
    /\ age' = [g \in Handshake |-> IF g = h THEN 0 ELSE Older(age[g])]
    /\ seen' = seen \cup {h}

Add(h) ==
    /\ accepted' \in BOOLEAN
    /\ Capacity = 0 => accepted'
    /\ New(h) => accepted'
    /\ ~Forgettable(h) => ~accepted'
    /\ Remember(h)

Next == \E h \in Handshake : Add(h)

Spec == Init /\ [][Next]_vars
=============================================================================
