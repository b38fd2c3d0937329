------------------------------ MODULE Delivery ------------------------------
(***************************************************************************)
(* What the packet intake promises, with threads, locks, decryption and    *)
(* dispatch left out: a packet key is accepted at most once per            *)
(* remembering window, an accepted key is delivered or discarded exactly   *)
(* once, and a key is forgotten only when it is not in hand.               *)
(***************************************************************************)
EXTENDS Naturals

CONSTANT Keys         \* the (sender, packet id) pairs

VARIABLES
    window,           \* keys that are remembered
    inHand,           \* keys accepted and neither delivered nor discarded
    delivered,        \* how often each key has been delivered
    forgotten         \* how often each key has been forgotten

vars == <<window, inHand, delivered, forgotten>>

Init ==
    /\ window = {}
    /\ inHand = {}
    /\ delivered = [k \in Keys |-> 0]
    /\ forgotten = [k \in Keys |-> 0]

Accept(k) ==
    /\ k \notin window
    /\ window' = window \cup {k}
    /\ inHand' = inHand \cup {k}
    /\ UNCHANGED <<delivered, forgotten>>

Deliver(k) ==
    /\ k \in inHand
    /\ inHand' = inHand \ {k}
    /\ delivered' = [delivered EXCEPT ![k] = @ + 1]
    /\ UNCHANGED <<window, forgotten>>

Discard(k) ==
    /\ k \in inHand
    /\ inHand' = inHand \ {k}
    /\ UNCHANGED <<window, delivered, forgotten>>

Forget(k) ==
    /\ k \in window \ inHand
    /\ window' = window \ {k}
    /\ forgotten' = [forgotten EXCEPT ![k] = @ + 1]
    /\ UNCHANGED <<inHand, delivered>>

Next == \E k \in Keys : Accept(k) \/ Deliver(k) \/ Discard(k) \/ Forget(k)

Spec == Init /\ [][Next]_vars
=============================================================================
