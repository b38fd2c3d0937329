------------------------ MODULE MCTracerouteTracker ------------------------
(***************************************************************************)
(* Three commands: two of one sender for one target, from two rooms, and   *)
(* one of another sender for the same target.  A tick is 15 seconds.       *)
(* A list has up to two hops, of which any may be unknown, and any number  *)
(* of their SNRs; its packet came over up to three hops or does not say,   *)
(* through a gateway or not, to the bridge's node or another it manages.   *)
(* The way out has one hop at most.  Of the two packet ids three commands  *)
(* have to share one.                                                      *)
(***************************************************************************)
EXTENDS TracerouteTracker, TLC

CONSTANTS c1, c2, c3, alice, bob, lobby, ops, far, relay, user

MCPairOf == [c \in {c1, c2, c3} |-> IF c = c3 THEN bob ELSE alice]
MCRoomOf == [c \in {c1, c2, c3} |-> IF c = c2 THEN ops ELSE lobby]

MCCarriers ==
    [from : {far}, to : {Self, user}, hopStart : {0, 3}, hopLimit : 0..4, gateway : {NoGateway, far, relay}]

MCRoutes == UNION {[1..n -> {relay, Self, Broadcast}] : n \in 0..2}

(* Each hop's own SNR or none, for the first n hops.                       *)
MCSnrs(route, n) == {s \in [1..n -> {route[k] : k \in 1..n} \cup {Unknown}] :
                        \A k \in 1..n : s[k] \in {Unknown, route[k]} \ {Broadcast}}

MCLists == UNION {UNION {{[route |-> r, snr |-> s] : s \in MCSnrs(r, n)} : n \in 0..Len(r)} : r \in MCRoutes}

(* The way out to far, with the SNRs of the first n nodes on it.           *)
MCForwards ==
    {f \in [route : {<< >>, <<relay>>, <<Broadcast>>}, snr : UNION {[1..n -> {relay, far, Unknown}] : n \in 0..2}] :
        ForwardFormed(f, far)}

MCArrivals == [p : MCCarriers, d : MCLists, f : MCForwards]

(* Packet ids are only compared with each other.                           *)
MCSymmetry == Permutations(PacketIds)
=============================================================================
