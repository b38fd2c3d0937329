--------------------------- MODULE RouteDiscovery ---------------------------
(***************************************************************************)
(* The route and SNR lists of a traceroute: pkg/mesh/traceroute.go and the *)
(* way formatTracerouteResponse in pkg/connector/traceroute.go shows them. *)
(* The two lists are kept apart and matched by position, so every addition *)
(* has to keep them in step.                                               *)
(*                                                                         *)
(* A list is a record [route, snr].  An SNR is named by the node that      *)
(* measured it: right is the list that shows every node its own value, or  *)
(* none.                                                                   *)
(***************************************************************************)
EXTENDS Integers, Sequences

CONSTANTS
    Hops,           \* nodes
    Broadcast,      \* meshid.BROADCAST_ID, which stands for an unknown hop
    Unknown,        \* math.MinInt8, no SNR
    NoGateway,      \* a packet without gateway
    Self            \* c.nodeId

ASSUME HopsAssumption ==
    /\ Self \in Hops /\ Broadcast \notin Hops /\ NoGateway \notin Hops
    /\ Unknown \notin Hops \cup {Broadcast}

List == [route : Seq(Hops \cup {Broadcast}), snr : Seq(Hops \cup {Unknown})]

(* The packet that carries a list.  gateway is NoGateway on UDP.           *)
Carrier == [from : Hops, to : Hops, hopStart : Nat, hopLimit : Nat, gateway : Hops \cup {NoGateway}]

In(x, s) == \E k \in 1..Len(s) : s[k] = x

(* A sequence made at least n long with x.                                 *)
Padded(s, n, x) ==
    [k \in 1..(IF Len(s) < n THEN n ELSE Len(s)) |-> IF k <= Len(s) THEN s[k] ELSE x]

(* Variant: the SNR list is left as it is.                                 *)
insertUnknownHopsOnly(p, d) ==
    IF p.hopStart = 0 \/ p.hopLimit > p.hopStart
    THEN d
    ELSE [route |-> Padded(d.route, p.hopStart - p.hopLimit, Broadcast), snr |-> d.snr]

(* Nodes that did not add themselves get a placeholder, and the SNR list   *)
(* is made as long as the route.                                           *)
insertUnknownHops(p, d) ==
    IF p.hopStart = 0 \/ p.hopLimit > p.hopStart
    THEN d
    ELSE LET route == Padded(d.route, p.hopStart - p.hopLimit, Broadcast)
         IN  [route |-> route, snr |-> Padded(d.snr, Len(route), Unknown)]

addNodeToRouteIfMissing(d, n) ==
    IF In(n, d.route) THEN d
    ELSE [route |-> Append(d.route, n), snr |-> Append(d.snr, n)]

addGatewayToRoute(p, d) ==
    IF p.gateway \in {NoGateway, p.from} THEN d ELSE addNodeToRouteIfMissing(d, p.gateway)

(* The bridge is a hop of its own when it stands before the node that was  *)
(* addressed.                                                              *)
addBridge(p, d) == IF p.to = Self THEN d ELSE addNodeToRouteIfMissing(d, Self)

Arrived(p, d) == [d EXCEPT !.snr = Append(@, p.to)]

(* A list at the end of its way.                                           *)
Completed(p, d) == Arrived(p, addBridge(p, addGatewayToRoute(p, insertUnknownHops(p, d))))

(* The two lists of the answer to a request.                               *)
handleTracerouteRequest(p, d, back) == [towards |-> Completed(p, d), back |-> addBridge(p, back)]

(* The return list of an answer that comes back.                           *)
handleTracerouteResponse(p, d) == Completed(p, d)

-----------------------------------------------------------------------------
(* What formatTracerouteResponse shows beside the k-th hop, and beside the *)
(* last one.                                                               *)
ShownAt(d, k) == IF k <= Len(d.snr) THEN d.snr[k] ELSE Unknown
ShownLast(d) == IF d.snr = << >> THEN Unknown ELSE d.snr[Len(d.snr)]

(* Every hop, and the node at the end, has its own value or none.          *)
ShownRight(d, last) ==
    /\ \A k \in 1..Len(d.route) : ShownAt(d, k) \in {Unknown, d.route[k]}
    /\ ShownLast(d) \in {Unknown, last}

(* The forward list of an answer, shown as it arrived: the nodes on the    *)
(* way out and the target, when it is reached, write their own SNR or      *)
(* none, and any of them may write nothing.                                *)
ForwardFormed(f, target) ==
    /\ Len(f.snr) <= Len(f.route) + 1
    /\ \A k \in 1..Len(f.snr) : f.snr[k] \in {Unknown, IF k <= Len(f.route) THEN f.route[k] ELSE target}

(* The target wrote no SNR: a hop's is the last one.                       *)
Short(f) == Len(f.snr) <= Len(f.route)

(* What formatTracerouteResponse shows: the forward list, with its last    *)
(* SNR beside the target, and the return list unless it has no hops.  The  *)
(* value beside the target is not the bridge's if the list came short.     *)
NoticeRight(f, target, back, last) ==
    /\ \A k \in 1..Len(f.route) : ShownAt(f, k) \in {Unknown, f.route[k]}
    /\ Short(f) \/ ShownLast(f) \in {Unknown, target}
    /\ back.route = << >> \/ ShownRight(back, last)

(* As many SNRs as hops, each the hop's own or none.                       *)
Aligned(d) ==
    /\ Len(d.snr) = Len(d.route)
    /\ \A k \in 1..Len(d.snr) : d.snr[k] \in {Unknown, d.route[k]}

(* A list as the nodes on the way leave it: those that write an SNR write  *)
(* their own, and the list of SNRs may be the shorter one.                 *)
WellFormed(d) ==
    /\ Len(d.snr) <= Len(d.route)
    /\ \A k \in 1..Len(d.snr) : d.snr[k] \in {Unknown, d.route[k]}

(* The packet does not say how far it came, and SNRs are missing: the      *)
(* lists are not brought into step, and what is appended shifts.           *)
Unpadded(p, d) ==
    (p.hopStart = 0 \/ p.hopLimit > p.hopStart) /\ Len(d.snr) < Len(d.route)
=============================================================================
