--------------------------- MODULE MCMessageRooms ---------------------------
(***************************************************************************)
(* Two receiving goroutines, two logins, and two remote nodes; one login   *)
(* is in a channel, the other in the channel without a key that has the    *)
(* same name.  A behaviour has one of six environments: two messages that  *)
(* share a packet id, in one room or in both, and a reaction, while a      *)
(* login joins; a channel and a direct message while a login connects once *)
(* more and one joins; Matrix messages and a reaction in either direction; *)
(* a cleanup over three days with gateways whose clocks differ; and three  *)
(* updates of waypoints.                                                   *)
(***************************************************************************)
EXTENDS MessageRooms, TLC

CONSTANTS l1, l2, u1, u2, n1, n2, ch, k

E(kind, id, from, to, wantAck, replyId) ==
    [kind |-> kind, id |-> id, from |-> from, to |-> to, channel |-> ch, key |-> k,
     wantAck |-> wantAck, timestamp |-> 1, replyId |-> replyId, lockedTo |-> None, isDelete |-> FALSE]

W(id, from, lockedTo, isDelete) ==
    [E("waypoint", id, from, Broadcast, FALSE, None) EXCEPT !.lockedTo = lockedTo, !.isDelete = isDelete]

MCNodeOf == (l1 :> u1) @@ (l2 :> u2)
MCHandlers == <<l1, l2>>
MCMembers == (<<ch, k>> :> {l1}) @@ (<<ch, None>> :> {l2})

First   == E("message", 1, n1, Broadcast, TRUE, None)
Second  == E("message", 1, n2, Broadcast, FALSE, None)
InClear == [Second EXCEPT !.key = None]
React   == E("reaction", 2, n2, Broadcast, FALSE, 1)
Late    == [React EXCEPT !.timestamp = 0]
Direct  == E("message", 3, n1, u2, TRUE, None)
ToOwn   == {E("reaction", 4, n1, Broadcast, TRUE, 9), E("reaction", 5, n1, u1, FALSE, 9)}
Markers == {W(6, n1, n1, FALSE), W(7, n2, None, FALSE), W(8, n2, None, TRUE)}

MCEvents == {First, Second, InClear, Late, Direct, React} \cup ToOwn \cup Markers

ThreadSymmetry == Permutations(Threads)

Quiet(events) ==
    [events |-> events, joins |-> {}, connects |-> 0, own |-> 0, days |-> 0, cleanups |-> 0]

MCBounds ==
    {[Quiet({First, Second, React}) EXCEPT !.joins = {<<l2, <<ch, k>>>>}],
     [Quiet({First, InClear, React}) EXCEPT !.joins = {<<l1, <<ch, None>>>>}],
     [Quiet({First, Direct}) EXCEPT !.connects = 1, !.joins = {<<l2, <<ch, k>>>>}],
     [Quiet(ToOwn) EXCEPT !.own = 2],
     [Quiet({First, Late}) EXCEPT !.days = 2, !.cleanups = 1],
     Quiet(Markers)}
=============================================================================
