----------------------------- MODULE MCOutgoing -----------------------------
(***************************************************************************)
(* Two goroutines and two connectors.  The rolling part of an id has three *)
(* values and the random part none, the worst case for two ids to be the   *)
(* same.  The requests: a node info of the bridge, a direct message with   *)
(* PKI, an oversized text and one of a stranger.                           *)
(***************************************************************************)
EXTENDS Outgoing

CONSTANTS own, user, stranger, remote

MCRequests ==
    {SendNodeInfo(own, Broadcast, FALSE), SendMessage(user, remote, TRUE, FALSE),
     SendMessage(user, Broadcast, FALSE, TRUE), SendMessage(stranger, Broadcast, FALSE, FALSE)}
=============================================================================
