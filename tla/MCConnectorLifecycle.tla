----------------------- MODULE MCConnectorLifecycle -----------------------
(***************************************************************************)
(* UDP with the one goroutine of its listener, MQTT with two callbacks     *)
(* that may be under way together, and one command.  The rooms have one    *)
(* channel besides the primary one; the command joins that name with       *)
(* another key, before or after the room's own channel is added.           *)
(***************************************************************************)
EXTENDS ConnectorLifecycle, TLC

CONSTANTS udp, mqtt, listener, onChange1, onChange2

MCConnectorOf == listener :> udp @@ onChange1 :> mqtt @@ onChange2 :> mqtt
MCPrimary == <<"long", 1>>
MCPortals == {<<"room", 1>>}
MCDefs == {MCPrimary, <<"room", 2>>} \cup MCPortals

(* The MQTT callbacks run the same code.                                   *)
Alike == Permutations({onChange1, onChange2})
=============================================================================
