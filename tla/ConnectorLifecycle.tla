------------------------- MODULE ConnectorLifecycle -------------------------
(***************************************************************************)
(* How the connectors' state changes start and stop the bridge's           *)
(* background tasks, and how channels get into the channel list and the    *)
(* MQTT subscriptions: handleConnectorStateChange and AddChannelDef in     *)
(* pkg/mesh/mesh_client.go, onMeshConnected, onMeshDisconnected and Stop   *)
(* in pkg/connector/connector.go, AddChannel and onMqttConnected in        *)
(* connectors/mqtt_handler.go.  Each report runs in a callback goroutine:  *)
(* the UDP listener has one, its own; the MQTT client starts one for every *)
(* change (OnConnect, OnConnectionLost), so that several reports of one    *)
(* connector can be under way.  The handlers and the join-channel commands *)
(* interleave, and nothing locks either previouslyConnected, the           *)
(* canceller, the channel list or the other connectors' state.             *)
(***************************************************************************)
EXTENDS Naturals, FiniteSets, Sequences

CONSTANTS
    Connectors,      \* c.meshConnectors
    Callbacks,       \* the goroutines that call the state handler
    ConnectorOf,     \* the connector whose changes each of them reports
    Multicast,       \* the connectors that report a loss before they were ever up
    Broker,          \* the MQTT connector, the one that subscribes to channels
    Joiners,         \* goroutines that run the join-channel command
    Defs,            \* channel definitions, <<name, key>>
    Primary,         \* the primary channel
    Portals,         \* the definitions of the rooms that exist
    MaxChanges       \* bound: state changes of the connectors and commands

ASSUME ConnectorsAssumption ==
    /\ IsFiniteSet(Connectors) /\ Multicast \subseteq Connectors /\ Broker \in Connectors
    /\ ConnectorOf \in [Callbacks -> Connectors]
    /\ Joiners \cap Callbacks = {} /\ MaxChanges \in Nat
ASSUME DefsAssumption == Primary \in Defs /\ Portals \subseteq Defs /\ \A d \in Defs : d = <<d[1], d[2]>>

VARIABLES
    connected,            \* what IsConnected of each connector answers
    everUp,               \* the connector has been up (isRestart, previouslyConnected)
    handler,              \* where each callback is
    event,                \* the event that it passes to the state handler
    previouslyConnected,  \* the client's own flag
    created,              \* contexts created so far; they are numbered
    bgTaskCanceller,      \* the context it cancels, 0 for nil
    live,                 \* contexts whose tasks run
    stopping,             \* the bridge's Stop has begun
    halted,               \* the connectors were stopped
    changes,              \* state changes and commands so far
    overlapped,           \* a callback met another or a stop
    crossed,              \* a loss was reported before the up report before it was done
    channels,             \* c.channels
    pendingChannels,      \* of the MQTT connector: names
    subscribed,           \* names the MQTT client handles, also after a reconnect
    adder,                \* what each goroutine does that adds channels
    added,                \* definitions whose AddChannelDef returned
    stranded,             \* names put on the pending list after it was taken
    clobbered             \* definitions that a concurrent append overwrote

tasks == <<created, bgTaskCanceller, live>>
chans == <<channels, pendingChannels, subscribed, adder, added, stranded, clobbered>>
life  == <<connected, everUp, handler, event, previouslyConnected, tasks, stopping,
           halted, overlapped, crossed>>
vars  == <<life, changes, chans>>

Adders == Callbacks \cup Joiners
Name(d) == d[1]
List == {channels[k] : k \in 1..Len(channels)}
NoAdd == [pc |-> "idle", todo |-> {}, def |-> Primary, read |-> << >>]

Init ==
    /\ connected = [c \in Connectors |-> FALSE]
    /\ everUp = [c \in Connectors |-> FALSE]
    /\ handler = [g \in Callbacks |-> "quiet"]
    /\ event = [g \in Callbacks |-> "none"]
    /\ previouslyConnected = FALSE
    /\ created = 0
    /\ bgTaskCanceller = 0
    /\ live = {}
    /\ stopping = FALSE /\ halted = FALSE
    /\ changes = 0
    /\ overlapped = FALSE /\ crossed = FALSE
    /\ channels = <<Primary>>
    /\ pendingChannels = {"PKI", Name(Primary)}
    /\ subscribed = {}
    /\ adder = [g \in Adders |-> NoAdd]
    /\ added = {Primary} /\ stranded = {} /\ clobbered = {}

-----------------------------------------------------------------------------
(* AddChannelDef, for each of a set of definitions.  Definitions are       *)
(* compared by identity, and those that are added are always new, so one   *)
(* is appended every time; the connectors hear of new names only.          *)
Adding(g, l) == adder[g].pc = l
AddChannels(g, ds) == adder' = [adder EXCEPT ![g] = [NoAdd EXCEPT !.pc = "next", !.todo = ds]]

(* Variant: a channel whose name is known is not added again.              *)
ScanByName(g) ==
    /\ Adding(g, "next")
    /\ \E d \in adder[g].todo :
          IF \E v \in List : Name(v) = Name(d)
          THEN /\ adder' = [adder EXCEPT ![g].todo = @ \ {d}]
               /\ added' = added \cup {d}
          ELSE /\ adder' = [adder EXCEPT ![g] =
                      [pc |-> "register", todo |-> @.todo \ {d}, def |-> d, read |-> << >>]]
               /\ UNCHANGED added
    /\ UNCHANGED <<life, changes, channels, pendingChannels, subscribed, stranded, clobbered>>

Scan(g) ==
    /\ Adding(g, "next")
    /\ \E d \in adder[g].todo :
          adder' = [adder EXCEPT ![g] =
             [pc |-> IF \E v \in List : Name(v) = Name(d) THEN "read" ELSE "register",
              todo |-> @.todo \ {d}, def |-> d, read |-> << >>]]
    /\ UNCHANGED <<life, changes, channels, pendingChannels, subscribed, added, stranded, clobbered>>

(* AddChannel of the connectors: UDP needs none; the MQTT client           *)
(* subscribes if it is connected, or else its pending list gets the name.  *)
AddChannel(g) ==
    /\ Adding(g, "register")
    /\ subscribed' = IF connected[Broker] THEN subscribed \cup {Name(adder[g].def)} ELSE subscribed
    /\ adder' = [adder EXCEPT ![g].pc = IF connected[Broker] THEN "read" ELSE "pend"]
    /\ UNCHANGED <<life, changes, channels, pendingChannels, added, stranded, clobbered>>

(* A callback of the MQTT client that has yet to take its pending list.    *)
Draining == \E g \in Callbacks : ConnectorOf[g] = Broker /\ handler[g] \in {"up", "drain"}

(* The client may have connected, and taken its pending list, in between.  *)
AppendPending(g) ==
    LET n == Name(adder[g].def) IN
    /\ Adding(g, "pend")
    /\ pendingChannels' = pendingChannels \cup {n}
    /\ stranded' = IF connected[Broker] /\ ~Draining THEN stranded \cup {n} ELSE stranded
    /\ adder' = [adder EXCEPT ![g].pc = "read"]
    /\ UNCHANGED <<life, changes, channels, subscribed, added, clobbered>>

(* The append reads the list and stores a longer one; it has no lock.      *)
ReadChannels(g) ==
    /\ Adding(g, "read")
    /\ adder' = [adder EXCEPT ![g].pc = "append", ![g].read = channels]
    /\ UNCHANGED <<life, changes, channels, pendingChannels, subscribed, added, stranded, clobbered>>

AppendChannel(g) ==
    /\ Adding(g, "append")
    /\ channels' = Append(adder[g].read, adder[g].def)
    /\ clobbered' = clobbered \cup {d \in List : \A k \in 1..Len(adder[g].read) : adder[g].read[k] # d}
    /\ added' = added \cup {adder[g].def}
    /\ adder' = [adder EXCEPT ![g] =
          IF g \in Joiners THEN NoAdd ELSE [NoAdd EXCEPT !.pc = "next", !.todo = adder[g].todo]]
    /\ UNCHANGED <<life, changes, pendingChannels, subscribed, stranded>>

Added(g) == Adding(g, "next") /\ adder[g].todo = {}

(* The join-channel command.                                               *)
fnJoinChannel(g, d) ==
    /\ g \in Joiners /\ Adding(g, "idle")
    /\ d \notin added
    /\ \E c \in Connectors : connected[c]
    /\ changes < MaxChanges
    /\ changes' = changes + 1
    /\ AddChannels(g, {d})
    /\ UNCHANGED <<life, channels, pendingChannels, subscribed, added, stranded, clobbered>>

-----------------------------------------------------------------------------
(* The end of onMeshConnected: the canceller is replaced, and the tasks    *)
(* start under the new context.                                            *)
RunTasks ==
    /\ created' = created + 1
    /\ bgTaskCanceller' = created + 1
    /\ live' = live \cup {created + 1}

(* Variant: the tasks go on when the mesh is lost.                         *)
onMeshDisconnectedIdle ==
    UNCHANGED tasks

onMeshDisconnected ==
    /\ live' = live \ {bgTaskCanceller}
    /\ UNCHANGED <<created, bgTaskCanceller>>

-----------------------------------------------------------------------------
(* No callback is under way.                                               *)
Quiet == \A g \in Callbacks : handler[g] = "quiet"

(* A connector changes, and a callback that is free begins to report it.   *)
Report(g, l) ==
    /\ ~halted
    /\ handler[g] = "quiet"
    /\ changes < MaxChanges
    /\ changes' = changes + 1
    /\ handler' = [handler EXCEPT ![g] = l]
    /\ overlapped' = (overlapped \/ ~Quiet)
    /\ UNCHANGED <<everUp, previouslyConnected, tasks, stopping, halted, chans>>

ConnectorUp(g) ==
    /\ ~connected[ConnectorOf[g]]
    /\ connected' = [connected EXCEPT ![ConnectorOf[g]] = TRUE]
    /\ event' = [event EXCEPT ![g] = "none"]
    /\ Report(g, "up")
    /\ UNCHANGED crossed

(* The UDP listener reports a failed bind like a lost connection.  The     *)
(* loss of an MQTT connection waits for no callback.                       *)
ConnectorLost(g) ==
    /\ connected[ConnectorOf[g]] \/ ConnectorOf[g] \in Multicast
    /\ connected' = [connected EXCEPT ![ConnectorOf[g]] = FALSE]
    /\ event' = [event EXCEPT ![g] = "EventConnectionLost"]
    /\ Report(g, "called")
    /\ crossed' = (crossed \/ \E h \in Callbacks :
          /\ ConnectorOf[h] = ConnectorOf[g]
          /\ handler[h] # "quiet" /\ event[h] # "EventConnectionLost")

(* The up callback and handleConnectorStateChange, in the steps other      *)
(* goroutines can tell apart: the flags are read and set; the other        *)
(* connectors are counted; and what the count calls for runs.              *)
HandlerAt(c, l) == handler[c] = l
HandlerGoesTo(c, l) == handler' = [handler EXCEPT ![c] = l]
outside == <<connected, everUp, event, stopping, halted, changes, overlapped, crossed>>

(* The connector's own flag is read, then set, without a lock: two         *)
(* callbacks at a time may both take themselves for the first.             *)
FirstUp(g) ==
    \/ ~everUp[ConnectorOf[g]]
    \/ \E h \in Callbacks \ {g} :
          ConnectorOf[h] = ConnectorOf[g] /\ handler[h] = "drain" /\ event[h] = "EventStarted"

CheckRestart(g) ==
    /\ handler[g] = "up"
    /\ \/ everUp[ConnectorOf[g]] /\ event' = [event EXCEPT ![g] = "EventRestarted"]
       \/ FirstUp(g) /\ event' = [event EXCEPT ![g] = "EventStarted"]
    /\ everUp' = [everUp EXCEPT ![ConnectorOf[g]] = TRUE]
    /\ handler' = [handler EXCEPT ![g] = IF ConnectorOf[g] = Broker THEN "drain" ELSE "called"]
    /\ UNCHANGED <<connected, previouslyConnected, tasks, stopping, halted, changes, overlapped,
                   crossed, chans>>

(* Variant: only the first connection takes the pending channels.          *)
DrainFirst(g) ==
    /\ HandlerAt(g, "drain")
    /\ subscribed' = IF event[g] = "EventStarted" THEN subscribed \cup pendingChannels ELSE subscribed
    /\ pendingChannels' = {}
    /\ stranded' = stranded \ pendingChannels
    /\ HandlerGoesTo(g, "called")
    /\ UNCHANGED <<previouslyConnected, tasks, outside, channels, adder, added, clobbered>>

(* onMqttConnected, up to its event.                                       *)
Drain(g) ==
    /\ HandlerAt(g, "drain")
    /\ subscribed' = subscribed \cup pendingChannels
    /\ pendingChannels' = {}
    /\ stranded' = stranded \ pendingChannels
    /\ HandlerGoesTo(g, "called")
    /\ UNCHANGED <<previouslyConnected, tasks, outside, channels, adder, added, clobbered>>

CheckPreviouslyConnected(g) ==
    /\ HandlerAt(g, "called")
    /\ HandlerGoesTo(g, IF previouslyConnected THEN "count" ELSE "first")
    /\ UNCHANGED <<previouslyConnected, tasks, outside, chans>>

(* The first event of all: onMeshConnected begins with the channels of the *)
(* portals, as it does whenever it is not a reconnect.                     *)
FirstConnection(g) ==
    /\ HandlerAt(g, "first")
    /\ previouslyConnected' = TRUE
    /\ AddChannels(g, Portals)
    /\ HandlerGoesTo(g, "first tasks")
    /\ UNCHANGED <<tasks, outside, channels, pendingChannels, subscribed, added, stranded, clobbered>>

(* The channels are added, and the tasks start.                            *)
onMeshConnected(g) ==
    /\ handler[g] \in {"first tasks", "tasks"} /\ Added(g)
    /\ RunTasks
    /\ adder' = [adder EXCEPT ![g] = NoAdd]
    /\ HandlerGoesTo(g, IF HandlerAt(g, "first tasks") THEN "count" ELSE "quiet")
    /\ UNCHANGED <<previouslyConnected, outside, channels, pendingChannels, subscribed, added,
                   stranded, clobbered>>

(* Variant: the connector that changed is counted too.                     *)
CountOthersAndSelf(g) ==
    /\ HandlerAt(g, "count")
    /\ HandlerGoesTo(g, IF \E d \in Connectors : connected[d] THEN "quiet" ELSE "act")
    /\ UNCHANGED <<previouslyConnected, tasks, outside, chans>>

(* Variant: a restart is answered without looking for running tasks of     *)
(* the other connectors.                                                   *)
CountOthersNever(g) ==
    /\ HandlerAt(g, "count")
    /\ HandlerGoesTo(g, "act")
    /\ UNCHANGED <<previouslyConnected, tasks, outside, chans>>

CountOthers(g) ==
    /\ HandlerAt(g, "count")
    /\ HandlerGoesTo(g, IF \E d \in Connectors \ {ConnectorOf[g]} : connected[d] THEN "quiet" ELSE "act")
    /\ UNCHANGED <<previouslyConnected, tasks, outside, chans>>

Notify(g) ==
    /\ HandlerAt(g, "act")
    /\ \/ /\ event[g] = "EventConnectionLost"
          /\ onMeshDisconnected
          /\ HandlerGoesTo(g, "quiet") /\ UNCHANGED adder
       \/ /\ event[g] = "EventRestarted"
          /\ RunTasks
          /\ HandlerGoesTo(g, "quiet") /\ UNCHANGED adder
       \/ /\ event[g] = "EventStarted"
          /\ AddChannels(g, Portals)
          /\ HandlerGoesTo(g, "tasks") /\ UNCHANGED tasks
    /\ UNCHANGED <<previouslyConnected, outside, channels, pendingChannels, subscribed, added,
                   stranded, clobbered>>

(* The bridge stops: first the tasks are cancelled, then the client is     *)
(* disconnected (Disconnect), and a connector may report in between.       *)
Stop ==
    /\ ~stopping
    /\ stopping' = TRUE
    /\ onMeshDisconnected
    /\ overlapped' = (overlapped \/ ~Quiet)
    /\ UNCHANGED <<connected, everUp, handler, event, previouslyConnected, halted, changes, crossed, chans>>

(* The client's Disconnect stops every connector; none of them reports it. *)
(* Besides Stop, the logout of any user calls it, although all users share *)
(* the client.                                                             *)
Disconnect ==
    /\ ~halted
    /\ halted' = TRUE
    /\ connected' = [c \in Connectors |-> FALSE]
    /\ overlapped' = (overlapped \/ ~Quiet)
    /\ UNCHANGED <<everUp, handler, event, previouslyConnected, tasks, stopping, changes, crossed, chans>>

Next ==
    \/ \E g \in Callbacks :
          \/ ConnectorUp(g) \/ ConnectorLost(g)
          \/ CheckRestart(g) \/ Drain(g) \/ CheckPreviouslyConnected(g) \/ FirstConnection(g)
          \/ onMeshConnected(g) \/ CountOthers(g) \/ Notify(g)
    \/ \E g \in Adders :
          \/ Scan(g) \/ AddChannel(g) \/ AppendPending(g) \/ ReadChannels(g) \/ AppendChannel(g)
    \/ \E g \in Joiners, d \in Defs : fnJoinChannel(g, d)
    \/ Stop \/ Disconnect

Spec == Init /\ [][Next]_vars

-----------------------------------------------------------------------------
Names == {Name(d) : d \in Defs} \cup {"PKI"}

(* Types.                                                                  *)
TypeOK ==
    /\ connected \in [Connectors -> BOOLEAN]
    /\ everUp \in [Connectors -> BOOLEAN]
    /\ handler \in [Callbacks -> {"quiet", "up", "drain", "called", "first", "first tasks", "count",
                                "act", "tasks"}]
    /\ event \in [Callbacks -> {"none", "EventStarted", "EventRestarted", "EventConnectionLost"}]
    /\ previouslyConnected \in BOOLEAN
    /\ created \in Nat
    /\ bgTaskCanceller \in 0..created
    /\ live \subseteq 1..created
    /\ stopping \in BOOLEAN /\ halted \in BOOLEAN
    /\ changes \in 0..MaxChanges
    /\ overlapped \in BOOLEAN /\ crossed \in BOOLEAN
    /\ channels \in Seq(Defs)
    /\ pendingChannels \subseteq Names /\ subscribed \subseteq Names /\ stranded \subseteq Names
    /\ adder \in [Adders -> [pc : {"idle", "next", "register", "pend", "read", "append"},
                            todo : SUBSET Defs, def : Defs, read : Seq(Defs)]]
    /\ added \subseteq Defs /\ clobbered \subseteq Defs

(* When every connector is down and no callback is under way, the tasks    *)
(* that the canceller can reach are cancelled, whatever the order in which *)
(* the connectors were lost and the callbacks ran (onMeshDisconnected),    *)
(* unless a loss was reported while its connector's up callback was still  *)
(* at work: that one may start the tasks after they were cancelled.        *)
DownMeansCancelled ==
    Quiet /\ ~halted /\ ~crossed /\ (\A c \in Connectors : ~connected[c])
        => bgTaskCanceller \notin live

(* As long as no callback meets another one or a stop, a mesh with a       *)
(* connected connector has its background tasks running                    *)
(* (handleConnectorStateChange).                                           *)
ConnectedMeansTasks ==
    Quiet /\ ~stopping /\ ~overlapped /\ (\E c \in Connectors : connected[c])
        => bgTaskCanceller \in live

(* Under the same proviso at most one set of tasks escapes the canceller,  *)
(* however often the connectors come and go.                               *)
OneLeakAtMost == ~overlapped => Cardinality(live \ {bgTaskCanceller}) <= 1

(* MeshConnector asks of AddChannel that the list survives restarts of the *)
(* connection.  Every channel in the list has its MQTT subscription        *)
(* whenever the client is connected and has taken its pending list, except *)
(* for a name that got on the list just after it was taken.                *)
ListedIsHeard ==
    connected[Broker] /\ ~Draining =>
        \A d \in List : Name(d) \in subscribed \cup stranded

(* A channel that was joined, by a command or from a portal, stays in the  *)
(* list with the key it was joined with, so that its packets can be read,  *)
(* unless two goroutines appended at the same time (AddChannelDef).        *)
JoinedStays == added \ clobbered \subseteq List

(* One set of background tasks runs at a time: the periodic packets have   *)
(* the rates that background_tasks.go states ("Rates are the standard      *)
(* defaults with a slight offset").                                        *)
OneTaskSet == Cardinality(live) <= 1
=============================================================================
