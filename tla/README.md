# A TLA+ model of the Matrix–Meshtastic bridge

This directory holds TLA+ specifications of the bridge in `src/`, TLC
configurations that check them on small instances, and TLAPS proofs of the
properties that matter most. Everything is translated from the Go code; the
`map` of `PROJECT.json` gives the lines each definition stands for.

## 1. The system

The bridge joins a Matrix homeserver (through the mautrix `bridgev2` library)
to a Meshtastic mesh, which it reaches over UDP multicast and MQTT. Every
Matrix user is given a virtual mesh node, whose id is derived from the user id.

| Component | State | Operations | Hard behaviour |
|---|---|---|---|
| Packet intake (`mesh/incoming_messages.go`, `data_requests.go`) | duplicate cache and its lock, request throttle, channel list | `handleMeshPacket`, decryption, request handlers, `notifyEvent` | the same packet on several goroutines; expiry; PKI and PSK attempts on one packet |
| UDP connector (`mesh/connectors/udp_handler.go`) | `running`, `listening`, socket, `stopChan`, wait group | `Start`, `listenWithReconnect`, `Stop`, `SendPacket` | stop racing a blocked read, a rebind or another stop |
| MQTT connector (`mesh/connectors/mqtt_handler.go`) | pending channels, connection flag | `AddChannel`, callbacks of the client library, `SendPacket` | channels added while the connection comes up; a loss that is handled while the up callback still runs |
| Connector state (`mesh/mesh_client.go`, `connector/connector.go`) | `previouslyConnected`, `bgTaskCanceller` | `handleConnectorStateChange`, `onMeshConnected`, `onMeshDisconnected`, `Stop`, `Disconnect` | unlocked flag, callbacks of several connectors at once, tasks that cannot be cancelled |
| Outgoing packets (`mesh/outgoing_messages.go`, `mesh_client.go`) | packet id counter, `nodeInfoSendCache`, `sendLock` | `sendBytes` and the `Send…` family | some connectors fail; ids without a lock |
| Managed nodes (`connector/connector.go`, `handle_matrix.go`, `login.go`) | `managedNodeCache`, ghosts, logins | `IsManagedNode`, `UpdateGhostMeshNames`, `SubmitUserInput` | stale answers, lookups that straddle a change, restarts |
| Node database (`connector/meshdb/mesh_node.go` and its callers) | one row per node | `GetByNodeID`, `SetAll`, `SetLastSeen`, key accessors, packet handlers | read–modify–write without transactions, failing queries, rows used minutes later |
| Traceroute (`connector/commands.go`, `traceroute.go`) | pending requests, last request per pair | `fnTraceroute`, `CanSendTraceroute`, `AddRequest`, `handleMeshTraceroute` | answers before the request is tracked, repeated answers, check and record apart |
| Traceroute answers on the mesh (`mesh/traceroute.go`) | none | route and SNR lists | lengths of two lists that must match |
| Channel list (`mesh/mesh_client.go`, `connector/connector.go`, `commands.go`) | `c.channels`, the MQTT pending list and subscriptions | `AddChannelDef`, `onMeshConnected`, `fnJoinChannel` | an append without lock; a name that becomes pending after the list was taken |
| Messages and rooms (`connector/handle_meshtastic.go`, `handle_matrix.go`, `client.go`) | handlers of all logins, portal queues, message and reaction tables | `handleMeshMessage`, `handleMeshReaction`, `HandleMatrixMessage`, `HandleMatrixReaction`, `Connect` | every login's handler sees every event; ids built on both sides; an answer while the message is still being saved; channels of one name and different keys |
| Waypoints (`connector/handle_meshtastic.go`, `meshdb/waypoints.go`) | one row | `handleMeshWaypoint` | lock read and row written in two steps |
| Inactive cleanup (`connector/background_tasks.go`) | none of its own | `cleanupInactiveNodes` and its helpers | a ghost that speaks while it is judged; failing queries and stale answers; clocks of the gateways |
| Periodic packets, chat info, conversion, configuration | tickers | see `PROJECT.json` | the rates of several sets of tasks |

How they interact: the connectors call the client's packet and state handlers
from goroutines of their own. The client calls the connector package back for
events, keys, managed-node answers and connection changes. Matrix events,
commands, logins, the periodic tasks and the packet handlers all run
concurrently and share the node database, the managed-node cache and the
client. Only a few of these structures have a lock.

What makes each part correct is stated in section 4; `PROJECT.json` lists the
hazards with the line where each bites.

## 2. Plan

Done, in this order: packet intake with its abstract specification, UDP
listener, connector life cycle, traceroute tracker, managed nodes, node
database; then outgoing packets, the channel list and MQTT subscriptions as
part of the life cycle, the lists of a traceroute, and the way of messages,
reactions and waypoints into the rooms with the inactive cleanup. Every module
has proofs, and every invariant and action property of a passing run is a
theorem.

Left, in the order of their worth:

1. A composition of `ManagedNodes` with `Outgoing` at the gate of `sendBytes`;
   today the gate is a constant set in `Outgoing` and an action in
   `ManagedNodes`.
2. An abstract specification of a room (a set of messages that only grows,
   reactions that only name members of it) with `MessageRooms` shown to
   implement it. The step of a room in `MessageRoomsProofs` (`RoomMoves`) is
   nearly that already.
3. Safety halves of the liveness properties: that a `Stop` which waits always
   waits for a listener that is still there, and that a goroutine waiting for
   `sendLock` waits for one that has it.

## 3. Modules and how they correspond to the code

* `Delivery` — the abstract promise of the intake: a key enters a window, is
  delivered at most once while it is there, and may be forgotten.
* `PacketIntake` (instance in `MCPacketIntake`) — one thread per goroutine
  that calls `handleMeshPacket`; `pc` names the point between two accesses to
  shared state: `check` and `cache` under `packetCacheLock`, then `decode`,
  `process`, `notify`. A packet is a record of ids, channel hash, the key that
  sealed it and the port. `managedNodeFunc` is a constant set here.
* `UDPListener` — the listener goroutine of `listenWithReconnect` and
  `listenLoop` step by step, and any number of goroutines in `Stop`. A second
  `close(stopChan)` ends the process (`panicked`). The pauses between binds
  have no length.
* `ConnectorLifecycle` (instance in `MCConnectorLifecycle`) — the calls of
  `handleConnectorStateChange`, split where another goroutine can tell: flag
  read, flag set and first callback, count, second callback. A report runs in
  a callback (`Callbacks`): the UDP listener has one goroutine, the MQTT client
  starts one for each change, so a loss can be handled while the up callback
  of the same connector still adds channels, and two up callbacks may both
  take themselves for the first (`CheckRestart`). Task contexts are numbered;
  `live` holds those that run. `Stop` cancels the tasks and `Disconnect` stops
  the connectors, with other steps in between; stopping a connector is one
  step. A name once given to the MQTT client (external) stays handled across
  lost connections, as `onMqttConnected` takes for granted. The
  channel list is part of the module, because `onMeshConnected` adds the
  portals' channels before it starts the tasks and `onMqttConnected` takes the
  pending list before it reports: `AddChannelDef` is the record `adder` with
  its steps scan, register, pend, read and append. A definition is a name and
  a key; definitions are compared by pointer in the code, so one whose name is
  known is appended all the same.
* `RouteDiscovery` — `insertUnknownHops`, `addGatewayToRoute`,
  `addNodeToRouteIfMissing` and the two traceroute handlers as operators on a
  record of two sequences. An SNR is named by the node that measured it, so
  "each hop has its own value or none" can be stated (`ShownRight`), and for
  the whole notice: the forward list, which is shown as it arrived, and the
  completed return list (`NoticeRight`).
* `TracerouteTracker` (instance in `MCTracerouteTracker`, extends
  `RouteDiscovery`) — each run of the command: rate limit, send, time stamp,
  `AddRequest`; answers and requests of other nodes as actions of the mesh,
  each with any lists of `Arrivals`. A packet gets any id, also one that was
  used before or is in use, since `generatePacketId` has no lock (`raced` in
  `Outgoing`) and most of an id is random. `CleanupExpired` has no caller, so
  no action.
* `Outgoing` (instance in `MCOutgoing`) — one goroutine per call of the `Send…`
  family. An id is a pair of random upper bits and rolling lower bits, drawn in
  three unlocked accesses. `Lock` waits for `sendLock`; then every connector
  sends or fails, in any order. A call's number also serves as its time. Each
  `Send…` function is an operator that fills in the `PacketInfo`; the payload
  is reduced to whether it fits. `SendNack` and `SendMapReport` have no callers.
* `MessageRooms` (instance in `MCMessageRooms`) — receiving goroutines run the
  handlers of all logins, with the acknowledgement and the queueing as two
  steps; each portal has a queue (of the bridge library, external) that events
  of both sides go through. Rooms and message ids are tuples built by
  `makePortalKey`, `makeDMPortalKey` and `MakeMessageID`, so both directions
  have to agree on them: a channel's room has its name and key, a message id
  only the name. Packets that came in the clear have no key and go to the room
  without one. The library looks a message id up under the receiver of the
  portal, which all channels share (`HasMessage`). The cleanup is a task of
  its own; its managed test may deny a managed node (`CheckMember`, the
  reasons are in `ManagedNodes`), and activity has the timestamp of the event,
  the gateway's `rx_time`. `SplitPortals` is off, and all waypoints share one
  row, because nothing assigns `MeshWaypointEvent.WaypointID`. An event
  arrives once (see `PacketIntake`).
* `ManagedNodes` — `IsManagedNode` in its three steps (cache, query, store),
  its use in `sendBytes`, `UpdateGhostMeshNames` in five steps, the login that
  follows it, failures of any query, and restarts that keep the database and
  lose the cache. The rows that the updates write are the matter of
  `NodeStore`, which has all their writers.
* `NodeStore` — rows reduced to keys, `is_managed` and whether `last_seen` is
  set; each goroutine reads a row into a struct and later writes all of it.
  A packet that wants a response is answered before the sender's row is read,
  as in `handleMeshNodeInfo`. Failing reads and writes and restarts are
  actions. The row of the bridge's own node is left out: no code creates it,
  and `getGhostPublicKey` dereferences nil when it is missing.
* `PacketIntakeProofs`, `UDPListenerProofs`, `ConnectorLifecycleProofs`,
  `TracerouteTrackerProofs` (with the lemmas about `RouteDiscovery`),
  `OutgoingProofs`, `ManagedNodesProofs`, `NodeStoreProofs`,
  `MessageRoomsProofs` — the theorems.

Operators marked "Variant" in a module are mistaken forms of the definition
after them. They are not part of the specification; substituting one shows
that the property named in `PROJECT.json` notices the mistake.

History variables (`overlapped`, `straddled`, `blind`, `seenFirst`,
`forgotten`, `granted`, `told`, `heard`, `raced`, `issued`, `air`, `added`,
`stranded`, `clobbered`, `crossed`, `garbled`, `due`, `ordered`, `failed`,
`misjudged` …)
record the past for the properties. No guard reads them, except where a bound
is named and where a variable stands for the environment: a node can react to
a Matrix message only after it was `sent`, and a command joins a definition
that was not `added` before, since every join creates a new one.

## 4. What the runs check

| Run | Bounds | Shows |
|---|---|---|
| `intake` | 2 threads, 9 packets, 4 channels (one without key, two of one name), 3 arrivals, 1 expiry per entry, clock 0..2, throttle period 2 | at most one dispatch and one answer per packet and cache lifetime; throttle spacing; channel names; eventual dispatch; refinement of `Delivery` |
| `udp` | 2 callers of `Stop` | no use of a closed socket; `Stop` is final and returns on a network with traffic; events agree with `IsConnected` and alternate; reconnects |
| `udp_silent` | as above, without traffic | **violated**: `Stop` never returns |
| `lifecycle` | UDP with one callback, MQTT with two, 1 joining goroutine, 3 state changes and commands together, 3 channel definitions of 2 names; 617,723 states | no cancellable tasks when all connectors are down; tasks run when one is up; at most one leaked set; every listed channel is subscribed; every joined channel stays listed |
| `lifecycle_rates` | as above | **violated**: two sets of tasks after the first connection |
| `traceroute` | 3 commands, 2 packet ids, 2 pairs, 2 rooms, clock 0..3, timeout 2, 2 arrivals with return lists of up to 2 hops and forward lists of up to 1; 1.96 million states | no more notices than packets, in rooms that sent them; rate limit unless commands overlap; no node's SNR beside another, out and back |
| `traceroute_early` | as above | **violated**: an early answer is dropped |
| `managed` | 1 user, 2 goroutines, 4 operations, 1 restart | answers "yes" are true; logged-in users are not denied |
| `managed_stale` | as above | **violated**: names refused after an early message |
| `outgoing` | 2 goroutines, 2 connectors, 3 calls, rolling part of 3 values, no random part, configured hop limit 7 | an error means nothing went out; packets are not mixed on the air; ids differ; every call returns |
| `messages` | 2 goroutines, 2 logins, 1 channel name with and without a key, 2 remote nodes; six environments of up to 3 events (see `MCMessageRooms`); 232,208 states | direct messages stay private; no message that was due is lost; reactions attach; only inactive ghosts are removed |
| `nodestore` | 1 local and 1 remote node, 1 remote key, 2 goroutines, 4 operations, 1 restart | keys paired; managed rows have keys; announced key stored; remote key current; named nodes managed |

The types of `UDPListener`, `ConnectorLifecycle`, `TracerouteTracker` and
`ManagedNodes` are proved (section 5) and not checked by a run again.

Why the bounds are enough to be interesting: three arrivals on two threads
allow two racing copies and a third after an expiry; a clock one tick past the
period separates early, exact and late requests; three changes let a connector
come up, go and come back, or be lost while its up callback is at work, or
both come up while a command joins a second key for the channel of a room;
three commands must share two packet ids; three calls let two goroutines wait for the lock
while a third packet is sent, and with three rolling values and no random bits
any second packet with a used id shows; the environments of `messages` pair
what can disturb each other (two messages with one packet id, in one room or in
two of one channel name, and a reaction to them while a login joins; a second
`Connect` of a login; both directions at once; a cleanup over three days with a
gateway whose clock is late; three updates of a waypoint) and keep apart what
cannot; four operations let two writers overlap while a third reads before and a fourth after a restart. One user
suffices in `managed` and one node of each kind in `nodestore`, because no
operation of the model touches two users' or two rows' state except the
answer in a packet handler, which joins one remote and one local node.

Properties that hold only with a proviso say so in their definition. The
proviso names the interleaving that really breaks them:

* `overlapped` (`NodeStore`): two writers of one local row at once can leave an
  announced key that is not the stored one; `straddled` (`ManagedNodes`): a
  lookup that straddles the first login can deny a logged-in user until a
  restart.
* `overlapped` (`ConnectorLifecycle`): two callbacks, or a callback and `Stop`,
  at once can start tasks twice or leave none running; `crossed`: a loss that
  is handled while its connector's up callback is still at work cancels first,
  and the tasks are started after it. `DownMeansCancelled` exempts only the
  latter and holds under every other overlap.
* `stranded`: a name put on the pending list after `onMqttConnected` took it
  is not heard until the next connection; `clobbered`: of two appends to the
  channel list at once, one is lost.
* `overlapped` (`TracerouteTracker`): commands between the check and
  `AddRequest` pass the rate limit together; `Unpadded`: lists that arrive out
  of step in a packet without hop count stay out of step; `Short`: when the
  target wrote no SNR, the last one of the forward list is a hop's and is shown
  beside the target.
* `NamesChannel` (`PacketIntake`): a packet in the clear has the name of its
  envelope, and joined channels of different names whose one-byte hashes are
  equal cannot be told apart.
* `raced`: two goroutines that draw a packet id at once can get the same one.
* `misjudged`: a ghost that speaks between the cleanup's check and the removal,
  or whose activity could not be read, is removed although it is active, and a
  managed one when `IsManagedNode` fails or has an old answer.
* `IdTaken`: rooms of channels with one name and different keys share their
  message ids, so a message can be taken for a duplicate of the other room's;
  `failed`: a query that fails loses the event; `ordered`: a reaction that
  overtakes its message is dropped, so the property is about those that come
  when a Matrix message of their room is sent, or when all handlers are done
  with a mesh message of their room.

`CHECK_DEADLOCK FALSE` is set everywhere: all runs are bounded, and the bridge
may rest when nothing arrives.

### Fairness

* `intake`: weak fairness of every thread inside `handleMeshPacket`. Go
  schedules runnable goroutines, and the lock is held for two map operations.
  Arrivals, expiries and the clock are not forced.
* `udp`: weak fairness of `Start`, of the listener's non-blocking steps and of
  a `Stop` under way; strong fairness of a successful bind (the interface comes
  back eventually). `BusySpec` adds weak fairness of `ReadDatagram`, a network
  with traffic; `Spec`, used by `udp_silent`, does not.
* `outgoing`: weak fairness of every goroutine inside `sendBytes`, which
  includes the connectors' `SendPacket` (each of them returns), and strong
  fairness of `Lock`: Go's mutex hands itself to a waiter that starves. Calls
  are not forced.

### Findings

1. `Stop` of the UDP connector closes the socket only after the listener has
   ended, while the listener sits in `ReadFromUDP` without deadline. On a
   silent network a shutdown hangs.
2. The client's first event calls `onConnectHandler` twice. The first set of
   background tasks keeps running and is out of the canceller's reach.
3. A traceroute is tracked only after it is sent, so a fast answer is lost.
4. A negative answer of `IsManagedNode` is cached for good: who writes first
   and sets names later is refused until the bridge restarts. The same cache
   makes the first message of a user without names fail, although README.md:45
   says that a login is "not required in order to chat in existing bridged
   rooms".

### Observations made on the way

These follow from reading the code for the models; no run states them.

* The throttle in `SendNodeInfo` (outgoing_messages.go:52) adds the period
  where it would have to subtract it, and never refuses (`SentTooRecently`).
* A packet counts as sent unless every connector failed; with no connector at
  all it counts as sent too.
* `Connect` adds an event handler each time and nothing removes one; only the
  message ids keep a login that reconnected from seeing messages twice.
* A portal's id has the name and the key of its channel, a message id only the
  name (ids.go:51, 63; the comment there leaves the key's hash to do): two
  channels of one name share their message ids.
* Only `tryDecryptPSK` gives a packet a channel key (incoming_messages.go:128),
  so a packet in the clear belongs to the portal without key. It is shown only
  to logins that joined its channel with encryption off.
* The notice of a traceroute puts the last SNR of the forward list beside the
  target, "Final hop SNR (received at destination)" (traceroute.go:162), also
  when the target wrote none and the value is a hop's.
* The cleanup treats a failed query like a ghost that is not managed or never
  spoke. A ghost whose gateway's clock is late looks inactive.
* The lock of a waypoint is tested when the row is read, and the row is written
  later (handle_meshtastic.go:591): two goroutines can pass the test together,
  so no property states that the lock holds. A delete does not ask who locked
  it, and an update without an expiry counts as a delete.
* `updateDMPortalInfo` logs that a portal has no logins and then indexes the
  empty list (handle_matrix.go:237).
* Packets of ports without an event type reach the handlers as a `MeshEvent`
  value (incoming_messages.go:198), so the case for `*mesh.MeshEvent` in
  `handleGlobalMeshEvent` is never taken and such packets do not count as a
  sign of life.
* One user's logout disconnects the client that all users share.

## 5. What is proved

Assumptions on constants are the named `ASSUME`s of each module. They say
that sentinels are not members (`NoRow` is not a row, `None` is not a packet
id), that bounds are naturals, that packets and the channel list are well
formed, and that no two logins have one node, since the id of a login is made
from its node (`MakeUserLoginID`). TLC evaluates them in every run.

* **Packet intake.** `TypeCorrect`, `DeliveredAtMostOnce`, `GrantsAreSpaced`
  and `IntakeImplementsDelivery` hold for any threads, packets, channels and
  bounds. `AtMostOnce` is not inductive. The strengthening says who owns a
  key: a thread between `cache` and its return is the only one that carries
  the key, the key is in the cache for as long, and dispatches so far plus the
  one in hand never exceed the cache lifetimes. The lock is needed to show
  that no two threads stand at `cache`. For the throttle, the strengthening
  ties each grant to `last`: no grant is later than `last`, and `last` is a
  grant. The refinement maps the cache to the window, the carried keys to the
  keys in hand, and the counters to themselves. `EventsAlwaysNamed` holds for
  a channel list of any length: `getChannelNameFromHash` takes the first match,
  which exists by the well-ordering of the naturals (`LeastNatural`), and the
  name is right from the moment the packet is open until its event is made
  (`NamesInv`).
* **UDP listener.** `SocketIsHeld`, `StopIsFinal`, `AnnouncementsAreTrue` and
  `AnnouncementsAlternate` hold for any set of callers of `Stop`. The
  invariant relates the wait group's counter to the listener's life
  (`Signoff`), the position of each `Stop` to `running` and the listener
  (`StopOrder`), and the events to the listener's position (`Announced`,
  `Counted`).
* **Outgoing packets.** `TypeCorrect` (hop counts fit three bits for any
  configured limit), `ReportAlwaysTrue` and `NeverInterleaved` hold for any
  goroutines, any finite set of connectors and any calls. The invariant says
  that no two goroutines share a call number (`Numbered`), that only the
  holder of the lock transmits (`HolderSends`), that nothing of a call is on
  the air before it transmits (`QuietBefore`), and that while it does, its
  packet is the last on the air exactly if some connector neither failed nor
  is still to come (`Transmitting`). That failures are counted and not listed
  needs the finiteness of the connectors. `IdsAlwaysDiffer` holds for a rolling
  counter of any size: while nobody raced, one goroutine draws at a time and
  goes on from the id given out last (`OneDraws`), and the last id is as far
  from each of the ids before it as their places are apart, less at most one
  turn (`InTurn`).
* **Connector life cycle and channels.** `Invariance` (types included),
  `DownAlwaysCancels`, `ConnectedAlwaysTasks`, `ListedAlwaysHeard` and
  `JoinedAlwaysStays` hold for any connectors, channels and commands. A
  channel must be registered before it is in the list, also in the list a
  goroutine is about to store (`Registered`); only stranded names are pending
  once the list was taken (`PendingTaken`). As long as no loss crossed the up
  callback of its connector, an up callback finds its connector connected
  (`ReportsInOrder`); that is why `DownAlwaysCancels` holds under all the other
  overlaps. For the tasks,
  `Orderly` says which connectors may be up in each phase of the only callback
  under way.
  `OneLeakAtMostAlways` rests on `LeftBehind`: only the first context can be
  the one that is left behind, and a later handler that starts tasks finds the
  canceller's cancelled.
* **Traceroute.** `ReturnRouteShownRight` and `AnswerRoutesShownRight` hold
  for lists of any length: padding brings the lists in step, and every append
  keeps them so; `NoticeShownRight` says it of the whole notice, forward list
  included. `NoticesAreRouted`, `RequestsAreSpaced` and `HopsAlwaysRight` hold
  for any commands, answers and packet ids, shared ones too. The notices of an
  id and the request pending under it are together no more than the commands
  that track it (`Tracked`), each of which sent it (`Numbered`); the rate limit
  follows from the times of the commands of a pair (`Separate`).
* **Managed nodes.** `Invariance`, `GrantsAreTrue` and `LoginsCanSend` hold for
  any users, goroutines and restarts. The invariant ties what a goroutine holds
  to its place (`Engaged`) and excludes a negative answer in hand for a managed
  user (`NoLateDenial`, `NotDenied`).
* **Node database.** `KeysAlwaysBelong` and `ManagedRowsHaveKeys` hold for any
  nodes, keys, goroutines and bounds. A goroutine may write a struct it read
  long ago, so the promise must hold of every struct in hand (`StructsKept`)
  and each operation must fit the kind of its node (`OpsFit`). A consequence:
  the branch of `getGhostPrivateKey` that returns the public half
  (handle_matrix.go:292) is never reached. `ToldKeyAlwaysStored`,
  `RemoteKeyAlwaysLatest` and `NamedAlwaysManaged` relate rows to the past, and
  need a second invariant (`History`): who writes and when (`Places`,
  `OneWriter`), that the key of a local node never changes once it is there
  (`KeyFixed`), that a map report brings back the key it read (`KeyHeard`) and
  that structs on their way to a local row are marked (`Marked`).
* **Messages and rooms.** `TypeCorrect`, `DirectAlwaysPrivate`,
  `DueAlwaysShown`, `ReactionsAlwaysAttach` and `ActiveGhostsAlwaysStay` hold
  for any logins, channel names and keys, goroutines, events and thresholds.
  For a room every step of the bridge is one of four: nothing, an event joins
  its queue, the head leaves it, or the head is given its packet id
  (`RoomMoves`); the proofs about rooms use only these. The first invariant
  says whose event a goroutine has (`ThreadsOK`), that what waits in a queue
  belongs to its room (`QueuesOK`), that what is stored in a room came from the
  mesh for it or was sent from it (`OriginOK`), and that the cleanup's
  threshold only gets older and the ghost in its hand was inactive or misjudged
  (`CleanupOK`). The second follows a due event: it is with a goroutine that
  still has a handler to run which wants it, or in the queue of its room, or
  its id is in the tables (`NotLost`); and what a reaction needs is stored or
  in front of it in the queue (`InOrder`). Both are proved together, since a
  reaction is in order only because the message before it was not lost. That
  an id in the tables is the room's own, or was another room's, follows from
  `OriginOK` (`StoredOrTaken`).

The proof of `ReactionsAttach` showed that an earlier form of it was false
outside the instance that TLC checks: a message of another room with the same
packet id made a reaction count as ordered. `ordered` now asks for a message of
the reaction's room, and the property no longer presupposes that the message
is stored.

Only model-checked: the liveness properties `EventuallyDispatched`,
`StopReturns`, `Reconnects` and `CallsReturn`, since fairness and `ENABLED` are
outside the prover. The four violated properties are shown by their
counterexamples.

## 6. What is not modelled

* Message texts, telemetry and other payloads, names and roles of nodes, and
  the conversion of messages: values that no state change depends on.
* Geo URIs and the precision of positions: parsing and floating-point
  arithmetic, which TLA+ does not have.
* Chat info and capabilities, configuration and program entry: static or read
  once at start. Schema upgrades run in the database library before the bridge
  starts.
* Typing notices, read receipts and removals of reactions do nothing in the
  code; membership changes only talk to the homeserver.
* The lengths of pauses; cryptography, of which only "this key opens this
  packet" is kept.
* The bridge library, apart from the ghosts, logins, queues and tables it
  keeps for the bridge; these are external in the map.
* A data race on the cache map of `IsManagedNode` may end the process, which
  `Restart` covers. Messages between a crash and a restart are not followed:
  `MessageRooms` has no restart, and the bridge keeps nothing of a message
  before the library stores it.

`PROJECT.json` gives the reason for every part that stays out.
