---------------------- MODULE ConnectorLifecycleProofs ----------------------
(***************************************************************************)
(* Any number of connectors that come and go, of channels and of           *)
(* goroutines that add them.                                               *)
(***************************************************************************)
EXTENDS ConnectorLifecycle, FiniteSetTheorems, TLAPS

AdderType == [pc : {"idle", "next", "register", "pend", "read", "append"},
              todo : SUBSET Defs, def : Defs, read : Seq(Defs)]

Phases == {"quiet", "up", "drain", "called", "first", "first tasks", "count", "act", "tasks"}
Events == {"none", "EventStarted", "EventRestarted", "EventConnectionLost"}

(* The definitions a goroutine is about to put into the list.              *)
Coming(g) ==
    IF Adding(g, "read") THEN {adder[g].def}
    ELSE IF Adding(g, "append")
    THEN {adder[g].def} \cup {adder[g].read[k] : k \in 1..Len(adder[g].read)}
    ELSE {}

(* What is in the list, or about to be, is subscribed or waits on the      *)
(* pending list.                                                           *)
Registered ==
    \A d \in List \cup UNION {Coming(g) : g \in Adders} : Name(d) \in subscribed \cup pendingChannels

(* Once the client is connected and took the pending list, only stranded   *)
(* names are on it.                                                        *)
PendingTaken == connected[Broker] /\ ~Draining => pendingChannels \subseteq stranded

Lost(g) == event[g] = "EventConnectionLost"

(* A callback that runs for a connector that came up finds it up, unless   *)
(* its loss crossed it; one that runs alone for a loss finds it down.      *)
ReportsInOrder ==
    /\ \A g \in Callbacks :
          /\ handler[g] # "quiet" /\ ~Lost(g) /\ ~halted /\ ~crossed => connected[ConnectorOf[g]]
          /\ handler[g] # "quiet" /\ Lost(g) /\ ~overlapped => ~connected[ConnectorOf[g]]
          /\ handler[g] = "tasks" => event[g] = "EventStarted"
          /\ handler[g] = "up" => ~Lost(g)
    /\ halted => \A c \in Connectors : ~connected[c]
    /\ crossed => overlapped

Inv == TypeOK /\ Registered /\ PendingTaken /\ ReportsInOrder /\ DownMeansCancelled /\ JoinedStays

(* What a mesh without overlapping reports has in each phase of a callback. *)
Alone(g) == \A d \in Connectors \ {ConnectorOf[g]} : ~connected[d]

Orderly ==
    /\ \A g, h \in Callbacks : handler[g] # "quiet" /\ handler[h] # "quiet" => g = h
    /\ ~previouslyConnected => \A c \in Connectors :
          connected[c] => \E g \in Callbacks : ConnectorOf[g] = c /\ handler[g] # "quiet"
    /\ \A g \in Callbacks :
          /\ handler[g] \in {"first tasks", "count", "act", "tasks"} => previouslyConnected
          /\ handler[g] \in {"first", "first tasks", "act", "tasks"} => Alone(g)
          /\ handler[g] \in {"up", "drain", "called", "count"} => Alone(g) \/ bgTaskCanceller \in live
    /\ Quiet => (\A c \in Connectors : ~connected[c]) \/ bgTaskCanceller \in live

TasksInv == ~stopping /\ ~overlapped => Orderly

(* The context of the first connection is the one that is left behind: its *)
(* callback goes on to the switch and starts the tasks a second time.      *)
(* Later a callback that is to start tasks finds the canceller's cancelled. *)
LeftBehind ==
    /\ \A g, h \in Callbacks : handler[g] # "quiet" /\ handler[h] # "quiet" => g = h
    /\ ~previouslyConnected => created = 0
    /\ \A g \in Callbacks :
          /\ handler[g] \in {"first", "first tasks"} => created = 0
          /\ handler[g] \in {"first tasks", "count", "act", "tasks"} => previouslyConnected
          /\ handler[g] \in {"act", "tasks"} => Alone(g)
          /\ handler[g] # "quiet" /\ ~Lost(g) /\ Alone(g)
                => created <= 1 \/ bgTaskCanceller \notin live
    /\ live \ {bgTaskCanceller} \subseteq {1}

LeakInv == ~overlapped => LeftBehind

-----------------------------------------------------------------------------
(* The steps of the callbacks and of the bridge; the others add channels.  *)
Handles(g) ==
    \/ ConnectorUp(g) \/ ConnectorLost(g)
    \/ CheckRestart(g) \/ Drain(g) \/ CheckPreviouslyConnected(g) \/ FirstConnection(g)
    \/ onMeshConnected(g) \/ CountOthers(g) \/ Notify(g)

Lives == (\E g \in Callbacks : Handles(g)) \/ Stop \/ Disconnect

Adds(g) ==
    \/ Scan(g) \/ AddChannel(g) \/ AppendPending(g) \/ ReadChannels(g) \/ AppendChannel(g)
    \/ g \in Joiners /\ \E d \in Defs : fnJoinChannel(g, d)

LEMMA NextSplits == Next => Lives \/ \E g \in Adders : Adds(g)
BY DEF Next, Lives, Handles, Adds, Adders

LEMMA AdderTypes ==
    /\ NoAdd \in AdderType
    /\ \A ds \in SUBSET Defs : [NoAdd EXCEPT !.pc = "next", !.todo = ds] \in AdderType
<1>1. << >> \in Seq(Defs) /\ Primary \in Defs
  BY DefsAssumption
<1>2. NoAdd \in AdderType
  BY <1>1 DEF NoAdd, AdderType
<1>3. ASSUME NEW ds \in SUBSET Defs
      PROVE  [NoAdd EXCEPT !.pc = "next", !.todo = ds] \in AdderType
  BY <1>2 DEF AdderType
<1> QED
  BY <1>2, <1>3

LEMMA NameTypes == \A d \in Defs : Name(d) \in Names
BY DEF Names

(* Adding channels leaves the handlers and the tasks alone.                *)
LEMMA AddsLeaveLife ==
    ASSUME NEW g \in Adders, Adds(g)
    PROVE  UNCHANGED life
BY DEF Adds, Scan, AddChannel, AppendPending, ReadChannels, AppendChannel, fnJoinChannel

(* Handlers leave the list alone, and may begin to add channels or end it. *)
LEMMA HandlersLeaveList ==
    ASSUME TypeOK, Lives
    PROVE  /\ UNCHANGED <<channels, added, clobbered>>
           /\ \/ adder' = adder
              \/ \E g \in Callbacks, a \in AdderType :
                    a.pc \in {"idle", "next"} /\ adder' = [adder EXCEPT ![g] = a]
           /\ \/ UNCHANGED <<pendingChannels, subscribed, stranded>>
              \/ \E g \in Callbacks : Drain(g)
<1>1. CASE \E g \in Callbacks : ConnectorUp(g) \/ ConnectorLost(g) \/ CheckRestart(g) \/ Drain(g)
                   \/ CheckPreviouslyConnected(g) \/ CountOthers(g)
  BY <1>1 DEF ConnectorUp, ConnectorLost, Report, CheckRestart, Drain, CheckPreviouslyConnected, CountOthers, chans
<1>2. CASE \E g \in Callbacks : FirstConnection(g) \/ onMeshConnected(g) \/ Notify(g)
  <2> DEFINE begin == [NoAdd EXCEPT !.pc = "next", !.todo = Portals]
  <2>1. PICK g \in Callbacks : FirstConnection(g) \/ onMeshConnected(g) \/ Notify(g)
    BY <1>2
  <2>2. /\ adder' \in {adder, [adder EXCEPT ![g] = begin], [adder EXCEPT ![g] = NoAdd]}
        /\ UNCHANGED <<channels, added, clobbered, pendingChannels, subscribed, stranded>>
    BY <2>1 DEF FirstConnection, onMeshConnected, Notify, AddChannels
  <2>3. begin \in AdderType /\ NoAdd \in AdderType /\ begin.pc = "next" /\ NoAdd.pc = "idle"
    BY AdderTypes, DefsAssumption DEF NoAdd
  <2> HIDE DEF begin
  <2> QED
    BY <2>2, <2>3
<1>3. CASE Stop \/ Disconnect
  BY <1>3 DEF Stop, Disconnect, chans
<1> QED
  BY <1>1, <1>2, <1>3 DEF Lives, Handles

-----------------------------------------------------------------------------
LEMMA InitInv == Init => Inv
<1> SUFFICES ASSUME Init PROVE Inv
  OBVIOUS
<1>1. TypeOK
  <2>1. /\ connected \in [Connectors -> BOOLEAN] /\ everUp \in [Connectors -> BOOLEAN]
        /\ previouslyConnected \in BOOLEAN /\ stopping \in BOOLEAN /\ halted \in BOOLEAN
        /\ overlapped \in BOOLEAN /\ crossed \in BOOLEAN
    BY Zenon DEF Init
  <2>2. adder \in [Adders -> AdderType]
    BY AdderTypes DEF Init
  <2>3. /\ channels \in Seq(Defs) /\ pendingChannels \subseteq Names
        /\ subscribed \subseteq Names /\ stranded \subseteq Names
        /\ added \subseteq Defs /\ clobbered \subseteq Defs
    BY DefsAssumption, NameTypes DEF Init, Names
  <2> QED
    BY <2>1, <2>2, <2>3, ConnectorsAssumption DEF Init, TypeOK, AdderType
<1>2. JoinedStays
  BY DEF Init, JoinedStays, List
<1>3. Registered
  BY DEF Init, Registered, Coming, Adding, NoAdd, List
<1>4. PendingTaken /\ ReportsInOrder /\ DownMeansCancelled
  BY ConnectorsAssumption DEF Init, PendingTaken, ReportsInOrder, DownMeansCancelled, Lost
<1> QED
  BY <1>1, <1>2, <1>3, <1>4 DEF Inv

LEMMA AddsKeepType ==
    ASSUME TypeOK, NEW g \in Adders, Adds(g)
    PROVE  TypeOK'
<1>0. adder \in [Adders -> AdderType] /\ adder[g] \in AdderType
  BY DEF TypeOK, AdderType
<1>1. CASE Scan(g)
  <2>1. PICK d \in adder[g].todo, l \in {"read", "register"} : adder' = [adder EXCEPT ![g] =
             [pc |-> l, todo |-> adder[g].todo \ {d}, def |-> d, read |-> << >>]]
    BY <1>1 DEF Scan
  <2>2. [pc |-> l, todo |-> adder[g].todo \ {d}, def |-> d, read |-> << >>] \in AdderType
    BY <1>0, <2>1 DEF AdderType
  <2>3. adder' \in [Adders -> AdderType]
    BY <1>0, <2>1, <2>2
  <2> QED
    BY <1>1, <2>3 DEF Scan, TypeOK, AdderType, life, tasks
<1>2. CASE AddChannel(g) \/ AppendPending(g)
  <2>1. PICK l \in {"read", "pend"} : adder' = [adder EXCEPT ![g].pc = l]
    BY <1>2 DEF AddChannel, AppendPending
  <2>2. adder' \in [Adders -> AdderType]
    BY <1>0, <2>1 DEF AdderType
  <2>3. Name(adder[g].def) \in Names
    BY <1>0, NameTypes DEF AdderType
  <2>4. pendingChannels' \subseteq Names /\ subscribed' \subseteq Names /\ stranded' \subseteq Names
    BY <1>2, <2>3 DEF AddChannel, AppendPending, TypeOK
  <2> QED
    BY <1>2, <2>2, <2>4 DEF AddChannel, AppendPending, TypeOK, AdderType, life, tasks
<1>3. CASE ReadChannels(g)
  <2>1. adder' \in [Adders -> AdderType]
    BY <1>0, <1>3 DEF ReadChannels, TypeOK, AdderType
  <2> QED
    BY <1>3, <2>1 DEF ReadChannels, TypeOK, AdderType, life, tasks
<1>4. CASE AppendChannel(g)
  <2>1. [NoAdd EXCEPT !.pc = "next", !.todo = adder[g].todo] \in AdderType /\ NoAdd \in AdderType
    BY <1>0, AdderTypes DEF AdderType
  <2>2. adder' \in [Adders -> AdderType]
    BY <1>0, <1>4, <2>1 DEF AppendChannel
  <2>3. adder[g].def \in Defs /\ adder[g].read \in Seq(Defs)
    BY <1>0 DEF AdderType
  <2>4. channels' \in Seq(Defs) /\ added' \subseteq Defs
    <3>1. /\ channels' = Append(adder[g].read, adder[g].def)
          /\ added' = added \cup {adder[g].def} /\ added \subseteq Defs
      BY <1>4 DEF AppendChannel, TypeOK
    <3> QED
      BY <2>3, <3>1
  <2>5. clobbered' \subseteq Defs
    <3>1. clobbered' \subseteq clobbered \cup List /\ clobbered \subseteq Defs
      BY <1>4 DEF AppendChannel, TypeOK
    <3>2. channels \in Seq(Defs)
      BY DEF TypeOK
    <3>3. List \subseteq Defs
      BY <3>2 DEF List
    <3> QED
      BY <3>1, <3>3
  <2> QED
    BY <1>4, <2>2, <2>4, <2>5 DEF AppendChannel, TypeOK, AdderType, life, tasks
<1>5. CASE \E d \in Defs : fnJoinChannel(g, d)
  <2>1. PICK d \in Defs : fnJoinChannel(g, d)
    BY <1>5
  <2>2. adder' \in [Adders -> AdderType]
    BY <1>0, <2>1, AdderTypes DEF fnJoinChannel, AddChannels
  <2> QED
    <3>1. changes' \in 0..MaxChanges
      <4>1. changes \in 0..MaxChanges /\ changes < MaxChanges /\ changes' = changes + 1 /\ MaxChanges \in Nat
        BY <2>1, ConnectorsAssumption DEF fnJoinChannel, TypeOK
      <4> QED
        BY <4>1
    <3> QED
      BY <2>1, <2>2, <3>1 DEF fnJoinChannel, TypeOK, AdderType, life, tasks
<1> QED
  BY <1>1, <1>2, <1>3, <1>4, <1>5 DEF Adds

LEMMA LivesKeepType ==
    ASSUME TypeOK, Lives
    PROVE  TypeOK'
<1>1. adder' \in [Adders -> AdderType] /\ UNCHANGED <<channels, added, clobbered>>
  <2>1. adder \in [Adders -> AdderType]
    BY DEF TypeOK, AdderType
  <2>2. \A g \in Callbacks, a \in AdderType : [adder EXCEPT ![g] = a] \in [Adders -> AdderType]
    BY <2>1 DEF Adders
  <2> QED
    BY <2>1, <2>2, HandlersLeaveList
<1>2. pendingChannels' \subseteq Names /\ subscribed' \subseteq Names /\ stranded' \subseteq Names
  <2>1. pendingChannels \subseteq Names /\ subscribed \subseteq Names /\ stranded \subseteq Names
    BY DEF TypeOK
  <2>2. CASE UNCHANGED <<pendingChannels, subscribed, stranded>>
    BY <2>1, <2>2
  <2>3. CASE \E g \in Callbacks : Drain(g)
    BY <2>1, <2>3 DEF Drain
  <2> QED
    BY <2>2, <2>3, HandlersLeaveList
<1>3. /\ created' \in Nat /\ bgTaskCanceller' \in 0..created' /\ live' \subseteq 1..created'
  <2>1. UNCHANGED tasks \/ RunTasks \/ onMeshDisconnected
    BY DEF Lives, Handles, ConnectorUp, ConnectorLost, Report, CheckRestart, Drain, CheckPreviouslyConnected,
           FirstConnection, onMeshConnected, CountOthers, Notify, Stop, Disconnect
  <2>2. created \in Nat /\ bgTaskCanceller \in 0..created /\ live \subseteq 1..created
    BY DEF TypeOK
  <2>3. CASE RunTasks
    <3>1. 1..created \subseteq 1..created + 1 /\ created + 1 \in 1..created + 1
      BY <2>2
    <3> QED
      BY <2>2, <2>3, <3>1 DEF RunTasks
  <2>4. CASE UNCHANGED tasks \/ onMeshDisconnected
    BY <2>2, <2>4 DEF tasks, onMeshDisconnected
  <2> QED
    BY <2>1, <2>3, <2>4
<1>4. /\ connected' \in [Connectors -> BOOLEAN] /\ everUp' \in [Connectors -> BOOLEAN]
      /\ previouslyConnected' \in BOOLEAN /\ stopping' \in BOOLEAN /\ halted' \in BOOLEAN
  BY ConnectorsAssumption DEF TypeOK, Lives, Handles, ConnectorUp, ConnectorLost, Report, CheckRestart,
         Drain, CheckPreviouslyConnected, FirstConnection, onMeshConnected, CountOthers, Notify, Stop, Disconnect, outside
<1>5. overlapped' \in BOOLEAN /\ crossed' \in BOOLEAN
  <2>1. CASE \E g \in Callbacks : ConnectorUp(g) \/ ConnectorLost(g)
    BY <2>1, Zenon DEF TypeOK, ConnectorUp, ConnectorLost, Report
  <2>2. CASE Stop \/ Disconnect
    BY <2>2, Zenon DEF TypeOK, Stop, Disconnect
  <2>3. CASE \E g \in Callbacks : CheckRestart(g) \/ Drain(g) \/ CheckPreviouslyConnected(g)
                     \/ FirstConnection(g) \/ onMeshConnected(g) \/ CountOthers(g) \/ Notify(g)
    BY <2>3 DEF TypeOK, CheckRestart, Drain, CheckPreviouslyConnected, FirstConnection, onMeshConnected,
                CountOthers, Notify, outside
  <2> QED
    BY <2>1, <2>2, <2>3 DEF Lives, Handles
<1>6. handler' \in [Callbacks -> Phases]
  <2>1. handler \in [Callbacks -> Phases]
    BY DEF TypeOK, Phases
  <2>2. handler' = handler \/ \E g \in Callbacks, l \in Phases : handler' = [handler EXCEPT ![g] = l]
    <3>1. CASE Stop \/ Disconnect
      BY <3>1 DEF Stop, Disconnect
    <3>2. CASE \E g \in Callbacks : ConnectorUp(g) \/ ConnectorLost(g)
      BY <3>2 DEF ConnectorUp, ConnectorLost, Report, Phases
    <3>3. CASE \E g \in Callbacks : CheckRestart(g) \/ Drain(g) \/ CheckPreviouslyConnected(g)
                       \/ FirstConnection(g)
      BY <3>3 DEF CheckRestart, Drain, CheckPreviouslyConnected, FirstConnection, HandlerGoesTo, Phases
    <3>4. CASE \E g \in Callbacks : onMeshConnected(g) \/ CountOthers(g) \/ Notify(g)
      BY <3>4 DEF onMeshConnected, CountOthers, Notify, HandlerGoesTo, Phases
    <3> QED
      BY <3>1, <3>2, <3>3, <3>4 DEF Lives, Handles
  <2> QED
    BY <2>1, <2>2
<1>7. event' \in [Callbacks -> Events] /\ changes' \in 0..MaxChanges
  <2>1. event \in [Callbacks -> Events] /\ changes \in 0..MaxChanges /\ MaxChanges \in Nat
    BY ConnectorsAssumption DEF TypeOK, Events
  <2>2. CASE \E g \in Callbacks : ConnectorUp(g) \/ ConnectorLost(g)
    <3>1. PICK g \in Callbacks, e \in Events, l \in Phases :
             Report(g, l) /\ event' = [event EXCEPT ![g] = e]
      BY <2>2 DEF ConnectorUp, ConnectorLost, Events, Phases
    <3> QED
      BY <2>1, <3>1 DEF Report
  <2>3. CASE \E g \in Callbacks : CheckRestart(g)
    BY <2>1, <2>3 DEF CheckRestart, Events
  <2>4. CASE ~\E g \in Callbacks : ConnectorUp(g) \/ ConnectorLost(g) \/ CheckRestart(g)
    <3>1. UNCHANGED <<event, changes>>
      BY <2>4 DEF Lives, Handles, Drain, CheckPreviouslyConnected, FirstConnection, onMeshConnected,
                  CountOthers, Notify, Stop, Disconnect, outside
    <3> QED
      BY <2>1, <3>1
  <2> QED
    BY <2>2, <2>3, <2>4
<1> QED
  BY <1>1, <1>2, <1>3, <1>4, <1>5, <1>6, <1>7 DEF TypeOK, AdderType, Phases, Events

-----------------------------------------------------------------------------
(* The channel list.  An append stores what it read and its definition.    *)
LEMMA AppendedList ==
    ASSUME TypeOK, NEW g \in Adders, AppendChannel(g)
    PROVE  List' = {adder[g].def} \cup {adder[g].read[k] : k \in 1..Len(adder[g].read)}
<1>1. adder[g].read \in Seq(Defs) /\ channels' = Append(adder[g].read, adder[g].def)
  BY DEF TypeOK, AppendChannel
<1>2. /\ Len(channels') = Len(adder[g].read) + 1 /\ Len(adder[g].read) \in Nat
      /\ channels'[Len(adder[g].read) + 1] = adder[g].def
      /\ \A k \in 1..Len(adder[g].read) : channels'[k] = adder[g].read[k]
  BY <1>1
<1>3. 1..Len(channels') = 1..Len(adder[g].read) \cup {Len(adder[g].read) + 1}
  BY <1>2
<1>4. List' = {channels'[k] : k \in 1..Len(channels')}
  BY DEF List
<1> QED
  BY <1>2, <1>3, <1>4

LEMMA AddsKeepJoined ==
    ASSUME TypeOK, JoinedStays, NEW g \in Adders, Adds(g)
    PROVE  JoinedStays'
<1>1. CASE AppendChannel(g)
  <2>1. /\ added' = added \cup {adder[g].def}
        /\ clobbered' = clobbered \cup {d \in List : \A k \in 1..Len(adder[g].read) : adder[g].read[k] # d}
    BY <1>1 DEF AppendChannel
  <2>2. List' = {adder[g].def} \cup {adder[g].read[k] : k \in 1..Len(adder[g].read)}
    BY <1>1, AppendedList
  <2> HIDE DEF List
  <2> QED
    BY <2>1, <2>2 DEF JoinedStays
<1>2. CASE ~AppendChannel(g)
  <2>1. UNCHANGED <<channels, added, clobbered>>
    BY <1>2 DEF Adds, Scan, AddChannel, AppendPending, ReadChannels, fnJoinChannel
  <2> QED
    BY <2>1 DEF JoinedStays, List
<1> QED
  BY <1>1, <1>2

(* One goroutine's part of what is coming changes at a time.               *)
LEMMA OthersComing ==
    ASSUME TypeOK, NEW g \in Adders, NEW a, adder' = [adder EXCEPT ![g] = a]
    PROVE  \A h \in Adders : h # g => Coming(h)' = Coming(h)
BY DEF TypeOK, Coming, Adding

LEMMA AddsKeepRegistered ==
    ASSUME TypeOK, Registered, NEW g \in Adders, Adds(g)
    PROVE  Registered'
<1> DEFINE heard == subscribed \cup pendingChannels
<1>0. /\ adder \in [Adders -> AdderType] /\ adder[g] \in AdderType
      /\ \A d \in List : Name(d) \in heard
      /\ \A h \in Adders : \A d \in Coming(h) : Name(d) \in heard
      /\ heard \subseteq heard'
  BY DEF TypeOK, AdderType, Registered, Adds, Scan, AddChannel, AppendPending, ReadChannels,
         AppendChannel, fnJoinChannel
<1>1. \E a : adder' = [adder EXCEPT ![g] = a]
  BY DEF Adds, Scan, AddChannel, AppendPending, ReadChannels, AppendChannel, fnJoinChannel, AddChannels
<1>2. \A h \in Adders : h # g => Coming(h)' = Coming(h)
  BY <1>1, OthersComing
<1>3. \A d \in Coming(g)' : Name(d) \in heard'
  <2>1. CASE Scan(g)
    <3>1. PICK d \in adder[g].todo : adder' = [adder EXCEPT ![g] =
             [pc |-> IF \E v \in List : Name(v) = Name(d) THEN "read" ELSE "register",
              todo |-> adder[g].todo \ {d}, def |-> d, read |-> << >>]]
      BY <2>1 DEF Scan
    <3>2. CASE \E v \in List : Name(v) = Name(d)
      <4>1. adder'[g].pc = "read" /\ adder'[g].def = d
        BY <1>0, <3>1, <3>2
      <4>2. Name(d) \in heard
        BY <1>0, <3>2
      <4> QED
        BY <1>0, <4>1, <4>2 DEF Coming, Adding
    <3>3. CASE ~\E v \in List : Name(v) = Name(d)
      <4>1. adder'[g].pc = "register"
        BY <1>0, <3>1, <3>3
      <4> QED
        BY <4>1 DEF Coming, Adding
    <3> QED
      BY <3>2, <3>3
  <2>2. CASE AddChannel(g) \/ AppendPending(g)
    <3>1. PICK l \in {"pend", "read"} :
             /\ adder' = [adder EXCEPT ![g].pc = l]
             /\ l = "read" => Name(adder[g].def) \in heard'
      BY <2>2 DEF AddChannel, AppendPending
    <3>2. adder'[g].pc = l /\ adder'[g].def = adder[g].def
      BY <1>0, <3>1 DEF AdderType
    <3> QED
      BY <3>1, <3>2 DEF Coming, Adding
  <2>3. CASE ReadChannels(g)
    <3>1. /\ adder'[g].pc = "append" /\ adder'[g].def = adder[g].def /\ adder'[g].read = channels
          /\ Name(adder[g].def) \in heard
      BY <1>0, <2>3 DEF ReadChannels, AdderType, Coming, Adding
    <3> QED
      BY <1>0, <3>1 DEF Coming, Adding, List
  <2>4. CASE AppendChannel(g) \/ \E d \in Defs : fnJoinChannel(g, d)
    <3>1. PICK ds \in SUBSET Defs :
             adder' \in {[adder EXCEPT ![g] = NoAdd],
                        [adder EXCEPT ![g] = [NoAdd EXCEPT !.pc = "next", !.todo = ds]]}
      BY <1>0, <2>4 DEF AppendChannel, fnJoinChannel, AddChannels, AdderType
    <3>2. NoAdd.pc = "idle" /\ [NoAdd EXCEPT !.pc = "next", !.todo = ds].pc = "next"
      BY DEF NoAdd
    <3>3. adder'[g].pc \in {"idle", "next"}
      BY <1>0, <3>1, <3>2
    <3> QED
      BY <3>3 DEF Coming, Adding
  <2> QED
    BY <2>1, <2>2, <2>3, <2>4 DEF Adds
<1>4. \A d \in List' : Name(d) \in heard'
  <2>1. CASE AppendChannel(g)
    <3>1. List' = Coming(g)
      BY <2>1, AppendedList DEF AppendChannel, Coming, Adding
    <3> QED
      BY <1>0, <3>1
  <2>2. CASE ~AppendChannel(g)
    <3>1. channels' = channels
      BY <2>2 DEF Adds, Scan, AddChannel, AppendPending, ReadChannels, fnJoinChannel
    <3> QED
      BY <1>0, <3>1 DEF List
  <2> QED
    BY <2>1, <2>2
<1> QED
  BY <1>0, <1>2, <1>3, <1>4 DEF Registered

LEMMA AddsKeepTaken ==
    ASSUME PendingTaken, NEW g \in Adders, Adds(g)
    PROVE  PendingTaken'
<1>1. connected' = connected /\ handler' = handler
  BY AddsLeaveLife DEF life
<1>2. \/ UNCHANGED <<pendingChannels, stranded>>
      \/ AppendPending(g)
  BY DEF Adds, Scan, AddChannel, ReadChannels, AppendChannel, fnJoinChannel
<1> QED
  BY <1>1, <1>2 DEF PendingTaken, AppendPending, Draining

(* Steps of the handlers.                                                  *)
LEMMA LivesKeepRegistered ==
    ASSUME TypeOK, Registered, Lives
    PROVE  Registered'
<1>1. List' = List /\ subscribed \cup pendingChannels \subseteq (subscribed \cup pendingChannels)'
  BY HandlersLeaveList DEF List, Drain
<1>2. \A h \in Adders : Coming(h)' = Coming(h) \/ Coming(h)' = {}
  <2>1. CASE adder' = adder
    BY <2>1 DEF Coming, Adding
  <2>2. CASE adder' # adder
    <3>1. PICK g \in Callbacks, a \in AdderType :
             a.pc \in {"idle", "next"} /\ adder' = [adder EXCEPT ![g] = a]
      BY <2>2, HandlersLeaveList
    <3>2. g \in Adders /\ adder'[g] = a
      BY <3>1 DEF TypeOK, Adders
    <3>3. Coming(g)' = {}
      BY <3>1, <3>2 DEF Coming, Adding
    <3> QED
      BY <3>1, <3>2, <3>3, OthersComing
  <2> QED
    BY <2>1, <2>2
<1> HIDE DEF List
<1> QED
  BY <1>1, <1>2 DEF Registered

LEMMA LivesKeepTaken ==
    ASSUME TypeOK, PendingTaken, Lives
    PROVE  PendingTaken'
<1> USE ConnectorsAssumption
<1>0. handler \in [Callbacks -> Phases] /\ connected \in [Connectors -> BOOLEAN]
  BY DEF TypeOK, Phases
<1>1. CASE \E g \in Callbacks : ConnectorUp(g) \/ ConnectorLost(g)
  <2>1. PICK g \in Callbacks : ConnectorUp(g) \/ ConnectorLost(g)
    BY <1>1
  <2>2. UNCHANGED <<pendingChannels, stranded>> /\ handler[g] = "quiet"
    BY <2>1 DEF ConnectorUp, ConnectorLost, Report, chans
  <2>3. Draining => Draining'
    BY <1>0, <2>1, <2>2 DEF Draining, ConnectorUp, ConnectorLost, Report
  <2>4. connected'[Broker] => connected[Broker] \/ Draining'
    BY <1>0, <2>1 DEF Draining, ConnectorUp, ConnectorLost, Report
  <2> QED
    BY <2>2, <2>3, <2>4 DEF PendingTaken
<1>2. CASE \E g \in Callbacks : Drain(g)
  BY <1>2 DEF PendingTaken, Drain
<1>3. CASE \E g \in Callbacks : CheckRestart(g) \/ CheckPreviouslyConnected(g) \/ FirstConnection(g)
                   \/ onMeshConnected(g) \/ CountOthers(g) \/ Notify(g)
  <2>1. PICK g \in Callbacks : CheckRestart(g) \/ CheckPreviouslyConnected(g) \/ FirstConnection(g)
                   \/ onMeshConnected(g) \/ CountOthers(g) \/ Notify(g)
    BY <1>3
  <2>2. /\ UNCHANGED <<connected, pendingChannels, stranded>>
        /\ \E l \in Phases : handler' = [handler EXCEPT ![g] = l]
        /\ handler[g] # "drain"
        /\ handler[g] = "up" /\ ConnectorOf[g] = Broker => handler'[g] = "drain"
    <3>1. CASE CheckRestart(g)
      BY <1>0, <3>1 DEF CheckRestart, chans, Phases
    <3>2. CASE ~CheckRestart(g)
      BY <2>1, <3>2 DEF CheckPreviouslyConnected, FirstConnection, onMeshConnected, CountOthers, Notify,
                        HandlerGoesTo, HandlerAt, outside, chans, Phases
    <3> QED
      BY <3>1, <3>2
  <2>3. Draining => Draining'
    BY <1>0, <2>2 DEF Draining
  <2> QED
    BY <2>2, <2>3 DEF PendingTaken
<1>4. CASE Stop \/ Disconnect
  BY <1>0, <1>4 DEF PendingTaken, Stop, Disconnect, chans, Draining
<1> QED
  BY <1>1, <1>2, <1>3, <1>4 DEF Lives, Handles

-----------------------------------------------------------------------------
(* The phases a callback goes through, with what each step does to the     *)
(* tasks.                                                                  *)
HandlerStep(g) ==
    /\ UNCHANGED <<connected, halted, stopping, overlapped, crossed>>
    /\ \E l \in Phases : handler' = [handler EXCEPT ![g] = l]
    /\ previouslyConnected' <=> (previouslyConnected \/ handler[g] = "first")
    /\ handler[g] # "up" => event' = event
    /\ \A h \in Callbacks : h # g => event'[h] = event[h]
    /\ \/ handler[g] = "up" /\ handler'[g] \in {"drain", "called"} /\ ~Lost(g)' /\ UNCHANGED tasks
       \/ handler[g] = "drain" /\ handler'[g] = "called" /\ UNCHANGED tasks
       \/ /\ handler[g] = "called" /\ UNCHANGED tasks
          /\ handler'[g] = IF previouslyConnected THEN "count" ELSE "first"
       \/ handler[g] = "first" /\ handler'[g] = "first tasks" /\ UNCHANGED tasks
       \/ handler[g] = "first tasks" /\ handler'[g] = "count" /\ RunTasks /\ bgTaskCanceller' \in live'
       \/ /\ handler[g] = "count" /\ UNCHANGED tasks
          /\ handler'[g] = IF Alone(g) THEN "act" ELSE "quiet"
       \/ /\ handler[g] = "act" /\ handler'[g] = "quiet" /\ Lost(g)
          /\ onMeshDisconnected /\ bgTaskCanceller' \notin live'
       \/ /\ handler[g] = "act" /\ handler'[g] = "quiet" /\ ~Lost(g)
          /\ RunTasks /\ bgTaskCanceller' \in live'
       \/ /\ handler[g] = "act" /\ handler'[g] = "tasks" /\ event[g] = "EventStarted"
          /\ UNCHANGED tasks
       \/ handler[g] = "tasks" /\ handler'[g] = "quiet" /\ RunTasks /\ bgTaskCanceller' \in live'

LEMMA HandlerSteps ==
    ASSUME TypeOK, NEW g \in Callbacks, Handles(g), ~ConnectorUp(g), ~ConnectorLost(g)
    PROVE  HandlerStep(g)
<1> USE DEF HandlerAt, HandlerGoesTo, Phases, outside, tasks, Lost
<1>0. /\ \A l : handler' = [handler EXCEPT ![g] = l] => handler'[g] = l
      /\ \A e : event' = [event EXCEPT ![g] = e] =>
            event'[g] = e /\ \A h \in Callbacks : h # g => event'[h] = event[h]
  BY DEF TypeOK
<1>1. CASE CheckRestart(g)
  BY <1>0, <1>1 DEF CheckRestart, HandlerStep
<1>2. CASE Drain(g)
  BY <1>0, <1>2 DEF Drain, HandlerStep
<1>3. CASE CheckPreviouslyConnected(g)
  BY <1>0, <1>3 DEF CheckPreviouslyConnected, HandlerStep
<1>4. CASE FirstConnection(g)
  BY <1>0, <1>4 DEF FirstConnection, HandlerStep
<1>5. CASE onMeshConnected(g)
  BY <1>0, <1>5 DEF onMeshConnected, HandlerStep, RunTasks
<1>6. CASE CountOthers(g)
  BY <1>0, <1>6 DEF CountOthers, HandlerStep, Alone
<1>7. CASE Notify(g)
  BY <1>0, <1>7 DEF Notify, HandlerStep, RunTasks, onMeshDisconnected
<1> QED
  BY <1>1, <1>2, <1>3, <1>4, <1>5, <1>6, <1>7 DEF Handles

(* A connector's report.                                                   *)
ReportStep(g) ==
    /\ ~halted /\ handler[g] = "quiet"
    /\ UNCHANGED <<halted, stopping, previouslyConnected, tasks>>
    /\ overlapped' = (overlapped \/ ~Quiet)
    /\ crossed => crossed'
    /\ crossed' => crossed \/ ~Quiet
    /\ \A h \in Callbacks : h # g => event'[h] = event[h] /\ handler'[h] = handler[h]
    /\ \A d \in Connectors : d # ConnectorOf[g] => connected'[d] = connected[d]
    /\ \/ /\ handler'[g] = "up" /\ ~Lost(g)' /\ connected'[ConnectorOf[g]]
          /\ ~connected[ConnectorOf[g]]
       \/ /\ handler'[g] = "called" /\ Lost(g)' /\ ~connected'[ConnectorOf[g]]
          /\ \A h \in Callbacks : ConnectorOf[h] = ConnectorOf[g] /\ handler[h] # "quiet" /\ ~Lost(h)
                                     => crossed'

LEMMA ReportSteps ==
    ASSUME TypeOK, NEW g \in Callbacks, ConnectorUp(g) \/ ConnectorLost(g)
    PROVE  ReportStep(g)
<1>0. /\ handler \in [Callbacks -> Phases] /\ connected \in [Connectors -> BOOLEAN]
      /\ event \in [Callbacks -> Events] /\ ConnectorOf[g] \in Connectors
  BY ConnectorsAssumption DEF TypeOK, Phases, Events
<1>1. CASE ConnectorUp(g)
  BY <1>0, <1>1 DEF ConnectorUp, Report, ReportStep, Lost
<1>2. CASE ConnectorLost(g)
  BY <1>0, <1>2 DEF ConnectorLost, Report, ReportStep, Lost, Quiet
<1> QED
  BY <1>1, <1>2

(* The tasks are off when the mesh is down.                                *)
LEMMA LivesKeepCancelled ==
    ASSUME TypeOK, ReportsInOrder, DownMeansCancelled, Lives
    PROVE  ReportsInOrder' /\ DownMeansCancelled'
<1>0. /\ handler \in [Callbacks -> Phases] /\ connected \in [Connectors -> BOOLEAN]
      /\ event \in [Callbacks -> Events] /\ \A g \in Callbacks : ConnectorOf[g] \in Connectors
  BY ConnectorsAssumption DEF TypeOK, Phases, Events
<1>1. ASSUME NEW g \in Callbacks, ReportStep(g)
      PROVE  ReportsInOrder' /\ DownMeansCancelled'
  <2>1. handler'[g] \in {"up", "called"} /\ ~halted /\ ~halted'
    BY <1>1 DEF ReportStep
  <2>2. crossed' => overlapped'
    BY <1>1 DEF ReportStep, ReportsInOrder
  <2>3. ASSUME NEW h \in Callbacks, handler'[h] # "quiet"
        PROVE  /\ ~Lost(h)' /\ ~crossed' => connected'[ConnectorOf[h]]
               /\ Lost(h)' /\ ~overlapped' => ~connected'[ConnectorOf[h]]
               /\ handler'[h] = "tasks" => event'[h] = "EventStarted"
               /\ handler'[h] = "up" => ~Lost(h)'
    <3>1. CASE h = g
      BY <1>1, <3>1 DEF ReportStep
    <3>2. CASE h # g
      <4>1. /\ event'[h] = event[h] /\ handler'[h] = handler[h] /\ overlapped'
            /\ Lost(h)' <=> Lost(h)
        BY <1>1, <2>3, <3>2 DEF ReportStep, Quiet, Lost
      <4>2. ASSUME ~Lost(h)', ~crossed'
            PROVE  connected'[ConnectorOf[h]]
        <5>1. connected[ConnectorOf[h]]
          BY <1>1, <2>1, <2>3, <4>1, <4>2 DEF ReportsInOrder, ReportStep
        <5> QED
          BY <1>0, <1>1, <2>3, <4>1, <4>2, <5>1 DEF ReportStep
      <4> QED
        BY <2>3, <4>1, <4>2 DEF ReportsInOrder
    <3> QED
      BY <3>1, <3>2
  <2>4. ReportsInOrder'
    BY <2>1, <2>2, <2>3 DEF ReportsInOrder
  <2>5. ~Quiet'
    BY <2>1 DEF Quiet
  <2> QED
    BY <2>4, <2>5 DEF DownMeansCancelled
<1>2. ASSUME NEW g \in Callbacks, HandlerStep(g)
      PROVE  ReportsInOrder' /\ DownMeansCancelled'
  <2>1. \A h \in Callbacks : h # g => handler'[h] = handler[h]
    BY <1>0, <1>2 DEF HandlerStep
  <2>2. handler[g] # "quiet" /\ \A h \in Callbacks : Lost(h)' <=> Lost(h)
    <3>1. handler[g] # "quiet"
      BY <1>2 DEF HandlerStep
    <3>2. handler[g] = "up" => ~Lost(g) /\ ~Lost(g)'
      BY <1>2 DEF HandlerStep, ReportsInOrder
    <3> QED
      BY <1>2, <3>1, <3>2 DEF HandlerStep, Lost
  <2>3. ReportsInOrder'
    <3>1. UNCHANGED <<connected, halted, crossed, overlapped>>
      BY <1>2 DEF HandlerStep
    <3>2. \A h \in Callbacks :
             /\ handler'[h] = "tasks" => event'[h] = "EventStarted"
             /\ handler'[h] = "up" => handler[h] = "up"
             /\ handler'[h] # "quiet" => handler[h] # "quiet"
      BY <1>2, <2>1, <2>2 DEF HandlerStep, ReportsInOrder
    <3> QED
      BY <2>2, <3>1, <3>2 DEF ReportsInOrder
  <2>4. DownMeansCancelled'
    <3> SUFFICES ASSUME Quiet', ~halted, ~crossed, \A c \in Connectors : ~connected[c]
                 PROVE  bgTaskCanceller' \notin live'
      BY <1>2 DEF DownMeansCancelled, HandlerStep
    <3>1. Lost(g) /\ Alone(g)
      BY <1>0, <2>2 DEF ReportsInOrder, Alone
    <3> QED
      BY <1>2, <3>1 DEF HandlerStep, ReportsInOrder, Quiet, Lost
  <2> QED
    BY <2>3, <2>4
<1>3. CASE Stop
  BY <1>3 DEF Stop, onMeshDisconnected, ReportsInOrder, DownMeansCancelled, Quiet, Lost
<1>4. CASE Disconnect
  BY <1>0, <1>4 DEF Disconnect, ReportsInOrder, DownMeansCancelled, Lost
<1> QED
  BY <1>1, <1>2, <1>3, <1>4, HandlerSteps, ReportSteps DEF Lives

LEMMA NextKeepsInv == Inv /\ [Next]_vars => Inv'
<1> SUFFICES ASSUME Inv, [Next]_vars PROVE Inv'
  OBVIOUS
<1>1. CASE Lives
  <2>1. JoinedStays'
    BY <1>1, HandlersLeaveList DEF Inv, JoinedStays, List
  <2> QED
    BY <1>1, <2>1, LivesKeepType, LivesKeepRegistered, LivesKeepTaken, LivesKeepCancelled DEF Inv
<1>2. CASE \E g \in Adders : Adds(g)
  <2>1. UNCHANGED life
    BY <1>2, AddsLeaveLife
  <2>2. ReportsInOrder' /\ DownMeansCancelled'
    BY <2>1 DEF Inv, ReportsInOrder, DownMeansCancelled, Quiet, Lost, life, tasks
  <2> QED
    BY <1>2, <2>2, AddsKeepType, AddsKeepRegistered, AddsKeepTaken, AddsKeepJoined DEF Inv
<1>3. CASE UNCHANGED vars
  <2>1. TypeOK' /\ JoinedStays'
    BY <1>3 DEF vars, life, chans, tasks, Inv, TypeOK, JoinedStays, List
  <2>2. List' = List /\ \A g \in Adders : Coming(g)' = Coming(g)
    BY <1>3 DEF vars, chans, List, Coming, Adding
  <2>3. Registered'
    BY <1>3, <2>2 DEF vars, chans, Inv, Registered
  <2>4. PendingTaken' /\ ReportsInOrder' /\ DownMeansCancelled'
    BY <1>3 DEF vars, life, chans, tasks, Inv, PendingTaken, Draining, ReportsInOrder,
                DownMeansCancelled, Quiet, Lost
  <2> QED
    BY <2>1, <2>3, <2>4 DEF Inv
<1> QED
  BY <1>1, <1>2, <1>3, NextSplits

(* The strengthening holds in every reachable state.                       *)
THEOREM Invariance == Spec => []Inv
BY InitInv, NextKeepsInv, PTL DEF Spec

(* A joined channel is lost only to an append that overlaps another, for   *)
(* any number of goroutines and channels (AddChannelDef).                  *)
THEOREM JoinedAlwaysStays == Spec => []JoinedStays
<1>1. Inv => JoinedStays
  BY DEF Inv
<1> QED
  BY <1>1, Invariance, PTL

(* Every listed channel is heard over MQTT, through any number of lost and *)
(* renewed connections, except for a name that got on the pending list     *)
(* just after it was taken (AddChannel, onMqttConnected).                  *)
THEOREM ListedAlwaysHeard == Spec => []ListedIsHeard
<1>1. Inv => ListedIsHeard
  BY DEF Inv, ListedIsHeard, Registered, PendingTaken
<1> QED
  BY <1>1, Invariance, PTL

(* With every connector down, the reachable tasks are cancelled, for any   *)
(* number of connectors (onMeshDisconnected).                              *)
THEOREM DownAlwaysCancels == Spec => []DownMeansCancelled
<1>1. Inv => DownMeansCancelled
  BY DEF Inv
<1> QED
  BY <1>1, Invariance, PTL

-----------------------------------------------------------------------------
LEMMA LivesKeepTasks ==
    ASSUME TypeOK, ReportsInOrder, TasksInv, Lives
    PROVE  TasksInv'
<1>0. /\ handler \in [Callbacks -> Phases] /\ connected \in [Connectors -> BOOLEAN]
      /\ overlapped \in BOOLEAN /\ stopping \in BOOLEAN /\ previouslyConnected \in BOOLEAN
  BY DEF TypeOK, Phases
<1>1. ASSUME NEW g \in Callbacks, ReportStep(g), ~stopping', ~overlapped'
      PROVE  Orderly'
  <2>1. /\ Orderly /\ UNCHANGED <<previouslyConnected, tasks>>
        /\ \A h \in Callbacks : handler[h] = "quiet"
    BY <1>0, <1>1 DEF TasksInv, ReportStep, Quiet
  <2>2. /\ \A h \in Callbacks : h # g => handler'[h] = "quiet"
        /\ \A d \in Connectors : d # ConnectorOf[g] => connected'[d] = connected[d]
        /\ handler'[g] \in {"up", "called"}
    BY <1>0, <1>1, <2>1 DEF ReportStep
  <2>3. Alone(g)' \/ bgTaskCanceller' \in live'
    BY <2>1, <2>2 DEF Orderly, Alone, Quiet, tasks
  <2> QED
    BY <2>1, <2>2, <2>3 DEF Orderly, Quiet
<1>2. ASSUME NEW g \in Callbacks, HandlerStep(g), ~stopping', ~overlapped'
      PROVE  Orderly'
  <2>1. Orderly /\ connected' = connected /\ handler[g] # "quiet"
    BY <1>2 DEF TasksInv, HandlerStep
  <2>2. \A h \in Callbacks : h # g => handler'[h] = handler[h] /\ handler[h] = "quiet"
    BY <1>0, <1>2, <2>1 DEF HandlerStep, Orderly
  <2>3. Alone(g)' <=> Alone(g)
    BY <2>1 DEF Alone
  <2>4. \A h \in Callbacks : handler'[h] # "quiet" => h = g
    BY <2>2
  <2>5. handler'[g] \in {"first tasks", "count", "act", "tasks"} => previouslyConnected'
    BY <1>0, <1>2, <2>1 DEF HandlerStep, Orderly
  <2>6. ~previouslyConnected' => \A c \in Connectors :
           connected'[c] => \E h \in Callbacks : ConnectorOf[h] = c /\ handler'[h] # "quiet"
    <3>1. ~previouslyConnected' => ~previouslyConnected /\ handler'[g] # "quiet"
      BY <1>2, <2>1 DEF HandlerStep, Orderly
    <3> QED
      BY <2>1, <2>2, <3>1 DEF Orderly
  <2>7. /\ handler'[g] \in {"first", "first tasks", "act", "tasks"} => Alone(g)'
        /\ handler'[g] \in {"up", "drain", "called", "count"} => Alone(g)' \/ bgTaskCanceller' \in live'
    BY <1>2, <2>1, <2>2, <2>3 DEF HandlerStep, Orderly, Alone, tasks
  <2>8. Quiet' => (\A d \in Connectors : ~connected'[d]) \/ bgTaskCanceller' \in live'
    <3>1. CASE handler[g] = "act" /\ Lost(g)
      <4>1. ~connected[ConnectorOf[g]] /\ Alone(g)
        BY <1>2, <2>1, <3>1 DEF HandlerStep, ReportsInOrder, Orderly
      <4> QED
        BY <2>1, <4>1 DEF Alone
    <3>2. CASE handler[g] = "count" /\ handler'[g] = "quiet"
      <4>1. ~Alone(g) /\ bgTaskCanceller' = bgTaskCanceller /\ live' = live
        BY <1>2, <3>2 DEF HandlerStep, Alone, tasks
      <4> QED
        BY <2>1, <3>2, <4>1 DEF Orderly
    <3>3. CASE ~(handler[g] = "act" /\ Lost(g)) /\ handler[g] # "count"
      BY <1>2, <3>3 DEF HandlerStep, Quiet
    <3> QED
      BY <3>1, <3>2, <3>3 DEF Quiet
  <2> QED
    BY <2>4, <2>5, <2>6, <2>7, <2>8 DEF Orderly
<1>3. CASE Stop
  BY <1>3 DEF Stop, TasksInv
<1>4. CASE Disconnect
  BY <1>0, <1>4 DEF Disconnect, TasksInv, Orderly, Quiet, Alone
<1> QED
  BY <1>1, <1>2, <1>3, <1>4, HandlerSteps, ReportSteps DEF Lives, TasksInv

(* As long as reports do not overlap each other or a stop, a connected     *)
(* mesh has its background tasks (handleConnectorStateChange).             *)
THEOREM ConnectedAlwaysTasks == Spec => []ConnectedMeansTasks
<1>1. Init => TasksInv
  BY DEF Init, TasksInv, Orderly, Quiet
<1>2. ASSUME Inv, TasksInv, [Next]_vars
      PROVE  TasksInv'
  <2>1. CASE Lives
    BY <1>2, <2>1, LivesKeepTasks DEF Inv
  <2>2. CASE UNCHANGED life
    BY <1>2, <2>2 DEF life, tasks, TasksInv, Orderly, Alone, Quiet
  <2> QED
    BY <1>2, <2>1, <2>2, NextSplits, AddsLeaveLife DEF vars
<1>3. TasksInv => ConnectedMeansTasks
  BY DEF TasksInv, Orderly, ConnectedMeansTasks
<1> QED
  BY <1>1, <1>2, <1>3, Invariance, PTL DEF Spec
-----------------------------------------------------------------------------
(* What a step does to the contexts left behind.                           *)
LEMMA TasksStep ==
    ASSUME TypeOK, live \ {bgTaskCanceller} \subseteq {1}
    PROVE  /\ UNCHANGED tasks \/ onMeshDisconnected => live' \ {bgTaskCanceller'} \subseteq {1}
           /\ RunTasks /\ (created <= 1 \/ bgTaskCanceller \notin live)
                => live' \ {bgTaskCanceller'} \subseteq {1}
<1>0. created \in Nat /\ live \subseteq 1..created
  BY DEF TypeOK
<1>1. CASE UNCHANGED tasks \/ onMeshDisconnected
  BY <1>1 DEF tasks, onMeshDisconnected
<1>2. CASE RunTasks /\ created <= 1
  <2>1. live \subseteq {1}
    BY <1>0, <1>2
  <2> QED
    BY <1>2, <2>1 DEF RunTasks
<1>3. CASE RunTasks /\ bgTaskCanceller \notin live
  BY <1>3 DEF RunTasks
<1> QED
  BY <1>1, <1>2, <1>3

LEMMA LivesKeepLeak ==
    ASSUME TypeOK, ReportsInOrder, DownMeansCancelled, LeakInv, Lives
    PROVE  LeakInv'
<1>0. /\ handler \in [Callbacks -> Phases] /\ connected \in [Connectors -> BOOLEAN]
      /\ event \in [Callbacks -> Events] /\ overlapped \in BOOLEAN
      /\ previouslyConnected \in BOOLEAN /\ created \in Nat
  BY DEF TypeOK, Phases, Events
<1>1. ASSUME NEW g \in Callbacks, ReportStep(g), ~overlapped'
      PROVE  LeftBehind'
  <2>1. /\ LeftBehind /\ UNCHANGED <<previouslyConnected, tasks>> /\ ~halted
        /\ \A h \in Callbacks : handler[h] = "quiet"
    BY <1>0, <1>1 DEF LeakInv, ReportStep, Quiet
  <2>2. /\ \A h \in Callbacks : h # g => handler'[h] = "quiet"
        /\ \A d \in Connectors : d # ConnectorOf[g] => connected'[d] = connected[d]
        /\ handler'[g] \in {"up", "called"} /\ ~crossed
    BY <1>0, <1>1, <2>1 DEF ReportStep, ReportsInOrder
  <2>3. ASSUME ~Lost(g)', Alone(g)'
        PROVE  created' <= 1 \/ bgTaskCanceller' \notin live'
    <3>1. ~connected[ConnectorOf[g]]
      BY <1>0, <1>1, <2>3 DEF ReportStep
    <3>2. \A d \in Connectors : ~connected[d]
      BY <2>2, <2>3, <3>1 DEF Alone
    <3> QED
      BY <2>1, <2>2, <3>2 DEF DownMeansCancelled, Quiet, tasks
  <2> QED
    BY <2>1, <2>2, <2>3, TasksStep DEF LeftBehind, tasks
<1>2. ASSUME NEW g \in Callbacks, HandlerStep(g), ~overlapped'
      PROVE  LeftBehind'
  <2>1. LeftBehind /\ connected' = connected /\ handler[g] # "quiet" /\ (Lost(g)' <=> Lost(g))
    BY <1>2 DEF LeakInv, HandlerStep, ReportsInOrder, Lost
  <2>2. \A h \in Callbacks : h # g => handler'[h] = handler[h] /\ handler[h] = "quiet"
    BY <1>0, <1>2, <2>1 DEF HandlerStep, LeftBehind
  <2>3. Alone(g)' <=> Alone(g)
    BY <2>1 DEF Alone
  <2>4. /\ ~previouslyConnected => created = 0
        /\ handler[g] \in {"first", "first tasks"} => created = 0
        /\ handler[g] \in {"first tasks", "count", "act", "tasks"} => previouslyConnected
        /\ handler[g] \in {"act", "tasks"} => Alone(g)
        /\ ~Lost(g) /\ Alone(g) => created <= 1 \/ bgTaskCanceller \notin live
        /\ handler[g] = "tasks" => event[g] = "EventStarted"
    BY <2>1 DEF LeftBehind, ReportsInOrder
  <2>5. /\ handler[g] = "first tasks" => RunTasks /\ created <= 1 /\ created' = 1
        /\ handler[g] \in {"up", "drain", "called", "first", "count"} => UNCHANGED tasks
        /\ handler[g] \in {"up", "drain", "called", "first", "first tasks", "count", "act", "tasks"}
    <3>1. CASE handler[g] = "first tasks"
      <4>1. RunTasks /\ created = 0
        BY <1>2, <2>4, <3>1 DEF HandlerStep
      <4>2. created' = 1
        BY <4>1 DEF RunTasks
      <4>3. created <= 1
        BY <4>1
      <4> QED
        BY <3>1, <4>1, <4>2, <4>3
    <3>2. CASE handler[g] # "first tasks"
      BY <1>2, <3>2 DEF HandlerStep
    <3> QED
      BY <3>1, <3>2
  <2>6. live' \ {bgTaskCanceller'} \subseteq {1}
    <3>1. CASE handler[g] \in {"up", "drain", "called", "first", "first tasks", "count"}
      BY <2>1, <2>5, <3>1, TasksStep DEF LeftBehind
    <3>2. CASE handler[g] \in {"act", "tasks"}
      <4>1. \/ UNCHANGED tasks \/ onMeshDisconnected
            \/ RunTasks /\ ~Lost(g)
        BY <1>2, <2>4, <3>2 DEF HandlerStep, Lost
      <4> QED
        BY <2>1, <2>4, <3>2, <4>1, TasksStep DEF LeftBehind
    <3> QED
      BY <2>5, <3>1, <3>2
  <2>7. /\ previouslyConnected => previouslyConnected'
        /\ handler'[g] \in {"first tasks", "count", "act", "tasks"} => previouslyConnected'
        /\ handler'[g] \in {"act", "tasks"} => Alone(g)'
        /\ handler'[g] = "first" => handler[g] = "called" /\ ~previouslyConnected
        /\ handler'[g] = "first tasks" => handler[g] = "first"
    BY <1>2, <2>3, <2>4 DEF HandlerStep
  <2>8. /\ ~previouslyConnected' => created' = 0
        /\ handler'[g] \in {"first", "first tasks"} => created' = 0
    <3>1. CASE handler[g] \in {"up", "drain", "called", "first", "count"}
      BY <2>4, <2>5, <2>7, <3>1 DEF tasks
    <3>2. CASE handler[g] \in {"first tasks", "act", "tasks"}
      BY <2>4, <2>7, <3>2
    <3> QED
      BY <2>5, <3>1, <3>2
  <2>9. handler'[g] # "quiet" /\ ~Lost(g)' /\ Alone(g)'
           => created' <= 1 \/ bgTaskCanceller' \notin live'
    <3>1. CASE UNCHANGED tasks
      BY <2>1, <2>3, <2>4, <3>1 DEF tasks
    <3>2. CASE handler[g] = "first tasks"
      <4>1. created' = 1
        BY <2>5, <3>2
      <4> QED
        BY <4>1
    <3>3. CASE handler[g] \in {"act", "tasks"} /\ ~UNCHANGED tasks
      BY <1>2, <3>3 DEF HandlerStep
    <3> QED
      BY <2>5, <3>1, <3>2, <3>3
  <2> QED
    BY <2>2, <2>6, <2>7, <2>8, <2>9 DEF LeftBehind
<1>3. CASE Stop
  BY <1>0, <1>3, TasksStep DEF Stop, onMeshDisconnected, LeakInv, LeftBehind, Alone
<1>4. CASE Disconnect
  BY <1>0, <1>4 DEF Disconnect, LeakInv, LeftBehind, Alone, Quiet, tasks
<1> QED
  BY <1>1, <1>2, <1>3, <1>4, HandlerSteps, ReportSteps DEF Lives, LeakInv

(* However often the connectors come and go, at most one set of tasks is   *)
(* out of the canceller's reach, as long as no call of the state handler   *)
(* meets another or a stop (onMeshConnected): the one that the first       *)
(* connection left behind.                                                 *)
THEOREM OneLeakAtMostAlways == Spec => []OneLeakAtMost
<1>1. Init => LeakInv
  BY DEF Init, LeakInv, LeftBehind
<1>2. ASSUME Inv, LeakInv, [Next]_vars
      PROVE  LeakInv'
  <2>1. CASE Lives
    BY <1>2, <2>1, LivesKeepLeak DEF Inv
  <2>2. CASE UNCHANGED life
    BY <1>2, <2>2 DEF life, tasks, LeakInv, LeftBehind, Alone, Lost
  <2> QED
    BY <1>2, <2>1, <2>2, NextSplits, AddsLeaveLife DEF vars
<1>3. ASSUME LeakInv PROVE OneLeakAtMost
  <2> SUFFICES ASSUME ~overlapped PROVE Cardinality(live \ {bgTaskCanceller}) <= 1
    BY DEF OneLeakAtMost
  <2>1. live \ {bgTaskCanceller} \subseteq {1}
    BY <1>3 DEF LeakInv, LeftBehind
  <2>2. IsFiniteSet({1}) /\ Cardinality({1}) = 1
    BY FS_Singleton
  <2> QED
    BY <2>1, <2>2, FS_Subset
<1> QED
  BY <1>1, <1>2, <1>3, Invariance, PTL DEF Spec
=============================================================================
