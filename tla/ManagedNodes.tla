---------------------------- MODULE ManagedNodes ----------------------------
(***************************************************************************)
(* Which nodes the bridge speaks for: IsManagedNode and its cache in       *)
(* pkg/connector/connector.go, UpdateGhostMeshNames and the message path   *)
(* in pkg/connector/handle_matrix.go, the login in login.go, and the gate  *)
(* in sendBytes of pkg/mesh/mesh_client.go.  Each Matrix user stands for   *)
(* the node derived from the user's id.  Ghosts, node rows and logins are  *)
(* in the database; the cache is a plain map that lasts as long as the     *)
(* process.  Two goroutines in the map at once may end the process, which  *)
(* Restart covers.  What the node's row holds, and who else writes it, is  *)
(* NodeStore's: here reading and writing it are steps that can fail.       *)
(***************************************************************************)
EXTENDS Integers, FiniteSets

CONSTANTS
    Users,
    Actors,          \* goroutines: commands, portal queues, packet handlers
    NoUser,
    MaxCalls,        \* bound: operations begun
    MaxRestarts      \* bound: restarts of the bridge

ASSUME UsersAssumption == NoUser \notin Users
ASSUME BoundsAssumption == MaxCalls \in Nat /\ MaxRestarts \in Nat

VARIABLES
    ghost,             \* "none", "plain" (no UserMXID) or "managed"
    nameSet,           \* ghost.NameSet
    loggedIn,          \* the user has a login
    managedNodeCache,  \* "absent", "yes" or "no"
    op,                \* what each actor does: one of Ops, or "idle"
    user,              \* for whom
    pc,                \* where it is
    answer,            \* what IsManagedNode is about to remember
    calls, restarts,
    refusedNames,      \* users whose names were refused as not managed
    straddled          \* users who became managed under a pending negative answer

db      == <<ghost, nameSet, loggedIn>>
actor   == <<op, user, pc, answer>>
history == <<refusedNames, straddled>>
vars    == <<db, managedNodeCache, actor, calls, restarts, history>>

Ops == {"message", "names", "login", "look"}
NoAnswer == "none"

Init ==
    /\ ghost = [u \in Users |-> "none"]
    /\ nameSet = [u \in Users |-> FALSE]
    /\ loggedIn = [u \in Users |-> FALSE]
    /\ managedNodeCache = [u \in Users |-> "absent"]
    /\ op = [a \in Actors |-> "idle"]
    /\ user = [a \in Actors |-> NoUser]
    /\ pc = [a \in Actors |-> "idle"]
    /\ answer = [a \in Actors |-> NoAnswer]
    /\ calls = 0 /\ restarts = 0
    /\ refusedNames = {} /\ straddled = {}

-----------------------------------------------------------------------------
Set(f, x, v) == f' = [f EXCEPT ![x] = v]
At(a, l) == pc[a] = l
GoTo(a, l) == Set(pc, a, l)

(* A command, a message, a login or a packet about the user's node.  A     *)
(* message and a packet ask IsManagedNode first, the others update names.  *)
Begin(a, u, o) ==
    /\ At(a, "idle")
    /\ calls < MaxCalls
    /\ calls' = calls + 1
    /\ Set(op, a, o)
    /\ Set(user, a, u)
    /\ GoTo(a, IF o \in {"names", "login"} THEN "ghost" ELSE "ask")
    /\ UNCHANGED <<db, managedNodeCache, answer, restarts, history>>

(* The actor returns to its caller; what it holds is dropped.              *)
Finish(a) ==
    /\ Set(op, a, "idle")
    /\ Set(user, a, NoUser)
    /\ GoTo(a, "idle")
    /\ Set(answer, a, NoAnswer)

(* Any query of the database, and the connectors, can fail.                *)
Fail(a) ==
    /\ pc[a] \in {"ghost", "read", "write", "find", "sent", "login"}
    /\ Finish(a)
    /\ UNCHANGED <<db, managedNodeCache, calls, restarts, history>>

-----------------------------------------------------------------------------
(* IsManagedNode, up to its answer; a failed query answers no and is not   *)
(* remembered (Fail).                                                      *)
CheckCache(a) ==
    /\ At(a, "ask")
    /\ LET cached == managedNodeCache[user[a]]
       IN  IF cached = "absent"
           THEN GoTo(a, "find") /\ UNCHANGED answer
           ELSE GoTo(a, "answered") /\ Set(answer, a, cached)
    /\ UNCHANGED <<db, managedNodeCache, op, user, calls, restarts, history>>

(* Variant: any ghost counts.                                              *)
FindGhostOfAnyone(a) ==
    /\ At(a, "find")
    /\ Set(answer, a, IF ghost[user[a]] # "none" THEN "yes" ELSE "no")
    /\ GoTo(a, "store")
    /\ UNCHANGED <<db, managedNodeCache, op, user, calls, restarts, history>>

FindGhost(a) ==
    /\ At(a, "find")
    /\ Set(answer, a, IF ghost[user[a]] = "managed" THEN "yes" ELSE "no")
    /\ GoTo(a, "store")
    /\ UNCHANGED <<db, managedNodeCache, op, user, calls, restarts, history>>

StoreAnswer(a) ==
    /\ At(a, "store")
    /\ Set(managedNodeCache, user[a], answer[a])
    /\ GoTo(a, "answered")
    /\ UNCHANGED <<db, op, user, answer, calls, restarts, history>>

(* Variant: a login does not depend on the node info that is sent.         *)
UseAnswerLeniently(a) ==
    /\ At(a, "answered")
    /\ IF op[a] # "look" /\ (answer[a] = "yes" \/ op[a] = "login")
       THEN GoTo(a, "sent") /\ UNCHANGED <<op, user, answer, refusedNames>>
       ELSE /\ Finish(a)
            /\ refusedNames' = IF op[a] \in {"names", "login"}
                               THEN refusedNames \cup {user[a]} ELSE refusedNames
    /\ UNCHANGED <<db, managedNodeCache, calls, restarts, straddled>>

(* The gate of sendBytes: a node that is not managed sends nothing.        *)
UseAnswer(a) ==
    /\ At(a, "answered")
    /\ IF op[a] # "look" /\ answer[a] = "yes"
       THEN GoTo(a, "sent") /\ UNCHANGED <<op, user, answer, refusedNames>>
       ELSE /\ Finish(a)
            /\ refusedNames' = IF op[a] \in {"names", "login"}
                               THEN refusedNames \cup {user[a]} ELSE refusedNames
    /\ UNCHANGED <<db, managedNodeCache, calls, restarts, straddled>>

-----------------------------------------------------------------------------
(* Another user opens a chat with the node: ResolveIdentifier creates the  *)
(* ghost without a UserMXID.                                               *)
ResolveIdentifier(u) ==
    /\ ghost[u] = "none"
    /\ Set(ghost, u, "plain")
    /\ UNCHANGED <<nameSet, loggedIn, managedNodeCache, actor, calls, restarts, history>>

(* UpdateGhostMeshNames.                                                   *)
GetGhostByID(a) ==
    /\ At(a, "ghost")
    /\ Set(ghost, user[a], IF ghost[user[a]] = "none" THEN "plain" ELSE ghost[user[a]])
    /\ GoTo(a, "info")
    /\ UNCHANGED <<nameSet, loggedIn, managedNodeCache, op, user, answer, calls, restarts, history>>

(* updateGhostSenderID always runs; the name may not be accepted.          *)
UpdateInfo(a) ==
    /\ At(a, "info")
    /\ Set(ghost, user[a], "managed")
    /\ \E accepted \in BOOLEAN : Set(nameSet, user[a], accepted)
    /\ straddled' = IF \E b \in Actors : user[b] = user[a] /\ pc[b] = "store" /\ answer[b] = "no"
                    THEN straddled \cup {user[a]} ELSE straddled
    /\ GoTo(a, "read")
    /\ UNCHANGED <<loggedIn, managedNodeCache, op, user, answer, calls, restarts, refusedNames>>

(* The node's row is read; GetByNodeID adds one if there is none.          *)
GetByNodeID(a) ==
    /\ At(a, "read")
    /\ GoTo(a, "write")
    /\ UNCHANGED <<db, managedNodeCache, op, user, answer, calls, restarts, history>>

(* SetAll; then SendNodeInfo asks IsManagedNode.                           *)
SetAll(a) ==
    /\ At(a, "write")
    /\ GoTo(a, "ask")
    /\ UNCHANGED <<db, managedNodeCache, op, user, answer, calls, restarts, history>>

(* The connectors took the packet.  After a message, postMessageSave sets  *)
(* fallback names if the ghost has none.                                   *)
Sent(a) ==
    /\ At(a, "sent")
    /\ \/ /\ op[a] = "message" /\ ~nameSet[user[a]]
          /\ GoTo(a, "ghost") /\ Set(op, a, "names") /\ Set(answer, a, NoAnswer)
          /\ UNCHANGED user
       \/ /\ op[a] = "login"
          /\ GoTo(a, "login")
          /\ UNCHANGED <<op, user, answer>>
       \/ /\ op[a] = "names" \/ (op[a] = "message" /\ nameSet[user[a]])
          /\ Finish(a)
    /\ UNCHANGED <<db, managedNodeCache, calls, restarts, history>>

(* SubmitUserInput creates the login once the names are out.               *)
NewLogin(a) ==
    /\ At(a, "login")
    /\ Set(loggedIn, user[a], TRUE)
    /\ Finish(a)
    /\ UNCHANGED <<ghost, nameSet, managedNodeCache, calls, restarts, history>>

(* The process ends and starts again: the cache and the actors are gone.   *)
Restart ==
    /\ restarts < MaxRestarts
    /\ restarts' = restarts + 1
    /\ managedNodeCache' = [u \in Users |-> "absent"]
    /\ op' = [a \in Actors |-> "idle"]
    /\ user' = [a \in Actors |-> NoUser]
    /\ pc' = [a \in Actors |-> "idle"]
    /\ answer' = [a \in Actors |-> NoAnswer]
    /\ UNCHANGED <<db, calls, history>>

Next ==
    \/ \E a \in Actors :
          \/ \E u \in Users, o \in Ops : Begin(a, u, o)
          \/ CheckCache(a) \/ FindGhost(a) \/ StoreAnswer(a) \/ UseAnswer(a)
          \/ GetGhostByID(a) \/ UpdateInfo(a) \/ GetByNodeID(a) \/ SetAll(a)
          \/ Sent(a) \/ NewLogin(a) \/ Fail(a)
    \/ \E u \in Users : ResolveIdentifier(u)
    \/ Restart

Spec == Init /\ [][Next]_vars

-----------------------------------------------------------------------------
TypeOK ==
    /\ ghost \in [Users -> {"none", "plain", "managed"}]
    /\ nameSet \in [Users -> BOOLEAN] /\ loggedIn \in [Users -> BOOLEAN]
    /\ managedNodeCache \in [Users -> {"absent", "yes", "no"}]
    /\ op \in [Actors -> Ops \cup {"idle"}]
    /\ user \in [Actors -> Users \cup {NoUser}]
    /\ pc \in [Actors -> {"idle", "ghost", "info", "read", "write", "ask", "find", "store",
                          "answered", "sent", "login"}]
    /\ answer \in [Actors -> {NoAnswer, "yes", "no"}]
    /\ calls \in 0..MaxCalls /\ restarts \in 0..MaxRestarts
    /\ refusedNames \subseteq Users /\ straddled \subseteq Users

(* The bridge speaks only for nodes with a Matrix user behind them: what   *)
(* the cache grants, and what any goroutine is about to put there or act   *)
(* on, is true of the ghost (IsManagedNode, sendBytes).                    *)
GrantedMeansManaged ==
    /\ \A u \in Users : managedNodeCache[u] = "yes" => ghost[u] = "managed"
    /\ \A a \in Actors : answer[a] = "yes" => ghost[user[a]] = "managed"

(* A user who logged in can send, after restarts too: the cache does not   *)
(* deny the user's node, unless a goroutine looked the ghost up before it  *)
(* was the user's and remembered the answer after (IsManagedNode).         *)
LoggedInCanSend ==
    \A u \in Users : loggedIn[u] /\ u \notin straddled => managedNodeCache[u] # "no"

(* A user can set the names used on the mesh: UpdateGhostMeshNames makes   *)
(* the node managed before it sends, so the send is not refused (README:   *)
(* "it allows them to set the long and short names").                      *)
NamesAreAccepted == refusedNames = {}
=============================================================================
