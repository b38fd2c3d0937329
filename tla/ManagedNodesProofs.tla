------------------------- MODULE ManagedNodesProofs -------------------------
(***************************************************************************)
(* Proofs about ManagedNodes, for any users, goroutines, operations and    *)
(* restarts.                                                               *)
(***************************************************************************)
EXTENDS ManagedNodes, TLAPS

Naming == {"names", "login"}

(* A goroutine that is not idle works for a user; what it holds of an      *)
(* answer goes with its place, and the steps of UpdateGhostMeshNames are   *)
(* taken for names and logins only.                                        *)
Engaged ==
    \A a \in Actors :
        /\ pc[a] = "idle" => user[a] = NoUser /\ answer[a] = NoAnswer /\ op[a] = "idle"
        /\ pc[a] # "idle" => user[a] \in Users /\ op[a] # "idle"
        /\ pc[a] \in {"ghost", "info", "read", "write", "login"} => op[a] \in Naming
        /\ pc[a] = "store" => answer[a] \in {"yes", "no"}
        /\ pc[a] \in {"sent", "login"} => answer[a] = "yes"
        /\ pc[a] = "sent" => op[a] # "look"

(* No negative answer is pending for a user who is managed, unless the     *)
(* user became managed under it.                                           *)
NoLateDenial ==
    \A u \in Users : ghost[u] = "managed" /\ u \notin straddled =>
        \A a \in Actors : ~(user[a] = u /\ pc[a] = "store" /\ answer[a] = "no")

(* Who acts on a positive answer finds it in the cache, or finds nothing,  *)
(* and so does who logged in.                                              *)
NotDenied ==
    /\ \A a \in Actors :
          pc[a] \in {"answered", "sent", "login"} /\ answer[a] = "yes" /\ user[a] \notin straddled
          => managedNodeCache[user[a]] # "no"
    /\ \A u \in Users : loggedIn[u] => ghost[u] = "managed"

Cached == Engaged /\ GrantedMeansManaged /\ NoLateDenial /\ NotDenied /\ LoggedInCanSend
IInv   == TypeOK /\ Cached

LEMMA InitInv == Init => IInv
BY UsersAssumption, BoundsAssumption, SMT
     DEF Init, IInv, TypeOK, Cached, Engaged, GrantedMeansManaged, NoLateDenial, NotDenied,
         LoggedInCanSend, NoAnswer, Ops

(* One step per operation.                                                 *)
LEMMA TypeStep == ASSUME IInv, Next PROVE TypeOK'
  <1> USE UsersAssumption, BoundsAssumption
      DEF TypeOK, Ops, NoAnswer, Set, At, GoTo, db, actor, history
  <1> USE DEF IInv, Cached, Engaged, Naming
  <1>1. ASSUME NEW a \in Actors, NEW u \in Users, NEW o \in Ops, Begin(a, u, o) PROVE TypeOK'
    BY <1>1 DEF Begin
  <1>2. ASSUME NEW a \in Actors, CheckCache(a) PROVE TypeOK'
    BY <1>2 DEF CheckCache
  <1>3. ASSUME NEW a \in Actors, FindGhost(a) PROVE TypeOK'
    BY <1>3 DEF FindGhost
  <1>4. ASSUME NEW a \in Actors, StoreAnswer(a) PROVE TypeOK'
    BY <1>4 DEF StoreAnswer
  <1>5. ASSUME NEW a \in Actors, UseAnswer(a) PROVE TypeOK'
    BY <1>5 DEF UseAnswer, Finish
  <1>6. ASSUME NEW a \in Actors, GetGhostByID(a) PROVE TypeOK'
    BY <1>6 DEF GetGhostByID
  <1>7. ASSUME NEW a \in Actors, UpdateInfo(a) PROVE TypeOK'
    BY <1>7 DEF UpdateInfo
  <1>8. ASSUME NEW a \in Actors, GetByNodeID(a) PROVE TypeOK'
    BY <1>8 DEF GetByNodeID
  <1>9. ASSUME NEW a \in Actors, SetAll(a) PROVE TypeOK'
    BY <1>9 DEF SetAll
  <1>10. ASSUME NEW a \in Actors, Sent(a) PROVE TypeOK'
    BY <1>10 DEF Sent, Finish
  <1>11. ASSUME NEW a \in Actors, NewLogin(a) PROVE TypeOK'
    BY <1>11 DEF NewLogin, Finish
  <1>12. ASSUME NEW a \in Actors, Fail(a) PROVE TypeOK'
    BY <1>12 DEF Fail, Finish
  <1>13. ASSUME NEW u \in Users, ResolveIdentifier(u) PROVE TypeOK'
    BY <1>13 DEF ResolveIdentifier
  <1>14. CASE Restart
    BY <1>14 DEF Restart
  <1> HIDE DEF TypeOK, Ops, IInv, Cached, Engaged
  <1>15. QED
    BY <1>1, <1>2, <1>3, <1>4, <1>5, <1>6, <1>7, <1>8, <1>9, <1>10, <1>11, <1>12, <1>13, <1>14 DEF Next

(* What is remembered and acted on stays true of the ghost.                *)
LEMMA CachedStep == ASSUME IInv, Next PROVE Cached'
  <1> USE UsersAssumption
      DEF TypeOK, Ops, NoAnswer, Set, At, GoTo, db, actor, history
  <1> USE DEF IInv, Cached, Engaged, GrantedMeansManaged, NoLateDenial, NotDenied, LoggedInCanSend,
              Naming
  <1>1. ASSUME NEW a \in Actors, NEW u \in Users, NEW o \in Ops, Begin(a, u, o) PROVE Cached'
    BY <1>1 DEF Begin
  <1>2. ASSUME NEW a \in Actors, CheckCache(a) PROVE Cached'
    BY <1>2 DEF CheckCache
  <1>3. ASSUME NEW a \in Actors, FindGhost(a) PROVE Cached'
    BY <1>3 DEF FindGhost
  <1>4. ASSUME NEW a \in Actors, StoreAnswer(a) PROVE Cached'
    BY <1>4 DEF StoreAnswer
  <1>5. ASSUME NEW a \in Actors, UseAnswer(a) PROVE Cached'
    BY <1>5 DEF UseAnswer, Finish
  <1>6. ASSUME NEW a \in Actors, GetGhostByID(a) PROVE Cached'
    BY <1>6 DEF GetGhostByID
  <1>7. ASSUME NEW a \in Actors, UpdateInfo(a) PROVE Cached'
    BY <1>7 DEF UpdateInfo
  <1>8. ASSUME NEW a \in Actors, GetByNodeID(a) PROVE Cached'
    BY <1>8 DEF GetByNodeID
  <1>9. ASSUME NEW a \in Actors, SetAll(a) PROVE Cached'
    BY <1>9 DEF SetAll
  <1>10. ASSUME NEW a \in Actors, Sent(a) PROVE Cached'
    BY <1>10 DEF Sent, Finish
  <1>11. ASSUME NEW a \in Actors, NewLogin(a) PROVE Cached'
    BY <1>11 DEF NewLogin, Finish
  <1>12. ASSUME NEW a \in Actors, Fail(a) PROVE Cached'
    BY <1>12 DEF Fail, Finish
  <1>13. ASSUME NEW u \in Users, ResolveIdentifier(u) PROVE Cached'
    BY <1>13 DEF ResolveIdentifier
  <1>14. CASE Restart
    BY <1>14 DEF Restart
  <1> HIDE DEF TypeOK, Ops, IInv, Cached, Engaged
  <1>15. QED
    BY <1>1, <1>2, <1>3, <1>4, <1>5, <1>6, <1>7, <1>8, <1>9, <1>10, <1>11, <1>12, <1>13, <1>14 DEF Next

LEMMA StutterStep == ASSUME IInv, UNCHANGED vars PROVE IInv'
BY DEF IInv, TypeOK, Cached, Engaged, GrantedMeansManaged, NoLateDenial, NotDenied,
       LoggedInCanSend,
       vars, db, actor, history

(* Every reachable state satisfies the inductive invariant, TypeOK among   *)
(* its parts.                                                              *)
THEOREM Invariance == Spec => []IInv
<1>1. IInv /\ [Next]_vars => IInv'
  BY TypeStep, CachedStep, StutterStep DEF IInv
<1> QED
  BY InitInv, <1>1, PTL DEF Spec

(* The bridge never speaks for a node without a Matrix user: whatever      *)
(* IsManagedNode grants is true of the ghost, for any number of goroutines *)
(* in its cache.                                                           *)
THEOREM GrantsAreTrue == Spec => []GrantedMeansManaged
<1>1. IInv => GrantedMeansManaged
  BY DEF IInv, Cached
<1> QED
  BY Invariance, <1>1, PTL

(* IsManagedNode does not deny a logged-in user, unless a goroutine looked *)
(* at the ghost before it was the user's and stored its answer after.      *)
THEOREM LoginsCanSend == Spec => []LoggedInCanSend
<1>1. IInv => LoggedInCanSend
  BY DEF IInv, Cached
<1> QED
  BY Invariance, <1>1, PTL
=============================================================================
