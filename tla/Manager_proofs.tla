--------------------------- MODULE Manager_proofs ---------------------------
(***************************************************************************)
(* Safety of the neighbour list, for any number of neighbours and of       *)
(* handlers.                                                               *)
(***************************************************************************)
EXTENDS Manager, TLAPS

USE DEF Neighbor, Kind, Handler

\* A new Manager has no neighbours and no handlers ...
LEMMA TypeCorrectInit == Init => TypeOK
  BY ManagerAssumption DEF Init, TypeOK, Empty, Nil

\* ... and every step of a connection, of a Disconnect and of the application keeps types.
LEMMA TypeCorrectStep == TypeOK /\ [Next]_vars => TypeOK'
  <1> SUFFICES ASSUME TypeOK, [Next]_vars PROVE TypeOK'
    OBVIOUS
  <1> USE ManagerAssumption DEF TypeOK, listVars, appVars
  <1>1. ASSUME NEW n \in Neighbor, CopyHandler(n, "event", "new", "update") PROVE TypeOK'
    BY <1>1 DEF CopyHandler
  <1>2. ASSUME NEW n \in Neighbor, CopyHandler(n, "update", "update", "start") PROVE TypeOK'
    BY <1>2 DEF CopyHandler
  <1>3. ASSUME NEW n \in Neighbor, Start(n) PROVE TypeOK'
    BY <1>3 DEF Start
  <1>4. ASSUME NEW n \in Neighbor, AddNeighbor(n) PROVE TypeOK'
    BY <1>4 DEF AddNeighbor
  <1>5. ASSUME NEW n \in Neighbor, Disconnect(n) PROVE TypeOK'
    BY <1>5 DEF Disconnect
  <1>6. ASSUME NEW n \in Neighbor, RemoveCopy(n) PROVE TypeOK'
    BY <1>6 DEF RemoveCopy
  <1>7. ASSUME NEW n \in Neighbor, RemoveStore(n) PROVE TypeOK'
    BY <1>7 DEF RemoveStore, Empty
  <1>8. CASE CloseHandler
    <2>1. current["update"] \in Handler
      OBVIOUS
    <2>2. closed' \subseteq Handler \ {0} /\ witness' \subseteq Neighbor /\ apc' = "install"
      BY <1>8, <2>1 DEF CloseHandler, Listed
    <2> QED
      BY <1>8, <2>2 DEF CloseHandler
  <1>9. ASSUME NEW k \in Kind, Install(k) PROVE TypeOK'
    BY <1>9 DEF Install, Listed
  <1>10. ASSUME NEW k \in Kind, Apply(k) PROVE TypeOK'
    BY <1>10 DEF Apply
  <1>11. CASE UNCHANGED vars
    BY <1>11 DEF vars
  <1> QED
    BY <1>1, <1>2, <1>3, <1>4, <1>5, <1>6, <1>7, <1>8, <1>9, <1>10, <1>11
       DEF Next, NeighborStep, AppStep

\* The fields of the Manager and of its neighbours keep their types.
THEOREM TypeCorrect == Spec => []TypeOK
  BY TypeCorrectInit, TypeCorrectStep, PTL DEF Spec

-----------------------------------------------------------------------------
\* neighborlock is held exactly by the RemoveNeighbor between its copy and its store.
LockHeld == \A n \in Neighbor : dpc[n] = "store" <=> lock = n

\* The copy of the list is still the list without its neighbour when it is stored.
CopyCurrent == \A n \in Neighbor : dpc[n] = "store" => newlist[n] = [list EXCEPT ![n] = 0]

\* A neighbour is only listed by its AddNeighbor, and only once.
AddedOnce == \A n \in Neighbor : list[n] <= 1 /\ (ipc[n] # "added" => list[n] = 0)

\* The inductive invariant: while the copies are current under the lock, no store can
\* undo an AddNeighbor or another removal.
ListInv ==
    /\ TypeOK /\ LockHeld /\ CopyCurrent /\ AddedOnce
    /\ NobodyLost /\ RemovedIsUnlisted

\* It holds initially ...
LEMMA ListInvInit == Init => ListInv
  <1> SUFFICES ASSUME Init PROVE ListInv
    OBVIOUS
  <1>1. TypeOK
    BY TypeCorrectInit
  <1>2. \A n \in Neighbor :
          list[n] = 0 /\ lock # n /\ ipc[n] = "new" /\ dpc[n] = "none"
    BY ManagerAssumption DEF Init, Empty
  <1> QED
    BY <1>1, <1>2 DEF ListInv, LockHeld, CopyCurrent, AddedOnce, NobodyLost, RemovedIsUnlisted

\* ... and every step keeps it.
LEMMA ListInvStep == ListInv /\ [Next]_vars => ListInv'
  <1> SUFFICES ASSUME ListInv, [Next]_vars, TypeOK' PROVE ListInv'
    BY TypeCorrectStep DEF ListInv
  <1> USE ManagerAssumption
      DEF TypeOK, listVars, appVars, ListInv, LockHeld, CopyCurrent, AddedOnce, NobodyLost,
          RemovedIsUnlisted
  <1>1. ASSUME NEW n \in Neighbor, CopyHandler(n, "event", "new", "update") PROVE ListInv'
    BY <1>1 DEF CopyHandler
  <1>2. ASSUME NEW n \in Neighbor, CopyHandler(n, "update", "update", "start") PROVE ListInv'
    BY <1>2 DEF CopyHandler
  <1>3. ASSUME NEW n \in Neighbor, Start(n) PROVE ListInv'
    BY <1>3 DEF Start
  <1>4. ASSUME NEW n \in Neighbor, AddNeighbor(n) PROVE ListInv'
    <2>1. ipc[n] # "added" /\ list[n] = 0 /\ \A m \in Neighbor : dpc[m] # "store"
      BY <1>4 DEF AddNeighbor
    <2>2. /\ LockHeld' /\ CopyCurrent'
      BY <1>4, <2>1 DEF AddNeighbor
    <2>3. AddedOnce' /\ NobodyLost'
      BY <1>4, <2>1 DEF AddNeighbor
    <2>4. RemovedIsUnlisted'
      BY <1>4, <2>1 DEF AddNeighbor
    <2> QED
      BY <2>2, <2>3, <2>4
  <1>5. ASSUME NEW n \in Neighbor, Disconnect(n) PROVE ListInv'
    BY <1>5 DEF Disconnect
  <1>6. ASSUME NEW n \in Neighbor, RemoveCopy(n) PROVE ListInv'
    <2>0. \A m \in Neighbor :
             /\ dpc[m] # "store" /\ (dpc'[m] = "store" <=> m = n)
             /\ m = n => newlist'[m] = [list' EXCEPT ![m] = 0]
      BY <1>6 DEF RemoveCopy
    <2>1. LockHeld' /\ CopyCurrent'
      BY <1>6, <2>0 DEF RemoveCopy
    <2>2. AddedOnce' /\ NobodyLost' /\ RemovedIsUnlisted'
      BY <1>6 DEF RemoveCopy
    <2> QED
      BY <2>1, <2>2
  <1>7. ASSUME NEW n \in Neighbor, RemoveStore(n) PROVE ListInv'
    <2>1. /\ list' = [list EXCEPT ![n] = 0] /\ lock = n
          /\ \A m \in Neighbor : dpc'[m] = IF m = n THEN "done" ELSE dpc[m]
      BY <1>7 DEF RemoveStore
    <2>2. LockHeld' /\ CopyCurrent'
      BY <1>7, <2>1 DEF RemoveStore
    <2>3. AddedOnce' /\ NobodyLost' /\ RemovedIsUnlisted'
      BY <1>7, <2>1 DEF RemoveStore
    <2> QED
      BY <2>2, <2>3
  <1>8. CASE CloseHandler
    BY <1>8 DEF CloseHandler
  <1>9. ASSUME NEW k \in Kind, Install(k) PROVE ListInv'
    BY <1>9 DEF Install
  <1>10. ASSUME NEW k \in Kind, Apply(k) PROVE ListInv'
    BY <1>10 DEF Apply
  <1>11. CASE UNCHANGED vars
    BY <1>11 DEF vars
  <1> QED
    BY <1>1, <1>2, <1>3, <1>4, <1>5, <1>6, <1>7, <1>8, <1>9, <1>10, <1>11
       DEF Next, NeighborStep, AppStep

\* Concurrent RemoveNeighbor calls never drop or duplicate another neighbour.
THEOREM NobodyIsLost == Spec => []NobodyLost
<1>1. ListInv => NobodyLost
  BY DEF ListInv
<1> QED
  BY ListInvInit, ListInvStep, <1>1, PTL DEF Spec

\* A neighbour whose RemoveNeighbor has returned is not in the list, unless it was added
\* after it had begun to disconnect.
THEOREM RemovedStaysUnlisted == Spec => []RemovedIsUnlisted
<1>1. ListInv => RemovedIsUnlisted
  BY DEF ListInv
<1> QED
  BY ListInvInit, ListInvStep, <1>1, PTL DEF Spec

\* An installed handler has reached every neighbour that was listed all the time, when
\* the call that installs it returns.
THEOREM HandlerReaches == Spec => HandlerReachesListed
<1> DEFINE Reaches == apc' = "idle" /\ apc \in Kind =>
                        \A n \in witness \cap Listed : handler'[n][apc] = current[apc]
<1>1. TypeOK /\ [Next]_vars => Reaches
  <2> SUFFICES ASSUME TypeOK, Next, apc' = "idle", apc \in Kind
               PROVE  \A n \in witness \cap Listed : handler'[n][apc] = current[apc]
    BY DEF vars
  <2>1. PICK k \in Kind : Apply(k)
    BY DEF Next, NeighborStep, AppStep, CopyHandler, Start, AddNeighbor, Disconnect, RemoveCopy,
           RemoveStore, CloseHandler, Install, appVars
  <2> QED
    BY <2>1 DEF Apply, TypeOK, Listed
<1> QED
  BY TypeCorrect, <1>1, PTL DEF Spec, HandlerReachesListed
=============================================================================
