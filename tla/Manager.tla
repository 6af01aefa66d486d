------------------------------ MODULE Manager -------------------------------
(***************************************************************************)
(* The Manager of server/server.go: the list of neighbours under           *)
(* neighborlock, the goroutine that ProcessIncomingRequest runs for each   *)
(* accepted connection, the RemoveNeighbor at the end of each Disconnect   *)
(* of such a neighbour, and the application that adds neighbours and       *)
(* installs event and update handlers.                                     *)
(* Of a neighbour the Manager sees its handlers, and that from its Start   *)
(* on it may disconnect at any time (module Neighbor).  The list is        *)
(* modelled as a bag: how often each neighbour occurs in it.               *)
(***************************************************************************)
EXTENDS Naturals

CONSTANTS
    Incoming,    \* neighbours made by ProcessIncomingRequest
    Configured,  \* neighbours the application makes and adds itself
    Free,        \* neighborlock is not held
    MaxHandlers  \* bound: handlers of each kind that the application installs

Neighbor == Incoming \cup Configured
Kind     == {"event", "update"}   \* HandlerEvent and HandlerUpdate
Handler  == 0 .. MaxHandlers      \* 0 is nil, n the n-th handler installed

ASSUME ManagerAssumption ==
    /\ Incoming \cap Configured = {} /\ Free \notin Neighbor
    /\ MaxHandlers \in Nat

VARIABLES
    list,      \* Manager.Neighbors
    lock,      \* the RemoveNeighbor that holds neighborlock, or Free
    newlist,   \* the local newlist of each RemoveNeighbor
    ipc,       \* how far each neighbour is in ProcessIncomingRequest
    dpc,       \* how far its latest Disconnect is in RemoveNeighbor
    current,   \* Manager.HandlerEvent and Manager.HandlerUpdate
    handler,   \* the same two fields of each neighbour
    apc,       \* the application: idle or in a call that installs a handler
    closed,    \* the update handlers that have been closed
    late,      \* history: neighbours added after they had begun to disconnect
    witness    \* history: neighbours listed when the application's call began

vars == <<list, lock, newlist, ipc, dpc, current, handler, apc, closed, late, witness>>

listVars == <<list, lock, newlist>>
appVars  == <<current, apc, closed, witness>>

Empty == [n \in Neighbor |-> 0]
Listed == {n \in Neighbor : list[n] > 0}
Nil == [k \in Kind |-> 0]

Init ==
    /\ list = Empty /\ lock = Free /\ newlist = [n \in Neighbor |-> Empty]
    /\ ipc = [n \in Neighbor |-> "new"] /\ dpc = [n \in Neighbor |-> "none"]
    /\ current = Nil /\ handler = [n \in Neighbor |-> Nil]
    /\ apc = "idle" /\ closed = {} /\ late = {} /\ witness = {}

-----------------------------------------------------------------------------
(* ProcessIncomingRequest: copy the two handlers, Start, AddNeighbor.       *)

CopyHandler(n, k, from, to) ==
    /\ n \in Incoming /\ ipc[n] = from
    /\ handler' = [handler EXCEPT ![n][k] = current[k]]
    /\ ipc' = [ipc EXCEPT ![n] = to]
    /\ UNCHANGED <<listVars, dpc, appVars, late>>

\* From here on the goroutines of the neighbour run.
Start(n) ==
    /\ n \in Incoming /\ ipc[n] = "start" /\ ipc' = [ipc EXCEPT ![n] = "add"]
    /\ UNCHANGED <<listVars, dpc, handler, appVars, late>>

\* Mutant of AddNeighbor: the append does not take neighborlock.
AddUnlocked(n) ==
    /\ ipc[n] = IF n \in Incoming THEN "add" ELSE "new"
    /\ list' = [list EXCEPT ![n] = @ + 1]
    /\ ipc' = [ipc EXCEPT ![n] = "added"]
    /\ late' = IF dpc[n] = "none" THEN late ELSE late \cup {n}
    /\ UNCHANGED <<lock, newlist, dpc, handler, appVars>>

\* AddNeighbor, by ProcessIncomingRequest or, for a configured neighbour, by the
\* application: one append under neighborlock.
AddNeighbor(n) ==
    /\ ipc[n] = IF n \in Incoming THEN "add" ELSE "new"
    /\ lock = Free
    /\ list' = [list EXCEPT ![n] = @ + 1]
    /\ ipc' = [ipc EXCEPT ![n] = "added"]
    /\ late' = IF dpc[n] = "none" THEN late ELSE late \cup {n}
    /\ UNCHANGED <<lock, newlist, dpc, handler, appVars>>

-----------------------------------------------------------------------------
(* RemoveNeighbor, called by a Disconnect of n.  Several routines of n may  *)
(* disconnect it, one after the other or again later.                       *)

Disconnect(n) ==
    /\ n \in Incoming /\ ipc[n] \in {"add", "added"} /\ dpc[n] \in {"none", "done"}
    /\ dpc' = [dpc EXCEPT ![n] = "lock"]
    /\ UNCHANGED <<listVars, ipc, handler, appVars, late>>

\* Mutant of RemoveCopy: the list is copied before neighborlock is taken.
RemoveCopyUnlocked(n) ==
    /\ dpc[n] = "lock"
    /\ lock' = n /\ newlist' = [newlist EXCEPT ![n] = [list EXCEPT ![n] = 0]]
    /\ dpc' = [dpc EXCEPT ![n] = "store"]
    /\ UNCHANGED <<list, ipc, handler, appVars, late>>

\* Under the lock the list is copied without n ...
RemoveCopy(n) ==
    /\ dpc[n] = "lock" /\ lock = Free
    /\ lock' = n /\ newlist' = [newlist EXCEPT ![n] = [list EXCEPT ![n] = 0]]
    /\ dpc' = [dpc EXCEPT ![n] = "store"]
    /\ UNCHANGED <<list, ipc, handler, appVars, late>>

\* ... and the copy becomes the list.
RemoveStore(n) ==
    /\ dpc[n] = "store"
    /\ list' = newlist[n] /\ lock' = Free
    /\ newlist' = [newlist EXCEPT ![n] = Empty]
    /\ dpc' = [dpc EXCEPT ![n] = "done"]
    /\ UNCHANGED <<ipc, handler, appVars, late>>

-----------------------------------------------------------------------------
(* UseDefaultUpdateHandler and SetEventHandler, called by one goroutine.    *)

\* Mutant of CloseHandler: Close is called on a nil handler too.
CloseUnchecked ==
    /\ apc = "idle" /\ current["update"] < MaxHandlers
    /\ closed' = closed \cup {current["update"]}
    /\ apc' = "install" /\ witness' = Listed
    /\ UNCHANGED <<listVars, ipc, dpc, current, handler, late>>

\* UseDefaultUpdateHandler first closes the handler it is about to replace, if there is one.
CloseHandler ==
    /\ apc = "idle" /\ current["update"] < MaxHandlers
    /\ closed' = closed \cup ({current["update"]} \ {0})
    /\ apc' = "install" /\ witness' = Listed
    /\ UNCHANGED <<listVars, ipc, dpc, current, handler, late>>

\* Manager.HandlerUpdate, or Manager.HandlerEvent in SetEventHandler, is assigned ...
Install(k) ==
    /\ current[k] < MaxHandlers
    /\ \/ k = "update" /\ apc = "install" /\ UNCHANGED witness
       \/ k = "event" /\ apc = "idle" /\ witness' = Listed
    /\ current' = [current EXCEPT ![k] = @ + 1] /\ apc' = k
    /\ UNCHANGED <<listVars, ipc, dpc, handler, closed, late>>

\* Mutant of Apply: the value copied is the one read before the assignment.
ApplyPrevious(k) ==
    /\ apc = k /\ lock = Free /\ apc' = "idle"
    /\ handler' = [n \in Neighbor |->
                     IF n \in Listed THEN [handler[n] EXCEPT ![k] = current[k] - 1] ELSE handler[n]]
    /\ UNCHANGED <<listVars, ipc, dpc, current, closed, late, witness>>

\* ... and then copied to every neighbour in the list, under the read lock.
Apply(k) ==
    /\ apc = k /\ lock = Free /\ apc' = "idle"
    /\ handler' = [n \in Neighbor |->
                     IF n \in Listed THEN [handler[n] EXCEPT ![k] = current[k]] ELSE handler[n]]
    /\ UNCHANGED <<listVars, ipc, dpc, current, closed, late, witness>>

NeighborStep(n) ==
    \/ CopyHandler(n, "event", "new", "update") \/ CopyHandler(n, "update", "update", "start")
    \/ Start(n) \/ AddNeighbor(n)
    \/ RemoveCopy(n) \/ RemoveStore(n)

AppStep == \E k \in Kind : (apc # "idle" /\ Install(k)) \/ Apply(k)

Next ==
    \/ \E n \in Neighbor : NeighborStep(n) \/ Disconnect(n)
    \/ CloseHandler \/ AppStep \/ Install("event")

\* Goroutines run and neighborlock is granted; disconnections and calls of the
\* application happen or not.
Fairness == WF_vars(AppStep) /\ \A n \in Neighbor : SF_vars(NeighborStep(n))

Spec     == Init /\ [][Next]_vars
FairSpec == Spec /\ Fairness

-----------------------------------------------------------------------------
\* The list, the lock and the handlers have the types of their declarations, and the nil
\* handler is never closed: Close is only called on a handler that was installed.
TypeOK ==
    /\ list \in [Neighbor -> Nat] /\ newlist \in [Neighbor -> [Neighbor -> Nat]]
    /\ lock \in Neighbor \cup {Free}
    /\ ipc \in [Neighbor -> {"new", "update", "start", "add", "added"}]
    /\ dpc \in [Neighbor -> {"none", "lock", "store", "done"}]
    /\ current \in [Kind -> Handler] /\ handler \in [Neighbor -> [Kind -> Handler]]
    /\ apc \in {"idle", "install"} \cup Kind
    /\ closed \subseteq Handler \ {0} /\ late \subseteq Neighbor /\ witness \subseteq Neighbor

\* A neighbour is in the list at most once, and a neighbour that was added and has not
\* begun to disconnect is in it: the copies that concurrent RemoveNeighbor calls make of
\* the list never drop or duplicate somebody else.
NobodyLost ==
    \A n \in Neighbor :
        /\ list[n] <= 1
        /\ ipc[n] = "added" /\ dpc[n] = "none" => list[n] = 1

\* When a RemoveNeighbor of a neighbour has returned the neighbour is not in the list,
\* unless its AddNeighbor came later than its disconnection.
RemovedIsUnlisted ==
    \A n \in Neighbor : dpc[n] = "done" /\ n \notin late => list[n] = 0

\* When a call that installs a handler has returned, every neighbour that was in the list
\* when the call began and still is has the Manager's current handler of that kind.
HandlerReachesListed ==
    [][apc' = "idle" /\ apc \in Kind =>
          \A n \in witness \cap Listed : handler'[n][apc] = current[apc]]_vars

\* A neighbour whose Disconnect has reported "Removing from manager" leaves the list and
\* never comes back to it.
GoneForGood == \A n \in Neighbor : dpc[n] = "done" ~> [](list[n] = 0)
=============================================================================
