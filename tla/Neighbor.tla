------------------------------ MODULE Neighbor ------------------------------
(***************************************************************************)
(* One Neighbor of server/server.go: the three goroutines that             *)
(* Neighbor.Start launches (NeighborLifeRoutine, SenderRoutine,            *)
(* NeighborReceiveRoutine), the fields they share without a lock (CurState,*)
(* OpenReceived, Connected, tcpconn, LocalLastKeepAliveRecv), the channels *)
(* update and OutQueue, and Disconnect, which each of the three may be     *)
(* executing at the same time as the others.                               *)
(*                                                                         *)
(* Each routine has a program counter; a step is the code between two      *)
(* accesses to shared state that another routine can observe.  The TCP     *)
(* peer is the environment: a read returns any message or an error.        *)
(***************************************************************************)
EXTENDS Naturals, Sequences, FiniteSets

CONSTANTS
    Incoming,             \* TRUE: made by ProcessIncomingRequest; FALSE: by NewNeighbor
    LocalEnableKeepAlive, \* NewNeighbor was given a hold time of at least 3 s
    HandlerEvent,         \* an event handler is installed
    DialMayFail,          \* net.DialTCP may return an error
    MayFallSilent,        \* the peer may stop sending without closing the connection
    Conn,                 \* identities of TCP connections
    NoConn,               \* the nil *net.TCPConn
    PeerSends,            \* the kinds of messages the peer sends
    UpdateCap,            \* capacity of the channel update (5 in the code)
    OutCap,               \* capacity of the channel OutQueue (1000 in the code)
    MaxRoutes             \* bound: messages the application queues by SendRoute

ASSUME FlagsAssumption ==
    /\ Incoming \in BOOLEAN /\ LocalEnableKeepAlive \in BOOLEAN
    /\ HandlerEvent \in BOOLEAN /\ DialMayFail \in BOOLEAN /\ MayFallSilent \in BOOLEAN
ASSUME ConnAssumption == Conn # {} /\ NoConn \notin Conn
ASSUME PeerAssumption ==
    PeerSends \subseteq {"OPEN", "KEEPALIVE", "NOTIFICATION", "UPDATE", "ROUTEREFRESH"}
ASSUME BoundAssumption ==
    UpdateCap \in Nat \ {0} /\ OutCap \in Nat \ {0} /\ MaxRoutes \in Nat

VARIABLES
    curState,       \* State.CurState
    openReceived,   \* State.OpenReceived
    connected,      \* Connected
    tcpconn,        \* tcpconn
    open,           \* the connections this process has not closed
    silent,         \* the open connections whose peer will never send again
    update,         \* the channel update
    outQueue,       \* the channel OutQueue
    peerKeepAlive,  \* PeerEnableKeepAlive
    lastRecv,       \* LocalLastKeepAliveRecv against LocalHoldTime, see LastRecv
    pc,             \* where each routine is
    pkt,            \* argument of EvolveState in the life routine
    resume,         \* where the life routine continues after Disconnect
    held,           \* connection on which a routine is reading or writing
    got,            \* the message the receive routine has read
    routes,         \* messages queued by the application so far
    removed,        \* RemoveNeighbor has been called for this neighbour
    panicked        \* the process died of a nil dereference

connVars  == <<connected, tcpconn, open>>
stateVars == <<curState, openReceived, peerKeepAlive>>
lifeVars  == <<pkt, resume>>
endVars   == <<removed, panicked>>
vars == <<curState, openReceived, connected, tcpconn, open, silent, update,
          outQueue, peerKeepAlive, lastRecv, pc, pkt, resume, held, got,
          routes, removed, panicked>>

-----------------------------------------------------------------------------
State   == {"IDLE", "ACTIVE", "OPENSENT", "OPENCONFIRM", "ESTABLISHED"}
Routine == {"life", "sender", "recv"}

\* What ParsePacketHeader can announce; ParsePacket knows all but ROUTEREFRESH.
InMsg  == {"OPEN", "KEEPALIVE", "NOTIFICATION", "UPDATE", "ROUTEREFRESH"}
Packet == {"OPEN", "KEEPALIVE", "NOTIFICATION"}
OutMsg == {"OPEN", "KEEPALIVE", "ROUTE"}

\* LocalLastKeepAliveRecv.  Less than LocalHoldTime ago: stamped "since" tcpconn was set up
\* or "before" that.  Longer ago (for ever, the zero time, in a new Neighbor): "expired",
\* or "stale" if tcpconn itself is younger than LocalHoldTime.
LastRecv == {"since", "before", "stale", "expired"}

DisconnectPC == {"dcFlags", "dcClose", "dcIdle", "dcQuitLife", "dcQuitSender"}
LifePC   == {"start", "select", "packet", "establish", "switch", "dial", "connected", "activate",
             "sendOpen", "sendFirstKA", "opensent", "confirm", "sendKA", "hold", "stopped"} \cup DisconnectPC
SenderPC == {"start", "select", "writing", "stopped"} \cup DisconnectPC
RecvPC   == {"top", "capture", "header", "more", "body", "got", "handle", "dispatch", "wait",
             "stopped"} \cup DisconnectPC

\* Configuration of the two kinds of neighbour.
Passive == Incoming

\* Mutant of Reconnect: NewNeighborFromConn keeps the default of NewNeighbor.
ReconnectByDefault == TRUE
Reconnect == ~Incoming

\* Mutant of RemoveOnDisconnect: ProcessIncomingRequest does not set it.
NeverRemove == FALSE
RemoveOnDisconnect == Incoming

Init ==
    /\ \E c \in Conn :
          IF Incoming THEN tcpconn = c /\ open = {c} ELSE tcpconn = NoConn /\ open = {}
    /\ curState = IF Incoming THEN "ACTIVE" ELSE "IDLE"
    /\ connected = Incoming
    /\ openReceived = FALSE /\ peerKeepAlive = FALSE
    /\ silent = {} /\ update = <<>> /\ outQueue = <<>>
    /\ lastRecv = "stale"
    /\ pc = [life |-> "start", sender |-> "start", recv |-> "top"]
    /\ pkt = "nil" /\ resume = "select"
    /\ held = [sender |-> NoConn, recv |-> NoConn] /\ got = "none"
    /\ routes = 0 /\ removed = FALSE /\ panicked = FALSE

\* A step of routine r at label l; no routine moves once the process has died.
At(r, l)   == ~panicked /\ pc[r] = l
Goto(r, l) == pc' = [pc EXCEPT ![r] = l]

\* Using a nil tcpconn is a nil dereference: the process dies.
NilPanic == tcpconn = NoConn /\ panicked' = TRUE

\* A goroutine launched by Start gets to run and parks in its select.
Begin(r) ==
    /\ At(r, "start") /\ Goto(r, "select")
    /\ UNCHANGED <<stateVars, connVars, silent, update, outQueue, lastRecv, lifeVars, held, got,
                   routes, endVars>>

-----------------------------------------------------------------------------
(* Disconnect, executed by routine r.                                       *)

\* Where r continues when Disconnect returns.
Return(r) == CASE r = "life" -> resume [] r = "sender" -> "select" [] r = "recv" -> "top"

\* Connected and OpenReceived are cleared.
DisconnectFlags(r) ==
    /\ At(r, "dcFlags") /\ Goto(r, "dcClose")
    /\ connected' = FALSE /\ openReceived' = FALSE
    /\ UNCHANGED <<curState, tcpconn, open, silent, update, outQueue, peerKeepAlive, lastRecv,
                   lifeVars, held, got, routes, endVars>>

\* Mutant of DisconnectClose: the socket is left to the garbage collector.
DisconnectWithoutClose(r) ==
    /\ At(r, "dcClose") /\ Goto(r, "dcIdle")
    /\ UNCHANGED <<stateVars, connVars, silent, update, outQueue, lastRecv, lifeVars, held, got,
                   routes, endVars>>

\* Mutant of DisconnectClose: the pointer is cleared once the socket is closed.
DisconnectAndForget(r) ==
    /\ At(r, "dcClose")
    /\ \/ NilPanic /\ UNCHANGED <<pc, open, tcpconn>>
       \/ /\ tcpconn # NoConn /\ open' = open \ {tcpconn} /\ tcpconn' = NoConn
          /\ Goto(r, "dcIdle") /\ UNCHANGED panicked
    /\ UNCHANGED <<stateVars, connected, silent, update, outQueue, lastRecv, lifeVars, held, got,
                   routes, removed>>

\* tcpconn, whatever connection it is by now, is closed.
DisconnectClose(r) ==
    /\ At(r, "dcClose")
    /\ \/ NilPanic /\ UNCHANGED <<pc, open, silent>>
       \/ /\ tcpconn # NoConn /\ open' = open \ {tcpconn} /\ silent' = silent \ {tcpconn}
          /\ Goto(r, "dcIdle") /\ UNCHANGED panicked
    /\ UNCHANGED <<stateVars, connected, tcpconn, update, outQueue, lastRecv, lifeVars,
                   held, got, routes, removed>>

\* Mutant of DisconnectIdle: the neighbour goes back to the state it was created in.
DisconnectActive(r) ==
    /\ At(r, "dcIdle") /\ curState' = IF Incoming THEN "ACTIVE" ELSE "IDLE"
    /\ Goto(r, IF RemoveOnDisconnect THEN "dcQuitLife" ELSE Return(r))
    /\ UNCHANGED <<openReceived, peerKeepAlive, connVars, silent, update, outQueue, lastRecv,
                   lifeVars, held, got, routes, endVars>>

\* UpdateState(STATE_IDLE), then the DisconnectedNeighbor callback.
DisconnectIdle(r) ==
    /\ At(r, "dcIdle") /\ curState' = "IDLE"
    /\ Goto(r, IF RemoveOnDisconnect THEN "dcQuitLife" ELSE Return(r))
    /\ UNCHANGED <<openReceived, peerKeepAlive, connVars, silent, update, outQueue, lastRecv,
                   lifeVars, held, got, routes, endVars>>

\* The non-blocking send on qLife: it reaches the life routine only while that routine is
\* parked in its select with nothing to receive, otherwise the default branch drops it.
DisconnectQuitLife(r) ==
    /\ At(r, "dcQuitLife")
    /\ IF pc["life"] = "select" /\ update = <<>>
       THEN pc' = [pc EXCEPT ![r] = "dcQuitSender", !["life"] = "stopped"]
       ELSE Goto(r, "dcQuitSender")
    /\ UNCHANGED <<stateVars, connVars, silent, update, outQueue, lastRecv, lifeVars, held, got,
                   routes, endVars>>

\* The same on qSender, then Manager.RemoveNeighbor.
DisconnectRemove(r) ==
    /\ At(r, "dcQuitSender") /\ removed' = TRUE
    /\ IF pc["sender"] = "select" /\ outQueue = <<>>
       THEN pc' = [pc EXCEPT ![r] = Return(r), !["sender"] = "stopped"]
       ELSE Goto(r, Return(r))
    /\ UNCHANGED <<stateVars, connVars, silent, update, outQueue, lastRecv, lifeVars, held, got,
                   routes, panicked>>

Disconnect(r) ==
    \/ DisconnectFlags(r)
    \/ DisconnectClose(r)
    \/ DisconnectIdle(r)
    \/ DisconnectQuitLife(r)
    \/ DisconnectRemove(r)

-----------------------------------------------------------------------------
(* NeighborLifeRoutine and EvolveState.                                     *)

LifeReceive ==
    /\ At("life", "select") /\ update # <<>>
    /\ pkt' = Head(update) /\ update' = Tail(update) /\ Goto("life", "packet")
    /\ UNCHANGED <<stateVars, connVars, silent, outQueue, lastRecv, resume, held, got, routes,
                   endVars>>

\* The one-second timer fires only if nothing arrived while the routine waited.
LifeTick ==
    /\ At("life", "select") /\ update = <<>>
    /\ pkt' = "nil" /\ Goto("life", "switch")
    /\ UNCHANGED <<stateVars, connVars, silent, update, outQueue, lastRecv, resume, held, got,
                   routes, endVars>>

\* case *BGPMessageOpen: the handler's NewNeighbor may refuse the peer.
EvolveOpen ==
    /\ At("life", "packet") /\ pkt = "OPEN"
    /\ openReceived' = TRUE
    /\ peerKeepAlive' \in {peerKeepAlive, TRUE}
    /\ \/ Goto("life", "switch") /\ UNCHANGED resume
       \/ HandlerEvent /\ Goto("life", "dcFlags") /\ resume' = "switch"
    /\ UNCHANGED <<curState, connVars, silent, update, outQueue, lastRecv, pkt, held, got, routes,
                   endVars>>

\* Mutant of EvolveKeepAlive: the state is not looked at.
EstablishAlways ==
    /\ At("life", "packet") /\ pkt = "KEEPALIVE" /\ Goto("life", "establish")
    /\ UNCHANGED <<stateVars, connVars, silent, update, outQueue, lastRecv, lifeVars, held, got,
                   routes, endVars>>

\* case *BGPMessageKeepAlive: the state is read here and written in Establish.
EvolveKeepAlive ==
    /\ At("life", "packet") /\ pkt = "KEEPALIVE"
    /\ IF curState = "OPENCONFIRM"
       THEN Goto("life", "establish")
       ELSE Goto("life", "switch")
    /\ UNCHANGED <<stateVars, connVars, silent, update, outQueue, lastRecv, lifeVars, held, got,
                   routes, endVars>>

\* case *BGPMessageNotification.
EvolveNotification ==
    /\ At("life", "packet") /\ pkt = "NOTIFICATION"
    /\ Goto("life", "dcFlags") /\ resume' = "switch"
    /\ UNCHANGED <<stateVars, connVars, silent, update, outQueue, lastRecv, pkt, held, got, routes,
                   endVars>>

\* UpdateState(s), reached after the decision to enter s was taken at label l.
LifeUpdateState(l, s, next) ==
    /\ At("life", l) /\ curState' = s /\ Goto("life", next)
    /\ UNCHANGED <<openReceived, peerKeepAlive, connVars, silent, update, outQueue, lastRecv,
                   lifeVars, held, got, routes, endVars>>

\* Mutant of Branch: OPENSENT does not wait for the peer's OPEN.
ConfirmAnyway ==
    CASE curState = "IDLE" -> {IF Passive THEN "hold" ELSE "dial"}
      [] curState = "ACTIVE" -> {IF ~Passive \/ openReceived THEN "sendOpen" ELSE "hold"}
      [] curState = "OPENSENT" -> {"confirm"}
      [] OTHER -> {"hold"}

\* The switch on CurState: which branch EvolveState enters.  A KEEPALIVE is due on
\* every timer tick (the interval in the code is a few nanoseconds) and, as the
\* clock may not have moved between two packets, may or may not be on a packet.
Branch ==
    CASE curState = "IDLE" -> {IF Passive THEN "hold" ELSE "dial"}
      [] curState = "ACTIVE" -> {IF ~Passive \/ openReceived THEN "sendOpen" ELSE "hold"}
      [] curState = "OPENSENT" -> {IF openReceived THEN "confirm" ELSE "hold"}
      [] OTHER -> IF ~peerKeepAlive THEN {"hold"}
                  ELSE IF pkt = "nil" THEN {"sendKA"} ELSE {"sendKA", "hold"}

\* A packet stamps LocalLastKeepAliveRecv; then the switch.
EvolveSwitch ==
    /\ At("life", "switch")
    /\ lastRecv' = IF pkt # "nil" THEN "since" ELSE lastRecv
    /\ \E l \in Branch : Goto("life", l)
    /\ pkt' = "nil"
    /\ UNCHANGED <<stateVars, connVars, silent, update, outQueue, resume, held, got, routes,
                   endVars>>

\* Connect: DialTCP replaces tcpconn, by nil when it fails.  The clocks and queues of
\* the previous connection are kept.
Dial(c) ==
    /\ At("life", "dial") /\ c \notin open \cup {held["sender"], held["recv"]}
    /\ tcpconn' = c /\ open' = open \cup {c}
    /\ lastRecv' = IF lastRecv \in {"since", "before"} THEN "before" ELSE "stale"
    /\ Goto("life", "connected")
    /\ UNCHANGED <<stateVars, connected, silent, update, outQueue, lifeVars, held, got, routes,
                   endVars>>

DialFails ==
    /\ DialMayFail /\ At("life", "dial")
    /\ tcpconn' = NoConn /\ Goto("life", "hold")
    /\ UNCHANGED <<stateVars, connected, open, silent, update, outQueue, lastRecv, lifeVars, held,
                   got, routes, endVars>>

ConnectDone ==
    /\ At("life", "connected") /\ connected' = TRUE /\ Goto("life", "activate")
    /\ UNCHANGED <<stateVars, tcpconn, open, silent, update, outQueue, lastRecv, lifeVars, held,
                   got, routes, endVars>>

\* OutQueue <- m: blocks while the channel is full.
LifeSend(l, m, next) ==
    /\ At("life", l) /\ Len(outQueue) < OutCap
    /\ outQueue' = Append(outQueue, m) /\ Goto("life", next)
    /\ UNCHANGED <<stateVars, connVars, silent, update, lastRecv, lifeVars, held, got, routes,
                   endVars>>

\* Mutants of HoldExpired: only the established session is timed; the wait for the OPEN is
\* timed as well, by the clock of the previous connection.
HoldWhenEstablished ==
    curState = "ESTABLISHED" /\ LocalEnableKeepAlive /\ lastRecv \in {"stale", "expired"}
HoldWhenActive ==
    curState # "IDLE" /\ LocalEnableKeepAlive /\ lastRecv \in {"stale", "expired"}

\* The hold timer at the end of EvolveState.
HoldExpired ==
    curState \notin {"IDLE", "ACTIVE"} /\ LocalEnableKeepAlive /\ lastRecv \in {"stale", "expired"}

EvolveHold ==
    /\ At("life", "hold")
    /\ IF HoldExpired
       THEN Goto("life", "dcFlags") /\ resume' = "select"
       ELSE Goto("life", "select") /\ UNCHANGED resume
    /\ UNCHANGED <<stateVars, connVars, silent, update, outQueue, lastRecv, pkt, held, got, routes,
                   endVars>>

Life ==
    \/ Begin("life") \/ LifeReceive \/ LifeTick
    \/ EvolveOpen \/ EvolveKeepAlive \/ EvolveNotification
    \/ LifeUpdateState("establish", "ESTABLISHED", "switch")
    \/ EvolveSwitch
    \/ \E c \in Conn : Dial(c)
    \/ DialFails \/ ConnectDone
    \/ LifeUpdateState("activate", "ACTIVE", "hold")
    \/ LifeSend("sendOpen", "OPEN", "sendFirstKA")
    \/ LifeSend("sendFirstKA", "KEEPALIVE", "opensent")
    \/ LifeUpdateState("opensent", "OPENSENT", "hold")
    \/ LifeUpdateState("confirm", "OPENCONFIRM", "hold")
    \/ LifeSend("sendKA", "KEEPALIVE", "hold")
    \/ EvolveHold
    \/ Disconnect("life")

-----------------------------------------------------------------------------
(* SenderRoutine.                                                           *)

\* A message is taken and handed to Write on the tcpconn of that moment.
SenderTake ==
    /\ At("sender", "select") /\ outQueue # <<>>
    /\ outQueue' = Tail(outQueue)
    /\ \/ NilPanic /\ UNCHANGED <<pc, held>>
       \/ /\ tcpconn # NoConn /\ UNCHANGED panicked
          /\ held' = [held EXCEPT !["sender"] = tcpconn]
          /\ Goto("sender", "writing")
    /\ UNCHANGED <<stateVars, connVars, silent, update, lastRecv, lifeVars, got, routes, removed>>

\* Mutant of SenderWrite: after an error the sender routine returns.
SenderGivesUp ==
    /\ At("sender", "writing")
    /\ \/ held["sender"] \in open /\ Goto("sender", "select")
       \/ Goto("sender", "stopped")
    /\ held' = [held EXCEPT !["sender"] = NoConn]
    /\ UNCHANGED <<stateVars, connVars, silent, update, outQueue, lastRecv, lifeVars, got, routes,
                   endVars>>

\* Write succeeds only on a connection that is still open, and may always fail.  It has no
\* deadline: while the connection is open it waits for the peer to read (see SenderLocal).
SenderWrite ==
    /\ At("sender", "writing")
    /\ \/ held["sender"] \in open /\ Goto("sender", "select")
       \/ Goto("sender", "dcFlags")
    /\ held' = [held EXCEPT !["sender"] = NoConn]
    /\ UNCHANGED <<stateVars, connVars, silent, update, outQueue, lastRecv, lifeVars, got, routes,
                   endVars>>

Sender == Begin("sender") \/ SenderTake \/ SenderWrite \/ Disconnect("sender")

\* The steps that do not wait for the peer: Write returns an error once the socket is closed.
SenderLocal ==
    \/ Begin("sender") \/ SenderTake \/ Disconnect("sender")
    \/ held["sender"] \notin open /\ SenderWrite

-----------------------------------------------------------------------------
(* NeighborReceiveRoutine.                                                  *)

\* A routine that is to reconnect polls Connected; the others look at it once more after
\* one millisecond and then give up.
RecvTop ==
    /\ At("recv", "top")
    /\ \/ connected /\ Goto("recv", "capture")
       \/ ~connected /\ ~Reconnect /\ Goto("recv", "wait")
    /\ UNCHANGED <<stateVars, connVars, silent, update, outQueue, lastRecv, lifeVars, held, got,
                   routes, endVars>>

\* readFromSocket(n.tcpconn, ...): the connection is fixed when the read starts.
StartRead(next) ==
    \/ NilPanic /\ UNCHANGED <<pc, held>>
    \/ /\ tcpconn # NoConn /\ UNCHANGED panicked
       /\ held' = [held EXCEPT !["recv"] = tcpconn] /\ Goto("recv", next)

RecvCapture ==
    /\ At("recv", "capture") /\ StartRead("header")
    /\ UNCHANGED <<stateVars, connVars, silent, update, outQueue, lastRecv, lifeVars, got, routes,
                   removed>>

Readable == held["recv"] \in open \ silent

\* The header names the message and says whether a body follows ...
RecvHeader ==
    /\ At("recv", "header") /\ Readable
    /\ got' \in PeerSends /\ held' = [held EXCEPT !["recv"] = NoConn]
    /\ Goto("recv", "more") \/ Goto("recv", "got")
    /\ UNCHANGED <<stateVars, connVars, silent, update, outQueue, lastRecv, lifeVars, routes,
                   endVars>>

\* ... which is read from the tcpconn of now.
RecvMore ==
    /\ At("recv", "more") /\ StartRead("body")
    /\ UNCHANGED <<stateVars, connVars, silent, update, outQueue, lastRecv, lifeVars, got, routes,
                   removed>>

RecvBody ==
    /\ At("recv", "body") /\ Readable
    /\ held' = [held EXCEPT !["recv"] = NoConn] /\ Goto("recv", "got")
    /\ UNCHANGED <<stateVars, connVars, silent, update, outQueue, lastRecv, lifeVars, got, routes,
                   endVars>>

\* A read error, a bad marker or a bad length: Disconnect, even if tcpconn is by now
\* another connection than the one that failed.
RecvFails ==
    /\ At("recv", "header") \/ At("recv", "body")
    /\ held' = [held EXCEPT !["recv"] = NoConn] /\ Goto("recv", "dcFlags") /\ got' = "none"
    /\ UNCHANGED <<stateVars, connVars, silent, update, outQueue, lastRecv, lifeVars, routes,
                   endVars>>

\* Any message but a NOTIFICATION counts as a sign of life.
RecvStamp ==
    /\ At("recv", "got")
    /\ lastRecv' = IF got # "NOTIFICATION" THEN "since" ELSE lastRecv
    /\ Goto("recv", IF got = "UPDATE" THEN "dispatch" ELSE "handle")
    /\ UNCHANGED <<stateVars, connVars, silent, update, outQueue, lifeVars, held, got,
                   routes, endVars>>

\* ParsePacket rejects a malformed OPEN or NOTIFICATION and every type it has no case for.
RecvParseError ==
    /\ At("recv", "handle") /\ got # "KEEPALIVE" /\ Goto("recv", "dcFlags") /\ got' = "none"
    /\ UNCHANGED <<stateVars, connVars, silent, update, outQueue, lastRecv, lifeVars, held,
                   routes, endVars>>

\* Mutant of Offer: the packet is queued although the channel is full.
OfferAlways(p) == Append(update, p)

\* The non-blocking send on update: when the channel is full the packet is dropped.
Offer(p) == IF Len(update) < UpdateCap THEN Append(update, p) ELSE update

\* The packet goes to the life routine unless ProcessReceived swallows it.
RecvHandle ==
    /\ At("recv", "handle") /\ got \in Packet /\ Goto("recv", "top") /\ got' = "none"
    /\ \/ HandlerEvent /\ UNCHANGED update
       \/ update' = Offer(got)
    /\ UNCHANGED <<stateVars, connVars, silent, outQueue, lastRecv, lifeVars, held, routes,
                   endVars>>

\* HandlerUpdate.ProcessUpdate returns when a worker has taken the UPDATE.
RecvDispatch ==
    /\ At("recv", "dispatch") /\ Goto("recv", "top") /\ got' = "none"
    /\ UNCHANGED <<stateVars, connVars, silent, update, outQueue, lastRecv, lifeVars, held,
                   routes, endVars>>

RecvWait ==
    /\ At("recv", "wait")
    /\ Goto("recv", IF connected THEN "top" ELSE "stopped")
    /\ UNCHANGED <<stateVars, connVars, silent, update, outQueue, lastRecv, lifeVars, held, got,
                   routes, endVars>>

\* Steps that only wait for this process, and steps that wait for the peer.
RecvLocal ==
    \/ RecvTop \/ RecvCapture \/ RecvMore \/ RecvStamp \/ RecvParseError \/ RecvHandle
    \/ RecvDispatch \/ RecvWait \/ Disconnect("recv")
    \/ held["recv"] \notin open /\ RecvFails
RecvPeer == RecvHeader \/ RecvBody \/ RecvFails

-----------------------------------------------------------------------------
(* The environment.                                                         *)

\* LocalHoldTime passes since the last stamp, or since tcpconn was set up, or both.
HoldElapses ==
    /\ ~panicked /\ LocalEnableKeepAlive /\ lastRecv # "expired"
    /\ lastRecv' \in IF lastRecv = "before" THEN {"stale", "expired"} ELSE {"expired"}
    /\ UNCHANGED <<stateVars, connVars, silent, update, outQueue, pc, lifeVars, held, got, routes,
                   endVars>>

\* The peer of c stops sending for good without closing the connection.
PeerFallsSilent(c) ==
    /\ ~panicked /\ MayFallSilent /\ c \in open \ silent /\ silent' = silent \cup {c}
    /\ UNCHANGED <<stateVars, connVars, update, outQueue, lastRecv, pc, lifeVars, held, got, routes,
                   endVars>>

\* SendRoute, called by the application at any time.  "ROUTE" stands for every message of
\* the application; Refresh queues its ROUTE-REFRESH in the same way, under a condition.
SendRoute ==
    /\ ~panicked /\ routes < MaxRoutes /\ Len(outQueue) < OutCap
    /\ routes' = routes + 1 /\ outQueue' = Append(outQueue, "ROUTE")
    /\ UNCHANGED <<stateVars, connVars, silent, update, lastRecv, pc, lifeVars, held, got, endVars>>

Next ==
    \/ Life \/ Sender \/ RecvLocal \/ RecvPeer
    \/ HoldElapses \/ SendRoute
    \/ \E c \in Conn : PeerFallsSilent(c)

\* The Go scheduler runs every runnable goroutine; reads and writes wait for the peer as
\* long as it likes; a dial ends; while nothing can be received the hold time passes.
Fairness ==
    /\ WF_vars(Life) /\ WF_vars(SenderLocal) /\ WF_vars(RecvLocal)
    /\ WF_vars((~connected \/ tcpconn \in silent) /\ HoldElapses)

Spec     == Init /\ [][Next]_vars
FairSpec == Spec /\ Fairness

-----------------------------------------------------------------------------
(* Properties.                                                              *)

\* The shared state, the channels and the routines have the types of their declarations,
\* and no channel holds more than its capacity.
TypeOK ==
    /\ curState \in State
    /\ openReceived \in BOOLEAN /\ connected \in BOOLEAN /\ peerKeepAlive \in BOOLEAN
    /\ tcpconn \in Conn \cup {NoConn} /\ open \subseteq Conn /\ silent \subseteq Conn
    /\ update \in Seq(Packet) /\ Len(update) <= UpdateCap
    /\ outQueue \in Seq(OutMsg) /\ Len(outQueue) <= OutCap
    /\ lastRecv \in LastRecv
    /\ pc \in [Routine -> LifePC \cup SenderPC \cup RecvPC]
    /\ pc["life"] \in LifePC /\ pc["sender"] \in SenderPC /\ pc["recv"] \in RecvPC
    /\ pkt \in Packet \cup {"nil"} /\ resume \in {"switch", "select"}
    /\ held \in [{"sender", "recv"} -> Conn \cup {NoConn}] /\ got \in InMsg \cup {"none"}
    /\ routes \in 0 .. MaxRoutes /\ removed \in BOOLEAN /\ panicked \in BOOLEAN

\* The state the life routine is on its way to enter.
Pending ==
    CASE pc["life"] \in {"dial", "connected", "activate"} -> "ACTIVE"
      [] pc["life"] \in {"sendOpen", "sendFirstKA", "opensent"} -> "OPENSENT"
      [] pc["life"] = "confirm" -> "OPENCONFIRM"
      [] pc["life"] = "establish" -> "ESTABLISHED"
      [] OTHER -> "none"

S == INSTANCE Session WITH state <- curState, opened <- openReceived, pending <- Pending

\* The three routines implement Session: every write of CurState other than IDLE follows
\* from one decision of the life routine in the predecessor state, whatever Disconnects
\* the other routines execute meanwhile.
ImplementsSession == S!SSpec

\* RemoveNeighbor is only reached after the socket has been closed: a neighbour that the
\* Manager no longer lists has no open connection.
RemovedIsClosed == removed => open = {} /\ ~connected

\* When the receive routine of an incoming neighbour has returned, the neighbour has been
\* removed from the Manager or some routine is still on its way through Disconnect:
\* nobody is left listed without a routine that will remove it.
NoForgottenNeighbor ==
    pc["recv"] = "stopped" =>
        removed \/ \E r \in Routine : pc[r] \in DisconnectPC \ {"dcFlags"}

\* The hold timer of line 401 never ends a connection younger than LocalHoldTime.
HoldTimerIsPatient ==
    [][pc["life"] = "hold" /\ pc'["life"] = "dcFlags" => lastRecv # "stale"]_vars

\* No routine uses a nil tcpconn.
NoPanic == ~panicked

\* The peer of an open connection does not read: Write waits, OutQueue is full, and the
\* life routine waits on it inside EvolveState, before the hold timer.
WriteHangs ==
    /\ pc["sender"] = "writing" /\ held["sender"] \in open /\ Len(outQueue) = OutCap
    /\ pc["life"] \in {"sendOpen", "sendFirstKA", "sendKA"}

\* A peer that sent its OPEN and then falls silent is disconnected and removed by the
\* hold timer ("no keep-alive received. Disconnecting.", line 403).
HoldTimerFires == (openReceived /\ open \subseteq silent) ~> removed

\* It is, unless the peer also stops reading for ever at a moment when OutQueue fills up:
\* no interleaving of the routines and of the application's messages prevents it otherwise.
SilentPeerRemoved == <>[]WriteHangs \/ HoldTimerFires

\* Once an incoming neighbour is disconnected its receive routine returns.
RecvRoutineStops == ~connected ~> pc["recv"] = "stopped"

\* A configured neighbour that has lost its connection dials again: whatever the three
\* routines were doing and whichever late state write won, the state comes back to IDLE
\* (unless the process dies, see NoPanic).  A Write that hangs prevents it only on a
\* connection that is no longer tcpconn: Connect may replace an open one without closing it.
Redials ==
    \/ <>[](WriteHangs /\ held["sender"] # tcpconn)
    \/ ~connected ~> connected \/ pc["life"] = "dial" \/ panicked

\* EvolveState never blocks for ever on OutQueue (a dial waits for the network) as long as
\* the peer reads: the sender routine survives every write error and empties the queue.
EvolveReturns ==
    \/ <>[]WriteHangs
    \/ pc["life"] \notin {"select", "dial"} ~> pc["life"] \in {"select", "dial"} \/ panicked

\* Every goroutine of a removed neighbour returns (the signals of Disconnect exist to make
\* NeighborLifeRoutine and SenderRoutine log "stopped").
RoutinesStop == removed ~> pc = [r \in Routine |-> "stopped"]
=============================================================================
