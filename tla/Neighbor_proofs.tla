-------------------------- MODULE Neighbor_proofs ---------------------------
(***************************************************************************)
(* Safety of one neighbour, and the order of the handshake of an incoming  *)
(* one, for any set of connections, any messages of the peer, any channel  *)
(* capacities and any event handler.                                       *)
(***************************************************************************)
EXTENDS NeighborHistory, TLAPS

USE FlagsAssumption, ConnAssumption, PeerAssumption, BoundAssumption

-----------------------------------------------------------------------------
\* Types hold initially ...
LEMMA TypeInit == Init => TypeOK
  <1> SUFFICES ASSUME Init PROVE TypeOK
    OBVIOUS
  <1>1. /\ tcpconn \in Conn \cup {NoConn} /\ open \subseteq Conn /\ silent \subseteq Conn
        /\ curState \in State /\ connected \in BOOLEAN
    BY DEF Init, State
  <1>2. /\ pc \in [Routine -> LifePC \cup SenderPC \cup RecvPC]
        /\ pc["life"] \in LifePC /\ pc["sender"] \in SenderPC /\ pc["recv"] \in RecvPC
    BY DEF Init, Routine, LifePC, SenderPC, RecvPC
  <1>3. held \in [{"sender", "recv"} -> Conn \cup {NoConn}]
    BY DEF Init
  <1>4. /\ update \in Seq(Packet) /\ Len(update) <= UpdateCap
        /\ outQueue \in Seq(OutMsg) /\ Len(outQueue) <= OutCap
    BY DEF Init
  <1>5. /\ openReceived \in BOOLEAN /\ peerKeepAlive \in BOOLEAN /\ lastRecv \in LastRecv
        /\ pkt \in Packet \cup {"nil"} /\ resume \in {"switch", "select"}
        /\ got \in InMsg \cup {"none"} /\ removed \in BOOLEAN /\ panicked \in BOOLEAN
    BY Zenon DEF Init, LastRecv
  <1>6. routes \in 0 .. MaxRoutes
    BY DEF Init
  <1> QED
    BY <1>1, <1>2, <1>3, <1>4, <1>5, <1>6 DEF TypeOK

\* A step of routine r to one of its labels keeps pc in its type.
LEMMA GotoType ==
    ASSUME TypeOK, NEW r \in Routine, NEW l, Goto(r, l),
           r = "life" => l \in LifePC, r = "sender" => l \in SenderPC, r = "recv" => l \in RecvPC
    PROVE  /\ pc' \in [Routine -> LifePC \cup SenderPC \cup RecvPC]
           /\ pc'["life"] \in LifePC /\ pc'["sender"] \in SenderPC /\ pc'["recv"] \in RecvPC
  BY DEF TypeOK, Goto, Routine

\* Disconnect keeps the types ...
LEMMA DisconnectType == ASSUME TypeOK, NEW r \in Routine, Disconnect(r) PROVE TypeOK'
  <1> USE DEF TypeOK, connVars, stateVars, lifeVars, endVars
  <1>0. /\ r = "life" => Return(r) \in LifePC
        /\ r = "sender" => Return(r) \in SenderPC
        /\ r = "recv" => Return(r) \in RecvPC
    BY DEF Return, Routine, LifePC, SenderPC, RecvPC
  <1>1. CASE DisconnectFlags(r)
    BY <1>1, GotoType DEF DisconnectFlags, LifePC, SenderPC, RecvPC, DisconnectPC
  <1>2. CASE DisconnectClose(r)
    <2>1. CASE NilPanic /\ UNCHANGED <<pc, open>>
      BY <1>2, <2>1 DEF DisconnectClose, NilPanic
    <2>2. CASE open' = open \ {tcpconn} /\ Goto(r, "dcIdle") /\ UNCHANGED panicked
      BY <1>2, <2>2, GotoType DEF DisconnectClose, LifePC, SenderPC, RecvPC, DisconnectPC
    <2> QED
      BY <1>2, <2>1, <2>2 DEF DisconnectClose
  <1>3. CASE DisconnectIdle(r)
    BY <1>0, <1>3, GotoType
       DEF DisconnectIdle, State, LifePC, SenderPC, RecvPC, DisconnectPC
  <1>4. CASE DisconnectQuitLife(r)
    <2>1. CASE Goto(r, "dcQuitSender")
      BY <1>4, <2>1, GotoType DEF DisconnectQuitLife, LifePC, SenderPC, RecvPC, DisconnectPC
    <2>2. CASE pc' = [pc EXCEPT ![r] = "dcQuitSender", !["life"] = "stopped"]
      BY <1>4, <2>2
         DEF DisconnectQuitLife, Routine, LifePC, SenderPC, RecvPC, DisconnectPC
    <2> QED
      BY <1>4, <2>1, <2>2 DEF DisconnectQuitLife
  <1>5. CASE DisconnectRemove(r)
    <2>1. CASE Goto(r, Return(r))
      BY <1>0, <1>5, <2>1, GotoType DEF DisconnectRemove
    <2>2. CASE pc' = [pc EXCEPT ![r] = Return(r), !["sender"] = "stopped"]
      BY <1>0, <1>5, <2>2 DEF DisconnectRemove, Routine, LifePC, SenderPC, RecvPC
    <2> QED
      BY <1>5, <2>1, <2>2 DEF DisconnectRemove
  <1> QED
    BY <1>1, <1>2, <1>3, <1>4, <1>5 DEF Disconnect

\* ... and so do the steps of the life routine ...
LEMMA LifeType == ASSUME TypeOK, Life PROVE TypeOK'
  <1> USE DEF TypeOK, connVars, stateVars, lifeVars, endVars
  <1> "life" \in Routine
    BY DEF Routine
  <1>1. CASE Begin("life")
    BY <1>1, GotoType DEF Begin, LifePC
  <1>2. CASE LifeReceive
    <2>1. Head(update) \in Packet /\ Tail(update) \in Seq(Packet) /\ Len(Tail(update)) <= UpdateCap
      BY <1>2 DEF LifeReceive
    <2> QED
      BY <1>2, <2>1, GotoType DEF LifeReceive, LifePC
  <1>3. CASE LifeTick
    BY <1>3, GotoType DEF LifeTick, LifePC
  <1>4. CASE EvolveOpen
    <2>1. pc' \in [Routine -> LifePC \cup SenderPC \cup RecvPC] /\ pc'["life"] \in LifePC
          /\ pc'["sender"] \in SenderPC /\ pc'["recv"] \in RecvPC
      BY <1>4, GotoType DEF EvolveOpen, LifePC, DisconnectPC
    <2>2. resume' \in {"switch", "select"} /\ peerKeepAlive' \in BOOLEAN
      BY <1>4 DEF EvolveOpen
    <2> QED
      BY <1>4, <2>1, <2>2 DEF EvolveOpen
  <1>5. CASE EvolveKeepAlive
    BY <1>5, GotoType DEF EvolveKeepAlive, LifePC
  <1>6. CASE EvolveNotification
    BY <1>6, GotoType DEF EvolveNotification, LifePC, DisconnectPC
  <1>7. CASE LifeUpdateState("establish", "ESTABLISHED", "switch")
    BY <1>7, GotoType DEF LifeUpdateState, LifePC, State
  <1>8. CASE EvolveSwitch
    <2>1. Branch \subseteq LifePC
      BY DEF Branch, LifePC
    <2>2. pc' \in [Routine -> LifePC \cup SenderPC \cup RecvPC] /\ pc'["life"] \in LifePC
          /\ pc'["sender"] \in SenderPC /\ pc'["recv"] \in RecvPC
      BY <1>8, <2>1, GotoType DEF EvolveSwitch
    <2>3. lastRecv' \in LastRecv
      BY <1>8 DEF EvolveSwitch, LastRecv
    <2> QED
      BY <1>8, <2>2, <2>3 DEF EvolveSwitch
  <1>9. ASSUME NEW c \in Conn, Dial(c) PROVE TypeOK'
    <2>1. lastRecv' \in LastRecv
      BY <1>9 DEF Dial, LastRecv
    <2> QED
      BY <1>9, <2>1, GotoType DEF Dial, LifePC
  <1>10. CASE DialFails
    BY <1>10, GotoType DEF DialFails, LifePC
  <1>11. CASE ConnectDone
    BY <1>11, GotoType DEF ConnectDone, LifePC
  <1>12. CASE LifeUpdateState("activate", "ACTIVE", "hold")
    BY <1>12, GotoType DEF LifeUpdateState, LifePC, State
  <1>13. ASSUME NEW l, NEW m \in OutMsg, NEW next \in LifePC, LifeSend(l, m, next) PROVE TypeOK'
    <2>1. outQueue' \in Seq(OutMsg) /\ Len(outQueue') <= OutCap
      BY <1>13 DEF LifeSend
    <2> QED
      BY <1>13, <2>1, GotoType DEF LifeSend
  <1>14. CASE LifeUpdateState("opensent", "OPENSENT", "hold")
    BY <1>14, GotoType DEF LifeUpdateState, LifePC, State
  <1>15. CASE LifeUpdateState("confirm", "OPENCONFIRM", "hold")
    BY <1>15, GotoType DEF LifeUpdateState, LifePC, State
  <1>16. CASE EvolveHold
    BY <1>16, GotoType DEF EvolveHold, LifePC, DisconnectPC
  <1>17. CASE Disconnect("life")
    BY <1>17, DisconnectType
  <1> HIDE DEF TypeOK
  <1>18. {"OPEN", "KEEPALIVE"} \subseteq OutMsg /\ {"sendFirstKA", "opensent", "hold"} \subseteq LifePC
    BY DEF OutMsg, LifePC
  <1> QED
    BY <1>1, <1>2, <1>3, <1>4, <1>5, <1>6, <1>7, <1>8, <1>9, <1>10, <1>11, <1>12, <1>13, <1>14,
       <1>15, <1>16, <1>17, <1>18 DEF Life

\* ... of the sender routine ...
LEMMA SenderType == ASSUME TypeOK, Sender PROVE TypeOK'
  <1> USE DEF TypeOK, connVars, stateVars, lifeVars, endVars
  <1> "sender" \in Routine
    BY DEF Routine
  <1>1. CASE Begin("sender")
    BY <1>1, GotoType DEF Begin, SenderPC
  <1>2. CASE SenderTake
    <2>1. Tail(outQueue) \in Seq(OutMsg) /\ Len(Tail(outQueue)) <= OutCap
      BY <1>2 DEF SenderTake
    <2>2. CASE NilPanic /\ UNCHANGED <<pc, held>>
      BY <1>2, <2>1, <2>2 DEF SenderTake, NilPanic
    <2>3. CASE held' = [held EXCEPT !["sender"] = tcpconn] /\ Goto("sender", "writing")
               /\ UNCHANGED panicked
      BY <1>2, <2>1, <2>3, GotoType DEF SenderTake, SenderPC
    <2> QED
      BY <1>2, <2>2, <2>3 DEF SenderTake
  <1>3. CASE SenderWrite
    BY <1>3, GotoType DEF SenderWrite, SenderPC, DisconnectPC
  <1>4. CASE Disconnect("sender")
    BY <1>4, DisconnectType
  <1> QED
    BY <1>1, <1>2, <1>3, <1>4 DEF Sender

\* ... and of the receive routine.
LEMMA RecvType == ASSUME TypeOK, RecvLocal \/ RecvPeer PROVE TypeOK'
  <1> USE DEF TypeOK, connVars, stateVars, lifeVars, endVars
  <1> "recv" \in Routine
    BY DEF Routine
  <1>1. CASE RecvTop
    BY <1>1, GotoType DEF RecvTop, RecvPC
  <1>2. ASSUME NEW l \in RecvPC, StartRead(l),
               UNCHANGED <<stateVars, connVars, silent, update, outQueue, lastRecv, lifeVars, got,
                           routes, removed>>
        PROVE  TypeOK'
    <2>1. CASE NilPanic /\ UNCHANGED <<pc, held>>
      BY <1>2, <2>1 DEF NilPanic
    <2>2. CASE /\ held' = [held EXCEPT !["recv"] = tcpconn] /\ Goto("recv", l)
               /\ UNCHANGED panicked
      BY <1>2, <2>2, GotoType
    <2> QED
      BY <1>2, <2>1, <2>2 DEF StartRead
  <1>3. CASE RecvCapture
    BY <1>2, <1>3 DEF RecvCapture, RecvPC
  <1>4. CASE RecvHeader
    <2>1. got' \in InMsg
      BY <1>4 DEF RecvHeader, InMsg
    <2> QED
      BY <1>4, <2>1, GotoType DEF RecvHeader, RecvPC
  <1>5. CASE RecvMore
    BY <1>2, <1>5 DEF RecvMore, RecvPC
  <1>6. CASE RecvBody
    BY <1>6, GotoType DEF RecvBody, RecvPC
  <1>7. CASE RecvFails
    BY <1>7, GotoType DEF RecvFails, RecvPC, DisconnectPC
  <1>8. CASE RecvStamp
    <2>1. lastRecv' \in LastRecv
      BY <1>8 DEF RecvStamp, LastRecv
    <2> QED
      BY <1>8, <2>1, GotoType DEF RecvStamp, RecvPC
  <1>9. CASE RecvParseError
    BY <1>9, GotoType DEF RecvParseError, RecvPC, DisconnectPC
  <1>10. CASE RecvHandle
    <2>1. update' \in Seq(Packet) /\ Len(update') <= UpdateCap
      <3>1. CASE update' = update
        BY <3>1
      <3>2. CASE update' = Offer(got)
        <4>1. got \in Packet /\ Append(update, got) \in Seq(Packet)
              /\ Len(Append(update, got)) = Len(update) + 1
          BY <1>10 DEF RecvHandle
        <4> QED
          BY <3>2, <4>1 DEF Offer
      <3> QED
        BY <1>10, <3>1, <3>2 DEF RecvHandle
    <2> QED
      BY <1>10, <2>1, GotoType DEF RecvHandle, RecvPC
  <1>11. CASE RecvDispatch
    BY <1>11, GotoType DEF RecvDispatch, RecvPC
  <1>12. CASE RecvWait
    BY <1>12, GotoType DEF RecvWait, RecvPC
  <1>13. CASE Disconnect("recv")
    BY <1>13, DisconnectType
  <1> QED
    BY <1>1, <1>3, <1>4, <1>5, <1>6, <1>7, <1>8, <1>9, <1>10, <1>11, <1>12, <1>13
       DEF RecvLocal, RecvPeer

\* Every step of a routine and of the environment keeps the types.
LEMMA TypeStep == TypeOK /\ [Next]_vars => TypeOK'
  <1> SUFFICES ASSUME TypeOK, [Next]_vars PROVE TypeOK'
    OBVIOUS
  <1>1. CASE HoldElapses
    BY <1>1 DEF HoldElapses, TypeOK, LastRecv, connVars, stateVars, lifeVars, endVars
  <1>2. CASE SendRoute
    <2>1. outQueue' \in Seq(OutMsg) /\ Len(outQueue') <= OutCap /\ routes' \in 0 .. MaxRoutes
      BY <1>2 DEF SendRoute, TypeOK, OutMsg
    <2> QED
      BY <1>2, <2>1 DEF SendRoute, TypeOK, connVars, stateVars, lifeVars, endVars
  <1>3. ASSUME NEW c \in Conn, PeerFallsSilent(c) PROVE TypeOK'
    BY <1>3 DEF PeerFallsSilent, TypeOK, connVars, stateVars, lifeVars, endVars
  <1>4. CASE UNCHANGED vars
    BY <1>4 DEF vars, TypeOK
  <1> QED
    BY <1>1, <1>2, <1>3, <1>4, LifeType, SenderType, RecvType DEF Next

\* The shared fields, the channels and the routines keep their types, and no channel ever
\* holds more than its capacity.
THEOREM TypeCorrect == Spec => []TypeOK
  BY TypeInit, TypeStep, PTL DEF Spec

-----------------------------------------------------------------------------
\* A routine that is in Disconnect and has cleared Connected.
Leaving == DisconnectPC \ {"dcFlags"}

\* What keeps an incoming neighbour together: it has one connection and never dials, that
\* connection is closed once a routine has passed the Close of a Disconnect, and from the
\* moment Connected is cleared until the removal some routine is on its way through
\* Disconnect.
OneConnection ==
    /\ tcpconn # NoConn /\ open \subseteq {tcpconn} /\ ~panicked
    /\ pc["life"] \notin {"dial", "connected", "activate"}
ClosedOnTheWay ==
    /\ \A r \in Routine : pc[r] \in Leaving => ~connected
    /\ \A r \in Routine : pc[r] \in Leaving \ {"dcClose"} => open = {}
SomebodyRemoves == ~connected => removed \/ \E r \in Routine : pc[r] \in Leaving

IncomingInv ==
    /\ OneConnection /\ ClosedOnTheWay /\ SomebodyRemoves /\ RemovedIsClosed
    /\ pc["recv"] = "stopped" => ~connected

\* A step of routine r outside Disconnect that leaves the connection alone.
Outside(r) ==
    /\ UNCHANGED <<connected, tcpconn, open, removed, panicked>>
    /\ pc[r] \notin Leaving /\ pc'[r] \notin Leaving
    /\ \A q \in Routine \ {r} : pc'[q] = pc[q]

\* Such a step keeps the invariant unless it starts a dial or ends a connected receive routine.
LEMMA OutsideInv ==
    ASSUME IncomingInv, NEW r \in Routine, Outside(r),
           r = "life" => pc'[r] \notin {"dial", "connected", "activate"},
           r = "recv" => pc'[r] # "stopped" \/ ~connected
    PROVE  IncomingInv'
  BY DEF IncomingInv, Outside, OneConnection, ClosedOnTheWay, SomebodyRemoves, RemovedIsClosed,
         Routine

\* What Goto does to the program counters.
LEMMA GotoMoves ==
    ASSUME TypeOK, NEW r \in Routine, NEW l, Goto(r, l)
    PROVE  pc'[r] = l /\ \A q \in Routine \ {r} : pc'[q] = pc[q]
  BY DEF TypeOK, Goto

\* A Disconnect of an incoming neighbour keeps the invariant.
LEMMA DisconnectIncoming ==
    ASSUME Incoming, TypeOK, IncomingInv, NEW r \in Routine, Disconnect(r)
    PROVE  IncomingInv'
  <1> USE DEF IncomingInv, OneConnection, ClosedOnTheWay, SomebodyRemoves, RemovedIsClosed, Leaving,
              DisconnectPC, At
  <1> {"life", "recv"} \subseteq Routine
    BY DEF Routine
  <1>1. CASE DisconnectFlags(r)
    <2>1. pc'[r] = "dcClose" /\ \A q \in Routine \ {r} : pc'[q] = pc[q]
      BY <1>1, GotoMoves DEF DisconnectFlags
    <2>2. /\ pc[r] = "dcFlags" /\ ~connected'
          /\ UNCHANGED <<tcpconn, open, removed, panicked>>
      BY <1>1 DEF DisconnectFlags, connVars, endVars
    <2> QED
      BY <2>1, <2>2
  <1>2. CASE DisconnectClose(r)
    <2>1. /\ open' = {} /\ pc[r] = "dcClose" /\ Goto(r, "dcIdle")
          /\ UNCHANGED <<connected, tcpconn, removed, panicked>>
      <3>0. tcpconn # NoConn /\ open \subseteq {tcpconn}
        BY Zenon DEF IncomingInv, OneConnection
      <3>1. tcpconn # NoConn /\ open \ {tcpconn} = {}
        BY <3>0, SMT
      <3>2. /\ pc[r] = "dcClose" /\ open' = open \ {tcpconn} /\ Goto(r, "dcIdle")
            /\ connected' = connected /\ tcpconn' = tcpconn /\ removed' = removed
            /\ panicked' = panicked
        BY <1>2, <3>1 DEF DisconnectClose, NilPanic
      <3> QED
        BY <3>1, <3>2
    <2>2. pc'[r] = "dcIdle" /\ \A q \in Routine \ {r} : pc'[q] = pc[q]
      BY <2>1, GotoMoves
    <2> QED
      BY <2>1, <2>2
  <1>3. CASE DisconnectIdle(r)
    <2>1. pc'[r] = "dcQuitLife" /\ \A q \in Routine \ {r} : pc'[q] = pc[q]
      BY <1>3, GotoMoves DEF DisconnectIdle, RemoveOnDisconnect
    <2> QED
      BY <1>3, <2>1 DEF DisconnectIdle, connVars, endVars
  <1>4. CASE DisconnectQuitLife(r)
    <2>1. /\ pc[r] = "dcQuitLife" /\ pc'[r] = "dcQuitSender"
          /\ \A q \in Routine \ {r} :
                pc'[q] = pc[q] \/ (q = "life" /\ pc[q] = "select" /\ pc'[q] = "stopped")
      BY <1>4, GotoMoves DEF DisconnectQuitLife, TypeOK, Routine
    <2> QED
      BY <1>4, <2>1 DEF DisconnectQuitLife, connVars, endVars
  <1>5. CASE DisconnectRemove(r)
    <2>0. Return(r) \in {resume, "select", "top"}
      BY DEF Return, Routine
    <2>1. /\ pc[r] = "dcQuitSender" /\ pc'[r] \in {"switch", "select", "top"}
          /\ r = "recv" => pc'[r] = "top"
          /\ \A q \in Routine \ {r} :
                pc'[q] = pc[q] \/ (q = "sender" /\ pc[q] = "select" /\ pc'[q] = "stopped")
      <3>1. r = "recv" => Return(r) = "top"
        BY DEF Return
      <3>2. Return(r) \in {"switch", "select", "top"}
        BY <2>0 DEF TypeOK
      <3>3. CASE Goto(r, Return(r))
        BY <1>5, <3>1, <3>2, <3>3, GotoMoves DEF DisconnectRemove
      <3>4. CASE /\ pc["sender"] = "select"
                 /\ pc' = [pc EXCEPT ![r] = Return(r), !["sender"] = "stopped"]
        <4>1. r # "sender"
          BY <1>5, <3>4 DEF DisconnectRemove
        <4> QED
          BY <1>5, <3>1, <3>2, <3>4, <4>1 DEF DisconnectRemove, TypeOK, Routine
      <3> QED
        BY <1>5, <3>3, <3>4 DEF DisconnectRemove
    <2>2. removed' /\ UNCHANGED <<connected, tcpconn, open, panicked>> /\ ~connected /\ open = {}
      BY <1>5, <2>1 DEF DisconnectRemove, connVars
    <2> QED
      BY <2>1, <2>2
  <1> QED
    BY <1>1, <1>2, <1>3, <1>4, <1>5 DEF Disconnect

\* Nothing of this has happened yet initially ...
LEMMA IncomingInit == ASSUME Incoming, Init PROVE IncomingInv
  BY DEF Init, IncomingInv, OneConnection, ClosedOnTheWay, SomebodyRemoves, RemovedIsClosed,
         Leaving, DisconnectPC, Routine

\* ... and every step of an incoming neighbour keeps it so.
LEMMA IncomingStep ==
    ASSUME Incoming, TypeOK, IncomingInv, [Next]_vars PROVE IncomingInv'
  <1> USE DEF At, Leaving, DisconnectPC, connVars, endVars
  <1> Routine = {"life", "sender", "recv"}
    BY DEF Routine
  <1>0. tcpconn # NoConn /\ pc["life"] \notin {"dial", "connected", "activate"}
    BY DEF IncomingInv, OneConnection
  <1>1. ASSUME Life PROVE IncomingInv'
    <2>1. CASE Disconnect("life")
      BY <2>1, DisconnectIncoming
    <2> DEFINE To(l) == Goto("life", l) /\ l \notin Leaving
                                      /\ l \notin {"dial", "connected", "activate"}
    <2>2. ASSUME NEW l, To(l), pc["life"] \notin Leaving,
                 UNCHANGED <<connected, tcpconn, open, removed, panicked>>
          PROVE  IncomingInv'
      <3>1. pc'["life"] = l /\ \A q \in Routine \ {"life"} : pc'[q] = pc[q]
        BY <2>2, GotoMoves
      <3> QED
        BY <2>2, <3>1, OutsideInv DEF Outside
    <2>3. CASE Begin("life") \/ LifeReceive \/ LifeTick
      BY <2>2, <2>3 DEF Begin, LifeReceive, LifeTick
    <2>4. CASE EvolveOpen \/ EvolveKeepAlive \/ EvolveNotification
      BY <2>2, <2>4 DEF EvolveOpen, EvolveKeepAlive, EvolveNotification
    <2>5. ASSUME NEW l, NEW st, NEW next \in {"switch", "hold"}, LifeUpdateState(l, st, next),
                 l \in {"establish", "opensent", "confirm", "activate"}
          PROVE  IncomingInv'
      BY <2>2, <2>5 DEF LifeUpdateState
    <2>6. CASE EvolveSwitch
      <3>1. PICK l \in Branch : Goto("life", l)
        BY <2>6 DEF EvolveSwitch
      <3>2. l \in {"hold", "sendOpen", "confirm", "sendKA"}
        BY <3>1 DEF Branch, Passive
      <3> QED
        BY <2>2, <2>6, <3>1, <3>2 DEF EvolveSwitch
    <2>7. CASE (\E c \in Conn : Dial(c)) \/ DialFails \/ ConnectDone
      BY <1>0, <2>7 DEF Dial, DialFails, ConnectDone
    <2>8. ASSUME NEW l \in {"sendOpen", "sendFirstKA", "sendKA"}, NEW m,
                 NEW next \in {"sendFirstKA", "opensent", "hold"}, LifeSend(l, m, next)
          PROVE  IncomingInv'
      BY <2>2, <2>8 DEF LifeSend
    <2>9. CASE EvolveHold
      BY <2>2, <2>9 DEF EvolveHold
    <2> QED
      BY <1>1, <2>1, <2>3, <2>4, <2>5, <2>6, <2>7, <2>8, <2>9 DEF Life
  <1>2. ASSUME Sender PROVE IncomingInv'
    <2>1. CASE Disconnect("sender")
      BY <2>1, DisconnectIncoming
    <2>2. ASSUME NEW l, l \notin Leaving, Goto("sender", l), pc["sender"] \notin Leaving,
                 UNCHANGED <<connected, tcpconn, open, removed, panicked>>
          PROVE  IncomingInv'
      <3>1. pc'["sender"] = l /\ \A q \in Routine \ {"sender"} : pc'[q] = pc[q]
        BY <2>2, GotoMoves
      <3> QED
        BY <2>2, <3>1, OutsideInv DEF Outside
    <2>3. CASE Begin("sender")
      BY <2>2, <2>3 DEF Begin
    <2>4. CASE SenderTake
      BY <1>0, <2>2, <2>4 DEF SenderTake, NilPanic
    <2>5. CASE SenderWrite
      BY <2>2, <2>5 DEF SenderWrite
    <2> QED
      BY <1>2, <2>1, <2>3, <2>4, <2>5 DEF Sender
  <1>3. ASSUME RecvLocal \/ RecvPeer PROVE IncomingInv'
    <2>1. CASE Disconnect("recv")
      BY <2>1, DisconnectIncoming
    <2>2. ASSUME NEW l, l \notin Leaving, Goto("recv", l), pc["recv"] \notin Leaving,
                 l # "stopped" \/ ~connected,
                 UNCHANGED <<connected, tcpconn, open, removed, panicked>>
          PROVE  IncomingInv'
      <3>1. pc'["recv"] = l /\ \A q \in Routine \ {"recv"} : pc'[q] = pc[q]
        BY <2>2, GotoMoves
      <3> QED
        BY <2>2, <3>1, OutsideInv DEF Outside
    <2>3. CASE RecvTop \/ RecvWait
      BY <2>2, <2>3 DEF RecvTop, RecvWait
    <2>4. CASE RecvCapture \/ RecvMore
      BY <1>0, <2>2, <2>4 DEF RecvCapture, RecvMore, StartRead, NilPanic
    <2>5. CASE RecvHeader \/ RecvBody \/ RecvFails
      BY <2>2, <2>5 DEF RecvHeader, RecvBody, RecvFails
    <2>6. CASE RecvStamp
      BY <2>2, <2>6 DEF RecvStamp
    <2>7. CASE RecvParseError \/ RecvHandle \/ RecvDispatch
      BY <2>2, <2>7 DEF RecvParseError, RecvHandle, RecvDispatch
    <2> QED
      BY <1>3, <2>1, <2>3, <2>4, <2>5, <2>6, <2>7 DEF RecvLocal, RecvPeer
  <1>4. ASSUME UNCHANGED <<pc, connected, tcpconn, open, removed, panicked>> PROVE IncomingInv'
    BY <1>4 DEF IncomingInv, OneConnection, ClosedOnTheWay, SomebodyRemoves, RemovedIsClosed
  <1>5. CASE HoldElapses \/ SendRoute \/ \E c \in Conn : PeerFallsSilent(c)
    BY <1>4, <1>5 DEF HoldElapses, SendRoute, PeerFallsSilent
  <1>6. CASE UNCHANGED vars
    BY <1>4, <1>6 DEF vars
  <1> QED
    BY <1>1, <1>2, <1>3, <1>5, <1>6 DEF Next

-----------------------------------------------------------------------------
\* A configured neighbour is never removed and its receive routine never gives up.
ConfiguredInv ==
    /\ ~removed /\ pc["recv"] \notin {"wait", "stopped"}
    /\ \A r \in Routine : pc[r] \notin {"dcQuitLife", "dcQuitSender"}

\* Its routines start outside all of these places.
LEMMA ConfiguredInit == ASSUME ~Incoming, Init PROVE ConfiguredInv
  BY DEF Init, ConfiguredInv, Routine

\* Only routine r moves, and not to a place that only an incoming neighbour has.
LEMMA ConfiguredMove ==
    ASSUME TypeOK, ConfiguredInv, NEW r \in Routine, NEW l, Goto(r, l), removed' = removed,
           l \notin {"wait", "dcQuitLife", "dcQuitSender"}, r = "recv" => l # "stopped"
    PROVE  ConfiguredInv'
  BY GotoMoves DEF ConfiguredInv, Routine

\* Every step of a configured neighbour keeps it so: without RemoveOnDisconnect Disconnect
\* returns before the removal, and with Reconnect the receive routine polls for ever.
LEMMA ConfiguredStep ==
    ASSUME ~Incoming, TypeOK, ConfiguredInv, [Next]_vars PROVE ConfiguredInv'
  <1> USE DEF At, connVars, endVars
  <1> Routine = {"life", "sender", "recv"}
    BY DEF Routine
  <1> DEFINE Bad == {"wait", "dcQuitLife", "dcQuitSender"}
  <1>0. removed = FALSE /\ \A r \in Routine : pc[r] \notin Bad
    <2>1. pc["life"] # "wait" /\ pc["sender"] # "wait"
      BY DEF TypeOK, LifePC, SenderPC, DisconnectPC
    <2> QED
      BY <2>1 DEF ConfiguredInv, TypeOK
  <1>1. ASSUME NEW r \in Routine, Disconnect(r) PROVE ConfiguredInv'
    <2>1. CASE DisconnectFlags(r) \/ DisconnectClose(r)
      <3>1. CASE DisconnectFlags(r)
        BY <3>1, ConfiguredMove DEF DisconnectFlags
      <3>2. CASE DisconnectClose(r)
        BY <3>2, ConfiguredMove DEF DisconnectClose, ConfiguredInv
      <3> QED
        BY <2>1, <3>1, <3>2
    <2>2. CASE DisconnectIdle(r)
      <3>1. Goto(r, Return(r)) /\ removed' = removed
        BY <2>2 DEF DisconnectIdle, RemoveOnDisconnect
      <3>2. Return(r) \in {"switch", "select", "top"}
        BY DEF Return, TypeOK
      <3> QED
        BY <3>1, <3>2, ConfiguredMove
    <2>3. ~DisconnectQuitLife(r) /\ ~DisconnectRemove(r)
      BY DEF DisconnectQuitLife, DisconnectRemove, ConfiguredInv
    <2> QED
      BY <1>1, <2>1, <2>2, <2>3 DEF Disconnect
  <1>2. ASSUME NEW r \in Routine, NEW l, Goto(r, l), removed' = removed,
               l \notin Bad, l = "stopped" => r # "recv"
        PROVE  ConfiguredInv'
    BY <1>2, ConfiguredMove
  <1>3. ASSUME UNCHANGED <<pc, removed>> PROVE ConfiguredInv'
    BY <1>3 DEF ConfiguredInv
  <1>4. ASSUME Life PROVE ConfiguredInv'
    <2>1. ASSUME NEW l \in LifePC \ (DisconnectPC \ {"dcFlags"}), Goto("life", l),
                 removed' = removed
          PROVE  ConfiguredInv'
      BY <1>2, <2>1 DEF LifePC, DisconnectPC
    <2> LifePC \ (DisconnectPC \ {"dcFlags"}) =
          {"start", "select", "packet", "establish", "switch", "dial", "connected", "activate",
           "sendOpen", "sendFirstKA", "opensent", "confirm", "sendKA", "hold", "stopped", "dcFlags"}
      BY DEF LifePC, DisconnectPC
    <2>2. CASE Begin("life") \/ LifeReceive \/ LifeTick
      BY <2>1, <2>2 DEF Begin, LifeReceive, LifeTick
    <2>3. CASE EvolveOpen \/ EvolveKeepAlive \/ EvolveNotification
      BY <2>1, <2>3 DEF EvolveOpen, EvolveKeepAlive, EvolveNotification
    <2>4. ASSUME NEW l, NEW st, NEW next \in {"switch", "hold"}, LifeUpdateState(l, st, next)
          PROVE  ConfiguredInv'
      BY <2>1, <2>4 DEF LifeUpdateState
    <2>5. CASE EvolveSwitch
      <3>1. PICK l \in Branch : Goto("life", l)
        BY <2>5 DEF EvolveSwitch
      <3>2. l \in {"hold", "dial", "sendOpen", "confirm", "sendKA"}
        BY <3>1 DEF Branch
      <3> QED
        BY <2>1, <2>5, <3>1, <3>2 DEF EvolveSwitch
    <2>6. CASE \E c \in Conn : Dial(c)
      BY <2>1, <2>6 DEF Dial
    <2>7. CASE DialFails \/ ConnectDone
      BY <2>1, <2>7 DEF DialFails, ConnectDone
    <2>8. ASSUME NEW l, NEW m, NEW next \in {"sendFirstKA", "opensent", "hold"},
                 LifeSend(l, m, next)
          PROVE  ConfiguredInv'
      BY <2>1, <2>8 DEF LifeSend
    <2>9. CASE EvolveHold
      BY <2>1, <2>9 DEF EvolveHold
    <2> QED
      BY <1>1, <1>4, <2>2, <2>3, <2>4, <2>5, <2>6, <2>7, <2>8, <2>9 DEF Life
  <1>5. ASSUME Sender PROVE ConfiguredInv'
    <2>1. CASE Begin("sender")
      BY <1>2, <2>1 DEF Begin
    <2>2. CASE SenderTake
      BY <1>2, <1>3, <2>2 DEF SenderTake
    <2>3. CASE SenderWrite
      BY <1>2, <2>3 DEF SenderWrite
    <2> QED
      BY <1>1, <1>5, <2>1, <2>2, <2>3 DEF Sender
  <1>6. ASSUME RecvLocal \/ RecvPeer PROVE ConfiguredInv'
    <2>1. CASE RecvTop
      BY <1>2, <2>1 DEF RecvTop, Reconnect
    <2>2. CASE RecvCapture \/ RecvMore
      BY <1>2, <1>3, <2>2 DEF RecvCapture, RecvMore, StartRead
    <2>3. CASE RecvHeader \/ RecvBody \/ RecvFails
      BY <1>2, <2>3 DEF RecvHeader, RecvBody, RecvFails
    <2>4. CASE RecvStamp
      BY <1>2, <2>4 DEF RecvStamp
    <2>5. CASE RecvParseError \/ RecvHandle \/ RecvDispatch
      BY <1>2, <2>5 DEF RecvParseError, RecvHandle, RecvDispatch
    <2>6. ~RecvWait
      BY <1>0 DEF RecvWait
    <2> QED
      BY <1>1, <1>6, <2>1, <2>2, <2>3, <2>4, <2>5, <2>6 DEF RecvLocal, RecvPeer
  <1>7. CASE HoldElapses \/ SendRoute \/ \E c \in Conn : PeerFallsSilent(c)
    BY <1>3, <1>7 DEF HoldElapses, SendRoute, PeerFallsSilent
  <1>8. CASE UNCHANGED vars
    BY <1>3, <1>8 DEF vars
  <1> QED
    BY <1>4, <1>5, <1>6, <1>7, <1>8 DEF Next

-----------------------------------------------------------------------------
\* The invariant of the two kinds of neighbour.
KindInv == (Incoming => IncomingInv) /\ (~Incoming => ConfiguredInv)

\* It holds in every reachable state.
LEMMA KindCorrect == Spec => []KindInv
  <1>1. Init => KindInv
    BY IncomingInit, ConfiguredInit DEF KindInv
  <1>2. TypeOK /\ KindInv /\ [Next]_vars => KindInv'
    BY IncomingStep, ConfiguredStep DEF KindInv
  <1> QED
    BY <1>1, <1>2, TypeCorrect, PTL DEF Spec

\* Disconnect calls RemoveNeighbor only when the socket is closed and Connected is cleared,
\* whichever of the three routines execute it at the same time.
THEOREM RemovedOnlyClosed == Spec => []RemovedIsClosed
  <1>1. KindInv => RemovedIsClosed
    BY DEF KindInv, IncomingInv, ConfiguredInv, RemovedIsClosed
  <1> QED
    BY <1>1, KindCorrect, PTL

\* The receive routine of a neighbour never returns, after its second look at Connected,
\* without some routine having removed the neighbour or being about to.
THEOREM NobodyForgotten == Spec => []NoForgottenNeighbor
  <1>1. KindInv => NoForgottenNeighbor
    BY DEF KindInv, IncomingInv, ConfiguredInv, SomebodyRemoves, NoForgottenNeighbor, Leaving
  <1> QED
    BY <1>1, KindCorrect, PTL

\* No routine of an incoming neighbour ever uses a nil tcpconn: ProcessIncomingRequest sets
\* it before Start and Disconnect closes it without clearing it.
THEOREM IncomingNeverPanics == Spec => [](Incoming => NoPanic)
  <1>1. KindInv => (Incoming => NoPanic)
    BY DEF KindInv, IncomingInv, OneConnection, NoPanic
  <1> QED
    BY <1>1, KindCorrect, PTL

-----------------------------------------------------------------------------
\* While nothing but NOTIFICATIONs has been read from the one connection of an incoming
\* neighbour, no OPEN is anywhere on its way and the session has not left ACTIVE.
NothingHeard ==
    /\ ~openReceived /\ curState \in {"IDLE", "ACTIVE"}
    /\ pc["life"] \notin {"sendOpen", "sendFirstKA", "opensent", "confirm", "establish"}
    /\ pkt # "OPEN" /\ \A i \in 1 .. Len(update) : update[i] # "OPEN"
    /\ ~(pc["recv"] = "handle" /\ got = "OPEN")

StaleInv == lastRecv # "before" /\ (lastRecv = "stale" => NothingHeard)

\* The connection of a new incoming neighbour has said nothing.
LEMMA StaleInit == ASSUME Incoming, Init PROVE StaleInv
  BY DEF Init, StaleInv, NothingHeard

\* A step that brings in no packet, and moves the life routine at most to a label where it
\* has decided nothing.
Deaf ==
    /\ UNCHANGED <<lastRecv, update, pkt, got>>
    /\ openReceived' => openReceived
    /\ curState' \in {curState, "IDLE"}
    /\ \/ pc'["life"] = pc["life"]
       \/ pc'["life"] \notin {"sendOpen", "sendFirstKA", "opensent", "confirm", "establish"}
    /\ pc'["recv"] = pc["recv"] \/ pc'["recv"] # "handle"

\* Such a step is not heard.
LEMMA DeafKeeps == ASSUME StaleInv, Deaf PROVE StaleInv'
  <1>1. CASE lastRecv # "stale"
    BY <1>1 DEF StaleInv, Deaf
  <1>2. CASE lastRecv = "stale"
    <2>1. ~openReceived'
      BY <1>2, Zenon DEF StaleInv, NothingHeard, Deaf
    <2> QED
      BY <1>2, <2>1 DEF StaleInv, NothingHeard, Deaf
  <1> QED
    BY <1>1, <1>2

\* A Disconnect is not heard.
LEMMA DisconnectDeaf == ASSUME TypeOK, NEW r \in Routine, Disconnect(r) PROVE Deaf
  <1> USE DEF Deaf, stateVars, lifeVars
  <1> {"life", "recv"} \subseteq Routine
    BY DEF Routine
  <1>1. Return(r) \in {"switch", "select", "top"}
    BY DEF Return, TypeOK, Routine
  <1>2. ASSUME NEW l \in DisconnectPC \cup {"switch", "select", "top"}, Goto(r, l)
        PROVE  /\ pc'["life"] \in {pc["life"], l} /\ pc'["recv"] \in {pc["recv"], l}
               /\ l \notin {"sendOpen", "sendFirstKA", "opensent", "confirm", "establish", "handle"}
    BY <1>2, GotoMoves DEF DisconnectPC
  <1>3. CASE DisconnectFlags(r)
    BY <1>2, <1>3 DEF DisconnectFlags, DisconnectPC
  <1>4. CASE DisconnectClose(r)
    BY <1>2, <1>4 DEF DisconnectClose, DisconnectPC
  <1>5. CASE DisconnectIdle(r)
    BY <1>1, <1>2, <1>5 DEF DisconnectIdle, DisconnectPC
  <1>6. CASE DisconnectQuitLife(r)
    <2>1. CASE Goto(r, "dcQuitSender")
      BY <1>2, <1>6, <2>1 DEF DisconnectQuitLife, DisconnectPC
    <2>2. CASE pc' = [pc EXCEPT ![r] = "dcQuitSender", !["life"] = "stopped"]
      <3>1. /\ pc'["life"] \in {"stopped", "dcQuitSender"}
            /\ pc'["recv"] \in {pc["recv"], "dcQuitSender"}
        BY <2>2 DEF TypeOK
      <3> QED
        BY <1>6, <3>1 DEF DisconnectQuitLife
    <2> QED
      BY <1>6, <2>1, <2>2 DEF DisconnectQuitLife
  <1>7. CASE DisconnectRemove(r)
    <2>1. CASE Goto(r, Return(r))
      BY <1>1, <1>2, <1>7, <2>1 DEF DisconnectRemove
    <2>2. CASE pc' = [pc EXCEPT ![r] = Return(r), !["sender"] = "stopped"]
      <3>1. /\ pc'["life"] \in {pc["life"], Return(r)} /\ pc'["recv"] \in {pc["recv"], Return(r)}
        BY <2>2 DEF TypeOK
      <3> QED
        BY <1>1, <1>7, <3>1 DEF DisconnectRemove
    <2> QED
      BY <1>7, <2>1, <2>2 DEF DisconnectRemove
  <1> QED
    BY <1>3, <1>4, <1>5, <1>6, <1>7 DEF Disconnect

\* The life routine of an incoming neighbour leaves ACTIVE only with an OPEN.
LEMMA LifeStale ==
    ASSUME Incoming, TypeOK, OneConnection, StaleInv, Life PROVE StaleInv'
  <1> USE DEF At, stateVars, lifeVars
  <1> "life" \in Routine /\ "recv" \in Routine
    BY DEF Routine
  <1>0. ASSUME NEW l, Goto("life", l) PROVE pc'["life"] = l /\ pc'["recv"] = pc["recv"]
    BY <1>0, GotoMoves
  <1>1. ASSUME lastRecv # "stale", lastRecv' \in {lastRecv, "since"} PROVE StaleInv'
    BY <1>1 DEF StaleInv
  <1>2. ASSUME NEW l, Goto("life", l), UNCHANGED <<lastRecv, update, pkt, got, openReceived, curState>>,
               l \notin {"sendOpen", "sendFirstKA", "opensent", "confirm", "establish"}
        PROVE  StaleInv'
    BY <1>0, <1>2, DeafKeeps DEF Deaf
  <1>3. CASE Begin("life") \/ EvolveNotification \/ EvolveHold
    BY <1>2, <1>3 DEF Begin, EvolveNotification, EvolveHold
  <1>4. CASE LifeReceive
    <2>1. CASE lastRecv # "stale"
      BY <1>1, <1>4, <2>1 DEF LifeReceive
    <2>2. CASE lastRecv = "stale"
      <3>1. /\ pkt' = update[1] /\ Len(update) \in Nat \ {0} /\ Len(update') = Len(update) - 1
            /\ \A i \in 1 .. Len(update) - 1 : update'[i] = update[i + 1]
        BY <1>4 DEF LifeReceive, TypeOK
      <3>2. pkt' # "OPEN" /\ \A i \in 1 .. Len(update') : update'[i] # "OPEN"
        BY <2>2, <3>1 DEF StaleInv, NothingHeard
      <3>3. pc'["life"] = "packet" /\ pc'["recv"] = pc["recv"]
            /\ UNCHANGED <<lastRecv, got, openReceived, curState>>
        BY <1>0, <1>4 DEF LifeReceive
      <3> QED
        BY <2>2, <3>2, <3>3 DEF StaleInv, NothingHeard
    <2> QED
      BY <2>1, <2>2
  <1>5. CASE LifeTick
    <2>1. /\ pc'["life"] = "switch" /\ pc'["recv"] = pc["recv"] /\ pkt' = "nil"
          /\ UNCHANGED <<lastRecv, update, got, openReceived, curState>>
      BY <1>0, <1>5 DEF LifeTick
    <2> QED
      BY <2>1 DEF StaleInv, NothingHeard
  <1>6. CASE EvolveOpen
    BY <1>1, <1>6 DEF EvolveOpen, StaleInv, NothingHeard
  <1>7. CASE EvolveKeepAlive
    <2>1. CASE curState = "OPENCONFIRM"
      BY <1>1, <1>7, <2>1 DEF EvolveKeepAlive, StaleInv, NothingHeard
    <2>2. CASE curState # "OPENCONFIRM"
      BY <1>2, <1>7, <2>2 DEF EvolveKeepAlive
    <2> QED
      BY <2>1, <2>2
  <1>8. ASSUME NEW l \in {"establish", "opensent", "confirm"}, NEW s, NEW next,
               LifeUpdateState(l, s, next)
        PROVE  StaleInv'
    BY <1>1, <1>8 DEF LifeUpdateState, StaleInv, NothingHeard
  <1>9. CASE EvolveSwitch
    <2>1. PICK l \in Branch : Goto("life", l)
      BY <1>9 DEF EvolveSwitch
    <2>2. /\ pc'["life"] = l /\ pc'["recv"] = pc["recv"] /\ pkt' = "nil"
          /\ UNCHANGED <<update, got, openReceived, curState>>
          /\ lastRecv' \in {lastRecv, "since"}
      BY <1>0, <1>9, <2>1 DEF EvolveSwitch
    <2>3. CASE lastRecv # "stale"
      BY <1>1, <2>2, <2>3
    <2>4. CASE lastRecv = "stale"
      <3>1. curState \in {"IDLE", "ACTIVE"} /\ ~openReceived
        BY <2>4 DEF StaleInv, NothingHeard
      <3>2. l = "hold"
        BY <2>1, <3>1 DEF Branch, Passive
      <3> QED
        BY <2>2, <2>4, <3>2 DEF StaleInv, NothingHeard
    <2> QED
      BY <2>3, <2>4
  <1>10. CASE (\E c \in Conn : Dial(c)) \/ DialFails \/ ConnectDone
              \/ LifeUpdateState("activate", "ACTIVE", "hold")
    BY <1>10 DEF Dial, DialFails, ConnectDone, LifeUpdateState, OneConnection
  <1>11. ASSUME NEW l \in {"sendOpen", "sendFirstKA"}, NEW m, NEW next, LifeSend(l, m, next)
         PROVE  StaleInv'
    BY <1>1, <1>11 DEF LifeSend, StaleInv, NothingHeard
  <1>12. CASE LifeSend("sendKA", "KEEPALIVE", "hold")
    BY <1>2, <1>12 DEF LifeSend
  <1>13. CASE Disconnect("life")
    BY <1>13, DisconnectDeaf, DeafKeeps
  <1> QED
    BY <1>3, <1>4, <1>5, <1>6, <1>7, <1>8, <1>9, <1>10, <1>11, <1>12, <1>13 DEF Life

\* The receive routine stamps an OPEN before it hands it over.
LEMMA RecvStale == ASSUME TypeOK, StaleInv, RecvLocal \/ RecvPeer PROVE StaleInv'
  <1> USE DEF At, stateVars, lifeVars
  <1> "life" \in Routine /\ "recv" \in Routine
    BY DEF Routine
  <1>0. ASSUME NEW l, Goto("recv", l) PROVE pc'["recv"] = l /\ pc'["life"] = pc["life"]
    BY <1>0, GotoMoves
  <1>1. ASSUME NEW l, Goto("recv", l), l # "handle",
               UNCHANGED <<lastRecv, update, pkt, openReceived, curState>>
        PROVE  StaleInv'
    <2>1. pc'["recv"] = l /\ pc'["life"] = pc["life"]
      BY <1>0, <1>1
    <2> QED
      BY <1>1, <2>1 DEF StaleInv, NothingHeard
  <1>2. ASSUME UNCHANGED <<pc, got, lastRecv, update, pkt, openReceived, curState>> PROVE StaleInv'
    BY <1>2 DEF StaleInv, NothingHeard
  <1>3. CASE RecvTop \/ RecvWait \/ RecvHeader \/ RecvBody \/ RecvFails
    BY <1>1, <1>3 DEF RecvTop, RecvWait, RecvHeader, RecvBody, RecvFails
  <1>4. CASE RecvCapture \/ RecvMore
    BY <1>1, <1>2, <1>4 DEF RecvCapture, RecvMore, StartRead
  <1>5. CASE RecvParseError \/ RecvDispatch
    BY <1>1, <1>5 DEF RecvParseError, RecvDispatch
  <1>6. CASE RecvStamp
    <2>1. CASE got # "NOTIFICATION"
      BY <1>6, <2>1 DEF RecvStamp, StaleInv
    <2>2. CASE got = "NOTIFICATION"
      <3>1. /\ pc'["life"] = pc["life"] /\ got' = "NOTIFICATION"
            /\ UNCHANGED <<lastRecv, update, pkt, openReceived, curState>>
        BY <1>0, <1>6, <2>2 DEF RecvStamp
      <3> QED
        BY <3>1 DEF StaleInv, NothingHeard
    <2> QED
      BY <2>1, <2>2
  <1>7. CASE RecvHandle
    <2>1. /\ pc["recv"] = "handle" /\ pc'["recv"] = "top" /\ pc'["life"] = pc["life"]
          /\ UNCHANGED <<lastRecv, pkt, openReceived, curState>> /\ got \in Packet
          /\ update' \in {update, Offer(got)}
      BY <1>0, <1>7 DEF RecvHandle
    <2>2. ASSUME got # "OPEN", \A i \in 1 .. Len(update) : update[i] # "OPEN"
          PROVE  \A i \in 1 .. Len(update') : update'[i] # "OPEN"
      <3>1. CASE update' = update
        BY <2>2, <3>1
      <3>2. CASE update' = Append(update, got)
        <4>1. /\ Len(update) \in Nat /\ Len(update') = Len(update) + 1
              /\ update'[Len(update) + 1] = got
              /\ \A i \in 1 .. Len(update) : update'[i] = update[i]
          BY <2>1, <3>2 DEF TypeOK
        <4> QED
          BY <2>2, <4>1
      <3> QED
        BY <2>1, <3>1, <3>2 DEF Offer
    <2> QED
      BY <2>1, <2>2 DEF StaleInv, NothingHeard
  <1>8. CASE Disconnect("recv")
    BY <1>8, DisconnectDeaf, DeafKeeps
  <1> QED
    BY <1>3, <1>4, <1>5, <1>6, <1>7, <1>8 DEF RecvLocal, RecvPeer

\* Every step of an incoming neighbour keeps StaleInv.
LEMMA StaleStep ==
    ASSUME Incoming, TypeOK, OneConnection, StaleInv, [Next]_vars PROVE StaleInv'
  <1> {"sender", "life", "recv"} \subseteq Routine
    BY DEF Routine
  <1>1. CASE Begin("sender") \/ SenderTake \/ SenderWrite
    <2>1. UNCHANGED <<lastRecv, update, pkt, got, openReceived, curState>>
          /\ (pc' = pc \/ \E l : Goto("sender", l))
      BY <1>1 DEF Begin, SenderTake, SenderWrite, stateVars, lifeVars
    <2>2. pc'["life"] = pc["life"] /\ pc'["recv"] = pc["recv"]
      BY <2>1, GotoMoves
    <2> QED
      BY <2>1, <2>2, DeafKeeps DEF Deaf
  <1>2. CASE Disconnect("sender")
    BY <1>2, DisconnectDeaf, DeafKeeps
  <1>3. CASE HoldElapses
    BY <1>3 DEF HoldElapses, StaleInv
  <1>4. CASE SendRoute \/ (\E c \in Conn : PeerFallsSilent(c)) \/ UNCHANGED vars
    <2>1. UNCHANGED <<lastRecv, update, pkt, got, openReceived, curState, pc>>
      BY <1>4 DEF SendRoute, PeerFallsSilent, vars, stateVars, lifeVars
    <2> QED
      BY <2>1, DeafKeeps DEF Deaf
  <1> QED
    BY <1>1, <1>2, <1>3, <1>4, LifeStale, RecvStale DEF Next, Sender

\* The hold timer of line 401 never ends an incoming connection younger than LocalHoldTime:
\* when it runs, an OPEN has been stamped on this connection.
THEOREM HoldIsPatient == ASSUME Incoming PROVE Spec => HoldTimerIsPatient
  <1>1. Init => StaleInv
    BY StaleInit
  <1>2. KindInv => OneConnection
    BY DEF KindInv, IncomingInv
  <1>3. TypeOK /\ OneConnection /\ StaleInv /\ [Next]_vars => StaleInv'
    BY StaleStep
  <1>4. ASSUME TypeOK, StaleInv, OneConnection, [Next]_vars
        PROVE  [pc["life"] = "hold" /\ pc'["life"] = "dcFlags" => lastRecv # "stale"]_vars
    <2> SUFFICES ASSUME Next, pc["life"] = "hold", pc'["life"] = "dcFlags", lastRecv = "stale"
                 PROVE  FALSE
      BY <1>4
    <2>1. curState \in {"IDLE", "ACTIVE"}
      BY <1>4 DEF StaleInv, NothingHeard
    <2>2. {"life", "sender", "recv"} = Routine
      BY DEF Routine
    <2>3. ~EvolveHold
      BY <1>4, <2>1, <2>2, GotoMoves DEF EvolveHold, HoldExpired
    <2>4. \A r \in Routine : ~Disconnect(r)
      <3>1. \A r \in Routine : Disconnect(r) => pc'["life"] \in {pc["life"], "stopped"} \/ r = "life"
        BY <1>4, <2>2
           DEF Disconnect, DisconnectFlags, DisconnectClose, DisconnectIdle, DisconnectQuitLife,
               DisconnectRemove, TypeOK, Goto
      <3>2. ~Disconnect("life")
        BY DEF Disconnect, DisconnectFlags, DisconnectClose, DisconnectIdle, DisconnectQuitLife,
               DisconnectRemove, At
      <3> QED
        BY <3>1, <3>2
    <2>5. ~Life
      BY <2>2, <2>3, <2>4
         DEF Life, At, Begin, LifeReceive, LifeTick, EvolveOpen, EvolveKeepAlive,
             EvolveNotification, LifeUpdateState, EvolveSwitch, Dial, DialFails, ConnectDone, LifeSend
    <2>6. ASSUME NEW r \in {"sender", "recv"}, NEW l, Goto(r, l) PROVE FALSE
      BY <1>4, <2>2, <2>6, GotoMoves
    <2>7. ~Sender
      BY <2>2, <2>4, <2>6 DEF Sender, Begin, SenderTake, SenderWrite
    <2>8. ~RecvLocal /\ ~RecvPeer
      <3>1. ~RecvTop /\ ~RecvStamp /\ ~RecvParseError /\ ~RecvHandle /\ ~RecvDispatch /\ ~RecvWait
        BY <2>6 DEF RecvTop, RecvStamp, RecvParseError, RecvHandle, RecvDispatch, RecvWait
      <3>2. ~RecvHeader /\ ~RecvBody /\ ~RecvFails
        BY <2>6 DEF RecvHeader, RecvBody, RecvFails
      <3>3. ~RecvCapture /\ ~RecvMore
        BY <2>6 DEF RecvCapture, RecvMore, StartRead
      <3> QED
        BY <2>2, <2>4, <3>1, <3>2, <3>3 DEF RecvLocal, RecvPeer
    <2>9. ~HoldElapses /\ ~SendRoute /\ ~\E c \in Conn : PeerFallsSilent(c)
      BY DEF HoldElapses, SendRoute, PeerFallsSilent
    <2> QED
      BY <2>5, <2>7, <2>8, <2>9 DEF Next
  <1> QED
    BY <1>1, <1>2, <1>3, <1>4, TypeCorrect, KindCorrect, PTL DEF Spec, HoldTimerIsPatient

-----------------------------------------------------------------------------
\* The receive and sender routines never move what the life routine has decided.
LEMMA PendingOfOthers ==
    ASSUME TypeOK, NEW r \in Routine \ {"life"}, NEW l, Goto(r, l) PROVE Pending' = Pending
  BY GotoMoves DEF Pending, Routine

\* Disconnect implements the two halves of a disconnection.
LEMMA DisconnectSession ==
    ASSUME TypeOK, NEW r \in Routine, Disconnect(r)
    PROVE  [S!SNext]_(S!svars)
  <1> USE DEF At, stateVars
  <1> "life" \in Routine
    BY DEF Routine
  <1>1. ASSUME pc' = pc \/ (\E l \in DisconnectPC \cup {"switch", "select", "top"} : Goto(r, l)),
               r = "life" => pc[r] \in DisconnectPC
        PROVE  Pending' = Pending
    <2>1. CASE pc' = pc
      BY <2>1 DEF Pending
    <2>2. CASE r # "life"
      BY <1>1, <2>1, <2>2, PendingOfOthers
    <2>3. CASE r = "life" /\ pc' # pc
      <3>1. PICK l \in DisconnectPC \cup {"switch", "select", "top"} : Goto("life", l)
        BY <1>1, <2>3
      <3>2. pc'["life"] = l
        BY <3>1, GotoMoves
      <3> QED
        BY <1>1, <2>3, <3>1, <3>2 DEF Pending, DisconnectPC
    <2> QED
      BY <2>1, <2>2, <2>3
  <1>2. Return(r) \in {"switch", "select", "top"}
    BY DEF Return, TypeOK, Routine
  <1>3. CASE DisconnectFlags(r)
    <2>1. Pending' = Pending
      BY <1>1, <1>3 DEF DisconnectFlags, DisconnectPC
    <2> QED
      BY <1>3, <2>1 DEF DisconnectFlags, S!SNext, S!ForgetOpen
  <1>4. CASE DisconnectClose(r)
    <2>1. Pending' = Pending
      BY <1>1, <1>4 DEF DisconnectClose, DisconnectPC
    <2> QED
      BY <1>4, <2>1 DEF DisconnectClose, S!svars
  <1>5. CASE DisconnectIdle(r)
    <2>1. Pending' = Pending
      BY <1>1, <1>2, <1>5 DEF DisconnectIdle, DisconnectPC
    <2> QED
      BY <1>5, <2>1 DEF DisconnectIdle, S!SNext, S!FallIdle
  <1>6. CASE DisconnectQuitLife(r)
    <2>1. CASE Goto(r, "dcQuitSender")
      <3>1. Pending' = Pending
        BY <1>1, <1>6, <2>1 DEF DisconnectQuitLife, DisconnectPC
      <3> QED
        BY <1>6, <3>1 DEF DisconnectQuitLife, S!svars
    <2>2. CASE pc["life"] = "select"
               /\ pc' = [pc EXCEPT ![r] = "dcQuitSender", !["life"] = "stopped"]
      <3>1. Pending' = Pending
        BY <2>2 DEF Pending, TypeOK
      <3> QED
        BY <1>6, <3>1 DEF DisconnectQuitLife, S!svars
    <2> QED
      BY <1>6, <2>1, <2>2 DEF DisconnectQuitLife
  <1>7. CASE DisconnectRemove(r)
    <2>1. CASE Goto(r, Return(r))
      <3>1. Pending' = Pending
        BY <1>1, <1>2, <1>7, <2>1 DEF DisconnectRemove, DisconnectPC
      <3> QED
        BY <1>7, <3>1 DEF DisconnectRemove, S!svars
    <2>2. CASE pc' = [pc EXCEPT ![r] = Return(r), !["sender"] = "stopped"]
      <3>1. pc'["life"] = IF r = "life" THEN Return(r) ELSE pc["life"]
        BY <2>2 DEF TypeOK
      <3>2. r = "life" => pc["life"] = "dcQuitSender"
        BY <1>7 DEF DisconnectRemove
      <3>3. Pending' = Pending
        BY <1>2, <3>1, <3>2 DEF Pending
      <3> QED
        BY <1>7, <3>3 DEF DisconnectRemove, S!svars
    <2> QED
      BY <1>7, <2>1, <2>2 DEF DisconnectRemove
  <1> QED
    BY <1>3, <1>4, <1>5, <1>6, <1>7 DEF Disconnect

\* Every step of the life routine outside Disconnect is a decision, the write that follows
\* from it, or invisible.
LEMMA LifeSession == ASSUME TypeOK, Life PROVE [S!SNext]_(S!svars)
  <1> USE DEF At, stateVars
  <1> "life" \in Routine
    BY DEF Routine
  <1>1. ASSUME NEW l, Goto("life", l) PROVE pc'["life"] = l
    BY <1>1, GotoMoves
  <1> DEFINE Quiet == {"start", "select", "packet", "switch", "sendKA", "hold", "dcFlags"}
  <1>2. ASSUME NEW l \in Quiet, Goto("life", l), pc["life"] \in Quiet,
               UNCHANGED <<curState, openReceived>>
        PROVE  UNCHANGED S!svars
    <2>1. pc'["life"] = l
      BY <1>1, <1>2
    <2> QED
      BY <1>2, <2>1 DEF Pending, S!svars
  <1>3. CASE Begin("life") \/ LifeReceive \/ LifeTick \/ EvolveNotification \/ EvolveHold
             \/ LifeSend("sendKA", "KEEPALIVE", "hold")
    BY <1>2, <1>3 DEF Begin, LifeReceive, LifeTick, EvolveNotification, EvolveHold, LifeSend
  <1>4. CASE EvolveOpen
    <2>1. Pending = "none" /\ Pending' = "none" /\ openReceived' = TRUE /\ curState' = curState
      BY <1>1, <1>4 DEF EvolveOpen, Pending
    <2> QED
      BY <2>1 DEF S!SNext, S!AcceptOpen
  <1>5. ASSUME NEW s \in S!States, Pending = "none", Pending' = s, S!MayEnter(s),
               UNCHANGED <<curState, openReceived>>
        PROVE  S!SNext
    BY <1>5 DEF S!SNext, S!Decide
  <1>6. CASE EvolveKeepAlive
    <2>1. CASE curState = "OPENCONFIRM"
      <3>1. Pending = "none" /\ Pending' = "ESTABLISHED"
        BY <1>1, <1>6, <2>1 DEF EvolveKeepAlive, Pending
      <3> QED
        BY <1>5, <1>6, <2>1, <3>1 DEF EvolveKeepAlive, S!States, S!MayEnter
    <2>2. CASE curState # "OPENCONFIRM"
      BY <1>2, <1>6, <2>2 DEF EvolveKeepAlive
    <2> QED
      BY <2>1, <2>2
  <1>7. ASSUME NEW l, NEW s, NEW next \in Quiet, LifeUpdateState(l, s, next), Pending = s,
               s # "none"
        PROVE  S!SNext
    <2>1. pc'["life"] = next
      BY <1>1, <1>7 DEF LifeUpdateState
    <2>2. Pending' = "none"
      BY <2>1 DEF Pending
    <2> QED
      BY <1>7, <2>2 DEF LifeUpdateState, S!SNext, S!Enter
  <1>8. CASE LifeUpdateState("establish", "ESTABLISHED", "switch")
    <2>1. Pending = "ESTABLISHED"
      BY <1>8 DEF LifeUpdateState, Pending
    <2> QED
      BY <1>7, <1>8, <2>1
  <1>9. CASE LifeUpdateState("activate", "ACTIVE", "hold")
    <2>1. Pending = "ACTIVE"
      BY <1>9 DEF LifeUpdateState, Pending
    <2> QED
      BY <1>7, <1>9, <2>1
  <1>10. CASE LifeUpdateState("opensent", "OPENSENT", "hold")
    <2>1. Pending = "OPENSENT"
      BY <1>10 DEF LifeUpdateState, Pending
    <2> QED
      BY <1>7, <1>10, <2>1
  <1>11. CASE LifeUpdateState("confirm", "OPENCONFIRM", "hold")
    <2>1. Pending = "OPENCONFIRM"
      BY <1>11 DEF LifeUpdateState, Pending
    <2> QED
      BY <1>7, <1>11, <2>1
  <1>12. CASE EvolveSwitch
    <2>1. PICK l \in Branch : Goto("life", l)
      BY <1>12 DEF EvolveSwitch
    <2>2. /\ pc["life"] = "switch" /\ pc'["life"] = l
          /\ UNCHANGED <<curState, openReceived>> /\ Pending = "none"
      BY <1>1, <1>12, <2>1 DEF EvolveSwitch, Pending
    <2>3. \/ l \in {"hold", "sendKA"}
          \/ l = "dial" /\ S!MayEnter("ACTIVE")
          \/ l = "sendOpen" /\ S!MayEnter("OPENSENT")
          \/ l = "confirm" /\ S!MayEnter("OPENCONFIRM")
      BY <2>1 DEF Branch, S!MayEnter
    <2>4. CASE l \in {"hold", "sendKA"}
      BY <1>2, <2>1, <2>2, <2>4
    <2>5. ASSUME NEW s \in {"ACTIVE", "OPENSENT", "OPENCONFIRM"}, S!MayEnter(s), Pending' = s
          PROVE  S!SNext
      BY <1>5, <2>2, <2>5 DEF S!States
    <2>6. CASE l = "dial" /\ S!MayEnter("ACTIVE")
      BY <2>2, <2>5, <2>6 DEF Pending
    <2>7. CASE l = "sendOpen" /\ S!MayEnter("OPENSENT")
      BY <2>2, <2>5, <2>7 DEF Pending
    <2>8. CASE l = "confirm" /\ S!MayEnter("OPENCONFIRM")
      BY <2>2, <2>5, <2>8 DEF Pending
    <2> QED
      BY <2>3, <2>4, <2>6, <2>7, <2>8
  <1>13. CASE (\E c \in Conn : Dial(c)) \/ ConnectDone
    <2>1. /\ Pending = "ACTIVE" /\ UNCHANGED <<curState, openReceived>>
          /\ pc'["life"] \in {"connected", "activate"}
      BY <1>1, <1>13 DEF Dial, ConnectDone, Pending
    <2> QED
      BY <2>1 DEF Pending, S!svars
  <1>14. CASE DialFails
    <2>1. /\ Pending = "ACTIVE" /\ UNCHANGED <<curState, openReceived>> /\ pc'["life"] = "hold"
      BY <1>1, <1>14 DEF DialFails, Pending
    <2>2. Pending' = "none"
      BY <2>1 DEF Pending
    <2> QED
      BY <2>1, <2>2 DEF S!SNext, S!GiveUp
  <1>15. CASE LifeSend("sendOpen", "OPEN", "sendFirstKA")
              \/ LifeSend("sendFirstKA", "KEEPALIVE", "opensent")
    <2>1. /\ Pending = "OPENSENT" /\ UNCHANGED <<curState, openReceived>>
          /\ pc'["life"] \in {"sendFirstKA", "opensent"}
      BY <1>1, <1>15 DEF LifeSend, Pending
    <2> QED
      BY <2>1 DEF Pending, S!svars
  <1>16. CASE Disconnect("life")
    BY <1>16, DisconnectSession
  <1> QED
    BY <1>3, <1>4, <1>6, <1>8, <1>9, <1>10, <1>11, <1>12, <1>13, <1>14, <1>15, <1>16 DEF Life

\* A step of another routine is a disconnection or invisible.
LEMMA OthersSession ==
    ASSUME TypeOK, Sender \/ RecvLocal \/ RecvPeer PROVE [S!SNext]_(S!svars)
  <1> USE DEF stateVars
  <1> {"sender", "recv"} \subseteq Routine \ {"life"}
    BY DEF Routine
  <1>1. CASE Disconnect("sender") \/ Disconnect("recv")
    BY <1>1, DisconnectSession
  <1>2. ASSUME NEW r \in {"sender", "recv"}, pc' = pc \/ (\E l : Goto(r, l)),
               UNCHANGED <<curState, openReceived>>
        PROVE  UNCHANGED S!svars
    <2>1. CASE pc' = pc
      BY <1>2, <2>1 DEF Pending, S!svars
    <2>2. CASE \E l : Goto(r, l)
      BY <1>2, <2>2, PendingOfOthers DEF S!svars
    <2> QED
      BY <1>2, <2>1, <2>2
  <1>3. CASE Begin("sender") \/ SenderTake \/ SenderWrite
    BY <1>2, <1>3 DEF Begin, SenderTake, SenderWrite
  <1>4. CASE RecvTop \/ RecvWait \/ RecvHeader \/ RecvBody \/ RecvFails
    BY <1>2, <1>4 DEF RecvTop, RecvWait, RecvHeader, RecvBody, RecvFails
  <1>5. CASE RecvCapture \/ RecvMore
    BY <1>2, <1>5 DEF RecvCapture, RecvMore, StartRead
  <1>6. CASE RecvStamp \/ RecvParseError \/ RecvHandle \/ RecvDispatch
    BY <1>2, <1>6 DEF RecvStamp, RecvParseError, RecvHandle, RecvDispatch
  <1> QED
    BY <1>1, <1>3, <1>4, <1>5, <1>6 DEF Sender, RecvLocal, RecvPeer

\* The three routines of a neighbour, which share its state without a lock, implement
\* Session: every state but IDLE is entered because of one decision of EvolveState taken in
\* its predecessor, and OPENCONFIRM of one taken with the peer's OPEN at hand.
THEOREM SessionImplemented == Spec => ImplementsSession
  <1>1. Init => S!SInit
    BY DEF Init, S!SInit, Pending, Passive
  <1>2. TypeOK /\ [Next]_vars => [S!SNext]_(S!svars)
    <2> SUFFICES ASSUME TypeOK, [Next]_vars PROVE [S!SNext]_(S!svars)
      OBVIOUS
    <2>1. CASE HoldElapses \/ SendRoute \/ (\E c \in Conn : PeerFallsSilent(c)) \/ UNCHANGED vars
      BY <2>1 DEF HoldElapses, SendRoute, PeerFallsSilent, vars, stateVars, S!svars, Pending
    <2> QED
      BY <2>1, LifeSession, OthersSession DEF Next
  <1> QED
    BY <1>1, <1>2, TypeCorrect, PTL DEF Spec, ImplementsSession, S!SSpec

-----------------------------------------------------------------------------
(* The order of the handshake of an incoming neighbour.                     *)

Opened == {"OPENSENT", "OPENCONFIRM", "ESTABLISHED"}

\* Labels at which the life routine is committed to nothing.
Calm == {"start", "select", "packet", "switch", "hold", "stopped"} \cup DisconnectPC

\* Our OPEN is queued on the way out of ACTIVE, and only there.
OpenCounted ==
    /\ hist.openQueued \in {0, 1}
    /\ curState = "ACTIVE" /\ pc["life"] \notin {"sendFirstKA", "opensent"} => hist.openQueued = 0
    /\ pc["life"] = "sendOpen" => hist.openQueued = 0
    /\ pc["life"] \in {"sendFirstKA", "opensent", "confirm", "establish", "sendKA"}
         => hist.openQueued = 1
    /\ curState \in Opened => hist.openQueued = 1

\* What the session has got to was said by the peer.
PeerHeard ==
    /\ hist.peerOpen \in BOOLEAN /\ hist.peerKA \in BOOLEAN
    /\ openReceived => hist.peerOpen
    /\ curState \in Opened => hist.peerOpen
    /\ pc["life"] \in {"sendOpen", "sendFirstKA", "opensent", "confirm", "establish"}
         => hist.peerOpen
    /\ curState = "ESTABLISHED" => hist.peerKA
    /\ pc["life"] = "establish" => hist.peerKA

\* Until one of our messages has been written, our OPEN is ahead of the KEEPALIVEs.
OpenAhead ==
    /\ hist.firstOut \in {"none", "OPEN"}
    /\ hist.firstOut = "none" =>
          \A j \in 1 .. Len(outQueue) :
              outQueue[j] = "KEEPALIVE" => \E k \in 1 .. j - 1 : outQueue[k] = "OPEN"
    /\ hist.firstOut = "none" /\ hist.openQueued = 1 =>
          \E k \in 1 .. Len(outQueue) : outQueue[k] = "OPEN"

HistInv == OpenCounted /\ PeerHeard /\ OpenAhead

\* It holds initially.
LEMMA HistInit == Incoming /\ HInit => HistInv
  BY DEF HInit, Init, NoHistory, HistInv, OpenCounted, PeerHeard, OpenAhead, Opened

-----------------------------------------------------------------------------
\* What the history records of a step that sets up no connection.
LEMMA Recorded ==
    ASSUME Record, pc["life"] # "dial"
    PROVE  /\ hist'.openQueued = IF ~Moves("life", "sendOpen", "sendFirstKA") THEN hist.openQueued
                                 ELSE IF hist.openQueued = 0 THEN 1 ELSE 2
           /\ hist'.firstOut = IF Moves("sender", "select", "writing") /\ hist.firstOut = "none"
                                  /\ Head(outQueue) # "ROUTE"
                               THEN Head(outQueue) ELSE hist.firstOut
           /\ hist'.peerOpen = (hist.peerOpen \/ (pc["life"] = "packet" /\ pkt = "OPEN"
                                                  /\ pc'["life"] # "packet"))
           /\ hist'.peerKA = (hist.peerKA \/ Moves("life", "packet", "establish"))
  <1>1. ~Moves("life", "dial", "connected")
    BY DEF Moves
  <1> QED
    BY <1>1 DEF Record

\* A step that decides nothing: the state stays or falls to IDLE, no OPEN comes in, and the
\* life routine stays or finds itself at a calm label, not between the OPEN and OPENSENT.
Still ==
    /\ curState' \in {curState, "IDLE"}
    /\ (openReceived' => openReceived)
    /\ \/ pc'["life"] = pc["life"]
       \/ pc'["life"] \in Calm /\ pc["life"] \notin {"sendFirstKA", "opensent"}

\* Such a step keeps what has been counted and heard.
LEMMA StillKeeps ==
    ASSUME OpenCounted, PeerHeard, Still, Record, pc["life"] # "dial"
    PROVE  OpenCounted' /\ PeerHeard'
  <1>1. hist'.openQueued = hist.openQueued
    BY Recorded DEF Still, Calm, DisconnectPC, Moves
  <1>2. /\ hist'.peerOpen \in BOOLEAN /\ hist'.peerKA \in BOOLEAN
        /\ hist.peerOpen => hist'.peerOpen
        /\ hist.peerKA => hist'.peerKA
    BY Recorded DEF PeerHeard
  <1>3. OpenCounted'
    BY <1>1 DEF OpenCounted, Still, Calm, DisconnectPC, Opened
  <1>4. PeerHeard'
    <2>1. openReceived' => hist'.peerOpen
      BY <1>2, Zenon DEF PeerHeard, Still
    <2>2. /\ curState' \in Opened => hist'.peerOpen
          /\ curState' = "ESTABLISHED" => hist'.peerKA
      BY <1>2 DEF PeerHeard, Still, Opened
    <2>3. /\ pc'["life"] \in {"sendOpen", "sendFirstKA", "opensent", "confirm", "establish"}
               => hist'.peerOpen
          /\ pc'["life"] = "establish" => hist'.peerKA
      BY <1>2 DEF PeerHeard, Still, Calm, DisconnectPC
    <2> QED
      BY <1>2, <2>1, <2>2, <2>3 DEF PeerHeard
  <1> QED
    BY <1>3, <1>4

\* A Disconnect is such a step, in whichever routine it runs ...
LEMMA DisconnectStill == ASSUME TypeOK, NEW r \in Routine, Disconnect(r) PROVE Still
  <1> USE DEF At, stateVars
  <1>0. Return(r) \in {"switch", "select", "top"} /\ (r = "life" => Return(r) # "top")
    BY DEF Return, TypeOK, Routine
  <1>1. ASSUME NEW l, Goto(r, l), r = "life" => l \in Calm /\ pc[r] \in DisconnectPC
        PROVE  \/ pc'["life"] = pc["life"]
               \/ pc'["life"] \in Calm /\ pc["life"] \notin {"sendFirstKA", "opensent"}
    BY <1>1, GotoMoves DEF Routine, DisconnectPC
  <1>2. CASE DisconnectFlags(r)
    BY <1>1, <1>2 DEF DisconnectFlags, Still, Calm, DisconnectPC
  <1>3. CASE DisconnectClose(r)
    BY <1>1, <1>3 DEF DisconnectClose, Still, Calm, DisconnectPC
  <1>4. CASE DisconnectIdle(r)
    BY <1>0, <1>1, <1>4 DEF DisconnectIdle, Still, Calm, DisconnectPC
  <1>5. CASE DisconnectQuitLife(r)
    <2>1. CASE Goto(r, "dcQuitSender")
      BY <1>1, <1>5, <2>1 DEF DisconnectQuitLife, Still, Calm, DisconnectPC
    <2>2. CASE pc["life"] = "select" /\ pc' = [pc EXCEPT ![r] = "dcQuitSender", !["life"] = "stopped"]
      <3>1. pc'["life"] = "stopped"
        BY <2>2 DEF TypeOK, Routine
      <3> QED
        BY <1>5, <2>2, <3>1 DEF DisconnectQuitLife, Still, Calm
    <2> QED
      BY <1>5, <2>1, <2>2 DEF DisconnectQuitLife
  <1>6. CASE DisconnectRemove(r)
    <2>1. CASE Goto(r, Return(r))
      BY <1>0, <1>1, <1>6, <2>1 DEF DisconnectRemove, Still, Calm, DisconnectPC
    <2>2. CASE pc' = [pc EXCEPT ![r] = Return(r), !["sender"] = "stopped"]
      <3>1. pc'["life"] = IF r = "life" THEN Return(r) ELSE pc["life"]
        BY <2>2 DEF TypeOK, Routine
      <3>2. pc[r] = "dcQuitSender" /\ UNCHANGED <<curState, openReceived>>
        BY <1>6 DEF DisconnectRemove
      <3> QED
        BY <1>0, <3>1, <3>2 DEF Still, Calm
    <2> QED
      BY <1>6, <2>1, <2>2 DEF DisconnectRemove
  <1> QED
    BY <1>2, <1>3, <1>4, <1>5, <1>6 DEF Disconnect

\* ... and so is every step of the other routines and of the environment.
LEMMA OthersStill ==
    ASSUME TypeOK,
           \/ Sender \/ RecvLocal \/ RecvPeer \/ HoldElapses \/ SendRoute
           \/ (\E c \in Conn : PeerFallsSilent(c)) \/ UNCHANGED vars
    PROVE  Still
  <1> USE DEF stateVars
  <1> {"sender", "recv"} \subseteq Routine \ {"life"} /\ "life" \in Routine
    BY DEF Routine
  <1>1. CASE Disconnect("sender") \/ Disconnect("recv")
    BY <1>1, DisconnectStill
  <1>2. ASSUME NEW r \in {"sender", "recv"}, pc' = pc \/ (\E l : Goto(r, l)),
               UNCHANGED <<curState, openReceived>>
        PROVE  Still
    BY <1>2, GotoMoves DEF Still
  <1>3. CASE Begin("sender") \/ SenderTake \/ SenderWrite
    BY <1>2, <1>3 DEF Begin, SenderTake, SenderWrite
  <1>4. CASE RecvTop \/ RecvWait \/ RecvHeader \/ RecvBody \/ RecvFails
    BY <1>2, <1>4 DEF RecvTop, RecvWait, RecvHeader, RecvBody, RecvFails
  <1>5. CASE RecvCapture \/ RecvMore
    BY <1>2, <1>5 DEF RecvCapture, RecvMore, StartRead
  <1>6. CASE RecvStamp \/ RecvParseError \/ RecvHandle \/ RecvDispatch
    BY <1>2, <1>6 DEF RecvStamp, RecvParseError, RecvHandle, RecvDispatch
  <1>7. CASE HoldElapses \/ SendRoute \/ (\E c \in Conn : PeerFallsSilent(c)) \/ UNCHANGED vars
    BY <1>7 DEF HoldElapses, SendRoute, PeerFallsSilent, vars, Still
  <1> QED
    BY <1>1, <1>3, <1>4, <1>5, <1>6, <1>7 DEF Sender, RecvLocal, RecvPeer

\* Each step of the life routine of an incoming neighbour keeps what has been counted and
\* heard.
LEMMA LifeKeeps ==
    ASSUME Incoming, TypeOK, OneConnection, OpenCounted, PeerHeard, Life, Record
    PROVE  OpenCounted' /\ PeerHeard'
  <1> USE DEF At, stateVars
  <1>0. "life" \in Routine /\ pc["life"] \notin {"dial", "connected", "activate"}
    BY DEF Routine, OneConnection
  <1>a. ASSUME NEW l, Goto("life", l) PROVE pc'["life"] = l
    BY <1>0, <1>a, GotoMoves
  <1>b. ASSUME Still PROVE OpenCounted' /\ PeerHeard'
    BY <1>0, <1>b, StillKeeps
  <1>c. ASSUME NEW l \in Calm, Goto("life", l), pc["life"] \notin {"sendFirstKA", "opensent"},
               UNCHANGED <<curState, openReceived>>
        PROVE  OpenCounted' /\ PeerHeard'
    BY <1>a, <1>b, <1>c DEF Still
  <1>d. /\ hist'.peerOpen \in BOOLEAN /\ hist'.peerKA \in BOOLEAN
        /\ hist.peerOpen => hist'.peerOpen
        /\ hist.peerKA => hist'.peerKA
    BY <1>0, Recorded DEF PeerHeard
  <1>e. ASSUME pc["life"] # "sendOpen" PROVE hist'.openQueued = hist.openQueued
    BY <1>0, <1>e, Recorded DEF Moves
  <1>1. CASE Begin("life") \/ LifeReceive \/ LifeTick \/ EvolveNotification \/ EvolveHold
             \/ LifeSend("sendKA", "KEEPALIVE", "hold")
    BY <1>1, <1>c DEF Begin, LifeReceive, LifeTick, EvolveNotification, EvolveHold, LifeSend,
                      Calm, DisconnectPC
  <1>2. CASE EvolveOpen
    <2>1. /\ pc["life"] = "packet" /\ pkt = "OPEN" /\ curState' = curState
          /\ pc'["life"] \in {"switch", "dcFlags"}
      BY <1>2, <1>a DEF EvolveOpen
    <2>2. hist'.peerOpen
      BY <1>0, <2>1, Recorded DEF PeerHeard
    <2>3. OpenCounted'
      BY <1>e, <2>1 DEF OpenCounted
    <2>4. PeerHeard'
      BY <1>d, <2>1, <2>2 DEF PeerHeard
    <2> QED
      BY <2>3, <2>4
  <1>3. CASE EvolveKeepAlive
    <2>1. CASE curState = "OPENCONFIRM"
      <3>1. /\ pc["life"] = "packet" /\ pc'["life"] = "establish"
            /\ UNCHANGED <<curState, openReceived>>
        BY <1>3, <1>a, <2>1 DEF EvolveKeepAlive
      <3>2. hist'.peerKA
        BY <1>0, <3>1, Recorded DEF PeerHeard, Moves
      <3>3. OpenCounted'
        BY <1>e, <2>1, <3>1 DEF OpenCounted, Opened
      <3>4. PeerHeard'
        BY <1>d, <2>1, <3>1, <3>2 DEF PeerHeard, Opened
      <3> QED
        BY <3>3, <3>4
    <2>2. CASE curState # "OPENCONFIRM"
      BY <1>3, <1>c, <2>2 DEF EvolveKeepAlive, Calm
    <2> QED
      BY <2>1, <2>2
  <1>4. ASSUME NEW l \in {"establish", "opensent", "confirm"}, NEW s \in Opened,
               NEW next \in {"switch", "hold"}, LifeUpdateState(l, s, next),
               s = "ESTABLISHED" => l = "establish"
        PROVE  OpenCounted' /\ PeerHeard'
    <2>1. /\ pc["life"] = l /\ pc'["life"] = next /\ curState' = s /\ openReceived' = openReceived
      BY <1>4, <1>a DEF LifeUpdateState
    <2>2. OpenCounted'
      BY <1>e, <2>1 DEF OpenCounted, Opened
    <2>3. PeerHeard'
      BY <1>4, <1>d, <2>1 DEF PeerHeard, Opened
    <2> QED
      BY <2>2, <2>3
  <1>5. CASE EvolveSwitch
    <2>1. PICK l \in Branch : Goto("life", l)
      BY <1>5 DEF EvolveSwitch
    <2>2. /\ pc["life"] = "switch" /\ pc'["life"] = l /\ UNCHANGED <<curState, openReceived>>
      BY <1>5, <1>a, <2>1 DEF EvolveSwitch
    <2>3. \/ l = "hold"
          \/ l = "sendOpen" /\ curState = "ACTIVE" /\ openReceived
          \/ l = "confirm" /\ curState = "OPENSENT"
          \/ l = "sendKA" /\ curState \in Opened
      BY <2>1 DEF Branch, Passive, TypeOK, State, Opened
    <2>4. CASE l = "hold"
      BY <1>c, <2>1, <2>2, <2>4 DEF Calm
    <2>5. CASE l # "hold"
      <3>1. OpenCounted'
        BY <1>e, <2>2, <2>3, <2>5 DEF OpenCounted, Opened
      <3>2. PeerHeard'
        BY <1>d, <2>2, <2>3, <2>5 DEF PeerHeard, Opened
      <3> QED
        BY <3>1, <3>2
    <2> QED
      BY <2>4, <2>5
  <1>6. ASSUME NEW c \in Conn PROVE ~Dial(c)
    BY <1>0 DEF Dial
  <1>7. /\ ~DialFails /\ ~ConnectDone /\ ~LifeUpdateState("activate", "ACTIVE", "hold")
    BY <1>0 DEF DialFails, ConnectDone, LifeUpdateState
  <1>8. CASE LifeSend("sendOpen", "OPEN", "sendFirstKA")
    <2>1. /\ pc["life"] = "sendOpen" /\ pc'["life"] = "sendFirstKA"
          /\ UNCHANGED <<curState, openReceived>>
      BY <1>8, <1>a DEF LifeSend
    <2>2. hist'.openQueued = 1
      BY <1>0, <2>1, Recorded DEF OpenCounted, Moves
    <2>3. OpenCounted'
      BY <2>1, <2>2 DEF OpenCounted
    <2>4. PeerHeard'
      BY <1>d, <2>1 DEF PeerHeard
    <2> QED
      BY <2>3, <2>4
  <1>9. CASE LifeSend("sendFirstKA", "KEEPALIVE", "opensent")
    <2>1. /\ pc["life"] = "sendFirstKA" /\ pc'["life"] = "opensent"
          /\ UNCHANGED <<curState, openReceived>>
      BY <1>9, <1>a DEF LifeSend
    <2>2. OpenCounted'
      BY <1>e, <2>1 DEF OpenCounted
    <2>3. PeerHeard'
      BY <1>d, <2>1 DEF PeerHeard
    <2> QED
      BY <2>2, <2>3
  <1>10. CASE Disconnect("life")
    BY <1>0, <1>10, <1>b, DisconnectStill
  <1> QED
    BY <1>1, <1>2, <1>3, <1>4, <1>5, <1>6, <1>7, <1>8, <1>9, <1>10 DEF Life, Opened

-----------------------------------------------------------------------------
\* A step that neither queues nor takes a message.
NoTraffic ==
    /\ outQueue' = outQueue
    /\ ~Moves("sender", "select", "writing") /\ ~Moves("life", "sendOpen", "sendFirstKA")

\* Such a step leaves the order of the messages alone.
LEMMA NoTrafficKeeps ==
    ASSUME OpenAhead, NoTraffic, Record, pc["life"] # "dial" PROVE OpenAhead'
  <1>1. hist'.openQueued = hist.openQueued /\ hist'.firstOut = hist.firstOut
    BY Recorded DEF NoTraffic
  <1> QED
    BY <1>1 DEF OpenAhead, NoTraffic

\* Where the sender and the life routine go while neither of the two passes a message.
LEMMA GotoNoTraffic ==
    ASSUME TypeOK, NEW r \in Routine, NEW l, Goto(r, l), outQueue' = outQueue,
           l # "writing", l # "sendFirstKA"
    PROVE  NoTraffic
  <1>1. \A q \in {"sender", "life"} : pc'[q] \in {pc[q], l}
    BY GotoMoves DEF Routine
  <1> QED
    BY <1>1 DEF NoTraffic, Moves

\* Disconnect passes no message.
LEMMA DisconnectNoTraffic == ASSUME TypeOK, NEW r \in Routine, Disconnect(r) PROVE NoTraffic
  <1>0. Return(r) \in {"switch", "select", "top"}
    BY DEF Return, TypeOK, Routine
  <1>1. CASE DisconnectFlags(r)
    BY <1>1, GotoNoTraffic DEF DisconnectFlags
  <1>2. CASE DisconnectClose(r)
    <2>1. CASE pc' = pc
      BY <1>2, <2>1 DEF DisconnectClose, NoTraffic, Moves
    <2>2. CASE Goto(r, "dcIdle")
      BY <1>2, <2>2, GotoNoTraffic DEF DisconnectClose
    <2> QED
      BY <1>2, <2>1, <2>2 DEF DisconnectClose
  <1>3. CASE DisconnectIdle(r)
    BY <1>0, <1>3, GotoNoTraffic DEF DisconnectIdle
  <1>4. CASE DisconnectQuitLife(r)
    <2>1. CASE Goto(r, "dcQuitSender")
      BY <1>4, <2>1, GotoNoTraffic DEF DisconnectQuitLife
    <2>2. CASE pc' = [pc EXCEPT ![r] = "dcQuitSender", !["life"] = "stopped"]
      <3>1. pc'["life"] \in {"stopped", "dcQuitSender"}
            /\ pc'["sender"] \in {pc["sender"], "dcQuitSender"}
        BY <2>2 DEF TypeOK, Routine
      <3> QED
        BY <1>4, <3>1 DEF DisconnectQuitLife, NoTraffic, Moves
    <2> QED
      BY <1>4, <2>1, <2>2 DEF DisconnectQuitLife
  <1>5. CASE DisconnectRemove(r)
    <2>1. CASE Goto(r, Return(r))
      BY <1>0, <1>5, <2>1, GotoNoTraffic DEF DisconnectRemove
    <2>2. CASE pc' = [pc EXCEPT ![r] = Return(r), !["sender"] = "stopped"]
      <3>1. pc'["sender"] \in {"stopped", Return(r)} /\ pc'["life"] \in {pc["life"], Return(r)}
        BY <2>2 DEF TypeOK, Routine
      <3> QED
        BY <1>0, <1>5, <3>1 DEF DisconnectRemove, NoTraffic, Moves
    <2> QED
      BY <1>5, <2>1, <2>2 DEF DisconnectRemove
  <1> QED
    BY <1>1, <1>2, <1>3, <1>4, <1>5 DEF Disconnect

\* Nor does a step of the life routine of an incoming neighbour that sends nothing ...
LEMMA LifeTraffic ==
    ASSUME Incoming, TypeOK, OneConnection, Life
    PROVE  \/ NoTraffic
           \/ LifeSend("sendOpen", "OPEN", "sendFirstKA")
           \/ LifeSend("sendFirstKA", "KEEPALIVE", "opensent")
           \/ LifeSend("sendKA", "KEEPALIVE", "hold")
  <1> "life" \in Routine
    BY DEF Routine
  <1>1. CASE Begin("life") \/ LifeReceive \/ LifeTick \/ EvolveNotification \/ EvolveHold
    BY <1>1, GotoNoTraffic DEF Begin, LifeReceive, LifeTick, EvolveNotification, EvolveHold
  <1>2. CASE EvolveOpen \/ EvolveKeepAlive
    BY <1>2, GotoNoTraffic DEF EvolveOpen, EvolveKeepAlive
  <1>3. ASSUME NEW l, NEW s, NEW next \in {"switch", "hold"}, LifeUpdateState(l, s, next)
        PROVE  NoTraffic
    BY <1>3, GotoNoTraffic DEF LifeUpdateState
  <1>4. CASE EvolveSwitch
    <2>1. PICK l \in Branch : Goto("life", l)
      BY <1>4 DEF EvolveSwitch
    <2>2. l # "writing" /\ l # "sendFirstKA"
      BY <2>1 DEF Branch
    <2> QED
      BY <1>4, <2>1, <2>2, GotoNoTraffic DEF EvolveSwitch
  <1>5. CASE (\E c \in Conn : Dial(c)) \/ DialFails \/ ConnectDone
    BY <1>5 DEF Dial, DialFails, ConnectDone, At, OneConnection
  <1>6. CASE Disconnect("life")
    BY <1>6, DisconnectNoTraffic
  <1> QED
    BY <1>1, <1>2, <1>3, <1>4, <1>5, <1>6 DEF Life

\* ... or of the other routines, except SenderTake and SendRoute.
LEMMA OthersTraffic ==
    ASSUME TypeOK,
           \/ Sender \/ RecvLocal \/ RecvPeer \/ HoldElapses \/ SendRoute
           \/ (\E c \in Conn : PeerFallsSilent(c)) \/ UNCHANGED vars
    PROVE  NoTraffic \/ SenderTake \/ SendRoute
  <1> {"sender", "recv"} \subseteq Routine
    BY DEF Routine
  <1>1. CASE Disconnect("sender") \/ Disconnect("recv")
    BY <1>1, DisconnectNoTraffic
  <1>2. CASE Begin("sender") \/ SenderWrite
    BY <1>2, GotoNoTraffic DEF Begin, SenderWrite
  <1>3. CASE RecvTop \/ RecvWait \/ RecvHeader \/ RecvBody \/ RecvFails
    BY <1>3, GotoNoTraffic DEF RecvTop, RecvWait, RecvHeader, RecvBody, RecvFails
  <1>4. CASE RecvCapture \/ RecvMore
    <2>1. CASE pc' = pc
      BY <1>4, <2>1 DEF RecvCapture, RecvMore, NoTraffic, Moves
    <2>2. CASE Goto("recv", "header") \/ Goto("recv", "body")
      BY <1>4, <2>2, GotoNoTraffic DEF RecvCapture, RecvMore
    <2> QED
      BY <1>4, <2>1, <2>2 DEF RecvCapture, RecvMore, StartRead
  <1>5. CASE RecvStamp \/ RecvParseError \/ RecvHandle \/ RecvDispatch
    BY <1>5, GotoNoTraffic DEF RecvStamp, RecvParseError, RecvHandle, RecvDispatch
  <1>6. CASE HoldElapses \/ (\E c \in Conn : PeerFallsSilent(c)) \/ UNCHANGED vars
    BY <1>6 DEF HoldElapses, PeerFallsSilent, vars, NoTraffic, Moves
  <1> QED
    BY <1>1, <1>2, <1>3, <1>4, <1>5, <1>6 DEF Sender, RecvLocal, RecvPeer

\* A message queued behind the others keeps our OPEN ahead, if it is not a KEEPALIVE that
\* comes before the OPEN.
LEMMA QueuedBehind ==
    ASSUME TypeOK, OpenAhead, NEW m \in OutMsg, outQueue' = Append(outQueue, m),
           hist'.firstOut = hist.firstOut,
           hist'.openQueued = 1 => hist.openQueued = 1 \/ m = "OPEN",
           m = "KEEPALIVE" => hist.openQueued = 1
    PROVE  OpenAhead'
  <1> DEFINE n == Len(outQueue)
  <1>1. /\ n \in Nat /\ Len(outQueue') = n + 1 /\ outQueue'[n + 1] = m
        /\ \A k \in 1 .. n : outQueue'[k] = outQueue[k]
    BY DEF TypeOK
  <1>2. ASSUME hist'.firstOut = "none", NEW j \in 1 .. n + 1, outQueue'[j] = "KEEPALIVE"
        PROVE  \E k \in 1 .. j - 1 : outQueue'[k] = "OPEN"
    <2>1. CASE j = n + 1
      <3>1. PICK k \in 1 .. n : outQueue[k] = "OPEN"
        BY <1>1, <1>2, <2>1 DEF OpenAhead
      <3> QED
        BY <1>1, <2>1, <3>1
    <2>2. CASE j \in 1 .. n
      <3>1. PICK k \in 1 .. j - 1 : outQueue[k] = "OPEN"
        BY <1>1, <1>2, <2>2 DEF OpenAhead
      <3> QED
        BY <1>1, <2>2, <3>1
    <2> QED
      BY <1>1, <2>1, <2>2
  <1>3. ASSUME hist'.firstOut = "none", hist'.openQueued = 1
        PROVE  \E k \in 1 .. n + 1 : outQueue'[k] = "OPEN"
    <2>1. CASE m = "OPEN"
      BY <1>1, <2>1
    <2>2. CASE hist.openQueued = 1
      <3>1. PICK k \in 1 .. n : outQueue[k] = "OPEN"
        BY <1>3, <2>2 DEF OpenAhead
      <3> QED
        BY <1>1, <3>1
    <2> QED
      BY <1>3, <2>1, <2>2
  <1> QED
    BY <1>1, <1>2, <1>3 DEF OpenAhead

\* The sender takes our OPEN before any KEEPALIVE.
LEMMA TakeKeeps ==
    ASSUME TypeOK, OneConnection, OpenAhead, SenderTake, Record PROVE OpenAhead'
  <1> DEFINE n == Len(outQueue)
  <1>1. "sender" \in Routine /\ pc["life"] # "dial" /\ tcpconn # NoConn
    BY DEF Routine, OneConnection
  <1>2. /\ pc["sender"] = "select" /\ outQueue # <<>> /\ outQueue' = Tail(outQueue)
        /\ Goto("sender", "writing")
    BY <1>1 DEF SenderTake, At, NilPanic
  <1>3. pc'["sender"] = "writing" /\ pc'["life"] = pc["life"]
    BY <1>1, <1>2, GotoMoves DEF Routine
  <1>4. /\ hist'.openQueued = hist.openQueued
        /\ hist'.firstOut = IF hist.firstOut = "none" /\ Head(outQueue) # "ROUTE"
                            THEN Head(outQueue) ELSE hist.firstOut
    BY <1>1, <1>2, <1>3, Recorded DEF Moves
  <1>5. /\ n \in Nat \ {0} /\ Head(outQueue) = outQueue[1] /\ outQueue[1] \in OutMsg
        /\ Len(outQueue') = n - 1 /\ \A k \in 1 .. n - 1 : outQueue'[k] = outQueue[k + 1]
    BY <1>2 DEF TypeOK
  <1>6. hist.firstOut = "none" => outQueue[1] # "KEEPALIVE"
    BY <1>5 DEF OpenAhead
  <1>7. hist'.firstOut \in {"none", "OPEN"}
    BY <1>4, <1>5, <1>6 DEF OpenAhead, OutMsg
  <1>8. ASSUME hist'.firstOut = "none" PROVE hist.firstOut = "none" /\ outQueue[1] = "ROUTE"
    BY <1>4, <1>5, <1>8 DEF OutMsg
  <1>9. ASSUME hist'.firstOut = "none", NEW k \in 1 .. n, outQueue[k] = "OPEN"
        PROVE  k - 1 \in 1 .. n - 1 /\ outQueue'[k - 1] = "OPEN"
    BY <1>5, <1>8, <1>9
  <1>10. ASSUME hist'.firstOut = "none", NEW j \in 1 .. n - 1, outQueue'[j] = "KEEPALIVE"
         PROVE  \E k \in 1 .. j - 1 : outQueue'[k] = "OPEN"
    <2>1. j + 1 \in 1 .. n /\ outQueue[j + 1] = "KEEPALIVE"
      BY <1>5, <1>10
    <2>2. PICK k \in 1 .. j : outQueue[k] = "OPEN"
      BY <1>5, <1>8, <1>10, <2>1 DEF OpenAhead
    <2>3. k - 1 \in 1 .. n - 1 /\ outQueue'[k - 1] = "OPEN"
      BY <1>5, <1>9, <1>10, <2>2
    <2> QED
      BY <1>5, <2>2, <2>3
  <1>11. ASSUME hist'.firstOut = "none", hist'.openQueued = 1
         PROVE  \E k \in 1 .. n - 1 : outQueue'[k] = "OPEN"
    <2>1. PICK k \in 1 .. n : outQueue[k] = "OPEN"
      BY <1>4, <1>8, <1>11 DEF OpenAhead
    <2> QED
      BY <1>9, <1>11, <2>1
  <1> QED
    BY <1>5, <1>7, <1>10, <1>11 DEF OpenAhead

\* What the life routine queues, and what the application queues, keeps our OPEN ahead.
LEMMA QueueingKeeps ==
    ASSUME TypeOK, OneConnection, OpenCounted, OpenAhead, Record,
           \/ SendRoute
           \/ LifeSend("sendOpen", "OPEN", "sendFirstKA")
           \/ LifeSend("sendFirstKA", "KEEPALIVE", "opensent")
           \/ LifeSend("sendKA", "KEEPALIVE", "hold")
    PROVE  OpenAhead'
  <1>1. "life" \in Routine /\ pc["life"] # "dial"
    BY DEF Routine, OneConnection
  <1>2. CASE SendRoute
    <2>1. outQueue' = Append(outQueue, "ROUTE") /\ pc' = pc
      BY <1>2 DEF SendRoute
    <2>2. hist'.openQueued = hist.openQueued /\ hist'.firstOut = hist.firstOut
      BY <1>1, <2>1, Recorded DEF Moves
    <2> QED
      BY <2>1, <2>2, QueuedBehind DEF OutMsg
  <1>3. ASSUME NEW l, NEW m \in OutMsg, NEW next, LifeSend(l, m, next),
               m # "OPEN" => l # "sendOpen" /\ hist.openQueued = 1
        PROVE  OpenAhead'
    <2>1. /\ outQueue' = Append(outQueue, m) /\ pc["life"] = l /\ Goto("life", next)
      BY <1>3 DEF LifeSend, At
    <2>2. pc'["sender"] = pc["sender"]
      BY <1>1, <2>1, GotoMoves DEF Routine
    <2>3. /\ hist'.firstOut = hist.firstOut
          /\ l # "sendOpen" => hist'.openQueued = hist.openQueued
      BY <1>1, <2>1, <2>2, Recorded DEF Moves
    <2> QED
      BY <1>3, <2>1, <2>3, QueuedBehind
  <1>4. CASE LifeSend("sendOpen", "OPEN", "sendFirstKA")
    BY <1>3, <1>4 DEF OutMsg
  <1>5. CASE LifeSend("sendFirstKA", "KEEPALIVE", "opensent")
    BY <1>3, <1>5 DEF OutMsg, OpenCounted, LifeSend, At
  <1>6. CASE LifeSend("sendKA", "KEEPALIVE", "hold")
    BY <1>3, <1>6 DEF OutMsg, OpenCounted, LifeSend, At
  <1> QED
    BY <1>2, <1>4, <1>5, <1>6

-----------------------------------------------------------------------------
\* Every step of an incoming neighbour keeps the whole invariant.
LEMMA HistStep ==
    ASSUME Incoming, TypeOK, OneConnection, HistInv, [HNext]_hvars PROVE HistInv'
  <1>0. pc["life"] # "dial" /\ OpenCounted /\ PeerHeard /\ OpenAhead
    BY DEF OneConnection, HistInv
  <1>1. ASSUME Life, Record PROVE HistInv'
    <2>1. OpenCounted' /\ PeerHeard'
      BY <1>0, <1>1, LifeKeeps
    <2>2. OpenAhead'
      BY <1>0, <1>1, LifeTraffic, NoTrafficKeeps, QueueingKeeps
    <2> QED
      BY <2>1, <2>2 DEF HistInv
  <1>2. ASSUME Record,
               \/ Sender \/ RecvLocal \/ RecvPeer \/ HoldElapses \/ SendRoute
               \/ (\E c \in Conn : PeerFallsSilent(c))
        PROVE  HistInv'
    <2>1. OpenCounted' /\ PeerHeard'
      BY <1>0, <1>2, OthersStill, StillKeeps
    <2>2. OpenAhead'
      BY <1>0, <1>2, OthersTraffic, NoTrafficKeeps, TakeKeeps, QueueingKeeps
    <2> QED
      BY <2>1, <2>2 DEF HistInv
  <1>3. CASE UNCHANGED hvars
    BY <1>3 DEF hvars, vars, HistInv, OpenCounted, PeerHeard, OpenAhead
  <1> QED
    BY <1>1, <1>2, <1>3 DEF HNext, Next

\* The history restricts nothing: its behaviours are those of the neighbour.
LEMMA HistoryRefines == HSpec => Spec
  <1>1. HInit => Init
    BY DEF HInit
  <1>2. [HNext]_hvars => [Next]_vars
    BY DEF HNext, hvars, vars
  <1> QED
    BY <1>1, <1>2, PTL DEF HSpec, Spec

\* The invariant of the history holds in every reachable state.
LEMMA HistCorrect == HSpec => [](Incoming => HistInv)
  <1>1. HInit => (Incoming => HistInv)
    BY HistInit
  <1>2. KindInv => (Incoming => OneConnection)
    BY DEF KindInv, IncomingInv
  <1>3. TypeOK /\ (Incoming => OneConnection) /\ (Incoming => HistInv) /\ [HNext]_hvars
          => (Incoming => HistInv)'
    BY HistStep
  <1> QED
    BY <1>1, <1>2, <1>3, HistoryRefines, TypeCorrect, KindCorrect, PTL DEF HSpec

\* An incoming neighbour queues its OPEN at most once, and of the messages of the handshake
\* it is the first one handed to Write, whatever Disconnects run in the other routines and
\* whatever routes the application queues in between.
THEOREM OpenGoesFirst == HSpec => [](Incoming => OpenOnceAndFirst)
  <1>1. HistInv => OpenOnceAndFirst
    BY DEF HistInv, OpenCounted, OpenAhead, OpenOnceAndFirst
  <1> QED
    BY <1>1, HistCorrect, PTL

\* An incoming neighbour has the state OPENCONFIRM or ESTABLISHED only after both OPENs, and
\* ESTABLISHED only after the peer's KEEPALIVE, however late its writes of CurState are.
THEOREM HandshakeBehindState == HSpec => [](Incoming => HandshakeComplete)
  <1>1. HistInv => HandshakeComplete
    BY DEF HistInv, OpenCounted, PeerHeard, Opened, HandshakeComplete
  <1> QED
    BY <1>1, HistCorrect, PTL
=============================================================================
