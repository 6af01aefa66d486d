------------------------------- MODULE Packet -------------------------------
(***************************************************************************)
(* messages.go: the header of a BGP message, the messages without a codec  *)
(* of their own, and the choice of the decoder.                            *)
(***************************************************************************)
EXTENDS OpenCodec, UpdateCodec

Marker == [k \in 1 .. 16 |-> 255]
GetBGPHeaderLen == 19
MaxMessage == 4096

MessageType == [OPEN |-> 1, UPDATE |-> 2, NOTIFICATION |-> 3, KEEPALIVE |-> 4, ROUTEREFRESH |-> 5]

-----------------------------------------------------------------------------
(* Writing.                                                                 *)

\* The size is a uint16, and so is the sum.
WriteBGPHeader(type, size) == Marker \o U16(GetBGPHeaderLen + size) \o <<MessageType[type]>>

WriteNotification(m) == m.error \o m.data
WriteRouteRefresh(m) == m.afi \o <<0, m.safi>>

\* Len of a message, without its header.
LenContent(m) ==
    CASE m.type = "OPEN" -> 10 + LenParams(m)
      [] m.type = "UPDATE" -> UpdateLen(m)
      [] m.type = "NOTIFICATION" -> 2 + Len(m.data)
      [] m.type = "KEEPALIVE" -> 0
      [] m.type = "ROUTEREFRESH" -> 4

LenPacket(m) == GetBGPHeaderLen + LenContent(m)

WritePacket(m) ==
    WriteBGPHeader(m.type, LenContent(m)) \o
        CASE m.type = "OPEN" -> WriteOpen(m)
          [] m.type = "UPDATE" -> WriteUpdate(m)
          [] m.type = "NOTIFICATION" -> WriteNotification(m)
          [] m.type = "KEEPALIVE" -> <<>>
          [] m.type = "ROUTEREFRESH" -> WriteRouteRefresh(m)

-----------------------------------------------------------------------------
(* Decoding.                                                                *)

\* The length field, and what it leaves for the body.
LengthField(s) == 256 * s[17] + s[18]
BodyLen(s)     == LengthField(s) - GetBGPHeaderLen

\* ParsePacketHeader: whether it accepts s.
ParsePacketHeader(s) ==
    /\ Len(s) >= GetBGPHeaderLen
    /\ \A k \in 1 .. 16 : s[k] = 255
    /\ LengthField(s) \in GetBGPHeaderLen .. MaxMessage

\* ParsePacket(type, body), the options being those of an UPDATE.
ParsePacket(type, body, options) ==
    /\ b' = body /\ session' = options /\ i' = 0
    /\ pc' = CASE type = 1 -> "open"
               [] type = 2 -> "update"
               [] type = 3 -> "notification"
               [] type = 4 -> "keepalive"
               [] OTHER -> "error"
    /\ msg' = Nil
    /\ UNCHANGED locals

NoOptions == [addPath |-> {}, enc2bytes |-> FALSE]

ParseNotification ==
    /\ pc = "notification"
    /\ IF Size < 2 THEN Fail
       ELSE Reading(2, Size,
              /\ msg' = [type |-> "NOTIFICATION", error |-> Bytes(0, 2),
                         data |-> SubSeq(b, 3, Size)]
              /\ pc' = "done"
              /\ UNCHANGED <<b, session, i, locals, caller>>)

ParseKeepAlive ==
    /\ pc = "keepalive"
    /\ msg' = [type |-> "KEEPALIVE"] /\ pc' = "done"
    /\ UNCHANGED <<b, session, i, locals, caller>>

\* NeighborReceiveRoutine reads a header and, unless it announces none, a body; when it
\* announces none the header takes its place.  An UPDATE goes to a worker, which decodes it
\* with what the neighbour has negotiated.  A body that does not arrive whole is an error of
\* the socket.
Receive ==
    LET n == BodyLen(b) IN
    /\ pc = "start" /\ source = "socket"
    /\ IF ~ParsePacketHeader(b) \/ GetBGPHeaderLen + n > Size THEN Fail
       ELSE /\ ParsePacket(b[19], IF n = 0 THEN SubSeq(b, 1, 19) ELSE SubSeq(b, 20, 19 + n),
                           session)
            /\ UNCHANGED caller

\* A user of the package who has the whole message in a slice (the tests, fuzzing).
ParseSlice ==
    LET n == BodyLen(b) IN
    /\ pc = "start" /\ source = "packet"
    /\ IF ~ParsePacketHeader(b) \/ GetBGPHeaderLen + n > Size THEN Fail
       ELSE /\ ParsePacket(b[19], SubSeq(b, 20, 19 + n), NoOptions)
            /\ UNCHANGED caller

PacketNext == Receive \/ ParseSlice \/ ParseNotification \/ ParseKeepAlive \/ OpenNext \/ UpdateNext
=============================================================================
