-------------------------- MODULE NeighborHistory ---------------------------
(***************************************************************************)
(* Neighbor with a history variable: what has happened since tcpconn was   *)
(* set up.  It records steps of Neighbor and restricts none of them.       *)
(***************************************************************************)
EXTENDS Neighbor

VARIABLE hist

NoHistory == [openQueued |-> 0,       \* our OPENs put in OutQueue, counted up to 2
              firstOut   |-> "none",  \* first OPEN or KEEPALIVE handed to Write
              peerOpen   |-> FALSE,   \* an OPEN of the peer reached EvolveState
              peerKA     |-> FALSE]   \* then a KEEPALIVE was accepted in OPENCONFIRM

\* Routine r moves from label l to label m.
Moves(r, l, m) == pc[r] = l /\ pc'[r] = m

Record ==
    hist' = IF Moves("life", "dial", "connected") THEN NoHistory
            ELSE [openQueued |-> IF ~Moves("life", "sendOpen", "sendFirstKA") THEN hist.openQueued
                                 ELSE IF hist.openQueued = 0 THEN 1 ELSE 2,
                  firstOut   |-> IF Moves("sender", "select", "writing") /\ hist.firstOut = "none"
                                    /\ Head(outQueue) # "ROUTE"
                                 THEN Head(outQueue) ELSE hist.firstOut,
                  peerOpen   |-> hist.peerOpen \/
                                 (pc["life"] = "packet" /\ pkt = "OPEN"
                                  /\ pc'["life"] # "packet"),
                  peerKA     |-> hist.peerKA \/ Moves("life", "packet", "establish")]

HInit == Init /\ hist = NoHistory
HNext == Next /\ Record
hvars == <<vars, hist>>
HSpec == HInit /\ [][HNext]_hvars
HFairSpec == HSpec /\ Fairness

\* An incoming neighbour queues at most one OPEN in its life, and of its own messages (not
\* those of the application) that OPEN is what it writes first on the connection, whatever
\* Disconnects run in the other routines.
OpenOnceAndFirst == hist.openQueued <= 1 /\ hist.firstOut \in {"none", "OPEN"}

\* An incoming neighbour is in OPENCONFIRM or ESTABLISHED only if EvolveState has seen the
\* peer's OPEN and our OPEN has been queued, and in ESTABLISHED only if a KEEPALIVE of the
\* peer was accepted in OPENCONFIRM: late state writes of the life routine never invent a
\* handshake.
HandshakeComplete ==
    /\ curState \in {"OPENCONFIRM", "ESTABLISHED"} => hist.peerOpen /\ hist.openQueued = 1
    /\ curState = "ESTABLISHED" => hist.peerKA
=============================================================================
