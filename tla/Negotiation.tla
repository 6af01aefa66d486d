---------------------------- MODULE Negotiation -----------------------------
(***************************************************************************)
(* The OPEN exchange between two neighbours, both run by this code: what   *)
(* CraftOpenMessage puts into an OPEN and what EvolveState, UpdateFromOpen *)
(* and CompareAddPath make of it.  The active side keeps one Neighbor over *)
(* all its sessions; the passive side gets a new Neighbor per connection,  *)
(* possibly with another configuration.                                    *)
(***************************************************************************)
EXTENDS Naturals, Sequences, FiniteSetsExt

CONSTANTS
    ASN,           \* the AS numbers in use, 32 bits wide
    AddPathLists,  \* the values AddPathList may have: sequences of AddPath
    MaxSessions    \* bound: connections made by the active side

AS_TRANS == 23456
NoASN    == 0   \* PeerASN of a new Neighbor

Family  == {"IPv4", "IPv6"}                   \* AFI with SAFI unicast
AddPath == [family : Family, txrx : 0 .. 3]   \* messages.AddPath
Rx(p)   == p.txrx % 2 = 1                     \* TxRx & 1: can receive several paths
Tx(p)   == p.txrx >= 2                        \* TxRx & 2: can send several paths

ASSUME NegotiationAssumption ==
    /\ ASN \subseteq Nat \ {0}
    /\ AddPathLists \subseteq Seq(AddPath)
    /\ MaxSessions \in Nat

\* NewNeighbor, with the fields that the OPEN exchange reads and writes.
NewNeighbor(asn, addPathList, routeRefresh, replicate) ==
    [asn |-> asn, addPathList |-> addPathList, routeRefresh |-> routeRefresh,
     replicate |-> replicate, mp |-> <<"IPv4", "IPv6">>,
     peerASN |-> NoASN, peer2Bytes |-> FALSE, peerMP |-> <<>>, peerRouteRefresh |-> FALSE,
     sendAddPath |-> {}, decodeAddPath |-> {}]

\* CraftOpenMessage.  asn4 holds the ASN capability, if any; an empty AddPathList is not
\* announced.
CraftOpenMessage(n) ==
    [asn |-> IF n.asn >= 65536 THEN AS_TRANS ELSE n.asn, asn4 |-> {n.asn}, mp |-> n.mp,
     addPath |-> n.addPathList, routeRefresh |-> n.routeRefresh]

\* CompareAddPath.  The entry of remote that matches local[i] is found, but it is the entry
\* at position i of remote whose directions are then looked at; there may be none.
Matching(local, remote, i) ==
    LET js == {j \in DOMAIN remote : remote[j].family = local[i].family} IN
    /\ js # {}
    /\ LET r == remote[Min(js)] IN (Rx(local[i]) \/ Rx(r)) /\ (Tx(local[i]) \/ Tx(r))

\* Mutants of CompareAddPath: entries are compared at the same position without looking for
\* the family; the two results are exchanged.
CompareByPosition(local, remote) ==
    LET common == DOMAIN local \cap DOMAIN remote IN
    [panic |-> FALSE,
     recv  |-> {local[i].family : i \in {i \in common : Tx(remote[i]) /\ Rx(local[i])}},
     send  |-> {local[i].family : i \in {i \in common : Rx(remote[i]) /\ Tx(local[i])}}]
CompareSwapped(local, remote) ==
    LET common == {i \in DOMAIN local \cap DOMAIN remote : Matching(local, remote, i)} IN
    [panic |-> FALSE,
     recv  |-> {local[i].family : i \in {i \in common : Rx(remote[i]) /\ Tx(local[i])}},
     send  |-> {local[i].family : i \in {i \in common : Tx(remote[i]) /\ Rx(local[i])}}]

CompareAddPath(local, remote) ==
    LET common == {i \in DOMAIN local : Matching(local, remote, i)} IN
    [panic |-> \E i \in common : i > Len(remote),
     recv  |-> {local[i].family : i \in {i \in common \cap DOMAIN remote :
                                            Tx(remote[i]) /\ Rx(local[i])}},
     send  |-> {local[i].family : i \in {i \in common \cap DOMAIN remote :
                                            Rx(remote[i]) /\ Tx(local[i])}}]

\* Mutants of EvolveOpen: the ASN capability is ignored; ReplicateASN overwrites the AS
\* number of the peer instead of the local one.
EvolveOpenTwoBytes(n, o) == [n EXCEPT !.peerASN = o.asn, !.peer2Bytes = TRUE]
EvolveOpenSwapped(n, o) ==
    [n EXCEPT !.peerASN = IF n.replicate THEN n.asn ELSE Max(o.asn4), !.peer2Bytes = FALSE]

\* EvolveState on an OPEN, with UpdateFromOpen.  ReplicateASN copies the PeerASN known
\* before this OPEN; fields whose capability is absent from the OPEN keep their value.
EvolveOpen(n, o) ==
    LET cmp == CompareAddPath(n.addPathList, o.addPath) IN
    [n EXCEPT
        !.asn = IF n.replicate THEN n.peerASN ELSE @,
        !.peerASN = IF o.asn4 = {} THEN o.asn ELSE Max(o.asn4),
        !.peer2Bytes = o.asn4 = {},
        !.peerMP = IF o.mp = <<>> THEN @ ELSE Append(n.mp, o.mp[Len(o.mp)]),
        !.sendAddPath = IF o.addPath = <<>> THEN @ ELSE cmp.send,
        !.decodeAddPath = IF o.addPath = <<>> THEN @ ELSE cmp.recv,
        !.peerRouteRefresh = @ \/ o.routeRefresh]

-----------------------------------------------------------------------------
VARIABLES
    active, passive,  \* the two Neighbors
    wire,             \* the OPEN in flight
    phase,            \* how far the exchange is
    sessions,         \* connections made so far
    panicked          \* CompareAddPath read past the end of a list

vars == <<active, passive, wire, phase, sessions, panicked>>

NoOpen == CraftOpenMessage(NewNeighbor(NoASN, <<>>, FALSE, FALSE))

Init ==
    /\ \E a \in ASN, l \in AddPathLists : active = NewNeighbor(a, l, FALSE, FALSE)
    /\ passive = NewNeighbor(NoASN, <<>>, FALSE, FALSE)
    /\ wire = NoOpen /\ phase = "down" /\ sessions = 0 /\ panicked = FALSE

\* The active side connects and queues its OPEN; the passive side makes a Neighbor.
Connect ==
    /\ phase \in {"down", "up"} /\ sessions < MaxSessions /\ ~panicked
    /\ \E a \in ASN, l \in AddPathLists, rr, rep \in BOOLEAN :
          passive' = NewNeighbor(a, l, rr, rep)
    /\ wire' = CraftOpenMessage(active) /\ phase' = "open" /\ sessions' = sessions + 1
    /\ UNCHANGED <<active, panicked>>

\* n evolves with the OPEN on the wire, unless CompareAddPath panics.
Receive(n, evolved) ==
    IF CompareAddPath(n.addPathList, wire.addPath).panic
    THEN panicked' = TRUE /\ evolved = n
    ELSE panicked' = panicked /\ evolved = EvolveOpen(n, wire)

\* The passive side evolves, and answers with its own OPEN in the same EvolveState.
PassiveOpen ==
    /\ phase = "open" /\ ~panicked /\ Receive(passive, passive')
    /\ wire' = CraftOpenMessage(passive') /\ phase' = "reply"
    /\ UNCHANGED <<active, sessions>>

ActiveOpen ==
    /\ phase = "reply" /\ ~panicked /\ Receive(active, active')
    /\ phase' = "up" /\ UNCHANGED <<passive, wire, sessions>>

Next == Connect \/ PassiveOpen \/ ActiveOpen
Spec == Init /\ [][Next]_vars

-----------------------------------------------------------------------------
\* The directions two lists agree on: families that s can send and r can receive.
Can(n, P(_)) == {n.addPathList[i].family : i \in {i \in DOMAIN n.addPathList : P(n.addPathList[i])}}
Agreed(s, r) == Can(s, Tx) \cap Can(r, Rx)

\* The fields of the two Neighbors have the types of their declarations.
TypeOK ==
    /\ phase \in {"down", "open", "reply", "up"} /\ sessions \in 0 .. MaxSessions
    /\ panicked \in BOOLEAN
    /\ \A n \in {active, passive} :
          /\ n.asn \in ASN \cup {NoASN} /\ n.peerASN \in ASN \cup {NoASN}
          /\ n.sendAddPath \subseteq Family /\ n.decodeAddPath \subseteq Family

\* The AS number of a peer survives the 16-bit field of the OPEN: once an OPEN has been
\* evolved PeerASN is the 32-bit AS number the peer was sending with, and the peer is not
\* taken for one with 2-byte AS numbers.
PeerASNExact ==
    /\ phase \in {"reply", "up"} /\ ~panicked =>
          passive.peerASN = active.asn /\ ~passive.peer2Bytes
    /\ phase = "up" /\ ~panicked => active.peerASN = passive.asn /\ ~active.peer2Bytes

\* The two lists name the families they share at the same positions, as any two lists of
\* NewNeighbor do.
Aligned(l, m) == \A i \in DOMAIN l, j \in DOMAIN m : l[i].family = m[j].family => i = j

\* The passive side's add-path fields are exactly what both lists allow: it decodes path
\* identifiers for a family if and only if the active side may send them, and sends them if
\* and only if the active side decodes them.  This is so whenever the two lists are aligned;
\* otherwise CompareAddPath looks at the directions of another family.
AddPathAgreement ==
    phase \in {"reply", "up"} /\ Aligned(active.addPathList, passive.addPathList) =>
        /\ passive.decodeAddPath = Agreed(active, passive)
        /\ passive.sendAddPath = Agreed(passive, active)

\* n's add-path fields stay inside of n's own offer and of what the peer q speaks of.
WithinOffers(n, q) ==
    LET named == {q.addPathList[i].family : i \in DOMAIN q.addPathList} IN
    /\ n.decodeAddPath \subseteq Can(n, Rx) \cap named
    /\ n.sendAddPath \subseteq Can(n, Tx) \cap named

\* Whatever the two lists are, in any order and of any length, neither side turns add-path on
\* for a family that only one of them names, or in a direction it did not itself offer: an
\* entry of the peer's list that CompareAddPath reads by mistake can only turn it off, or
\* exchange the directions the peer offered.  The active side keeps the fields of an earlier
\* session when the peer announces no add-path.
AddPathWithinOffers ==
    /\ phase \in {"reply", "up"} /\ ~panicked => WithinOffers(passive, active)
    /\ phase = "up" /\ ~panicked /\ passive.addPathList # <<>> => WithinOffers(active, passive)

\* CompareAddPath never reads past the end of the peer's list.  Not promised by any line of the
\* code, and not so for lists that are not aligned (lines 262-265).
NoPanic == ~panicked

\* The active side's add-path fields are those of the session it is in ("Populated after
\* open", line 107).
ActiveAddPathAgreement ==
    phase = "up" /\ ~panicked =>
        /\ active.decodeAddPath = Agreed(passive, active)
        /\ active.sendAddPath = Agreed(active, passive)

\* With ReplicateASN the OPEN that answers carries the AS number that was received ("Sends
\* the same ASN as received", line 112).
ReplicatesASN == phase = "reply" /\ passive.replicate => wire.asn4 = {active.asn}
=============================================================================
