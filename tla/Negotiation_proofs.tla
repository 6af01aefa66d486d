------------------------- MODULE Negotiation_proofs -------------------------
(***************************************************************************)
(* The OPEN exchange for any AS numbers, any add-path lists and any number *)
(* of sessions.                                                            *)
(***************************************************************************)
EXTENDS Negotiation, TLAPS

USE NegotiationAssumption

\* The values of a Neighbor and of an OPEN, as far as the exchange uses them.
MaybeASN == ASN \cup {NoASN}
Lists    == AddPathLists \cup {<<>>}
Neighbor ==
    [asn : MaybeASN, addPathList : Lists, routeRefresh : BOOLEAN, replicate : BOOLEAN,
     mp : Seq(Family), peerASN : MaybeASN, peer2Bytes : BOOLEAN, peerMP : Seq(Family),
     peerRouteRefresh : BOOLEAN, sendAddPath : SUBSET Family, decodeAddPath : SUBSET Family]

\* o is an OPEN that n may have crafted.
CraftedBy(n, o) ==
    /\ o.asn4 = {n.asn} /\ o.addPath = n.addPathList
    /\ o.mp \in Seq(Family) /\ o.routeRefresh \in BOOLEAN

\* A peer that has evolved o, sent by q, knows the AS number of q.
Knows(n, q) == n.peerASN = q.asn /\ ~n.peer2Bytes

\* The AS number on the wire is that of the sender, the sender keeps its own, and whoever
\* has evolved an OPEN knows its sender.
ExchangeInv ==
    /\ phase \in {"down", "open", "reply", "up"} /\ sessions \in 0 .. MaxSessions
    /\ panicked \in BOOLEAN
    /\ active \in Neighbor /\ passive \in Neighbor /\ ~active.replicate
    /\ phase = "open" => CraftedBy(active, wire)
    /\ phase = "reply" => CraftedBy(passive, wire)
    /\ phase \in {"reply", "up"} /\ ~panicked => Knows(passive, active)
    /\ phase = "up" /\ ~panicked => Knows(active, passive)

-----------------------------------------------------------------------------
\* NewNeighbor makes a Neighbor without a peer.
LEMMA NewNeighborType ==
    ASSUME NEW a \in MaybeASN, NEW l \in Lists, NEW rr \in BOOLEAN, NEW rep \in BOOLEAN
    PROVE  NewNeighbor(a, l, rr, rep) \in Neighbor
  <1>1. <<"IPv4", "IPv6">> \in Seq(Family) /\ <<>> \in Seq(Family)
    BY DEF Family
  <1>2. NoASN \in MaybeASN
    BY DEF MaybeASN
  <1> QED
    BY <1>1, <1>2 DEF NewNeighbor, Neighbor

\* CraftOpenMessage announces the AS number and the list of its Neighbor.
LEMMA Crafted == ASSUME NEW n \in Neighbor PROVE CraftedBy(n, CraftOpenMessage(n))
  BY DEF CraftOpenMessage, CraftedBy, Neighbor

\* The larger of one AS number is that number.
LEMMA MaxOfOne == ASSUME NEW a \in MaybeASN PROVE Max({a}) = a
  BY DEF Max, MaybeASN, NoASN

\* The elements of a list name a family.
LEMMA ListType ==
    ASSUME NEW l \in Lists
    PROVE  l \in Seq(AddPath) /\ Len(l) \in Nat /\ DOMAIN l = 1 .. Len(l)
           /\ \A i \in DOMAIN l : l[i].family \in Family
  <1>1. l \in Seq(AddPath)
    <2>1. CASE l = <<>>
      BY <2>1
    <2>2. CASE l \in AddPathLists
      BY <2>2, NegotiationAssumption, Zenon
    <2> QED
      BY <2>1, <2>2 DEF Lists
  <1>2. Len(l) \in Nat /\ DOMAIN l = 1 .. Len(l) /\ \A i \in 1 .. Len(l) : l[i] \in AddPath
    BY <1>1
  <1>3. \A p \in AddPath : p.family \in Family
    BY DEF AddPath
  <1> QED
    BY <1>1, <1>2, <1>3

\* CompareAddPath yields families.
LEMMA CompareType ==
    ASSUME NEW local \in Lists, NEW remote \in Lists
    PROVE  /\ CompareAddPath(local, remote).recv \subseteq Family
           /\ CompareAddPath(local, remote).send \subseteq Family
  <1>1. \A i \in DOMAIN local : local[i].family \in Family
    BY ListType
  <1> QED
    BY <1>1 DEF CompareAddPath

\* Evolving an OPEN of q makes q known; only ReplicateASN changes the own AS number.
LEMMA Evolved ==
    ASSUME NEW n \in Neighbor, NEW q \in Neighbor, NEW o, CraftedBy(q, o),
           NEW m, m = EvolveOpen(n, o)
    PROVE  /\ m \in Neighbor /\ Knows(m, q)
           /\ m.replicate = n.replicate /\ m.addPathList = n.addPathList
           /\ ~n.replicate => m.asn = n.asn
           /\ o.addPath = <<>> => /\ m.decodeAddPath = n.decodeAddPath
                                 /\ m.sendAddPath = n.sendAddPath
           /\ o.addPath # <<>> =>
                 /\ m.decodeAddPath = CompareAddPath(n.addPathList, q.addPathList).recv
                 /\ m.sendAddPath = CompareAddPath(n.addPathList, q.addPathList).send
  <1> DEFINE cmp == CompareAddPath(n.addPathList, o.addPath)
             mp == IF o.mp = <<>> THEN n.peerMP ELSE Append(n.mp, o.mp[Len(o.mp)])
  <1>1. cmp.recv \in SUBSET Family /\ cmp.send \in SUBSET Family
    BY CompareType DEF CraftedBy, Neighbor
  <1>2. q.asn \in MaybeASN /\ o.asn4 = {q.asn} /\ Max(o.asn4) = q.asn /\ o.asn4 # {}
    BY MaxOfOne DEF CraftedBy, Neighbor
  <1>3. mp \in Seq(Family)
    BY DEF CraftedBy, Neighbor
  <1>4. (n.peerRouteRefresh \/ o.routeRefresh) \in BOOLEAN
    BY DEF CraftedBy, Neighbor
  <1>5. m = [n EXCEPT !.asn = IF n.replicate THEN n.peerASN ELSE n.asn,
                      !.peerASN = q.asn, !.peer2Bytes = FALSE, !.peerMP = mp,
                      !.sendAddPath = IF o.addPath = <<>> THEN n.sendAddPath ELSE cmp.send,
                      !.decodeAddPath = IF o.addPath = <<>> THEN n.decodeAddPath ELSE cmp.recv,
                      !.peerRouteRefresh = n.peerRouteRefresh \/ o.routeRefresh]
    BY <1>2 DEF EvolveOpen
  <1> HIDE DEF mp, cmp
  <1>6. m \in Neighbor
    <2>1. m = [asn |-> IF n.replicate THEN n.peerASN ELSE n.asn, addPathList |-> n.addPathList,
               routeRefresh |-> n.routeRefresh, replicate |-> n.replicate, mp |-> n.mp,
               peerASN |-> q.asn, peer2Bytes |-> FALSE, peerMP |-> mp,
               peerRouteRefresh |-> n.peerRouteRefresh \/ o.routeRefresh,
               sendAddPath |-> IF o.addPath = <<>> THEN n.sendAddPath ELSE cmp.send,
               decodeAddPath |-> IF o.addPath = <<>> THEN n.decodeAddPath ELSE cmp.recv]
      BY <1>5 DEF Neighbor
    <2> QED
      BY <1>1, <1>2, <1>3, <1>4, <2>1 DEF Neighbor
  <1>7. /\ Knows(m, q) /\ m.replicate = n.replicate /\ m.addPathList = n.addPathList
        /\ ~n.replicate => m.asn = n.asn
        /\ m.decodeAddPath = IF o.addPath = <<>> THEN n.decodeAddPath ELSE cmp.recv
        /\ m.sendAddPath = IF o.addPath = <<>> THEN n.sendAddPath ELSE cmp.send
    BY <1>5 DEF Knows, Neighbor
  <1> QED
    BY <1>6, <1>7 DEF cmp, CraftedBy

\* The exchange has not begun ...
LEMMA ExchangeInit == Init => ExchangeInv
  <1> SUFFICES ASSUME Init PROVE ExchangeInv
    OBVIOUS
  <1>1. PICK a \in ASN, l \in AddPathLists : active = NewNeighbor(a, l, FALSE, FALSE)
    BY DEF Init
  <1>2. active \in Neighbor /\ ~active.replicate
    BY <1>1, NewNeighborType DEF MaybeASN, Lists, NewNeighbor
  <1>3. passive \in Neighbor
    BY NewNeighborType DEF Init, MaybeASN, Lists
  <1>4. phase = "down" /\ sessions \in 0 .. MaxSessions /\ panicked \in BOOLEAN
    <2>1. 0 \in 0 .. MaxSessions
      BY NegotiationAssumption
    <2> QED
      BY <2>1, Zenon DEF Init
  <1> QED
    BY <1>2, <1>3, <1>4 DEF ExchangeInv

\* ... and each of its steps keeps the invariant.
LEMMA ExchangeStep == ExchangeInv /\ [Next]_vars => ExchangeInv'
  <1> SUFFICES ASSUME ExchangeInv, [Next]_vars PROVE ExchangeInv'
    OBVIOUS
  <1> USE DEF ExchangeInv
  <1>1. CASE Connect
    <2>1. PICK a \in ASN, l \in AddPathLists, rr, rep \in BOOLEAN :
              passive' = NewNeighbor(a, l, rr, rep)
      BY <1>1 DEF Connect
    <2>2. passive' \in Neighbor
      BY <2>1, NewNeighborType DEF MaybeASN, Lists
    <2>3. CraftedBy(active, wire')
      BY <1>1, Crafted DEF Connect
    <2> QED
      BY <1>1, <2>2, <2>3 DEF Connect
  <1>2. CASE PassiveOpen
    <2>1. /\ phase = "open" /\ phase' = "reply" /\ ~panicked /\ CraftedBy(active, wire)
          /\ active' = active /\ sessions' = sessions /\ wire' = CraftOpenMessage(passive')
          /\ Receive(passive, passive')
      BY <1>2 DEF PassiveOpen
    <2>2. passive' \in Neighbor /\ panicked' \in BOOLEAN /\ (~panicked' => Knows(passive', active))
      BY <2>1, Evolved DEF Receive
    <2> QED
      BY <2>1, <2>2, Crafted
  <1>3. CASE ActiveOpen
    <2>1. /\ phase = "reply" /\ phase' = "up" /\ ~panicked /\ CraftedBy(passive, wire)
          /\ passive' = passive /\ sessions' = sessions /\ Receive(active, active')
      BY <1>3 DEF ActiveOpen
    <2>2. /\ active' \in Neighbor /\ panicked' \in BOOLEAN /\ (~panicked' => Knows(active', passive))
          /\ active'.replicate = active.replicate /\ active'.asn = active.asn
      <3>1. CASE panicked' = TRUE /\ active' = active
        BY <3>1
      <3>2. CASE panicked' = panicked /\ active' = EvolveOpen(active, wire)
        <4>1. /\ active' \in Neighbor /\ Knows(active', passive)
              /\ active'.replicate = active.replicate
              /\ ~active.replicate => active'.asn = active.asn
          BY <2>1, <3>2, Evolved
        <4> QED
          BY <3>2, <4>1
      <3> QED
        BY <2>1, <3>1, <3>2 DEF Receive
    <2> QED
      BY <2>1, <2>2 DEF Knows
  <1>4. CASE UNCHANGED vars
    BY <1>4 DEF vars
  <1> QED
    BY <1>1, <1>2, <1>3, <1>4 DEF Next

\* The fields of the two Neighbors keep their types.
THEOREM TypeCorrect == Spec => []TypeOK
  <1>1. ExchangeInv => TypeOK
    BY DEF ExchangeInv, TypeOK, Neighbor, MaybeASN
  <1> QED
    BY <1>1, ExchangeInit, ExchangeStep, PTL DEF Spec

\* A 32-bit AS number survives the 16-bit field of the OPEN in both directions, for any AS
\* numbers and any add-path lists, and also with ReplicateASN.
THEOREM ASNSurvives == Spec => []PeerASNExact
  <1>1. ExchangeInv => PeerASNExact
    BY DEF ExchangeInv, PeerASNExact, Knows
  <1> QED
    BY <1>1, ExchangeInit, ExchangeStep, PTL DEF Spec

-----------------------------------------------------------------------------
\* The families that list l names with property P.
Named(l, P(_)) == {l[i].family : i \in {i \in DOMAIN l : P(l[i])}}

\* On aligned lists CompareAddPath stays inside of the peer's list, and its results are what
\* both lists allow.
LEMMA CompareAligned ==
    ASSUME NEW local \in Lists, NEW remote \in Lists, Aligned(local, remote)
    PROVE  /\ ~CompareAddPath(local, remote).panic
           /\ CompareAddPath(local, remote).recv = Named(remote, Tx) \cap Named(local, Rx)
           /\ CompareAddPath(local, remote).send = Named(local, Tx) \cap Named(remote, Rx)
  <1> DEFINE js(i) == {j \in DOMAIN remote : remote[j].family = local[i].family}
             common == {i \in DOMAIN local : Matching(local, remote, i)}
  <1>0. /\ \A i \in DOMAIN local, j \in DOMAIN remote :
              local[i].family = remote[j].family => i = j
        /\ DOMAIN local = 1 .. Len(local) /\ DOMAIN remote = 1 .. Len(remote)
        /\ Len(local) \in Nat /\ Len(remote) \in Nat
    <2>1. /\ DOMAIN local = 1 .. Len(local) /\ DOMAIN remote = 1 .. Len(remote)
          /\ Len(local) \in Nat /\ Len(remote) \in Nat
      BY ListType
    <2> QED
      BY <2>1 DEF Aligned
  <1>1. ASSUME NEW i \in DOMAIN local
        PROVE  Matching(local, remote, i) <=>
                 /\ i \in DOMAIN remote /\ remote[i].family = local[i].family
                 /\ Rx(local[i]) \/ Rx(remote[i])
                 /\ Tx(local[i]) \/ Tx(remote[i])
    <2>1. js(i) \subseteq {i}
      BY <1>0, <1>1
    <2>2. CASE js(i) = {}
      BY <1>1, <2>2 DEF Matching
    <2>3. CASE js(i) = {i}
      <3>1. i \in Int
        BY <1>0, <1>1
      <3>2. Min({i}) = i
        BY <3>1 DEF Min
      <3>3. Min(js(i)) = i /\ js(i) # {} /\ i \in DOMAIN remote /\ remote[i].family = local[i].family
        BY <2>3, <3>2
      <3> QED
        BY <3>3 DEF Matching
    <2> QED
      BY <2>1, <2>2, <2>3
  <1>2. common \subseteq DOMAIN remote
    BY <1>1
  <1>3. \A i \in common : ~(i > Len(remote))
    BY <1>0, <1>2
  <1>4. {local[i].family : i \in {i \in common \cap DOMAIN remote : Tx(remote[i]) /\ Rx(local[i])}}
          = Named(remote, Tx) \cap Named(local, Rx)
    BY <1>0, <1>1 DEF Named
  <1>5. {local[i].family : i \in {i \in common \cap DOMAIN remote : Rx(remote[i]) /\ Tx(local[i])}}
          = Named(local, Tx) \cap Named(remote, Rx)
    BY <1>0, <1>1 DEF Named
  <1> QED
    BY <1>3, <1>4, <1>5 DEF CompareAddPath

\* The passive side starts each session without add-path and, if the two lists are aligned,
\* ends with what both allow.
AlignedInv ==
    /\ phase = "open" => passive.decodeAddPath = {} /\ passive.sendAddPath = {}
    /\ AddPathAgreement

\* Every step keeps this.
LEMMA AlignedStep ==
    ASSUME ExchangeInv, AlignedInv, [Next]_vars PROVE AlignedInv'
  <1> USE DEF ExchangeInv, AlignedInv, AddPathAgreement
  <1>1. CASE Connect
    BY <1>1 DEF Connect, NewNeighbor
  <1>2. CASE PassiveOpen
    <2>1. /\ phase = "open" /\ phase' = "reply" /\ CraftedBy(active, wire) /\ active' = active
          /\ Receive(passive, passive') /\ wire.addPath = active.addPathList
          /\ active.addPathList \in Lists /\ passive.addPathList \in Lists
          /\ passive \in Neighbor /\ active \in Neighbor
          /\ passive.decodeAddPath = {} /\ passive.sendAddPath = {}
      BY <1>2 DEF PassiveOpen, CraftedBy, Neighbor
    <2> HIDE DEF ExchangeInv, AlignedInv, AddPathAgreement
    <2>2. passive'.addPathList = passive.addPathList
      BY <2>1, Evolved DEF Receive
    <2>3. ASSUME Aligned(active.addPathList, passive.addPathList)
          PROVE  /\ passive'.decodeAddPath = Agreed(active, passive)'
                 /\ passive'.sendAddPath = Agreed(passive, active)'
      <3>1. Aligned(passive.addPathList, active.addPathList)
        BY <2>3 DEF Aligned
      <3>2. passive' = EvolveOpen(passive, wire)
        BY <2>1, <3>1, CompareAligned DEF Receive
      <3>3. /\ wire.addPath = <<>> => passive'.decodeAddPath = {} /\ passive'.sendAddPath = {}
            /\ wire.addPath # <<>> =>
                 /\ passive'.decodeAddPath
                       = CompareAddPath(passive.addPathList, active.addPathList).recv
                 /\ passive'.sendAddPath
                       = CompareAddPath(passive.addPathList, active.addPathList).send
        BY <2>1, <3>2, Evolved
      <3>4. /\ Agreed(active, passive)' = Named(active.addPathList, Tx) \cap Named(passive.addPathList, Rx)
            /\ Agreed(passive, active)' = Named(passive.addPathList, Tx) \cap Named(active.addPathList, Rx)
        BY <2>1, <2>2 DEF Agreed, Can, Named
      <3>5. wire.addPath = <<>> =>
              Named(active.addPathList, Tx) = {} /\ Named(active.addPathList, Rx) = {}
        BY <2>1 DEF Named
      <3> QED
        BY <2>1, <3>1, <3>3, <3>4, <3>5, CompareAligned
    <2> QED
      BY <2>1, <2>2, <2>3 DEF AlignedInv, AddPathAgreement
  <1>3. CASE ActiveOpen
    <2>1. /\ phase = "reply" /\ phase' = "up" /\ CraftedBy(passive, wire) /\ passive' = passive
          /\ Receive(active, active') /\ active \in Neighbor /\ passive \in Neighbor
      BY <1>3 DEF ActiveOpen
    <2> HIDE DEF ExchangeInv
    <2>2. active'.addPathList = active.addPathList
      BY <2>1, Evolved DEF Receive
    <2>3. /\ Agreed(active, passive)' = Agreed(active, passive)
          /\ Agreed(passive, active)' = Agreed(passive, active)
      BY <2>1, <2>2 DEF Agreed, Can
    <2> QED
      BY <2>1, <2>2, <2>3
  <1>4. CASE UNCHANGED vars
    BY <1>4 DEF vars, Agreed, Can
  <1> QED
    BY <1>1, <1>2, <1>3, <1>4 DEF Next

\* In every session in which the two lists are aligned the passive side ends with exactly
\* the add-path directions both sides allow, whatever other lists earlier sessions had.
THEOREM AgreeWhenAligned == Spec => []AddPathAgreement
  <1>1. Init => AlignedInv
    BY DEF Init, AlignedInv, AddPathAgreement
  <1>2. ExchangeInv /\ AlignedInv /\ [Next]_vars => AlignedInv'
    BY AlignedStep
  <1>3. AlignedInv => AddPathAgreement
    BY DEF AlignedInv
  <1> QED
    BY <1>1, <1>2, <1>3, ExchangeInit, ExchangeStep, PTL DEF Spec

-----------------------------------------------------------------------------
\* The families that list l names.
Families(l) == {l[i].family : i \in DOMAIN l}

\* Whatever the two lists are, CompareAddPath returns families that both name, in directions
\* that the local one offers.
LEMMA CompareWithin ==
    ASSUME NEW local \in Lists, NEW remote \in Lists
    PROVE  /\ CompareAddPath(local, remote).recv \subseteq Named(local, Rx) \cap Families(remote)
           /\ CompareAddPath(local, remote).send \subseteq Named(local, Tx) \cap Families(remote)
  <1> DEFINE common == {i \in DOMAIN local : Matching(local, remote, i)}
  <1>1. \A i \in common : i \in DOMAIN local /\ local[i].family \in Families(remote)
    BY DEF Matching, Families
  <1>2. CompareAddPath(local, remote).recv \subseteq {local[i].family : i \in {i \in common : Rx(local[i])}}
    BY DEF CompareAddPath
  <1>3. CompareAddPath(local, remote).send \subseteq {local[i].family : i \in {i \in common : Tx(local[i])}}
    BY DEF CompareAddPath
  <1> HIDE DEF common
  <1> QED
    BY <1>1, <1>2, <1>3 DEF Named

\* An add-path list is not changed, and on an OPEN with add-path both fields stay within it.
LEMMA EvolvedWithin ==
    ASSUME NEW n \in Neighbor, NEW q \in Neighbor, NEW o, CraftedBy(q, o),
           NEW m, m = EvolveOpen(n, o),
           q.addPathList # <<>> \/ (n.decodeAddPath = {} /\ n.sendAddPath = {})
    PROVE  m.addPathList = n.addPathList /\ WithinOffers(m, q)
  <1>1. /\ m.addPathList = n.addPathList
        /\ o.addPath = <<>> => m.decodeAddPath = n.decodeAddPath /\ m.sendAddPath = n.sendAddPath
        /\ o.addPath # <<>> =>
              /\ m.decodeAddPath = CompareAddPath(n.addPathList, q.addPathList).recv
              /\ m.sendAddPath = CompareAddPath(n.addPathList, q.addPathList).send
    BY Evolved
  <1>2. o.addPath = q.addPathList /\ n.addPathList \in Lists /\ q.addPathList \in Lists
    BY DEF CraftedBy, Neighbor
  <1>3. /\ CompareAddPath(n.addPathList, q.addPathList).recv
             \subseteq Named(n.addPathList, Rx) \cap Families(q.addPathList)
        /\ CompareAddPath(n.addPathList, q.addPathList).send
             \subseteq Named(n.addPathList, Tx) \cap Families(q.addPathList)
    BY <1>2, CompareWithin
  <1>4. /\ m.decodeAddPath \subseteq Named(m.addPathList, Rx) \cap Families(q.addPathList)
        /\ m.sendAddPath \subseteq Named(m.addPathList, Tx) \cap Families(q.addPathList)
    BY <1>1, <1>2, <1>3
  <1> QED
    BY <1>1, <1>4 DEF WithinOffers, Can, Named, Families

\* The passive side starts each session without add-path, and nobody leaves the offers.
WithinInv ==
    /\ phase = "open" => passive.decodeAddPath = {} /\ passive.sendAddPath = {}
    /\ AddPathWithinOffers

\* Every step keeps this.
LEMMA WithinStep == ASSUME ExchangeInv, WithinInv, [Next]_vars PROVE WithinInv'
  <1>1. CASE Connect
    BY <1>1 DEF Connect, NewNeighbor, WithinInv, AddPathWithinOffers
  <1>2. CASE PassiveOpen
    <2>1. /\ phase = "open" /\ phase' = "reply" /\ CraftedBy(active, wire) /\ active' = active
          /\ active \in Neighbor /\ passive \in Neighbor
          /\ passive.decodeAddPath = {} /\ passive.sendAddPath = {}
      BY <1>2 DEF PassiveOpen, ExchangeInv, WithinInv
    <2>2. panicked' \/ passive' = EvolveOpen(passive, wire)
      BY <1>2 DEF PassiveOpen, Receive
    <2>3. ~panicked' => WithinOffers(passive', active)
      BY <2>1, <2>2, EvolvedWithin
    <2>4. ~panicked' => WithinOffers(passive, active)'
      BY <2>1, <2>3 DEF WithinOffers, Can
    <2> QED
      BY <2>1, <2>4 DEF WithinInv, AddPathWithinOffers
  <1>3. CASE ActiveOpen
    <2>1. /\ phase = "reply" /\ phase' = "up" /\ ~panicked /\ passive' = passive
          /\ CraftedBy(passive, wire) /\ active \in Neighbor /\ passive \in Neighbor
      BY <1>3 DEF ActiveOpen, ExchangeInv
    <2>2. WithinOffers(passive, active)
      BY <2>1 DEF WithinInv, AddPathWithinOffers
    <2>3. panicked' \/ active' = EvolveOpen(active, wire)
      BY <1>3 DEF ActiveOpen, Receive
    <2>4. ~panicked' => active'.addPathList = active.addPathList
      BY <2>1, <2>3, Evolved
    <2>5. ~panicked' /\ passive.addPathList # <<>> => WithinOffers(active', passive)
      BY <2>1, <2>3, EvolvedWithin
    <2>6. /\ ~panicked' => WithinOffers(passive, active)'
          /\ ~panicked' /\ passive'.addPathList # <<>> => WithinOffers(active, passive)'
      BY <2>1, <2>2, <2>4, <2>5 DEF WithinOffers, Can
    <2> QED
      BY <2>1, <2>6 DEF WithinInv, AddPathWithinOffers
  <1>4. CASE UNCHANGED vars
    BY <1>4 DEF vars, WithinInv, AddPathWithinOffers, WithinOffers, Can
  <1> QED
    BY <1>1, <1>2, <1>3, <1>4 DEF Next

\* Any lists, in any order and of any lengths: add-path is on only for families that both
\* sides name, and only in directions that the side itself offers.
THEOREM StaysWithinOffers == Spec => []AddPathWithinOffers
  <1>1. Init => WithinInv
    BY DEF Init, WithinInv, AddPathWithinOffers
  <1>2. ExchangeInv /\ WithinInv /\ [Next]_vars => WithinInv'
    BY WithinStep
  <1>3. WithinInv => AddPathWithinOffers
    BY DEF WithinInv
  <1> QED
    BY <1>1, <1>2, <1>3, ExchangeInit, ExchangeStep, PTL DEF Spec
=============================================================================
