------------------------------- MODULE MCCodec ------------------------------
(***************************************************************************)
(* Inputs for Codec: what the writers write for messages and records of    *)
(* every kind, their truncations and their mutations in one byte.          *)
(***************************************************************************)
EXTENDS Codec

Ip6(n)  == <<0, 1>> \o Zeros(13) \o <<n>>
Mapped4 == Zeros(10) \o <<255, 255, 10, 0, 0, 1>>
Prefix4(bits, path) == [path |-> path, mask |-> MaskV4[bits],
                        ip |-> [k \in 1 .. 4 |-> IF k <= (bits + 7) \div 8 /\ k <= 2 THEN 1 ELSE 0]]
Prefix6(bits, path) == [path |-> path, mask |-> MaskV6[bits],
                        ip |-> [k \in 1 .. 16 |-> IF k <= (bits + 7) \div 8 THEN Ip6(1)[k] ELSE 0]]
Path == <<0, 0, 0, 7>>
NoPath == Zeros(4)

Origin     == [code |-> ORIGIN, origin |-> 2]
AsPath(enc2bytes, paths) ==
    [code |-> ASPATH, enc2bytes |-> enc2bytes,
     segments |-> [k \in DOMAIN paths |-> [stype |-> 2, path |-> paths[k]]]]
As(n)      == <<0, 0, n, 9>>
Hop4       == [code |-> NEXTHOP, nextHop |-> <<10, 0, 0, 1>>]
Med        == [code |-> MED, value |-> <<0, 0, 1, 0>>]
Atomic     == [code |-> ATOMIC_AGGREGATE]
Aggregator == [code |-> AGGREGATOR, asn |-> As(1), id |-> <<1, 1, 1, 1>>, enc2bytes |-> FALSE]
Communities == [code |-> COMMUNITIES, list |-> <<<<0, 1, 0, 2>>, <<0, 3, 0, 4>>>>]
Large      == [code |-> LARGECOMMUNITIES, list |-> <<Zeros(11) \o <<1>>>>]
Unknown(flag, n) == [code |-> 99, flag |-> flag, data |-> Zeros(n)]
Reach(nextHop, prefixes, addPath) ==
    [code |-> REACH, afi |-> 2, safi |-> 1, nextHop |-> nextHop, nlri |-> prefixes, addPath |-> addPath]
Unreach(prefixes, addPath) ==
    [code |-> UNREACH, afi |-> 2, safi |-> 1, nlri |-> prefixes, addPath |-> addPath]

Update(withdrawn, attrs, prefixes, addPath) ==
    [type |-> "UPDATE", withdrawn |-> withdrawn, attrs |-> attrs, nlri |-> prefixes,
     addPath |-> addPath]

\* Messages small enough to mutate everywhere.
Small == {
    CraftOpenMessage(<<0, 1, 0, 5>>, <<0, 90>>, <<1, 1, 1, 1>>, <<<<0, 1, 1>>, <<0, 2, 1>>>>,
                     <<<<0, 1, 1, 3>>>>, TRUE),
    [type |-> "OPEN", version |-> 4, asn |-> <<0, 9>>, hold |-> <<0, 3>>, id |-> <<1, 1, 1, 1>>,
     params |-> <<[type |-> 2, capas |-> <<[code |-> 70, data |-> <<5>>]>>],
                  [type |-> 2, capas |-> <<[code |-> CAPA_RR], [code |-> CAPA_RR]>>],
                  [type |-> 1, capas |-> <<>>]>>],
    Update(<<Prefix4(24, NoPath), Prefix4(0, NoPath)>>,
           <<Origin, AsPath(FALSE, <<<<As(1), As(2)>>, <<As(3)>>>>), Hop4, Atomic>>,
           <<Prefix4(8, NoPath), Prefix4(31, NoPath)>>, FALSE),
    Update(<<>>, <<Med, Aggregator, Communities, Large, Unknown(192, 2)>>,
           <<Prefix4(32, Path)>>, TRUE),
    Update(<<>>, <<AsPath(TRUE, <<<<As(1), As(2)>>>>), Reach(Ip6(1), <<Prefix6(20, Path)>>, TRUE),
                   Unreach(<<Prefix6(7, NoPath)>>, FALSE)>>, <<>>, TRUE),
    Update(<<>>, <<>>, <<>>, FALSE),
    [type |-> "NOTIFICATION", error |-> <<6, 2>>, data |-> <<1, 2>>],
    [type |-> "KEEPALIVE"],
    [type |-> "ROUTEREFRESH", afi |-> <<0, 2>>, safi |-> 1]}

\* Messages at the limits of their length fields.
AsNumbers(n) == [k \in 1 .. n |-> As(1)]
LongPaths ==
    {Update(<<>>, <<AsPath(FALSE, <<AsNumbers(n)>>)>>, <<>>, FALSE)
        : n \in {62, 63, 64, 254, 255, 256, 510}}
Big == LongPaths \cup {
    Update(<<>>, <<Unknown(208, 255), Unknown(192, 256)>>, <<>>, FALSE),
    Update(<<>>, <<Reach(Ip6(1) \o Ip6(2), <<Prefix6(128, NoPath)>>, FALSE)>>, <<>>, FALSE),
    Update(<<>>, <<Reach(Mapped4, <<Prefix6(64, NoPath)>>, FALSE)>>, <<>>, FALSE),
    [type |-> "NOTIFICATION", error |-> <<1, 2>>, data |-> Zeros(4075)],
    [type |-> "NOTIFICATION", error |-> <<1, 2>>, data |-> Zeros(4076)]}

\* Types and bodies of messages no writer writes: with an attribute at the limit of a short
\* length, and those whose rewriting is longer than they are, with capabilities without data or
\* segments that announce more AS numbers than there are.
Raw == {<<2, <<0, 0, 1, 2, 192, 99, 255>> \o Zeros(255)>>} \cup {
    <<1, <<4, 0, 9, 0, 90, 1, 1, 1, 1, 2 * n + 2, 2, 2 * n>> \o [k \in 1 .. 2 * n |-> k % 2]>>
        : n \in {42, 43}}
    \cup {<<2, <<0, 0, 0, 5 * n>> \o Flat([k \in 1 .. n |-> <<64, ASPATH, 2, 2, 255>>], 5)>> : n \in {3, 4}}

-----------------------------------------------------------------------------
Header(type, n) == Marker \o U16(19 + n) \o <<type>>
Body(m) == LET s == WritePacket(m) IN SubSeq(s, 20, Len(s))
Message(type, body) == Header(type, Len(body)) \o body

Truncated(s) == {SubSeq(s, 1, k) : k \in 0 .. Len(s)}
Mutated(s, values) ==
    {[s EXCEPT ![k] = v] : <<k, v>> \in (DOMAIN s) \X values}
    \cup {[s EXCEPT ![k] = (@ + 1) % 256] : k \in DOMAIN s}

Type(m) == MessageType[m.type]
Slices ==
    {WritePacket(m) : m \in Small \cup Big}
    \cup {Message(a[1], a[2]) : a \in Raw}
    \cup UNION {{Message(Type(m), s) : s \in Truncated(Body(m)) \cup Mutated(Body(m), {0, 2, 255})}
                : m \in Small}
    \cup UNION {Truncated(WritePacket(m)) \cup {[WritePacket(m) EXCEPT ![k] = 18] : k \in {1, 17, 18, 19}}
                : m \in {[type |-> "KEEPALIVE"], [type |-> "NOTIFICATION", error |-> <<6, 2>>, data |-> <<>>]}}
    \cup {Header(type, 0) : type \in 0 .. 6}

Sessions == {NoOptions, [addPath |-> {<<2, 1>>}, enc2bytes |-> FALSE],
             [addPath |-> {<<1, 1>>, <<2, 1>>}, enc2bytes |-> TRUE]}

-----------------------------------------------------------------------------
Time == <<0, 0, 0, 1>>
Between(type, peer, local) ==
    [type |-> type, time |-> Time, peerAS |-> As(1), localAS |-> As(2), iface |-> <<0, 0>>,
     peerIP |-> peer, localIP |-> local]
Ip4 == <<10, 0, 0, 1>>
Peer(ip, asn) == [id |-> <<1, 1, 1, 1>>, ip |-> ip, asn |-> asn]
Entry(attrs) == [peer |-> <<0, 1>>, time |-> Time, attrs |-> attrs]
PeerIndex(view, peers) ==
    [type |-> "PEER_INDEX", time |-> Time, collector |-> Ip4, view |-> view, peers |-> peers]
RibRecord(afi, safi, own, prefix, entries) ==
    [type |-> "RIB", time |-> Time, seq |-> <<0, 0, 0, 3>>, afi |-> afi, safi |-> safi,
     asAfiSafi |-> own, nlri |-> prefix, entries |-> entries]

Records == {
    [message |-> [type |-> "KEEPALIVE"]] @@ Between("MESSAGE", Ip4, Ip4),
    [message |-> Update(<<>>, <<Origin>>, <<Prefix4(9, NoPath)>>, FALSE)]
        @@ Between("MESSAGE", Ip6(1), Ip6(2)),
    [states |-> <<0, 1, 0, 6>>] @@ Between("STATE_CHANGE", Ip4, Ip4),
    [states |-> <<0, 6, 0, 1>>] @@ Between("STATE_CHANGE", Ip6(1), Ip6(2)),
    PeerIndex(<<1>>, <<Peer(Ip6(1), <<0, 0, 1, 0>>)>>),
    PeerIndex(<<>>, <<Peer(Ip4, <<0, 1, 0, 0>>)>>),
    RibRecord(1, 1, TRUE, Prefix4(22, NoPath),
              <<Entry(<<Origin, AsPath(FALSE, <<<<As(1)>>>>), Hop4>>), Entry(<<>>)>>),
    RibRecord(2, 1, TRUE, Prefix6(33, NoPath),
              <<Entry(<<Origin, Reach(Ip6(1), <<>>, FALSE)>>)>>),
    RibRecord(2, 2, TRUE, Prefix6(15, NoPath),
              <<Entry(<<[pointer |-> TRUE] @@ Reach(Ip6(1), <<>>, FALSE),
                        [pointer |-> TRUE, nextHop |-> <<>>] @@ Unreach(<<>>, FALSE)>>)>>),
    RibRecord(1, 2, FALSE, Prefix4(32, NoPath), <<Entry(<<Origin>>)>>)}

Record(type, subtype, s) == WriteCommonHeader(Time, type, subtype, Len(s)) \o s
TableDump(ip, bits, attrs) ==
    <<0, 0, 0, 1>> \o ip \o <<bits, 1>> \o Time \o ip \o <<0, 9>> \o U16(Len(attrs)) \o attrs
AddPathEntries == <<0, 0, 0, 3>> \o <<7, 0>> \o <<0, 1>> \o <<0, 1>> \o Time \o Path \o <<0, 4, 64, 1, 1, 2>>

\* Types, subtypes and contents of records, to be truncated and mutated.
Contents ==
    {LET s == WriteRecord(r) IN <<s[6], s[8], SubSeq(s, 13, Len(s))>> : r \in Records}
    \cup {<<TYPE_TABLE_DUMPV2, 8, AddPathEntries>>,
          <<TYPE_TABLE_DUMPV2, PEER_INDEX_TABLE,
            Ip4 \o <<0, 0, 0, 1, 2>> \o Ip4 \o Ip4 \o <<0, 1, 0, 0>>>>,
          <<TYPE_TABLE_DUMP, 1, TableDump(Ip4, 24, <<64, 1, 1, 0>>)>>,
          <<TYPE_TABLE_DUMP, 2, TableDump(Ip6(1), 128, <<64, 2, 4, 2, 1, 0, 9>>)>>,
          <<TYPE_TABLE_DUMPV2, RIB_GENERIC,
            <<0, 0, 0, 3, 0, 2, 1, 15, 0, 1, 0, 1>> \o WriteEntry(Entry(<<Origin>>))>>}
Files ==
    {WriteRecord(PeerIndex(<<1>>, <<Peer(Ip4, As(0)), Peer(Ip6(1), As(0)), Peer(Ip4, As(0))>>))}
    \cup UNION {{Record(c[1], c[2], s) : s \in Truncated(c[3]) \cup Mutated(c[3], {0, 1})} : c \in Contents}
    \cup UNION {{Record(type, subtype, Zeros(8)) : type \in {11, 12, 13, 16}} : subtype \in 0 .. 10}
    \cup {SubSeq(Record(16, 5, Zeros(20)), 1, k) : k \in 0 .. 31}
    \cup {[Record(16, 5, Zeros(20)) EXCEPT ![k] = 255] : k \in 9 .. 12}

MCInputs ==
    {[source |-> "packet", session |-> NoOptions, bytes |-> s] : s \in Slices}
    \cup {[source |-> "socket", session |-> o, bytes |-> s] : <<o, s>> \in Sessions \X Slices}
    \cup {[source |-> "mrt", session |-> NoOptions, bytes |-> s] : s \in Files}
=============================================================================
