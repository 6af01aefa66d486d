----------------------------- MODULE UpdateCodec ----------------------------
(***************************************************************************)
(* bgp_update.go and the NLRI of messages.go: how an UPDATE is written and *)
(* decoded.                                                                *)
(***************************************************************************)
EXTENDS Decoder

AFI_IPV4 == 1
AFI_IPV6 == 2
SAFI_UNICAST == 1

ORIGIN == 1
ASPATH == 2
NEXTHOP == 3
MED == 4
LOCPREF == 5
ATOMIC_AGGREGATE == 6
AGGREGATOR == 7
COMMUNITIES == 8
REACH == 14
UNREACH == 15
LARGECOMMUNITIES == 32
Decoded == {ORIGIN, ASPATH, NEXTHOP, MED, LOCPREF, ATOMIC_AGGREGATE, AGGREGATOR, COMMUNITIES,
            REACH, UNREACH, LARGECOMMUNITIES}

ATTRIBUTE_EXTENDED == 16
Extended(flag) == (flag \div ATTRIBUTE_EXTENDED) % 2

\* The masks of size bytes, by their number of leading ones.
Mask(size) ==
    [n \in 0 .. 8 * size |->
        [k \in 1 .. size |-> IF n >= 8 * k THEN 255
                             ELSE IF n <= 8 * (k - 1) THEN 0
                             ELSE 256 - 2 ^ (8 * k - n)]]
MaskV4 == Mask(4)
MaskV6 == Mask(16)

\* IPMask.Size.
Ones(mask) == IF Len(mask) = 4 THEN CHOOSE n \in DOMAIN MaskV4 : MaskV4[n] = mask
              ELSE CHOOSE n \in DOMAIN MaskV6 : MaskV6[n] = mask

\* net.IP.To4, and IPtoBytes: an address that is neither 4 nor 16 bytes long is lost.
Mapped(ip) == Len(ip) = 16 /\ SubSeq(ip, 1, 12) = Zeros(10) \o <<255, 255>>
IPtoBytes(ip) == CASE Len(ip) = 4 -> ip
                   [] Mapped(ip)  -> SubSeq(ip, 13, 16)
                   [] Len(ip) = 16 /\ ~Mapped(ip) -> ip
                   [] OTHER -> <<>>

-----------------------------------------------------------------------------
(* Writing.                                                                 *)

GetSplitLen(n) == (Ones(n.mask) + 7) \div 8
NLRILen(n, addPath) == (IF addPath THEN 4 ELSE 0) + 1 + GetSplitLen(n)
WriteNLRI(n, addPath) ==
    (IF addPath THEN n.path ELSE <<>>) \o <<Ones(n.mask)>> \o SubSeq(n.ip, 1, GetSplitLen(n))

LenNLRIs(ns, addPath)   == Sum(LAMBDA n : NLRILen(n, addPath), ns)
WriteNLRIs(ns, addPath) == Concat(LAMBDA n : WriteNLRI(n, addPath), ns)

\* ASPath_Segment: a segment of more than 255 AS numbers is split.
LenSets(n) == (n + 254) \div 255
SegmentLen(s, width) == LET n == Len(s.path) IN
    IF n = 0 THEN 0 ELSE 2 * LenSets(n) + width * n
SetLen(n, k) == IF k = LenSets(n) THEN n % 255 ELSE 255   \* the length written for the k-th set
WriteSegment(s, width) ==
    LET n == Len(s.path)
        Numbers(path) == [k \in 1 .. width * Len(path) |->
                             path[1 + (k - 1) \div width][5 - width + ((k - 1) % width)]]
        Set(k) == SubSeq(s.path, 255 * (k - 1) + 1, IF 255 * k < n THEN 255 * k ELSE n) IN
    Concat(LAMBDA k : <<s.stype, SetLen(n, k)>> \o Numbers(Set(k)), [k \in 1 .. LenSets(n) |-> k])

Width(enc2bytes) == IF enc2bytes THEN 2 ELSE 4

\* The length that Len gives the content of an attribute.
ContentLen(a) ==
    CASE a.code = ORIGIN -> 1
      [] a.code \in {MED, LOCPREF} -> 4
      [] a.code = ATOMIC_AGGREGATE -> 0
      [] a.code = AGGREGATOR  -> 8
      [] a.code = ASPATH      -> Sum(LAMBDA s : SegmentLen(s, Width(a.enc2bytes)), a.segments)
      [] a.code = NEXTHOP     -> Len(IPtoBytes(a.nextHop))
      [] a.code = COMMUNITIES -> 4 * Len(a.list)
      [] a.code = LARGECOMMUNITIES -> 12 * Len(a.list)
      [] a.code = REACH   -> 5 + Len(IPtoBytes(a.nextHop)) + LenNLRIs(a.nlri, a.addPath)
      [] a.code = UNREACH -> 3 + LenNLRIs(a.nlri, a.addPath)
      [] OTHER -> Len(a.data)

\* Mutant: the boundary is one too low.
HeaderLenEarly(size) == IF size >= 255 THEN 4 ELSE 3

AttributeHeaderLen(size) == IF size > 255 THEN 4 ELSE 3
AttributeLen(a) == AttributeHeaderLen(ContentLen(a)) + ContentLen(a)

\* Mutant: the extended-length flag of a raw attribute is kept.
HeaderWithFlag(size, flag, code) ==
    IF size > 255 THEN <<flag, code>> \o U16(size) ELSE <<flag, code, size>>

WriteAttributeHeader(size, flag, code) ==
    LET plain == flag - ATTRIBUTE_EXTENDED * Extended(flag) IN
    IF size > 255 THEN <<plain + ATTRIBUTE_EXTENDED, code>> \o U16(size) ELSE <<plain, code, size>>

Flag(a) == CASE a.code \in {ORIGIN, ASPATH, NEXTHOP} -> 64
             [] a.code \in {COMMUNITIES, LARGECOMMUNITIES} -> 192
             [] a.code \in Decoded \ {ORIGIN, ASPATH, NEXTHOP, COMMUNITIES, LARGECOMMUNITIES} -> 128
             [] OTHER -> a.flag

Content(a) ==
    CASE a.code = ORIGIN -> <<a.origin>>
      [] a.code \in {MED, LOCPREF} -> a.value
      [] a.code = ATOMIC_AGGREGATE -> <<>>
      [] a.code = AGGREGATOR  -> a.asn \o a.id
      [] a.code = ASPATH      -> Concat(LAMBDA s : WriteSegment(s, Width(a.enc2bytes)), a.segments)
      [] a.code = NEXTHOP     -> IPtoBytes(a.nextHop)
      [] a.code = COMMUNITIES -> Flat(a.list, 4)
      [] a.code = LARGECOMMUNITIES -> Flat(a.list, 12)
      [] a.code = REACH   -> U16(a.afi) \o <<a.safi, Len(IPtoBytes(a.nextHop))>>
                                 \o IPtoBytes(a.nextHop) \o <<0>> \o WriteNLRIs(a.nlri, a.addPath)
      [] a.code = UNREACH -> U16(a.afi) \o <<a.safi>> \o WriteNLRIs(a.nlri, a.addPath)
      [] OTHER -> a.data

WriteAttribute(a) == WriteAttributeHeader(ContentLen(a), Flag(a), a.code) \o Content(a)

LenPathAttribute(m) == Sum(AttributeLen, m.attrs)
UpdateLen(m) == 4 + LenNLRIs(m.withdrawn, m.addPath) + LenPathAttribute(m) + LenNLRIs(m.nlri, m.addPath)
WriteUpdate(m) ==
    U16(LenNLRIs(m.withdrawn, m.addPath)) \o WriteNLRIs(m.withdrawn, m.addPath)
        \o U16(LenPathAttribute(m)) \o Concat(WriteAttribute, m.attrs)
        \o WriteNLRIs(m.nlri, m.addPath)

-----------------------------------------------------------------------------
(* Decoding.                                                                *)

InAfiSafi(afi, safi) == <<afi, safi>> \in session.addPath

\* ParseNLRI is called on b[from .. to - 1], and the decoder goes on at ret.
CallParseNLRI(from, to, afi, path, ret) ==
    /\ i' = from /\ end' = to
    /\ nlri' = [size |-> IF afi = AFI_IPV6 THEN 16 ELSE 4, path |-> path, list |-> <<>>, ret |-> ret]
    /\ IF afi \in {AFI_IPV4, AFI_IPV6} THEN pc' = "nlri" /\ failed' = FALSE
                                       ELSE pc' = ret /\ failed' = TRUE

ReturnNLRI(list, err) ==
    /\ pc' = nlri.ret /\ failed' = err /\ nlri' = [nlri EXCEPT !.list = list]
    /\ UNCHANGED <<b, session, i, end, attrsEnd, attrEnd, attr, msg, caller>>

\* The prefix of n bits at position k: the bytes that are there, then zeros.
Prefix(k, bits) ==
    [path |-> IF nlri.path THEN Bytes(i, 4) ELSE Zeros(4), mask |-> Mask(nlri.size)[bits],
     ip   |-> [j \in 1 .. nlri.size |-> IF j <= (bits + 7) \div 8 THEN At(k + j - 1) ELSE 0]]

\* The prefix at position k, of size bytes.
ParsePrefix(k, size) ==
    Reading(k + 1, end,
      IF At(k) > 8 * nlri.size \/ k + 1 + size > end THEN ReturnNLRI(nlri.list, TRUE)
      ELSE Reading(k + 1 + size, end,
             /\ nlri' = [nlri EXCEPT !.list = Append(@, Prefix(k + 1, At(k)))]
             /\ i' = k + 1 + size
             /\ UNCHANGED <<b, session, pc, end, attrsEnd, attrEnd, attr, failed, msg, caller>>))

\* One round of ParseNLRI.
ParseNLRI ==
    LET short == nlri.path /\ end - i < 5
        k     == IF nlri.path THEN i + 4 ELSE i IN
    /\ pc = "nlri"
    /\ \/ i >= end /\ ReturnNLRI(nlri.list, FALSE)
       \/ i < end /\ short /\ ReturnNLRI(<<>>, TRUE)
       \/ i < end /\ ~short /\ ParsePrefix(k, (At(k) + 7) \div 8)

\* ParsePathAttribute is called on b[from .. to - 1], and the decoder goes on at ret; the
\* attributes are collected in msg.
CallParsePathAttribute(from, to, ret) ==
    /\ i' = from /\ attrsEnd' = to /\ attr' = [ret |-> ret] /\ pc' = "attrs"

\* It returns the attributes decoded so far and, in failed, its error.
ReturnAttributes(err) ==
    /\ pc' = attr.ret /\ failed' = err
    /\ UNCHANGED <<b, session, i, end, attrsEnd, attrEnd, nlri, attr, msg, caller>>

\* The attribute whose content is b[start .. start + length - 1].
EnterAttribute(start, length) ==
    Reading(start, attrsEnd,
      IF start + length > attrsEnd THEN ReturnAttributes(TRUE)
      ELSE Reading(start + length, attrsEnd,
             /\ attr' = [ret |-> attr.ret, flag |-> At(i), code |-> At(i + 1)]
             /\ i' = start /\ attrEnd' = start + length /\ pc' = "attr"
             /\ UNCHANGED <<b, session, end, attrsEnd, nlri, failed, msg, caller>>))

\* One round of ParsePathAttribute: the header of an attribute.
ParseAttributeHeader ==
    LET ext == Extended(At(i)) IN
    /\ pc = "attrs"
    /\ \/ i >= attrsEnd /\ ReturnAttributes(FALSE)
       \/ i < attrsEnd /\ attrsEnd - i < 3 /\ ReturnAttributes(TRUE)
       \/ /\ i < attrsEnd /\ attrsEnd - i >= 3
          /\ Reading(i + 3, attrsEnd,
               IF ext = 1 /\ i + 3 > attrsEnd - 1 THEN ReturnAttributes(TRUE)
               ELSE EnterAttribute(i + 3 + ext, IF ext = 1 THEN Uint16(i + 2) ELSE At(i + 2)))

\* The attribute is appended, and the next one begins at attrEnd.
AppendAttribute(a) ==
    /\ msg' = [msg EXCEPT !.attrs = Append(@, a)]
    /\ i' = attrEnd /\ pc' = "attrs"
    /\ UNCHANGED <<b, session, end, attrsEnd, attrEnd, nlri, attr, failed, caller>>

\* The data of the attribute, and the switch on its code.
Data == attrEnd - i
Case(codes) == pc = "attr" /\ attr.code \in codes

ParseOrigin ==
    /\ Case({ORIGIN})
    /\ IF Data = 0 THEN ReturnAttributes(TRUE)
       ELSE Reading(i + 1, attrEnd, AppendAttribute([code |-> ORIGIN, origin |-> At(i)]))

ParseMedLocPref ==
    /\ Case({MED, LOCPREF})
    /\ IF Data < 4 THEN ReturnAttributes(TRUE)
       ELSE Reading(i + 4, attrEnd, AppendAttribute([code |-> attr.code, value |-> Bytes(i, 4)]))

\* An AGGREGATOR of the wrong size for the session keeps ASN 0 and a nil Identifier.
ParseAggregator ==
    LET A(asn, id) == [code |-> AGGREGATOR, asn |-> asn, id |-> id, enc2bytes |-> session.enc2bytes] IN
    /\ Case({AGGREGATOR})
    /\ \/ /\ Data = 8 /\ ~session.enc2bytes
          /\ Reading(i + 8, attrEnd, AppendAttribute(A(Bytes(i, 4), Bytes(i + 4, 4))))
       \/ /\ Data = 6 /\ session.enc2bytes
          /\ Reading(i + 6, attrEnd, AppendAttribute(A(Zeros(2) \o Bytes(i, 2), Bytes(i + 2, 4))))
       \/ /\ Data # (IF session.enc2bytes THEN 6 ELSE 8)
          /\ AppendAttribute(A(Zeros(4), <<>>))

ParseAtomicAggregate ==
    Case({ATOMIC_AGGREGATE}) /\ AppendAttribute([code |-> ATOMIC_AGGREGATE])

\* The error for a short NEXT_HOP drops the attributes decoded before.
ParseNextHop ==
    /\ Case({NEXTHOP})
    /\ IF Data < 4
       THEN /\ pc' = attr.ret /\ failed' = TRUE /\ msg' = [msg EXCEPT !.attrs = <<>>]
            /\ UNCHANGED <<b, session, i, end, attrsEnd, attrEnd, nlri, attr, caller>>
       ELSE Reading(i + 4, attrEnd, AppendAttribute([code |-> NEXTHOP, nextHop |-> Bytes(i, 4)]))

\* COMMUNITIES and LARGE_COMMUNITIES: bytes after the last complete one are dropped.
ParseCommunities ==
    LET size == IF attr.code = COMMUNITIES THEN 4 ELSE 12
        n    == Data \div size IN
    /\ Case({COMMUNITIES, LARGECOMMUNITIES})
    /\ Reading(i + size * n, attrEnd,
         AppendAttribute([code |-> attr.code,
                          list |-> [k \in 1 .. n |-> Bytes(i + size * (k - 1), size)]]))

ParseUnknown ==
    /\ pc = "attr" /\ attr.code \notin Decoded
    /\ AppendAttribute([code |-> attr.code, flag |-> attr.flag, data |-> Bytes(i, Data)])

\* AS_PATH begins.
ParseASPath ==
    /\ Case({ASPATH})
    /\ attr' = [ret |-> attr.ret, segments |-> <<>>] /\ pc' = "aspath"
    /\ UNCHANGED <<b, session, i, end, attrsEnd, attrEnd, nlri, failed, msg, caller>>

\* Mutant: the loop goes on, in place, when the length of a segment is missing.
SegmentContinues ==
    /\ pc = "aspath"
    /\ IF i >= attrEnd
       THEN AppendAttribute([code |-> ASPATH, segments |-> <<>>, enc2bytes |-> session.enc2bytes])
       ELSE /\ i' = IF i + 1 < attrEnd THEN attrEnd ELSE i
            /\ UNCHANGED <<b, session, pc, end, attrsEnd, attrEnd, nlri, attr, failed, msg, caller>>

\* One segment: it gets all the AS numbers its length announces, and those the data does
\* not hold are 0.  A segment whose length is missing ends the path.
ParseASPathSegment ==
    LET width == Width(session.enc2bytes)
        room  == (attrEnd - (i + 2)) \div width
        n     == IF At(i + 1) < room THEN At(i + 1) ELSE room IN
    /\ pc = "aspath"
    /\ IF i >= attrEnd \/ i + 1 >= attrEnd
       THEN AppendAttribute([code |-> ASPATH, segments |-> attr.segments,
                             enc2bytes |-> session.enc2bytes])
       ELSE Reading(i + 2 + width * n, attrEnd,
              /\ attr' = [attr EXCEPT !.segments = Append(@,
                    [stype |-> At(i),
                     path  |-> [k \in 1 .. At(i + 1) |->
                                   IF k > n THEN Zeros(4)
                                   ELSE Zeros(4 - width) \o Bytes(i + 2 + width * (k - 1), width)]])]
              /\ i' = i + 2 + width * n
              /\ UNCHANGED <<b, session, pc, end, attrsEnd, attrEnd, nlri, failed, msg, caller>>)

\* The next hop of nh bytes and the reserved byte are there.  Mutant: without the latter.
NextHopIsThere(nh) == i + 4 + nh <= attrEnd
NextHopFits(nh)    == i + 4 + nh <= attrEnd /\ i + 5 + nh <= attrEnd

\* MP_REACH: the next hop, one reserved byte, and the prefixes.
ParseReach ==
    LET afi == Uint16(i)
        nh  == At(i + 3) IN
    /\ Case({REACH})
    /\ IF Data < 4 THEN ReturnAttributes(TRUE)
       ELSE Reading(i + 4, attrEnd,
              IF ~NextHopFits(nh) THEN ReturnAttributes(TRUE)
              ELSE Reading(i + 5 + nh, attrEnd,
                     /\ attr' = [ret |-> attr.ret, afi |-> afi, safi |-> At(i + 2),
                                 nextHop |-> Bytes(i + 4, nh), addPath |-> InAfiSafi(afi, At(i + 2))]
                     /\ CallParseNLRI(i + 5 + nh, attrEnd, afi, InAfiSafi(afi, At(i + 2)), "reach")
                     /\ UNCHANGED <<b, session, attrsEnd, attrEnd, msg, caller>>))

\* Mutant: EnableAddPath is not set.
ReachWithoutPath ==
    /\ pc = "reach"
    /\ AppendAttribute([code |-> REACH, afi |-> attr.afi, safi |-> attr.safi,
                        nextHop |-> attr.nextHop, nlri |-> nlri.list, addPath |-> FALSE])

\* The errors of the prefixes are ignored.
ReachParsed ==
    /\ pc = "reach"
    /\ AppendAttribute([code |-> REACH, afi |-> attr.afi, safi |-> attr.safi,
                        nextHop |-> attr.nextHop, nlri |-> nlri.list, addPath |-> attr.addPath])

ParseUnreach ==
    LET afi == Uint16(i) IN
    /\ Case({UNREACH})
    /\ IF Data < 3 THEN ReturnAttributes(TRUE)
       ELSE Reading(i + 3, attrEnd,
              /\ attr' = [ret |-> attr.ret, afi |-> afi, safi |-> At(i + 2)]
              /\ CallParseNLRI(i + 3, attrEnd, afi, InAfiSafi(afi, At(i + 2)), "unreach")
              /\ UNCHANGED <<b, session, attrsEnd, attrEnd, msg, caller>>)

\* EnableAddPath is not set, whatever ParseNLRI was told.
UnreachParsed ==
    /\ pc = "unreach"
    /\ AppendAttribute([code |-> UNREACH, afi |-> attr.afi, safi |-> attr.safi,
                        nlri |-> nlri.list, addPath |-> FALSE])

\* ParseUpdate: the withdrawn routes, then the attributes, then the prefixes.
ParseUpdate ==
    LET path == InAfiSafi(AFI_IPV4, SAFI_UNICAST) IN
    /\ pc = "update"
    /\ IF Size < 4 THEN Fail
       ELSE IF Uint16(0) + 4 > Size THEN Fail
       ELSE Reading(2 + Uint16(0), Size,
              /\ msg' = [type |-> "UPDATE", withdrawn |-> <<>>, attrs |-> <<>>, nlri |-> <<>>,
                         addPath |-> path]
              /\ CallParseNLRI(2, 2 + Uint16(0), AFI_IPV4, path, "withdrawn")
              /\ UNCHANGED <<b, session, attrsEnd, attrEnd, attr, caller>>)

WithdrawnParsed ==
    /\ pc = "withdrawn"
    /\ IF failed THEN Fail
       ELSE Reading(end + 2, Size,
              IF Uint16(end) + end + 2 > Size THEN Fail
              ELSE Reading(end + 2 + Uint16(end), Size,
                     /\ msg' = [msg EXCEPT !.withdrawn = nlri.list]
                     /\ CallParsePathAttribute(end + 2, end + 2 + Uint16(end), "attributes")
                     /\ UNCHANGED <<b, session, end, attrEnd, nlri, failed, caller>>))

\* Mutant: the error of the attributes is not looked at.
AttributesIgnored ==
    /\ pc = "attributes"
    /\ Reading(attrsEnd, Size,
         /\ CallParseNLRI(attrsEnd, Size, AFI_IPV4, msg.addPath, "prefixes")
         /\ UNCHANGED <<b, session, attrsEnd, attrEnd, attr, msg, caller>>)

\* An error in the attributes or the prefixes comes with the message decoded so far.
AttributesParsed ==
    /\ pc = "attributes"
    /\ IF failed THEN pc' = "partial" /\ UNCHANGED <<b, session, i, locals, msg, caller>>
       ELSE Reading(attrsEnd, Size,
              /\ CallParseNLRI(attrsEnd, Size, AFI_IPV4, msg.addPath, "prefixes")
              /\ UNCHANGED <<b, session, attrsEnd, attrEnd, attr, msg, caller>>)

UpdateParsed ==
    /\ pc = "prefixes"
    /\ pc' = (IF failed THEN "partial" ELSE "done") /\ msg' = [msg EXCEPT !.nlri = nlri.list]
    /\ UNCHANGED <<b, session, i, locals, caller>>

UpdateNext ==
    \/ ParseUpdate \/ WithdrawnParsed \/ AttributesParsed \/ UpdateParsed
    \/ ParseNLRI \/ ParseAttributeHeader
    \/ ParseOrigin \/ ParseMedLocPref \/ ParseAggregator \/ ParseAtomicAggregate
    \/ ParseNextHop \/ ParseCommunities \/ ParseUnknown
    \/ ParseASPath \/ ParseASPathSegment
    \/ ParseReach \/ ReachParsed \/ ParseUnreach \/ UnreachParsed
=============================================================================
