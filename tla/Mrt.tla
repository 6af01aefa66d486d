--------------------------------- MODULE Mrt --------------------------------
(***************************************************************************)
(* mrt.go and reader.go: how MRT records are written and decoded.          *)
(***************************************************************************)
EXTENDS Packet

TYPE_TABLE_DUMP == 12
TYPE_TABLE_DUMPV2 == 13
TYPE_BGP4MP == 16

MESSAGE_AS4 == 4
STATE_CHANGE_AS4 == 5
PEER_INDEX_TABLE == 1
RIB_GENERIC == 6
SAFI_MULTICAST == 2

\* The subtypes of a RIB record: AFI, SAFI and whether entries have a path identifier.
RibSubtype == [t \in {2, 3, 4, 5, 8, 10} |->
    [afi  |-> IF t \in {2, 3, 8} THEN AFI_IPV4 ELSE AFI_IPV6,
     safi |-> IF t \in {3, 5} THEN SAFI_MULTICAST ELSE SAFI_UNICAST, addPath |-> t \in {8, 10}]]

MaxMrtLength == 1048576

-----------------------------------------------------------------------------
(* Writing.                                                                 *)

U32(n) == <<(n \div 16777216) % 256, (n \div 65536) % 256>> \o U16(n)
WriteCommonHeader(time, type, subtype, length) ==
    time \o U16(type) \o U16(subtype) \o U32(length)

IsIPv4(ip) == Len(ip) = 4 \/ Mapped(ip)
To4(ip)    == IF IsIPv4(ip) THEN IPtoBytes(ip) ELSE <<>>   \* nil writes nothing
Short(asn) == asn[1] = 0 /\ asn[2] = 0

PeerLen(p)   == 5 + (IF IsIPv4(p.ip) THEN 4 ELSE 16) + (IF Short(p.asn) THEN 2 ELSE 4)
WritePeer(p) ==
    <<(IF Short(p.asn) THEN 0 ELSE 4) + (IF IsIPv4(p.ip) THEN 0 ELSE 1)>>
        \o To4(p.id) \o (IF IsIPv4(p.ip) THEN To4(p.ip) ELSE p.ip)
        \o (IF Short(p.asn) THEN SubSeq(p.asn, 3, 4) ELSE p.asn)

PeerIndexLen(r)   == 8 + Len(r.view) + Sum(PeerLen, r.peers)
WritePeerIndex(r) == To4(r.collector) \o U16(Len(r.view)) \o r.view \o U16(Len(r.peers))
                        \o Concat(WritePeer, r.peers)

\* An MP_REACH or MP_UNREACH an application has stored as a pointer.
Pointer(a) == "pointer" \in DOMAIN a
EntryAttributeLen(a) ==
    IF ~Pointer(a) THEN AttributeLen(a)
    ELSE IF a.code = REACH THEN 4 + Len(IPtoBytes(a.nextHop)) ELSE 0
WriteEntryAttribute(a) ==
    LET n == Len(IPtoBytes(a.nextHop)) IN
    IF ~Pointer(a) THEN WriteAttribute(a)
    ELSE IF a.code = REACH THEN <<128, REACH, 1 + n, n>> \o IPtoBytes(a.nextHop) ELSE <<>>

EntryLen(e)   == 8 + Sum(EntryAttributeLen, e.attrs)
WriteEntry(e) == e.peer \o e.time \o U16(Sum(EntryAttributeLen, e.attrs))
                    \o Concat(WriteEntryAttribute, e.attrs)

\* Mutant of GetSubtype: the SAFI is not looked at.
SubtypeByAfi(r) == IF r.asAfiSafi THEN (IF r.afi = AFI_IPV4 THEN 2 ELSE 4) ELSE RIB_GENERIC

\* GetSubtype: RIB_GENERIC unless WriteAsAfiSafi is set and the pair has a subtype.
GetSubtype(r) ==
    LET own == {t \in 2 .. 5 : RibSubtype[t].afi = r.afi /\ RibSubtype[t].safi = r.safi} IN
    IF r.asAfiSafi /\ own # {} THEN CHOOSE t \in own : TRUE ELSE RIB_GENERIC
Generic(r) == GetSubtype(r) = RIB_GENERIC

RibLen(r)   == 6 + NLRILen(r.nlri, FALSE) + (IF Generic(r) THEN 2 ELSE 0) + Sum(EntryLen, r.entries)
WriteRib(r) == (IF Generic(r) THEN U16(r.afi) \o <<r.safi>> ELSE <<>>)
                  \o r.seq \o WriteNLRI(r.nlri, FALSE) \o U16(Len(r.entries))
                  \o Concat(WriteEntry, r.entries)

\* What the two BGP4MP records begin with.
PeersLen(r)   == 12 + 2 * (IF IsIPv4(r.peerIP) THEN 4 ELSE 16)
WritePeers(r) == r.peerAS \o r.localAS \o r.iface \o
    IF IsIPv4(r.peerIP) THEN U16(AFI_IPV4) \o To4(r.peerIP) \o To4(r.localIP)
                        ELSE U16(AFI_IPV6) \o r.peerIP \o r.localIP

RecordLen(r) ==
    CASE r.type = "MESSAGE"      -> PeersLen(r) + LenPacket(r.message)
      [] r.type = "STATE_CHANGE" -> PeersLen(r) + 4
      [] r.type = "PEER_INDEX"   -> PeerIndexLen(r)
      [] r.type = "RIB"          -> RibLen(r)
WriteRecord(r) ==
    CASE r.type = "MESSAGE" ->
            WriteCommonHeader(r.time, TYPE_BGP4MP, MESSAGE_AS4, RecordLen(r))
                \o WritePeers(r) \o WritePacket(r.message)
      [] r.type = "STATE_CHANGE" ->
            WriteCommonHeader(r.time, TYPE_BGP4MP, STATE_CHANGE_AS4, RecordLen(r))
                \o WritePeers(r) \o r.states
      [] r.type = "PEER_INDEX" ->
            WriteCommonHeader(r.time, TYPE_TABLE_DUMPV2, PEER_INDEX_TABLE, RecordLen(r))
                \o WritePeerIndex(r)
      [] r.type = "RIB" ->
            WriteCommonHeader(r.time, TYPE_TABLE_DUMPV2, GetSubtype(r), RecordLen(r))
                \o WriteRib(r)

\* ConvertToUpdateIndex: the UPDATE that announces an entry.  What it appends to the prefixes of
\* an MP_REACH of the entry is lost, since it appends to a copy.
GetAfiTo16(n) == AFI_IPV6   \* mutant: To16 is asked before To4
GetAfi(n) == IF IsIPv4(n.ip) THEN AFI_IPV4 ELSE AFI_IPV6
ConvertToUpdateIndex(r, k) ==
    LET attrs    == r.entries[k].attrs
        hasReach == \E j \in DOMAIN attrs : attrs[j].code = REACH /\ ~Pointer(attrs[j])
        reach    == [code |-> REACH, pointer |-> TRUE, afi |-> 0, safi |-> 0, nextHop |-> <<>>,
                     nlri |-> <<r.nlri>>, addPath |-> FALSE] IN
    [type |-> "UPDATE", withdrawn |-> <<>>, addPath |-> FALSE,
     nlri  |-> IF GetAfi(r.nlri) = AFI_IPV4 THEN <<r.nlri>> ELSE <<>>,
     attrs |-> IF GetAfi(r.nlri) = AFI_IPV6 /\ ~hasReach THEN Append(attrs, reach) ELSE attrs]

-----------------------------------------------------------------------------
(* Decoding.  A step reads several fields one after the other with the      *)
(* byteReader, then advances it.  Once a read has not fitted the reader      *)
(* gives zeros.                                                             *)

Field(o, n) == IF ~eof /\ pos + o + n <= RecSize
               THEN SubSeq(content, pos + o + 1, pos + o + n) ELSE Zeros(n)
ReadUint8(o)  == Field(o, 1)[1]
ReadUint16(o) == 256 * Field(o, 2)[1] + Field(o, 2)[2]
AdvanceAlways(n) == pos' = pos + n /\ eof' = (eof \/ pos + n > RecSize)   \* mutant
Advance(n) ==
    IF ~eof /\ pos + n <= RecSize THEN pos' = pos + n /\ eof' = FALSE
                                       ELSE pos' = pos     /\ eof' = TRUE

\* r with one more field.
With(r, field, value) == [f \in DOMAIN r \cup {field} |-> IF f = field THEN value ELSE r[f]]

\* The record becomes r and its decoding goes on at l.
Goto(l, r) == pc' = l /\ rec' = r

reader == <<content, pos, eof>>
nested == <<b, session, i, locals, msg>>   \* what only the decoders of messages use

\* The length of a record has 4 bytes.
RecordLength == IF At(8) > 0 THEN MaxMrtLength + 1 ELSE 65536 * At(9) + Uint16(10)

\* DecodeSingle: b is what the stream has.
DecodeSingle ==
    LET type    == Uint16(4)
        subtype == Uint16(6)
        length  == RecordLength IN
    /\ pc = "start" /\ source = "mrt"
    /\ IF Size < 12 \/ length > MaxMrtLength \/ 12 + length > Size THEN Fail
       ELSE /\ content' = SubSeq(b, 13, 12 + length) /\ pos' = 0 /\ eof' = FALSE
            /\ rec' = [time |-> Bytes(0, 4), subtype |-> subtype]
            /\ pc' = CASE type = TYPE_BGP4MP /\ subtype = MESSAGE_AS4 -> "message"
                       [] type = TYPE_BGP4MP /\ subtype = STATE_CHANGE_AS4 -> "stateChange"
                       [] type = TYPE_BGP4MP /\ subtype \notin {MESSAGE_AS4, STATE_CHANGE_AS4} -> "nil"
                       [] type = TYPE_TABLE_DUMPV2 /\ subtype = PEER_INDEX_TABLE -> "peerIndex"
                       [] type = TYPE_TABLE_DUMPV2 /\ subtype = RIB_GENERIC -> "generic"
                       [] type = TYPE_TABLE_DUMPV2 /\ subtype \in DOMAIN RibSubtype -> "rib"
                       [] type = TYPE_TABLE_DUMP -> "tableDump"
                       [] OTHER -> "error"
            /\ UNCHANGED <<nested, source, left, first>>

\* Both BGP4MP records begin with the AS numbers, the interface, the AFI and two addresses.
SizeIP == IF ReadUint16(10) = AFI_IPV6 THEN 16 ELSE 4
Peers(type) == [type |-> type, time |-> rec.time, peerAS |-> Field(0, 4), localAS |-> Field(4, 4),
                iface |-> Field(8, 2), peerIP |-> Field(12, SizeIP),
                localIP |-> Field(12 + SizeIP, SizeIP)]

\* decodeBGP4MP of a message: the record is returned with the message or its error.
DecodeMessage ==
    LET header  == 12 + 2 * SizeIP
        message == Field(header, RecSize - header) IN
    /\ pc = "message"
    /\ IF RecSize < header THEN Fail
       ELSE /\ Advance(RecSize)
            /\ IF ~ParsePacketHeader(message) \/ GetBGPHeaderLen + BodyLen(message) > Len(message)
               THEN pc' = "error" /\ msg' = Nil /\ UNCHANGED <<b, session, i, locals, rec>>
               ELSE /\ ParsePacket(message[19], SubSeq(message, 20, 19 + BodyLen(message)), NoOptions)
                    /\ rec' = Peers("MESSAGE")
            /\ UNCHANGED <<content, source, left, first>>

\* decodeBGP4MP of a state change: no read is checked.
DecodeStateChange ==
    /\ pc = "stateChange"
    /\ rec' = With(Peers("STATE_CHANGE"), "states",
                   Field(12 + 2 * SizeIP, 2) \o Field(14 + 2 * SizeIP, 2))
    /\ pc' = "done" /\ Advance(16 + 2 * SizeIP)
    /\ UNCHANGED <<nested, content, source, left, first>>

\* decodeBGP4TD2 of a peer index table, and one round of its loop over the peers.
DecodePeerIndex ==
    LET n == ReadUint16(4) IN
    /\ pc = "peerIndex"
    /\ Goto("peers", [type |-> "PEER_INDEX", time |-> rec.time, collector |-> Field(0, 4),
                      view |-> Field(6, n), peers |-> <<>>])
    /\ left' = ReadUint16(6 + n) /\ Advance(8 + n)
    /\ UNCHANGED <<nested, content, source, first>>

DecodePeer ==
    LET type    == ReadUint8(0)
        sizeIP  == IF type % 2 = 1 THEN 16 ELSE 4
        sizeASN == IF (type \div 2) % 2 = 1 THEN 4 ELSE 2 IN
    /\ pc = "peers"
    /\ IF left = 0 THEN pc' = "done" /\ UNCHANGED <<nested, caller>>
       ELSE /\ rec' = [rec EXCEPT !.peers = Append(@,
                  [id |-> Field(1, 4), ip |-> Field(5, sizeIP),
                   asn |-> Zeros(4 - sizeASN) \o Field(5 + sizeIP, sizeASN)])]
            /\ left' = left - 1 /\ Advance(5 + sizeIP + sizeASN)
            /\ UNCHANGED <<nested, pc, content, source, first>>

\* The prefix of a RIB record is decoded by ParseNLRI in a slice of its own.
CallPrefix(o, afi) ==
    LET size == (ReadUint8(o) + 7) \div 8 IN
    /\ b' = <<ReadUint8(o)>> \o Field(o + 1, size) /\ Advance(o + 1 + size)
    /\ CallParseNLRI(0, 1 + size, afi, FALSE, "prefix")
    /\ UNCHANGED <<session, attrsEnd, attrEnd, attr, msg, content, source, left, first>>

Rib(afi, safi, asAfiSafi, addPath) ==
    [type |-> "RIB", time |-> rec.time, seq |-> Field(0, 4), afi |-> afi, safi |-> safi,
     asAfiSafi |-> asAfiSafi, addPath |-> addPath, nlri |-> Nil, entries |-> <<>>]

DecodeRibSpec ==
    LET t == RibSubtype[rec.subtype] IN
    /\ pc = "rib"
    /\ rec' = Rib(t.afi, t.safi, TRUE, t.addPath)
    /\ CallPrefix(4, t.afi)

\* The AFI and SAFI of a generic record are read after the sequence number.
DecodeRibGeneric ==
    LET afi  == ReadUint16(4)
        safi == ReadUint8(6) IN
    /\ pc = "generic"
    /\ rec' = Rib(afi, safi, FALSE, FALSE)
    /\ IF afi \in {AFI_IPV4, AFI_IPV6} /\ safi \in {SAFI_UNICAST, SAFI_MULTICAST}
       THEN CallPrefix(7, afi)
       ELSE pc' = "error" /\ Advance(7) /\ UNCHANGED <<nested, content, source, left, first>>

\* Exactly one prefix must have been decoded.
PrefixDecoded ==
    /\ pc = "prefix"
    /\ IF Len(nlri.list) # 1 \/ failed THEN pc' = "error" /\ UNCHANGED <<nested, caller>>
       ELSE /\ Goto("entries", [rec EXCEPT !.nlri = nlri.list[1]])
            /\ failed' = FALSE /\ left' = ReadUint16(0) /\ Advance(2)
            /\ UNCHANGED <<b, session, i, end, attrsEnd, attrEnd, nlri, attr, msg, content, source,
                           first>>

\* The attributes of n bytes at offset o are decoded in a slice of their own.
CallAttributes(o, n, enc2bytes, ret) ==
    /\ b' = Field(o, n) /\ Advance(o + n)
    /\ session' = [NoOptions EXCEPT !.enc2bytes = enc2bytes]
    /\ msg' = [attrs |-> <<>>]
    /\ CallParsePathAttribute(0, n, ret)
    /\ UNCHANGED <<end, attrEnd, nlri, failed, content, source, first>>

\* decodeRibEntries and decodeRibEntriesAddPath, which drops the path identifier.  When the
\* loop ends only the error of the last entry is returned.
DecodeEntry ==
    LET skip == IF rec.addPath THEN 4 ELSE 0 IN
    /\ pc = "entries"
    /\ IF left = 0 THEN pc' = (IF failed THEN "partial" ELSE "done") /\ UNCHANGED <<nested, caller>>
       ELSE /\ rec' = [rec EXCEPT !.entries = Append(@, [peer |-> Field(0, 2), time |-> Field(2, 4)])]
            /\ left' = left - 1
            /\ CallAttributes(8 + skip, ReadUint16(6 + skip), FALSE, "entry")

EntryDecoded ==
    /\ pc = "entry"
    /\ Goto("entries", [rec EXCEPT !.entries[Len(rec.entries)] =
                           [peer |-> @.peer, time |-> @.time, attrs |-> msg.attrs]])
    /\ UNCHANGED <<nested, reader, source, left, first>>

\* decodeBGP4TD1: the mask of a host prefix is one bit shorter.
TableDumpMask(size, bits) == Mask(size)[IF bits >= 8 * size THEN 8 * size - 1 ELSE bits]
DecodeTableDump ==
    LET size == CASE rec.subtype = AFI_IPV4 -> 4 [] rec.subtype = AFI_IPV6 -> 16 [] OTHER -> 0
        mask == IF size = 0 THEN <<>> ELSE TableDumpMask(size, ReadUint8(4 + size))
        rest == 6 + size IN
    /\ pc = "tableDump"
    /\ rec' = [type |-> "TABLE_DUMP", time |-> rec.time, view |-> Field(0, 2), seq |-> Field(2, 2),
               prefix |-> [ip |-> Field(4, size), mask |-> mask], origin |-> Field(rest, 4),
               peerIP |-> Field(rest + 4, size), peerAS |-> Field(rest + 4 + size, 2),
               attrs |-> Nil]
    /\ left' = left
    /\ CallAttributes(rest + 8 + size, ReadUint16(rest + 6 + size), TRUE, "tableDumpAttributes")

TableDumpDecoded ==
    /\ pc = "tableDumpAttributes"
    /\ IF failed THEN pc' = "error" /\ UNCHANGED rec
                 ELSE Goto("done", [rec EXCEPT !.attrs = msg.attrs])
    /\ UNCHANGED <<nested, reader, source, left, first>>

MrtNext ==
    \/ DecodeSingle \/ DecodeMessage \/ DecodeStateChange
    \/ DecodePeerIndex \/ DecodePeer
    \/ DecodeRibSpec \/ DecodeRibGeneric \/ PrefixDecoded \/ DecodeEntry \/ EntryDecoded
    \/ DecodeTableDump \/ TableDumpDecoded
=============================================================================
