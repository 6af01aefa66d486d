-------------------------------- MODULE Codec -------------------------------
(***************************************************************************)
(* A program that decodes one input and may write what it got and decode   *)
(* that again: the flow of the fuzz tests of both packages.                *)
(***************************************************************************)
EXTENDS Mrt

CONSTANT Inputs   \* what may arrive: by whom it is decoded, with which options, and the bytes

ASSUME InputsAssumption ==
    \A input \in Inputs :
        /\ input.source \in {"socket", "packet", "mrt"}
        /\ input.session.enc2bytes \in BOOLEAN
        /\ input.bytes \in Seq(Byte)

Init ==
    \E input \in Inputs :
        /\ b = input.bytes /\ session = input.session /\ source = input.source
        /\ pc = "start" /\ i = 0 /\ msg = Nil
        /\ end = 0 /\ attrsEnd = 0 /\ attrEnd = 0 /\ failed = FALSE
        /\ nlri = [size |-> 4, path |-> FALSE, list |-> <<>>, ret |-> "none"]
        /\ attr = [ret |-> "none"]
        /\ content = <<>> /\ pos = 0 /\ eof = FALSE /\ rec = Nil /\ left = 0 /\ first = Nil

Decode == PacketNext \/ MrtNext

\* What the decoder returned.
Result ==
    CASE source # "mrt" -> msg
      [] source = "mrt" /\ rec.type = "MESSAGE" -> With(rec, "message", msg)
      [] source = "mrt" /\ rec.type = "RIB" -> [f \in DOMAIN rec \ {"addPath"} |-> rec[f]]
      [] OTHER -> rec

\* s is decoded next.
DecodeAgain(s) ==
    /\ b' = s /\ pc' = "start" /\ i' = 0 /\ msg' = Nil /\ rec' = Nil
    /\ UNCHANGED <<session, locals, content, pos, eof, left>>

\* The result is written.  The writer of TABLE_DUMP records ends the program instead.
Rewrite ==
    /\ pc = "done" /\ first = Nil /\ Result.type # "TABLE_DUMP"
    /\ first' = Result
    /\ DecodeAgain(IF source = "mrt" THEN WriteRecord(Result) ELSE WritePacket(Result))
    /\ UNCHANGED source

\* ConvertToUpdate: an UPDATE for every entry of a RIB record.
Convert ==
    /\ pc = "done" /\ first = Nil /\ source = "mrt" /\ rec.type = "RIB"
    /\ \E k \in DOMAIN rec.entries :
        /\ first' = [type |-> "CONVERTED", nlri |-> rec.nlri, attrs |-> rec.entries[k].attrs,
                     message |-> ConvertToUpdateIndex(rec, k)]
        /\ DecodeAgain(WritePacket(ConvertToUpdateIndex(rec, k)))
    /\ source' = "packet"

Next == Decode \/ Rewrite \/ Convert
Spec == Init /\ [][Next]_vars /\ WF_vars(Decode)

-----------------------------------------------------------------------------
PCs == {"start", "open", "param", "capa", "update", "withdrawn", "attributes", "prefixes", "nlri",
        "attrs", "attr", "aspath", "reach", "unreach", "notification", "keepalive",
        "message", "stateChange", "peerIndex", "peers", "rib", "generic", "prefix", "entries",
        "entry", "tableDump", "tableDumpAttributes", "done", "partial", "error", "nil", "panic"}

\* The type invariant: the decoder is always at a position of its slice, and the byteReader at
\* one of its record.
TypeOK ==
    /\ pc \in PCs /\ source \in {"socket", "packet", "mrt"} /\ failed \in BOOLEAN /\ eof \in BOOLEAN
    /\ b \in Seq(Byte) /\ i \in 0 .. Size
    /\ end \in Nat /\ attrsEnd \in Nat /\ attrEnd \in Nat
    /\ content \in Seq(Byte) /\ pos \in 0 .. RecSize /\ left \in Nat /\ left <= MaxUint16

\* Whatever the bytes, no decoder reads or slices outside of what it was given: the length
\* checks of ParseOpen, ParseUpdate, ParsePathAttribute and ParseNLRI, some of which are off
\* from what is read after them, together suffice.
NoPanic == pc # "panic"

-----------------------------------------------------------------------------
(* What is written can be decoded.                                          *)

\* An AGGREGATOR whose size did not fit the session has no Identifier: Len counts it, Write does
\* not write it.
Sound(attrs) == \A k \in DOMAIN attrs : attrs[k].code = AGGREGATOR => Len(attrs[k].id) = 4

\* The lengths of m fit the fields they are written to.
Fits(m) ==
    /\ LenPacket(m) <= MaxMessage
    /\ m.type = "OPEN" => LenParams(m) <= 255
    /\ m.type = "UPDATE" => Sound(m.attrs)

\* Attributes that the decoder gets back as they were.  Lost otherwise: the extended-length flag
\* of a short unknown attribute, a segment of 255 AS numbers or none, an AGGREGATOR or an
\* MP_UNREACH in a session with 2-byte AS numbers or add-path, a next hop of an odd length.
Faithful(attrs, options) ==
    \A k \in DOMAIN attrs : LET a == attrs[k] IN
        CASE a.code = ASPATH     -> \A j \in DOMAIN a.segments : Len(a.segments[j].path) \in 1 .. 254
          [] a.code = AGGREGATOR -> Len(a.id) = 4 /\ ~options.enc2bytes
          [] a.code = REACH      -> Len(a.nextHop) \in {0, 4, 16} /\ ~Mapped(a.nextHop)
          [] a.code = UNREACH    -> <<a.afi, a.safi>> \notin options.addPath
          [] a.code \notin Decoded -> (Extended(a.flag) = 1) = (Len(a.data) > 255)
          [] OTHER -> TRUE

\* For whatever a decoder accepts, Len is the number of bytes Write writes, so that the headers
\* computed from it are right: all but RIB_GENERIC records, whose Len is one short.
LenExact ==
    pc = "done" /\ first = Nil =>
        CASE source # "mrt" /\ Fits(msg) -> Len(WritePacket(msg)) = LenPacket(msg)
          [] source = "mrt" /\ rec.type = "PEER_INDEX" ->
                Len(WriteRecord(rec)) = 12 + RecordLen(rec)
          [] source = "mrt" /\ rec.type \in {"STATE_CHANGE", "MESSAGE"} ->
                ~Mapped(rec.peerIP) /\ (rec.type = "MESSAGE" => Fits(msg))
                    => Len(WriteRecord(Result)) = 12 + RecordLen(Result)
          [] source = "mrt" /\ rec.type = "RIB" ->
                (\A k \in DOMAIN rec.entries : Sound(rec.entries[k].attrs))
                    => Len(WriteRecord(Result)) = 12 + RecordLen(Result)
                                                    + (IF Generic(rec) THEN 1 ELSE 0)
          [] OTHER -> TRUE

\* FuzzParseRoundTrip: a message that was accepted and is written is accepted again, when its
\* lengths fit their fields.
RewrittenIsAccepted ==
    Final /\ first # Nil /\ source # "mrt" /\ first.type # "CONVERTED" /\ Fits(first) => pc = "done"

\* It is the same message, when its attributes are faithful.
RoundTrip ==
    /\ Final /\ first # Nil /\ source # "mrt" /\ first.type # "CONVERTED" /\ Fits(first)
    /\ first.type = "UPDATE" => Faithful(first.attrs, session)
    => msg = first

\* The lengths of r fit: AS_PATH segments that announce more AS numbers than there are, and peers
\* that are not there, make a record longer than it was read.
RecordFits(r) ==
    /\ RecordLen(r) <= MaxMrtLength
    /\ r.type = "MESSAGE" => Fits(r.message)
    /\ r.type = "RIB" => \A k \in DOMAIN r.entries :
                             Sum(EntryAttributeLen, r.entries[k].attrs) <= MaxUint16

\* What is not lost of r: all but an address that is written as one of IPv4, a peer with a 4-byte
\* AS number, a RIB without subtype, and what is not faithful.
FaithfulRecord(r) ==
    CASE r.type = "MESSAGE" ->
              ~Mapped(r.peerIP) /\ (r.message.type = "UPDATE" => Faithful(r.message.attrs, NoOptions))
      [] r.type = "STATE_CHANGE" -> ~Mapped(r.peerIP)
      [] r.type = "PEER_INDEX" -> \A k \in DOMAIN r.peers : Short(r.peers[k].asn) /\ ~Mapped(r.peers[k].ip)
      [] r.type = "RIB" ->
              ~Generic(r) /\ \A k \in DOMAIN r.entries : Faithful(r.entries[k].attrs, NoOptions)

\* An MRT record that was accepted and is written is accepted again and the same, when its lengths
\* fit and nothing in it is lost.
MrtRoundTrip ==
    Final /\ first # Nil /\ source = "mrt" /\ FaithfulRecord(first) /\ RecordFits(first)
        => pc = "done" /\ Result = first

\* The UPDATE converted from an entry of an IPv4 RIB announces its prefix with its attributes.
ConvertedAnnounces ==
    /\ Final /\ first # Nil /\ first.type = "CONVERTED"
    /\ Fits(first.message) /\ Faithful(first.attrs, NoOptions) /\ Len(first.nlri.ip) = 4
    => pc = "done" /\ msg.nlri = <<first.nlri>> /\ msg.attrs = first.attrs

\* The number of attributes in b[from .. to - 1], or -1 when they do not end at to.
AttributeCount(from, to) ==
    LET count[k \in 0 .. to] ==
            LET start  == k + 3 + Extended(At(k))
                length == IF Extended(At(k)) = 1 THEN Uint16(k + 2) ELSE At(k + 2)
                rest   == IF start + length <= to THEN count[start + length] ELSE -1 IN
            IF k = to THEN 0 ELSE IF rest = -1 THEN -1 ELSE rest + 1 IN
    count[from]

\* An UPDATE returned without an error accounts for all its bytes: both lists of prefixes are as
\* long as their slices and there is an attribute for every header.  When it is returned with
\* an error but announces prefixes, as the default handler passes it on to UpdateRib, its
\* attributes are complete.
NothingSkipped ==
    pc \in {"done", "partial"} /\ source # "mrt" /\ msg.type = "UPDATE" =>
        LET attrs == Uint16(0) + 4
            n     == AttributeCount(attrs, attrs + Uint16(attrs - 2)) IN
        /\ pc = "done" \/ msg.nlri # <<>> => n = Len(msg.attrs)
        /\ pc = "done" => /\ LenNLRIs(msg.withdrawn, msg.addPath) = Uint16(0)
                          /\ LenNLRIs(msg.nlri, msg.addPath) = Size - attrs - Uint16(attrs - 2)

\* Every round of every loop of the decoders of messages gets ahead in the slice, and none
\* goes back.
LoopsAdvance ==
    [][~Final /\ UNCHANGED caller /\ pc' # "panic" => i' >= i /\ (pc' = pc => i' > i)]_vars

\* Every input is decoded in the end, and so is what is written.
Decodes == []<>Final
=============================================================================
