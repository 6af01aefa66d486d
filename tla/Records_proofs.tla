---------------------------- MODULE Records_proofs ----------------------------
(***************************************************************************)
(* The records of an MRT file that are written are decoded again as they   *)
(* were: each is followed through the byteReader, and the message of a     *)
(* record and the attributes of an entry through their own decoders.       *)
(***************************************************************************)
EXTENDS RoundTrip_proofs

-----------------------------------------------------------------------------
(* What a record holds.                                                     *)

\* At position k of the record is s.
Holds(k, s) == k + Len(s) <= RecSize /\ \A j \in 1 .. Len(s) : content[k + j] = s[j]

\* The record is at its beginning.
LEMMA HoldsAll == ASSUME content \in Seq(Byte) PROVE Holds(0, content)
<1>1. Len(content) \in Nat
  OBVIOUS
<1>2. \A j \in 1 .. Len(content) : content[0 + j] = content[j]
  OBVIOUS
<1> QED BY <1>1, <1>2 DEF Holds, RecSize

\* One after the other.
LEMMA HoldsBoth ==
    ASSUME content \in Seq(Byte), NEW k \in Nat, NEW x \in Seq(Byte), NEW y \in Seq(Byte), Holds(k, x \o y)
    PROVE  Holds(k, x) /\ Holds(k + Len(x), y)
<1> DEFINE z == x \o y
<1>1. /\ Len(x) \in Nat /\ Len(y) \in Nat /\ Len(z) = Len(x) + Len(y) /\ RecSize \in Nat
      /\ \A j \in 1 .. Len(x) : z[j] = x[j]
      /\ \A j \in 1 .. Len(y) : z[Len(x) + j] = y[j]
  BY DEF RecSize
<1> HIDE DEF z
<1>2. Holds(k, z)
  BY DEF z
<1>3. k + Len(z) <= RecSize /\ \A j \in 1 .. Len(z) : content[k + j] = z[j]
  BY <1>2, Zenon DEF Holds
<1>4. \A j \in 1 .. Len(x) : content[k + j] = x[j]
  BY ONLY <1>1, <1>3
<1>5. \A j \in 1 .. Len(y) : content[(k + Len(x)) + j] = y[j]
  <2> TAKE j \in 1 .. Len(y)
  <2>1. Len(x) + j \in 1 .. Len(z) /\ k + (Len(x) + j) = (k + Len(x)) + j
    BY ONLY <1>1, j \in 1 .. Len(y), k \in Nat
  <2>2. content[k + (Len(x) + j)] = z[Len(x) + j] /\ z[Len(x) + j] = y[j]
    BY <1>1, <1>3, <2>1, Zenon
  <2> QED BY <2>1, <2>2
<1>6. k + Len(x) <= RecSize /\ (k + Len(x)) + Len(y) <= RecSize
  BY ONLY <1>1, <1>3, k \in Nat
<1> QED BY <1>4, <1>5, <1>6, Zenon DEF Holds

\* A word of a concatenation, and where the next one is.
LEMMA HoldsWord ==
    ASSUME content \in Seq(Byte), NEW base \in Nat, NEW t \in Seq(Seq(Byte)), NEW n \in 0 .. Len(t) - 1,
           Holds(base, FlattenSeq(t))
    PROVE  Holds(base + Upto(t, n), t[n + 1])
<1> DEFINE k == n + 1
<1>0. k \in 1 .. Len(t) /\ k - 1 = n /\ t[k] \in Seq(Byte)
  <2>1. Len(t) \in Nat
    OBVIOUS
  <2>2. k \in 1 .. Len(t) /\ k - 1 = n
    BY <2>1
  <2> HIDE DEF k
  <2> QED BY <2>2
<1> HIDE DEF k
<1>1. /\ Upto(t, n) \in Nat /\ Len(t[k]) \in Nat /\ Upto(t, n) + Len(t[k]) <= Len(FlattenSeq(t))
      /\ Len(FlattenSeq(t)) \in Nat
      /\ \A j \in 1 .. Len(t[k]) : FlattenSeq(t)[Upto(t, n) + j] = t[k][j]
  <2>1. /\ Upto(t, k - 1) \in Nat /\ Upto(t, k) \in Nat /\ Len(t[k]) \in Nat
        /\ Upto(t, k) = Upto(t, k - 1) + Len(t[k]) /\ Upto(t, k) <= Upto(t, Len(t)) /\ Upto(t, Len(t)) \in Nat
    BY <1>0, WordFits, Zenon
  <2>2. Upto(t, Len(t)) = Len(FlattenSeq(t))
    BY UptoSteps, Zenon
  <2>3. \A j \in 1 .. Len(t[k]) : FlattenSeq(t)[Upto(t, k - 1) + j] = t[k][j]
    BY <1>0, WordAt, Zenon
  <2> QED BY <1>0, <2>1, <2>2, <2>3, Zenon
<1>2. PICK u, l, v, x : u = Upto(t, n) /\ l = Len(t[k]) /\ v = FlattenSeq(t) /\ x = t[k]
  OBVIOUS
<1>3. base + Len(v) <= RecSize /\ \A j \in 1 .. Len(v) : content[base + j] = v[j]
  BY <1>2, Zenon DEF Holds
<1>4. u \in Nat /\ l \in Nat /\ u + l <= Len(v) /\ Len(v) \in Nat /\ \A j \in 1 .. l : v[u + j] = x[j]
  BY <1>1, <1>2, Zenon
<1>5. RecSize \in Nat
  BY DEF RecSize
<1>6. base + u + l <= RecSize
  BY ONLY <1>3, <1>4, <1>5, base \in Nat
<1>7. \A j \in 1 .. l : content[base + u + j] = x[j]
  <2> TAKE j \in 1 .. l
  <2>1. u + j \in 1 .. Len(v) /\ base + (u + j) = base + u + j
    BY ONLY <1>4, j \in 1 .. l, base \in Nat
  <2>2. content[base + (u + j)] = v[u + j] /\ v[u + j] = x[j]
    BY <1>3, <1>4, <2>1, Zenon
  <2> QED BY <2>1, <2>2
<1>8. Len(x) = l
  BY <1>2
<1>9. Holds(base + u, x)
  BY <1>6, <1>7, <1>8, Zenon DEF Holds
<1> QED BY <1>2, <1>9, Zenon DEF k

\* Reading it.
LEMMA FieldIs ==
    ASSUME content \in Seq(Byte), pos \in Nat, ~eof, NEW o \in Nat, NEW n \in Nat, NEW s \in Bs(n),
           Holds(pos + o, s)
    PROVE  Field(o, n) = s /\ pos + o + n <= RecSize
<1>1. s \in Seq(Byte) /\ Len(s) = n /\ RecSize \in Nat /\ RecSize = Len(content)
  BY DEF Bs, RecSize
<1>2. pos + o + n <= RecSize /\ \A j \in 1 .. n : content[(pos + o) + j] = s[j]
  BY <1>1, Zenon DEF Holds
<1>3. PICK p \in Nat : p = pos + o
  OBVIOUS
<1>4. p + n <= Len(content) /\ \A j \in 1 .. n : content[p + j] = s[j]
  BY <1>1, <1>2, <1>3, Zenon
<1>5. SubSeq(content, p + 1, p + n) = s
  BY <1>4, SliceIs, Zenon
<1>6. Field(o, n) = SubSeq(content, pos + o + 1, pos + o + n)
  BY <1>2, Zenon DEF Field
<1> QED BY <1>2, <1>3, <1>5, <1>6

\* A byte is read as it was written.
LEMMA FieldByte ==
    ASSUME content \in Seq(Byte), pos \in Nat, ~eof, NEW o \in Nat, NEW x \in Byte, Holds(pos + o, <<x>>)
    PROVE  ReadUint8(o) = x
<1>1. PICK n \in Nat : n = 1
  OBVIOUS
<1>2. <<x>> \in Bs(n)
  BY <1>1 DEF Bs
<1>3. Field(o, n) = <<x>>
  BY <1>2, FieldIs, Zenon
<1> QED BY <1>1, <1>3 DEF ReadUint8

\* And a 16-bit number.
LEMMA FieldU16 ==
    ASSUME content \in Seq(Byte), pos \in Nat, ~eof, NEW o \in Nat, NEW x \in Nat, x <= MaxUint16,
           Holds(pos + o, U16(x))
    PROVE  ReadUint16(o) = x
<1>1. PICK n \in Nat : n = 2
  OBVIOUS
<1>2. U16(x) \in Bs(n)
  <2>1. U16(x) \in Seq(Byte) /\ Len(U16(x)) = 2
    BY U16Type
  <2> QED BY <1>1, <2>1 DEF Bs
<1>3. Field(o, n) = U16(x)
  BY <1>2, FieldIs, Zenon
<1>4. 256 * U16(x)[1] + U16(x)[2] = x
  <2>1. U16(x)[1] = (x \div 256) % 256 /\ U16(x)[2] = x % 256
    BY DEF U16
  <2>2. 256 * ((x \div 256) % 256) + (x % 256) = x
    BY DEF MaxUint16
  <2> QED BY <2>1, <2>2
<1> QED BY <1>1, <1>3, <1>4 DEF ReadUint16

\* The record stays.
LEMMA HoldsStays == ASSUME content' = content, NEW k, NEW s PROVE Holds(k, s)' <=> Holds(k, s)
BY Zenon DEF Holds, RecSize

-----------------------------------------------------------------------------
(* The common header of a record.                                           *)

\* The two higher bytes of a length.
HighByte(n) == (n \div 16777216) % 256
MidByte(n)  == (n \div 65536) % 256

\* A length in four bytes.
LEMMA LengthWritten ==
    ASSUME NEW n PROVE U32(n) = <<HighByte(n), MidByte(n)>> \o U16(n)
BY SMT DEF U32, HighByte, MidByte

\* They are bytes.
LEMMA HighBytes == ASSUME NEW n \in Nat PROVE HighByte(n) \in Byte /\ MidByte(n) \in Byte
<1>1. n \div 16777216 \in Nat /\ n \div 65536 \in Nat
  BY SMT
<1>2. PICK x \in Nat, y \in Nat : x = n \div 16777216 /\ y = n \div 65536
  BY <1>1, SMT
<1>3. x % 256 \in Byte /\ y % 256 \in Byte
  BY ByteOf
<1> QED BY <1>2, <1>3, SMT DEF HighByte, MidByte

\* A record is shorter than 2^24 bytes.
LEMMA LengthBytes ==
    ASSUME NEW n \in Nat, n <= MaxMrtLength
    PROVE  /\ HighByte(n) = 0
           /\ 65536 * MidByte(n) + (256 * ((n \div 256) % 256) + (n % 256)) = n
<1>1. PICK q \in Nat, d \in 0 .. 255 : n = 256 * q + d
  <2>1. n \div 256 \in Nat /\ n % 256 \in 0 .. 255 /\ n = 256 * (n \div 256) + (n % 256)
    BY SMT
  <2> QED BY <2>1, SMT
<1>2. PICK p \in Nat, c \in 0 .. 255 : q = 256 * p + c
  <2>1. q \div 256 \in Nat /\ q % 256 \in 0 .. 255 /\ q = 256 * (q \div 256) + (q % 256)
    BY SMT
  <2> QED BY <2>1, SMT
<1>3. n = 65536 * p + 256 * c + d /\ p <= 16
  BY <1>1, <1>2, SMT DEF MaxMrtLength
<1>4. n \div 256 = q /\ n % 256 = d
  BY ONLY <1>1, SMT
<1>5. n \div 65536 = p
  BY ONLY <1>3, p \in Nat, c \in 0 .. 255, d \in 0 .. 255, SMT
<1>6. n \div 16777216 = 0
  BY ONLY <1>3, p \in Nat, c \in 0 .. 255, d \in 0 .. 255, SMT
<1>7. p % 256 = p /\ q % 256 = c
  BY ONLY <1>2, <1>3, SMT
<1>8. HighByte(n) = 0 /\ MidByte(n) = p
  BY <1>5, <1>6, <1>7, SMT DEF HighByte, MidByte
<1> QED BY ONLY <1>3, <1>4, <1>7, <1>8, p \in Nat, c \in 0 .. 255, d \in 0 .. 255, SMT

\* What DecodeSingle reads.
LEMMA HeaderRead ==
    ASSUME b \in Seq(Byte), NEW time \in Bs(4), NEW type \in Nat, type <= MaxUint16,
           NEW subtype \in Nat, subtype <= MaxUint16, NEW body \in Seq(Byte), Len(body) <= MaxMrtLength,
           b = WriteCommonHeader(time, type, subtype, Len(body)) \o body
    PROVE  /\ Uint16(4) = type /\ Uint16(6) = subtype /\ RecordLength = Len(body) /\ Bytes(0, 4) = time
           /\ Size = 12 + Len(body) /\ SubSeq(b, 13, 12 + Len(body)) = body
<1> DEFINE n == Len(body)
           head == WriteCommonHeader(time, type, subtype, n)
           u == U16(type)
           v == U16(subtype)
           low == <<HighByte(n), MidByte(n)>>
           w == U16(n)
<1>0. n \in Nat /\ body \in Bs(n)
  BY DEF Bs
<1>1. head \in Bs(12) /\ head \in Seq(Byte) /\ Len(head) = 12
  <2>1. head \in Bs(12)
    BY <1>0, CommonHeaderLen
  <2> HIDE DEF head
  <2> QED BY <2>1 DEF Bs
<1>2. Size = 12 + n /\ SubSeq(b, 13, 12 + n) = body
  <2>1. PICK k \in Nat : k = 12
    OBVIOUS
  <2> HIDE DEF head, n
  <2>2. head \in Bs(k)
    BY <1>1, <2>1
  <2>3. b = head \o body
    BY DEF head, n
  <2>4. Len(b) = k + n /\ SubSeq(b, k + 1, k + n) = body
    <3>1. Len(head \o body) = k + n /\ SubSeq(head \o body, k + 1, k + n) = body
      BY <1>0, <2>2, PartsOf
    <3> QED BY <2>3, <3>1, Zenon
  <2> QED BY <2>1, <2>4 DEF Size
<1>3. /\ u \in Seq(Byte) /\ Len(u) = 2 /\ v \in Seq(Byte) /\ Len(v) = 2 /\ w \in Seq(Byte) /\ Len(w) = 2
      /\ time \in Seq(Byte) /\ Len(time) = 4 /\ low \in Seq(Byte) /\ Len(low) = 2
  <2>1. time \in Seq(Byte) /\ Len(time) = 4
    BY DEF Bs
  <2>2. low \in Seq(Byte) /\ Len(low) = 2
    <3>1. HighByte(n) \in Byte /\ MidByte(n) \in Byte
      <4> HIDE DEF n
      <4> QED BY <1>0, HighBytes, Zenon
    <3> QED BY <3>1, TwoBytesOf
  <2> HIDE DEF n, low
  <2> QED BY <1>0, <2>1, <2>2, U16Type
<1>4. head = ((time \o u) \o v) \o (low \o w)
  <2>1. U32(n) = low \o w
    BY LengthWritten, Zenon
  <2> QED BY <2>1, Zenon DEF WriteCommonHeader
<1>5. Has(0, head)
  <2>1. Has(0, b) /\ b = head \o body
    BY HasAll
  <2> HIDE DEF head
  <2> QED BY <1>0, <1>1, <2>1, HasBoth
<1> HIDE DEF head, n, u, v, low, w
<1>6. /\ time \o u \in Seq(Byte) /\ Len(time \o u) = 6 /\ (time \o u) \o v \in Seq(Byte)
      /\ Len((time \o u) \o v) = 8 /\ low \o w \in Seq(Byte)
  <2>1. time \o u \in Seq(Byte) /\ Len(time \o u) = Len(time) + Len(u) /\ low \o w \in Seq(Byte)
    BY <1>3, Appended, Zenon
  <2>2. (time \o u) \o v \in Seq(Byte) /\ Len((time \o u) \o v) = Len(time \o u) + Len(v)
    BY <1>3, <2>1, Appended, Zenon
  <2> QED BY <1>3, <2>1, <2>2
<1>7. Has(0, (time \o u) \o v) /\ Has(8, low \o w)
  <2>1. Has(0, (time \o u) \o v) /\ Has(0 + Len((time \o u) \o v), low \o w)
    <3>1. Has(0, ((time \o u) \o v) \o (low \o w))
      BY <1>4, <1>5
    <3> QED BY <1>6, <3>1, HasBoth
  <2> QED BY <1>6, <2>1
<1>8. Has(0, time \o u) /\ Has(6, v)
  <2>1. Has(0, time \o u) /\ Has(0 + Len(time \o u), v)
    BY <1>3, <1>6, <1>7, HasBoth
  <2> QED BY <1>6, <2>1
<1>9. Has(0, time) /\ Has(4, u)
  <2>1. Has(0, time) /\ Has(0 + Len(time), u)
    BY <1>3, <1>8, HasBoth
  <2> QED BY <1>3, <2>1
<1>10. Has(8, low) /\ Has(10, w)
  <2>1. Has(8, low) /\ Has(8 + Len(low), w)
    BY <1>3, <1>7, HasBoth
  <2> QED BY <1>3, <2>1
<1>11. Uint16(4) = type /\ Uint16(6) = subtype
  <2>1. Has(4, U16(type)) /\ Has(6, U16(subtype))
    BY <1>8, <1>9 DEF u, v
  <2> QED BY <2>1, HasU16
<1>12. Bytes(0, 4) = time
  BY <1>9, HasBs
<1>13. RecordLength = n
  <2>1. /\ HighByte(n) = 0
        /\ 65536 * MidByte(n) + (256 * ((n \div 256) % 256) + (n % 256)) = n
    <3>1. n <= MaxMrtLength
      BY DEF n
    <3> HIDE DEF n
    <3> QED BY <1>0, <3>1, LengthBytes, SMT
  <2>2. At(8) = HighByte(n) /\ At(9) = MidByte(n)
    <3>1. Has(8, <<HighByte(n), MidByte(n)>>)
      BY <1>10 DEF low
    <3>2. At(8) = HighByte(n) /\ At(8 + 1) = MidByte(n)
      BY <3>1, HasTwo
    <3> QED BY <3>2
  <2>3. At(10) = (n \div 256) % 256 /\ At(11) = n % 256
    <3>1. Has(10, <<(n \div 256) % 256, n % 256>>)
      BY <1>10 DEF w, U16
    <3>2. At(10) = (n \div 256) % 256 /\ At(10 + 1) = n % 256
      BY <3>1, HasTwo
    <3> QED BY <3>2
  <2>4. Uint16(10) = 256 * ((n \div 256) % 256) + (n % 256)
    BY <2>3 DEF Uint16
  <2>5. ~(At(8) > 0)
    BY <2>1, <2>2
  <2>6. RecordLength = 65536 * At(9) + Uint16(10)
    BY <2>5, SMT DEF RecordLength
  <2> QED BY <2>1, <2>2, <2>4, <2>6, SMT
<1> QED BY <1>2, <1>11, <1>12, <1>13 DEF n

\* A record begins to be decoded.
LEMMA RecordBegins ==
    ASSUME DecodeSingle, b \in Seq(Byte), NEW time \in Bs(4), NEW type \in Nat, type <= MaxUint16,
           NEW subtype \in Nat, subtype <= MaxUint16, NEW body \in Seq(Byte), Len(body) <= MaxMrtLength,
           b = WriteCommonHeader(time, type, subtype, Len(body)) \o body
    PROVE  /\ content' = body /\ pos' = 0 /\ ~eof' /\ rec' = [time |-> time, subtype |-> subtype]
           /\ type = TYPE_BGP4MP /\ subtype = MESSAGE_AS4 => pc' = "message"
           /\ type = TYPE_BGP4MP /\ subtype = STATE_CHANGE_AS4 => pc' = "stateChange"
           /\ type = TYPE_TABLE_DUMPV2 /\ subtype = PEER_INDEX_TABLE => pc' = "peerIndex"
           /\ type = TYPE_TABLE_DUMPV2 /\ subtype \in 2 .. 5 => pc' = "rib"
<1>1. /\ Uint16(4) = type /\ Uint16(6) = subtype /\ RecordLength = Len(body) /\ Bytes(0, 4) = time
      /\ Size = 12 + Len(body) /\ SubSeq(b, 13, 12 + Len(body)) = body
  BY HeaderRead, Zenon
<1>2. PICK n \in Nat : n = Len(body)
  OBVIOUS
<1>3. ~(Size < 12) /\ ~(RecordLength > MaxMrtLength) /\ ~(12 + RecordLength > Size)
  <2>1. n \in Nat /\ MaxMrtLength \in Nat /\ n <= MaxMrtLength
    BY <1>2, SMT DEF MaxMrtLength
  <2> QED BY <1>1, <1>2, <2>1
<1>4. /\ content' = SubSeq(b, 13, 12 + RecordLength) /\ pos' = 0 /\ eof' = FALSE
      /\ rec' = [time |-> Bytes(0, 4), subtype |-> Uint16(6)]
  BY <1>3, Zenon DEF DecodeSingle
<1>5. pc' = CASE type = TYPE_BGP4MP /\ subtype = MESSAGE_AS4 -> "message"
              [] type = TYPE_BGP4MP /\ subtype = STATE_CHANGE_AS4 -> "stateChange"
              [] type = TYPE_BGP4MP /\ subtype \notin {MESSAGE_AS4, STATE_CHANGE_AS4} -> "nil"
              [] type = TYPE_TABLE_DUMPV2 /\ subtype = PEER_INDEX_TABLE -> "peerIndex"
              [] type = TYPE_TABLE_DUMPV2 /\ subtype = RIB_GENERIC -> "generic"
              [] type = TYPE_TABLE_DUMPV2 /\ subtype \in DOMAIN RibSubtype -> "rib"
              [] type = TYPE_TABLE_DUMP -> "tableDump"
              [] OTHER -> "error"
  BY <1>1, <1>3, Zenon DEF DecodeSingle
<1>6. /\ TYPE_BGP4MP = 16 /\ TYPE_TABLE_DUMPV2 = 13 /\ TYPE_TABLE_DUMP = 12 /\ MESSAGE_AS4 = 4
      /\ STATE_CHANGE_AS4 = 5 /\ PEER_INDEX_TABLE = 1 /\ RIB_GENERIC = 6
      /\ DOMAIN RibSubtype = {2, 3, 4, 5, 8, 10}
  BY DEF TYPE_BGP4MP, TYPE_TABLE_DUMPV2, TYPE_TABLE_DUMP, MESSAGE_AS4, STATE_CHANGE_AS4, PEER_INDEX_TABLE,
         RIB_GENERIC, RibSubtype
<1>7. /\ type = TYPE_BGP4MP /\ subtype = MESSAGE_AS4 => pc' = "message"
      /\ type = TYPE_BGP4MP /\ subtype = STATE_CHANGE_AS4 => pc' = "stateChange"
      /\ type = TYPE_TABLE_DUMPV2 /\ subtype = PEER_INDEX_TABLE => pc' = "peerIndex"
      /\ type = TYPE_TABLE_DUMPV2 /\ subtype \in 2 .. 5 => pc' = "rib"
  BY ONLY <1>5, <1>6
<1> QED BY <1>1, <1>4, <1>7, Zenon

-----------------------------------------------------------------------------
(* The BGP4MP records.                                                      *)

\* What they begin with.
PeersOf(r) ==
    /\ r.peerAS \in Bs(4) /\ r.localAS \in Bs(4) /\ r.iface \in Bs(2) /\ r.peerIP \in Addresses
    /\ r.localIP \in Addresses /\ Len(r.localIP) = Len(r.peerIP) /\ ~Mapped(r.peerIP)

\* The two addresses, behind their family.
LEMMA AddressesRead ==
    ASSUME content \in Seq(Byte), pos \in Nat, ~eof, NEW r, PeersOf(r), NEW size, size = Len(r.peerIP),
           Holds(pos + 10, IF IsIPv4(r.peerIP) THEN U16(AFI_IPV4) \o To4(r.peerIP) \o To4(r.localIP)
                                                ELSE U16(AFI_IPV6) \o r.peerIP \o r.localIP)
    PROVE  /\ size \in {4, 16} /\ SizeIP = size /\ PeersLen(r) = 12 + 2 * size
           /\ Field(12, size) = r.peerIP /\ Field(12 + size, size) = r.localIP
<1> DEFINE p == r.peerIP
           q == r.localIP
           afi == IF size = 4 THEN AFI_IPV4 ELSE AFI_IPV6
           u == U16(afi)
<1>1. /\ size \in {4, 16} /\ p \in Bs(size) /\ q \in Bs(size) /\ p \in Seq(Byte) /\ q \in Seq(Byte)
      /\ Len(p) = size /\ Len(q) = size
  BY DEF PeersOf, Addresses, Bs
<1>2. IsIPv4(p) <=> size = 4
  BY <1>1 DEF PeersOf, IsIPv4
<1>3. afi \in Nat /\ afi <= MaxUint16 /\ u \in Seq(Byte) /\ Len(u) = 2
  <2>1. afi \in Nat /\ afi <= MaxUint16
    BY DEF AFI_IPV4, AFI_IPV6, MaxUint16
  <2> HIDE DEF afi
  <2> QED BY <2>1, U16Type
<1>4. Holds(pos + 10, (u \o p) \o q)
  <2>1. CASE size = 4
    <3>1. To4(p) = p /\ To4(q) = q
      BY <1>1, <2>1, To4Type
    <3> QED BY <1>2, <2>1, <3>1
  <2>2. CASE size # 4
    BY <1>2, <2>2
  <2> QED BY <2>1, <2>2
<1> HIDE DEF p, q, u, afi
<1>5. Holds(pos + 10, u) /\ Holds(pos + 12, p) /\ Holds(pos + (12 + size), q)
  <2>1. PICK k \in Nat : k = pos + 10
    OBVIOUS
  <2>2. u \o p \in Seq(Byte) /\ Len(u \o p) = 2 + size
    <3>1. u \o p \in Seq(Byte) /\ Len(u \o p) = Len(u) + Len(p)
      BY <1>1, <1>3, Appended, Zenon
    <3> QED BY <1>1, <1>3, <3>1, Zenon
  <2>3. Holds(k, u \o p) /\ Holds(k + Len(u \o p), q)
    <3>1. Holds(k, (u \o p) \o q)
      BY <1>4, <2>1
    <3> QED BY <1>1, <2>2, <3>1, HoldsBoth, Zenon
  <2>4. Holds(k, u) /\ Holds(k + Len(u), p)
    BY <1>1, <1>3, <2>3, HoldsBoth, Zenon
  <2>5. k + Len(u \o p) = pos + (12 + size) /\ k + Len(u) = pos + 12
    BY ONLY <1>1, <1>3, <2>1, <2>2, pos \in Nat
  <2> QED BY <2>1, <2>3, <2>4, <2>5
<1>6. ReadUint16(10) = afi
  <2>1. PICK o \in Nat : o = 10
    OBVIOUS
  <2>2. Holds(pos + o, U16(afi))
    BY <1>5, <2>1 DEF u
  <2> QED BY <1>3, <2>1, <2>2, FieldU16
<1>7. SizeIP = size
  <2>1. afi = AFI_IPV6 <=> size = 16
    <3>1. afi = (IF size = 4 THEN 1 ELSE 2) /\ AFI_IPV6 = 2
      BY DEF afi, AFI_IPV4, AFI_IPV6
    <3> QED BY ONLY <1>1, <3>1
  <2> QED BY <1>1, <1>6, <2>1 DEF SizeIP
<1>8. Field(12, size) = p /\ Field(12 + size, size) = q
  <2>1. 12 \in Nat /\ 12 + size \in Nat /\ size \in Nat
    BY <1>1
  <2> QED BY <1>1, <1>5, <2>1, FieldIs
<1>9. PeersLen(r) = 12 + 2 * size
  <2>1. IsIPv4(r.peerIP) <=> size = 4
    BY <1>2 DEF p
  <2> QED BY <1>1, <2>1 DEF PeersLen
<1> QED BY <1>1, <1>7, <1>8, <1>9 DEF p, q

\* All of it.
LEMMA PeersRead ==
    ASSUME content \in Seq(Byte), pos \in Nat, ~eof, NEW r, PeersOf(r), Holds(pos, WritePeers(r))
    PROVE  /\ SizeIP \in {4, 16} /\ PeersLen(r) = 12 + 2 * SizeIP
           /\ Field(0, 4) = r.peerAS /\ Field(4, 4) = r.localAS /\ Field(8, 2) = r.iface
           /\ Field(12, SizeIP) = r.peerIP /\ Field(12 + SizeIP, SizeIP) = r.localIP
<1> DEFINE x == r.peerAS
           y == r.localAS
           z == r.iface
           rest == IF IsIPv4(r.peerIP) THEN U16(AFI_IPV4) \o To4(r.peerIP) \o To4(r.localIP)
                                       ELSE U16(AFI_IPV6) \o r.peerIP \o r.localIP
<1>1. /\ x \in Bs(4) /\ y \in Bs(4) /\ z \in Bs(2) /\ x \in Seq(Byte) /\ y \in Seq(Byte) /\ z \in Seq(Byte)
      /\ Len(x) = 4 /\ Len(y) = 4 /\ Len(z) = 2
  BY DEF PeersOf, Bs
<1>2. rest \in Seq(Byte)
  <2>1. r.peerIP \in Seq(Byte) /\ r.localIP \in Seq(Byte)
    BY DEF PeersOf, Addresses, Bs
  <2>2. U16(AFI_IPV4) \in Seq(Byte) /\ U16(AFI_IPV6) \in Seq(Byte)
    BY U16Type DEF AFI_IPV4, AFI_IPV6
  <2>3. To4(r.peerIP) \in Seq(Byte) /\ To4(r.localIP) \in Seq(Byte)
    BY <2>1, To4Type, Zenon
  <2>4. U16(AFI_IPV4) \o To4(r.peerIP) \in Seq(Byte) /\ U16(AFI_IPV6) \o r.peerIP \in Seq(Byte)
    BY <2>1, <2>2, <2>3, Appended, Zenon
  <2> QED BY <2>1, <2>3, <2>4, Appended, Zenon
<1>3. WritePeers(r) = ((x \o y) \o z) \o rest
  BY Zenon DEF WritePeers
<1> HIDE DEF rest, x, y, z
<1>4. x \o y \in Seq(Byte) /\ Len(x \o y) = 8 /\ (x \o y) \o z \in Seq(Byte) /\ Len((x \o y) \o z) = 10
  <2>1. x \o y \in Seq(Byte) /\ Len(x \o y) = Len(x) + Len(y)
    BY <1>1, Appended, Zenon
  <2>2. (x \o y) \o z \in Seq(Byte) /\ Len((x \o y) \o z) = Len(x \o y) + Len(z)
    BY <1>1, <2>1, Appended, Zenon
  <2> QED BY <1>1, <2>1, <2>2
<1>5. Holds(pos, (x \o y) \o z) /\ Holds(pos + 10, rest)
  <2>1. Holds(pos, (x \o y) \o z) /\ Holds(pos + Len((x \o y) \o z), rest)
    <3>1. Holds(pos, ((x \o y) \o z) \o rest)
      BY <1>3
    <3> QED BY <1>2, <1>4, <3>1, HoldsBoth, Zenon
  <2> QED BY <1>4, <2>1
<1>6. Holds(pos, x \o y) /\ Holds(pos + 8, z)
  <2>1. Holds(pos, x \o y) /\ Holds(pos + Len(x \o y), z)
    BY <1>1, <1>4, <1>5, HoldsBoth, Zenon
  <2> QED BY <1>4, <2>1
<1>7. Holds(pos + 0, x) /\ Holds(pos + 4, y)
  <2>1. Holds(pos, x) /\ Holds(pos + Len(x), y)
    BY <1>1, <1>6, HoldsBoth, Zenon
  <2> QED BY <1>1, <2>1
<1>8. Field(0, 4) = x /\ Field(4, 4) = y /\ Field(8, 2) = z
  BY <1>1, <1>6, <1>7, FieldIs
<1>9. /\ SizeIP \in {4, 16} /\ PeersLen(r) = 12 + 2 * SizeIP
      /\ Field(12, SizeIP) = r.peerIP /\ Field(12 + SizeIP, SizeIP) = r.localIP
  <2>1. PICK size : size = Len(r.peerIP)
    OBVIOUS
  <2>2. /\ size \in {4, 16} /\ SizeIP = size /\ PeersLen(r) = 12 + 2 * size
        /\ Field(12, size) = r.peerIP /\ Field(12 + size, size) = r.localIP
    BY <1>5, <2>1, AddressesRead, Zenon DEF rest
  <2> QED BY <2>2
<1> QED BY <1>8, <1>9 DEF x, y, z

\* What follows the peers of a BGP4MP record.
LEMMA AfterPeers ==
    ASSUME NEW r, PeersOf(r), NEW body \in Seq(Byte), content = WritePeers(r) \o body, pos = 0, ~eof
    PROVE  /\ content \in Seq(Byte) /\ PeersLen(r) \in Nat /\ RecSize = PeersLen(r) + Len(body)
           /\ SizeIP \in {4, 16} /\ PeersLen(r) = 12 + 2 * SizeIP /\ Holds(PeersLen(r), body)
           /\ Field(0, 4) = r.peerAS /\ Field(4, 4) = r.localAS /\ Field(8, 2) = r.iface
           /\ Field(12, SizeIP) = r.peerIP /\ Field(12 + SizeIP, SizeIP) = r.localIP
<1> DEFINE head == WritePeers(r)
<1>1. PeersLen(r) \in Nat /\ head \in Seq(Byte) /\ Len(head) = PeersLen(r)
  BY WritePeersLen, Zenon DEF PeersOf
<1> HIDE DEF head
<1>2. content = head \o body
  BY DEF head
<1>3. content \in Seq(Byte) /\ Len(content) = Len(head) + Len(body)
  BY <1>1, <1>2, Appended, Zenon
<1>4. Holds(0, head) /\ Holds(0 + Len(head), body)
  <2>1. Holds(0, head \o body) /\ 0 \in Nat
    BY <1>2, <1>3, HoldsAll
  <2> QED BY <1>1, <1>3, <2>1, HoldsBoth, Zenon
<1>5. Holds(PeersLen(r), body)
  BY <1>1, <1>4
<1>6. Holds(pos, WritePeers(r)) /\ pos \in Nat
  BY <1>4 DEF head
<1>7. /\ SizeIP \in {4, 16} /\ PeersLen(r) = 12 + 2 * SizeIP
      /\ Field(0, 4) = r.peerAS /\ Field(4, 4) = r.localAS /\ Field(8, 2) = r.iface
      /\ Field(12, SizeIP) = r.peerIP /\ Field(12 + SizeIP, SizeIP) = r.localIP
  BY <1>3, <1>6, PeersRead, Zenon
<1>8. RecSize = PeersLen(r) + Len(body)
  BY <1>1, <1>3, Zenon DEF RecSize
<1> QED BY <1>1, <1>3, <1>5, <1>7, <1>8, Zenon

\* A state change is decoded as it was.
StateChangeReplay(r) ==
    /\ r \in StateChanges /\ ~Mapped(r.peerIP) /\ pc \in {"stateChange", "done"}
    /\ pc = "stateChange" => content = WritePeers(r) \o r.states /\ pos = 0 /\ ~eof /\ rec.time = r.time
    /\ pc = "done" => rec = r

\* Its decoder returns it.
LEMMA StateChangeGoes ==
    ASSUME DecodeStateChange, NEW r, StateChangeReplay(r)
    PROVE  StateChangeReplay(r)'
<1>1. /\ pc = "stateChange" /\ pc' = "done"
      /\ rec' = With(Peers("STATE_CHANGE"), "states", Field(12 + 2 * SizeIP, 2) \o Field(14 + 2 * SizeIP, 2))
  BY Zenon DEF DecodeStateChange
<1>2. r \in StateChanges /\ ~Mapped(r.peerIP)
  BY DEF StateChangeReplay
<1>3. content = WritePeers(r) \o r.states /\ pos = 0 /\ ~eof /\ rec.time = r.time
  BY <1>1, Zenon DEF StateChangeReplay
<1> DEFINE s == r.states
<1>4. s \in Bs(4) /\ s \in Seq(Byte) /\ Len(s) = 4 /\ PeersOf(r)
  BY <1>2 DEF StateChanges, PeersOf, Bs
<1>5. /\ content \in Seq(Byte) /\ PeersLen(r) \in Nat
      /\ SizeIP \in {4, 16} /\ PeersLen(r) = 12 + 2 * SizeIP /\ Holds(PeersLen(r), s)
      /\ Field(0, 4) = r.peerAS /\ Field(4, 4) = r.localAS /\ Field(8, 2) = r.iface
      /\ Field(12, SizeIP) = r.peerIP /\ Field(12 + SizeIP, SizeIP) = r.localIP
  BY <1>3, <1>4, AfterPeers, Zenon
<1> DEFINE x == SubSeq(s, 1, 2)
           y == SubSeq(s, 3, 4)
<1>6. x \in Bs(2) /\ y \in Bs(2) /\ x \in Seq(Byte) /\ y \in Seq(Byte) /\ Len(x) = 2 /\ s = x \o y
  <2> HIDE DEF s
  <2>1. x \in Seq(Byte) /\ y \in Seq(Byte) /\ Len(x) = 2 /\ Len(y) = 2
    BY <1>4
  <2>2. s = x \o y
    BY <1>4
  <2> QED BY <2>1, <2>2 DEF Bs
<1> HIDE DEF s, x, y
<1>7. Field(12 + 2 * SizeIP, 2) = x /\ Field(14 + 2 * SizeIP, 2) = y
  <2>1. PICK k \in Nat, l \in Nat : k = 12 + 2 * SizeIP /\ l = 14 + 2 * SizeIP
    BY <1>5
  <2>2. Holds(k, x) /\ Holds(k + Len(x), y)
    <3>1. Holds(k, x \o y)
      BY <1>5, <1>6, <2>1
    <3> QED BY <1>5, <1>6, <3>1, HoldsBoth, Zenon
  <2>3. k + Len(x) = pos + l /\ k = pos + k /\ pos \in Nat
    BY <1>3, <1>5, <1>6, <2>1
  <2>4. Holds(pos + k, x) /\ Holds(pos + l, y)
    BY <2>2, <2>3, Zenon
  <2>5. PICK two \in Nat : two = 2
    OBVIOUS
  <2>6. Field(k, two) = x /\ Field(l, two) = y
    BY <1>3, <1>5, <1>6, <2>3, <2>4, <2>5, FieldIs
  <2> QED BY <2>1, <2>5, <2>6
<1>8. rec' = [type |-> "STATE_CHANGE", time |-> r.time, peerAS |-> r.peerAS, localAS |-> r.localAS,
              iface |-> r.iface, peerIP |-> r.peerIP, localIP |-> r.localIP, states |-> s]
  <2>1. Peers("STATE_CHANGE") = [type |-> "STATE_CHANGE", time |-> r.time, peerAS |-> r.peerAS,
             localAS |-> r.localAS, iface |-> r.iface, peerIP |-> r.peerIP, localIP |-> r.localIP]
    BY <1>3, <1>5, Zenon DEF Peers
  <2>2. rec' = With(Peers("STATE_CHANGE"), "states", s)
    BY <1>1, <1>6, <1>7, Zenon
  <2> QED BY ONLY <2>1, <2>2 DEF With
<1>9. rec' = r
  BY ONLY <1>2, <1>8 DEF StateChanges, s
<1>10. pc' \in {"stateChange", "done"} /\ pc' # "stateChange"
  BY <1>1
<1> QED BY <1>2, <1>9, <1>10, Zenon DEF StateChangeReplay

\* The record that is returned with a message.
Unmessaged(r) ==
    [type |-> "MESSAGE", time |-> r.time, peerAS |-> r.peerAS, localAS |-> r.localAS, iface |-> r.iface,
     peerIP |-> r.peerIP, localIP |-> r.localIP]

\* A message is decoded with its record as they were.
OfRecord(r) == MessageReplay(r.message) /\ session = NoOptions /\ rec = Unmessaged(r)
MessageRecordReplay(r) ==
    /\ r \in MessageResults /\ r.message \in CanonicalMessages(NoOptions) /\ Fits(r.message) /\ ~Mapped(r.peerIP)
    /\ pc = "message" => /\ content = WritePeers(r) \o WritePacket(r.message)
                         /\ pos = 0 /\ ~eof /\ rec.time = r.time
    /\ pc # "message" => OfRecord(r)

\* The message of a record begins.
LEMMA RecordedMessageBegins ==
    ASSUME DecodeMessage, NEW r, MessageRecordReplay(r)
    PROVE  MessageRecordReplay(r)'
<1> DEFINE m == r.message
           s == WritePacket(m)
           n == LenContent(m)
<1>1. /\ pc = "message" /\ r \in MessageResults /\ m \in CanonicalMessages(NoOptions) /\ Fits(m) /\ ~Mapped(r.peerIP)
      /\ content = WritePeers(r) \o s /\ pos = 0 /\ ~eof /\ rec.time = r.time
  BY Zenon DEF DecodeMessage, MessageRecordReplay
<1>2. m \in Messages /\ PeersOf(r)
  BY <1>1 DEF MessageResults, PeersOf
<1>3. (m.type = "UPDATE" => Sound(m.attrs)) /\ LenPacket(m) <= MaxMessage
  BY <1>1, Zenon DEF Fits
<1>4. /\ ParsePacketHeader(s) /\ BodyLen(s) = n /\ s \in Seq(Byte) /\ Len(s) = 19 + n
      /\ s[19] = MessageType[m.type] /\ SubSeq(s, 20, 19 + n) = Body(m) /\ n \in Nat
  <2>1. \E t : t = s
    OBVIOUS
  <2>2. n \in Nat
    BY <1>2, <1>3, BodyType, Zenon
  <2> QED BY <1>2, <1>3, <2>1, <2>2, PacketLayout, Zenon
<1>5. /\ content \in Seq(Byte) /\ PeersLen(r) \in Nat /\ RecSize = PeersLen(r) + Len(s)
      /\ SizeIP \in {4, 16} /\ PeersLen(r) = 12 + 2 * SizeIP /\ Holds(PeersLen(r), s)
      /\ Field(0, 4) = r.peerAS /\ Field(4, 4) = r.localAS /\ Field(8, 2) = r.iface
      /\ Field(12, SizeIP) = r.peerIP /\ Field(12 + SizeIP, SizeIP) = r.localIP
  BY <1>1, <1>2, <1>4, AfterPeers, Zenon
<1> HIDE DEF s, n
<1> DEFINE header == 12 + 2 * SizeIP
<1>6. header \in Nat /\ ~(RecSize < header) /\ RecSize - header = Len(s) /\ Len(s) \in Nat
  BY <1>4, <1>5
<1>7. Field(header, RecSize - header) = s
  <2>1. PICK h : h = header
    OBVIOUS
  <2>2. PICK l : l = Len(s)
    OBVIOUS
  <2>3. h \in Nat /\ l \in Nat /\ s \in Bs(l)
    BY <1>4, <1>6, <2>1, <2>2 DEF Bs
  <2>4. Holds(pos + h, s) /\ pos \in Nat
    <3>1. pos + h = PeersLen(r) /\ pos \in Nat
      BY <1>1, <1>5, <2>1
    <3> QED BY <1>5, <3>1, Zenon
  <2>5. Field(h, l) = s
    BY <1>1, <1>5, <2>3, <2>4, FieldIs
  <2> QED BY <1>6, <2>1, <2>2, <2>5, Zenon
<1>8. ~(GetBGPHeaderLen + BodyLen(s) > Len(s))
  BY <1>4 DEF GetBGPHeaderLen
<1>9. ParsePacket(s[19], SubSeq(s, 20, 19 + BodyLen(s)), NoOptions) /\ rec' = Peers("MESSAGE")
  BY <1>4, <1>6, <1>7, <1>8, Zenon DEF DecodeMessage
<1>10. ParsePacket(MessageType[m.type], Body(m), NoOptions)
  BY <1>4, <1>9, Zenon
<1>11. session' = NoOptions /\ MessageReplay(m)'
  <2>1. PICK options : options = NoOptions
    OBVIOUS
  <2>2. PICK body : body = Body(m)
    OBVIOUS
  <2>3. /\ m.type = "OPEN" => pc' = "open" /\ b' = WriteOpen(m)
        /\ m.type = "UPDATE" => pc' = "update" /\ b' = WriteUpdate(m)
        /\ m.type = "NOTIFICATION" => pc' = "notification" /\ b' = WriteNotification(m)
        /\ m.type = "KEEPALIVE" => pc' = "keepalive"
        /\ session' = options
    BY <1>1, <1>2, <1>10, <2>1, <2>2, BodyBegins, Zenon
  <2>4. m \in CanonicalMessages(options)
    BY <1>1, <2>1
  <2>5. MessageReplay(m)'
    BY <1>1, <2>3, <2>4, MessageEntered, Zenon
  <2> QED BY <2>1, <2>3, <2>5
<1>12. rec' = Unmessaged(r)
  BY <1>1, <1>5, <1>9, Zenon DEF Peers, Unmessaged
<1>13. pc' # "message"
  BY <1>11 DEF MessageReplay, OpenReplay, UpdateReplay, NotificationReplay, KeepAliveReplay, InUpdate, InAttributes
<1> QED BY <1>1, <1>11, <1>12, <1>13, Zenon DEF MessageRecordReplay, OfRecord

\* Where a message is decoded.
LEMMA ReplayedAt ==
    ASSUME NEW m, MessageReplay(m)
    PROVE  /\ pc \notin {"start", "message", "stateChange", "peerIndex", "peers", "rib", "generic", "prefix",
                         "entries", "entry", "tableDump", "tableDumpAttributes"}
BY DEF MessageReplay, OpenReplay, UpdateReplay, NotificationReplay, KeepAliveReplay, InUpdate, InAttributes

\* Where the decoders of records are.
LEMMA MrtNextAt ==
    MrtNext => pc \in {"start", "message", "stateChange", "peerIndex", "peers", "rib", "generic", "prefix",
                       "entries", "entry", "tableDump", "tableDumpAttributes"}
BY DEF MrtNext, DecodeSingle, DecodeMessage, DecodeStateChange, DecodePeerIndex, DecodePeer, DecodeRibSpec,
   DecodeRibGeneric, PrefixDecoded, DecodeEntry, EntryDecoded, DecodeTableDump, TableDumpDecoded

\* And it goes on.
LEMMA RecordedMessageGoes ==
    ASSUME Inv, Decode, NEW r, MessageRecordReplay(r), source = "mrt"
    PROVE  MessageRecordReplay(r)'
<1>1. CASE pc = "message"
  <2>1. ~(pc = "update" \/ InUpdate \/ InAttributes \/ pc = "nlri")
    BY <1>1 DEF InUpdate, InAttributes
  <2>2. ~PacketNext
    BY <1>1, <2>1, UpdateNextAt, DecodersAt DEF PacketNext
  <2>3. DecodeMessage
    BY <1>1, <2>2 DEF Decode, MrtNext, DecodeSingle, DecodeStateChange, DecodePeerIndex, DecodePeer, DecodeRibSpec,
       DecodeRibGeneric, PrefixDecoded, DecodeEntry, EntryDecoded, DecodeTableDump, TableDumpDecoded
  <2> QED BY <2>3, RecordedMessageBegins, Zenon
<1>2. CASE pc # "message"
  <2>1. MessageReplay(r.message) /\ session = NoOptions /\ rec = Unmessaged(r)
    BY <1>2, Zenon DEF MessageRecordReplay, OfRecord
  <2>2. PICK m : m = r.message
    OBVIOUS
  <2>3. MessageReplay(m)
    BY <2>1, <2>2
  <2>4. PacketNext /\ pc # "start"
    BY <2>3, ReplayedAt, MrtNextAt, Zenon DEF Decode
  <2>5. MessageReplay(m)'
    BY <2>3, <2>4, MessageGoes, Zenon
  <2>6. UNCHANGED <<session, caller>>
    BY <2>4, OpenKeeps, UpdateKeeps, DecodersAt, Zenon DEF PacketNext
  <2>7. session' = session /\ rec' = rec
    BY <2>6, Zenon DEF caller
  <2>8. pc' # "message"
    <3>1. (MessageReplay(m) => pc # "message")'
      BY DEF MessageReplay, OpenReplay, UpdateReplay, NotificationReplay, KeepAliveReplay, InUpdate, InAttributes
    <3> QED BY <2>5, <3>1
  <2>9. OfRecord(r)'
    BY <2>1, <2>2, <2>5, <2>7, Zenon DEF OfRecord
  <2> QED BY <2>8, <2>9, Zenon DEF MessageRecordReplay
<1> QED BY <1>1, <1>2

-----------------------------------------------------------------------------
(* Peer index tables.                                                       *)

\* A peer whose AS number has two bytes, and is not an IPv4 address in disguise.
Kept(p) == Short(p.asn) /\ ~Mapped(p.ip)

\* It is written as its flags, its identifier, its address and its AS number.
LEMMA PeerWritten ==
    ASSUME NEW p \in PeerEntries, Kept(p)
    PROVE  \E size \in {4, 16}, x \in {0, 1}, last \in Bs(2) :
               /\ p.id \in Bs(4) /\ p.ip \in Bs(size) /\ (x = 1 <=> size = 16)
               /\ Zeros(2) \o last = p.asn /\ PeerLen(p) = 7 + size
               /\ WritePeer(p) = <<x>> \o p.id \o p.ip \o last
<1> DEFINE size == Len(p.ip)
           x == IF size = 4 THEN 0 ELSE 1
           last == SubSeq(p.asn, 3, 4)
<1>1. p.id \in Bs(4) /\ p.ip \in Bs(size) /\ size \in {4, 16} /\ p.asn \in Seq(Byte) /\ Len(p.asn) = 4
  BY DEF PeerEntries, Addresses, Bs
<1>2. IsIPv4(p.ip) <=> size = 4
  BY Zenon DEF IsIPv4, Kept
<1>3. To4(p.id) = p.id /\ (size = 4 => To4(p.ip) = p.ip)
  <2>1. p.id \in Seq(Byte) /\ Len(p.id) = 4 /\ p.ip \in Seq(Byte)
    BY <1>1 DEF Bs
  <2> QED BY <2>1, To4Type, Zenon
<1>4. last \in Bs(2) /\ Zeros(2) \o last = p.asn
  <2>1. last \in Seq(Byte) /\ Len(last) = 2 /\ last[1] = p.asn[3] /\ last[2] = p.asn[4]
    BY ONLY <1>1
  <2>2. p.asn[1] = 0 /\ p.asn[2] = 0
    BY DEF Kept, Short
  <2> HIDE DEF last
  <2>3. Zeros(2) \o last = p.asn
    BY <1>1, <2>1, <2>2, ZerosThenTwo
  <2> QED BY <2>1, <2>3 DEF Bs
<1>5. PeerLen(p) = 7 + size
  <2>1. PeerLen(p) = 5 + (IF size = 4 THEN 4 ELSE 16) + 2
    BY <1>2, Zenon DEF PeerLen, Kept
  <2>2. PICK l : l = PeerLen(p)
    OBVIOUS
  <2>3. size \in {4, 16} /\ l = 5 + (IF size = 4 THEN 4 ELSE 16) + 2
    BY <1>1, <2>1, <2>2, Zenon
  <2> HIDE DEF size
  <2>4. l = 7 + size
    BY ONLY <2>3
  <2> QED BY <2>2, <2>4
<1>6. WritePeer(p) = <<x>> \o p.id \o p.ip \o last
  <2>1. WritePeer(p) = <<0 + x>> \o p.id \o p.ip \o last
    <3>1. CASE size = 4
      BY <1>2, <1>3, <3>1, Zenon DEF WritePeer, Kept
    <3>2. CASE size # 4
      BY <1>2, <1>3, <3>2, Zenon DEF WritePeer, Kept
    <3> QED BY <3>1, <3>2
  <2>2. 0 + x = x
    OBVIOUS
  <2> QED BY <2>1, <2>2, Zenon
<1>7. x \in {0, 1} /\ (x = 1 <=> size = 16)
  <2>1. size \in {4, 16} /\ x = IF size = 4 THEN 0 ELSE 1
    BY <1>1, Zenon
  <2> HIDE DEF size, x
  <2> QED BY ONLY <2>1
<1> HIDE DEF size, x, last
<1> QED BY <1>1, <1>4, <1>5, <1>6, <1>7, Zenon

\* And read as such.
LEMMA PeerRead ==
    ASSUME content \in Seq(Byte), pos \in Nat, ~eof, NEW p \in PeerEntries, Kept(p), Holds(pos, WritePeer(p))
    PROVE  \E size \in {4, 16} :
               /\ size = (IF ReadUint8(0) % 2 = 1 THEN 16 ELSE 4) /\ ~((ReadUint8(0) \div 2) % 2 = 1)
               /\ Field(1, 4) = p.id /\ Field(5, size) = p.ip /\ Zeros(2) \o Field(5 + size, 2) = p.asn
               /\ PeerLen(p) = 7 + size /\ pos + 7 + size <= RecSize
<1>1. PICK size \in {4, 16}, x \in {0, 1}, last \in Bs(2) :
               /\ p.id \in Bs(4) /\ p.ip \in Bs(size) /\ (x = 1 <=> size = 16)
               /\ Zeros(2) \o last = p.asn /\ PeerLen(p) = 7 + size
               /\ WritePeer(p) = <<x>> \o p.id \o p.ip \o last
  BY PeerWritten, Zenon
<1> DEFINE u == <<x>>
           v == p.id
           w == p.ip
<1>2. /\ u \in Seq(Byte) /\ v \in Seq(Byte) /\ w \in Seq(Byte) /\ last \in Seq(Byte)
      /\ Len(u) = 1 /\ Len(v) = 4 /\ Len(w) = size /\ Len(last) = 2 /\ x \in Byte
  BY <1>1 DEF Bs, Byte
<1>3. Holds(pos, ((u \o v) \o w) \o last)
  BY <1>1
<1> HIDE DEF u, v, w
<1>4. /\ u \o v \in Seq(Byte) /\ Len(u \o v) = Len(u) + Len(v)
      /\ (u \o v) \o w \in Seq(Byte) /\ Len((u \o v) \o w) = Len(u \o v) + Len(w)
  <2>1. u \o v \in Seq(Byte) /\ Len(u \o v) = Len(u) + Len(v)
    BY <1>2, Appended, Zenon
  <2> QED BY <1>2, <2>1, Appended, Zenon
<1>5. Holds(pos, (u \o v) \o w) /\ Holds(pos + Len((u \o v) \o w), last)
  BY <1>2, <1>3, <1>4, HoldsBoth, Zenon
<1>6. Holds(pos, u \o v) /\ Holds(pos + Len(u \o v), w)
  BY <1>2, <1>4, <1>5, HoldsBoth, Zenon
<1>7. Holds(pos, u) /\ Holds(pos + Len(u), v)
  BY <1>2, <1>6, HoldsBoth, Zenon
<1>8. Holds(pos + 0, u) /\ Holds(pos + 1, v) /\ Holds(pos + 5, w) /\ Holds(pos + (5 + size), last)
  <2>1. pos + 0 = pos /\ pos + Len(u) = pos + 1 /\ pos + Len(u \o v) = pos + 5
        /\ pos + Len((u \o v) \o w) = pos + (5 + size)
    BY ONLY <1>2, <1>4, size \in {4, 16}, pos \in Nat
  <2> QED BY <1>5, <1>6, <1>7, <2>1, Zenon
<1>9. ReadUint8(0) = x
  <2>1. PICK o \in Nat : o = 0
    OBVIOUS
  <2>2. Holds(pos + o, <<x>>)
    BY <1>8, <2>1, Zenon DEF u
  <2>3. ReadUint8(o) = x
    BY <1>2, <2>2, FieldByte, Zenon
  <2> QED BY <2>1, <2>3
<1>10. Field(1, 4) = v /\ Field(5, size) = w /\ Field(5 + size, 2) = last /\ pos + (5 + size) + 2 <= RecSize
  <2>1. v \in Bs(4) /\ w \in Bs(size) /\ 1 \in Nat /\ 5 \in Nat /\ 5 + size \in Nat /\ size \in Nat
    BY <1>1 DEF v, w
  <2> QED BY <1>8, <2>1, FieldIs
<1>11. size = (IF ReadUint8(0) % 2 = 1 THEN 16 ELSE 4) /\ ~((ReadUint8(0) \div 2) % 2 = 1)
  <2>1. CASE x = 0
    BY <1>1, <1>9, <2>1
  <2>2. CASE x = 1
    BY <1>1, <1>9, <2>2
  <2> QED BY <2>1, <2>2
<1>12. pos + 7 + size <= RecSize
  <2>1. RecSize \in Nat
    BY DEF RecSize
  <2> QED BY <1>10, <2>1
<1>13. /\ Field(1, 4) = p.id /\ Field(5, size) = p.ip /\ Zeros(2) \o Field(5 + size, 2) = p.asn
       /\ PeerLen(p) = 7 + size
  BY <1>1, <1>10, Zenon DEF v, w
<1> QED BY <1>11, <1>12, <1>13, Zenon

\* The bytes of the peers of a table, one after the other.
PeerWords(s) == [k \in DOMAIN s |-> WritePeer(s[k])]
\* Each is as long as PeerLen says.
LEMMA PeerWordsType ==
    ASSUME NEW s \in Seq(PeerEntries)
    PROVE  /\ PeerWords(s) \in Seq(Seq(Byte)) /\ Len(PeerWords(s)) = Len(s)
           /\ Concat(WritePeer, s) = FlattenSeq(PeerWords(s)) /\ FlattenSeq(PeerWords(s)) \in Seq(Byte)
           /\ \A k \in 1 .. Len(s) : /\ PeerWords(s)[k] = WritePeer(s[k]) /\ s[k] \in PeerEntries
                                     /\ Len(PeerWords(s)[k]) = PeerLen(s[k])
<1> DEFINE t == PeerWords(s)
<1>1. DOMAIN s = 1 .. Len(s) /\ Len(s) \in Nat /\ \A k \in 1 .. Len(s) : s[k] \in PeerEntries
  BY ElementsOf, Zenon
<1>2. \A k \in 1 .. Len(s) : /\ t[k] = WritePeer(s[k]) /\ t[k] \in Seq(Byte)
                             /\ Len(t[k]) = PeerLen(s[k])
  BY <1>1, WritePeerLen, Zenon DEF PeerWords, Bs
<1>3. t = [k \in 1 .. Len(s) |-> t[k]]
  BY <1>1, Zenon DEF PeerWords
<1>4. t \in Seq(Seq(Byte)) /\ Len(t) = Len(s)
  <2> HIDE DEF t
  <2> QED BY ONLY <1>1, <1>2, <1>3
<1>5. Concat(WritePeer, s) = FlattenSeq(t)
  BY Zenon DEF Concat, PeerWords
<1>6. FlattenSeq(t) \in Seq(Byte)
  <2>1. Len(t) \in 0 .. Len(t)
    BY <1>1, <1>4
  <2> QED BY <1>4, <2>1, FlattenUpto, Zenon
<1> QED BY <1>1, <1>2, <1>4, <1>5, <1>6

\* A peer index table with its first n peers, and where they end.
PeersUpto(r, n) == [type |-> "PEER_INDEX", time |-> r.time, collector |-> r.collector, view |-> r.view,
                    peers |-> SubSeq(r.peers, 1, n)]
PeersAt(r, n) == 8 + Len(r.view) + Upto(PeerWords(r.peers), n)

\* A table that can be read as it was written.
IndexReadable(r) == /\ r \in PeerIndexes /\ Len(r.peers) <= MaxUint16 /\ Len(r.view) <= MaxUint16
                    /\ \A k \in DOMAIN r.peers : Kept(r.peers[k])

\* Where its fields are.
LEMMA IndexLayout ==
    ASSUME NEW r, IndexReadable(r), content = WritePeerIndex(r)
    PROVE  /\ content \in Seq(Byte) /\ Holds(0, r.collector) /\ Holds(4, U16(Len(r.view))) /\ Holds(6, r.view)
           /\ Holds(6 + Len(r.view), U16(Len(r.peers))) /\ Holds(8 + Len(r.view), FlattenSeq(PeerWords(r.peers)))
           /\ Len(r.view) \in Nat /\ Len(r.peers) \in Nat /\ r.collector \in Bs(4) /\ r.view \in Seq(Byte)
           /\ r.peers \in Seq(PeerEntries) /\ 8 + Len(r.view) <= RecSize /\ RecSize \in Nat
<1> DEFINE a == r.collector
           v == U16(Len(r.view))
           c == r.view
           d == U16(Len(r.peers))
           e == FlattenSeq(PeerWords(r.peers))
<1>1. r.collector \in Bs(4) /\ r.view \in Seq(Byte) /\ r.peers \in Seq(PeerEntries)
  BY DEF IndexReadable, PeerIndexes
<1>2. Len(r.view) \in Nat /\ Len(r.peers) \in Nat
  BY <1>1
<1>3. /\ a \in Seq(Byte) /\ Len(a) = 4 /\ v \in Seq(Byte) /\ Len(v) = 2 /\ c \in Seq(Byte)
      /\ d \in Seq(Byte) /\ Len(d) = 2 /\ e \in Seq(Byte)
  <2>1. e \in Seq(Byte)
    BY <1>1, PeerWordsType, Zenon
  <2>2. a \in Seq(Byte) /\ Len(a) = 4
    BY <1>1 DEF Bs
  <2>3. v \in Seq(Byte) /\ Len(v) = 2 /\ d \in Seq(Byte) /\ Len(d) = 2
    BY <1>2, U16Type, Zenon
  <2> QED BY <1>1, <2>1, <2>2, <2>3
<1>4. content = (((a \o v) \o c) \o d) \o e
  <2>1. To4(r.collector) = a
    BY <1>3, To4Type, Zenon
  <2>2. Concat(WritePeer, r.peers) = e
    BY <1>1, PeerWordsType, Zenon
  <2> QED BY <2>1, <2>2, Zenon DEF WritePeerIndex
<1> HIDE DEF a, v, c, d, e
<1>5. a \o v \in Seq(Byte) /\ Len(a \o v) = 6
  <2>1. a \o v \in Seq(Byte) /\ Len(a \o v) = Len(a) + Len(v)
    BY <1>3, Appended, Zenon
  <2> QED BY <1>3, <2>1
<1>6. (a \o v) \o c \in Seq(Byte) /\ Len((a \o v) \o c) = 6 + Len(c) /\ Len(c) \in Nat
  BY <1>3, <1>5, Appended
<1>7. ((a \o v) \o c) \o d \in Seq(Byte) /\ Len(((a \o v) \o c) \o d) = 8 + Len(c)
  <2>1. PICK x : x = (a \o v) \o c
    OBVIOUS
  <2>2. x \in Seq(Byte) /\ Len(x) = 6 + Len(c) /\ Len(c) \in Nat
    BY <1>6, <2>1
  <2>3. x \o d \in Seq(Byte) /\ Len(x \o d) = Len(x) + Len(d)
    BY <1>3, <2>2, Appended, Zenon
  <2> QED BY <1>3, <2>1, <2>2, <2>3
<1>8. content \in Seq(Byte) /\ RecSize \in Nat /\ 8 + Len(c) <= RecSize
  <2>1. PICK x : x = ((a \o v) \o c) \o d
    OBVIOUS
  <2>2. x \in Seq(Byte) /\ Len(x) = 8 + Len(c) /\ content = x \o e
    BY <1>4, <1>7, <2>1
  <2>3. content \in Seq(Byte) /\ Len(content) = Len(x) + Len(e) /\ Len(e) \in Nat
    BY <1>3, <2>2, Appended, Zenon
  <2>4. RecSize = Len(content)
    BY DEF RecSize
  <2> QED BY <1>6, <2>2, <2>3, <2>4
<1>9. Holds(0, ((a \o v) \o c) \o d) /\ Holds(8 + Len(c), e)
  <2>1. Holds(0, (((a \o v) \o c) \o d) \o e) /\ 0 \in Nat
    BY <1>4, <1>8, HoldsAll
  <2>2. 0 + Len(((a \o v) \o c) \o d) = 8 + Len(c)
    BY <1>6, <1>7
  <2> QED BY <1>3, <1>7, <1>8, <2>1, <2>2, HoldsBoth, Zenon
<1>10. Holds(0, (a \o v) \o c) /\ Holds(6 + Len(c), d)
  <2>1. 0 + Len((a \o v) \o c) = 6 + Len(c) /\ 0 \in Nat
    BY <1>6
  <2> QED BY <1>3, <1>6, <1>8, <1>9, <2>1, HoldsBoth, Zenon
<1>11. Holds(0, a \o v) /\ Holds(6, c)
  <2>1. PICK o \in Nat : o = 0
    OBVIOUS
  <2>2. Holds(o, (a \o v) \o c)
    BY <1>10, <2>1
  <2>3. Holds(o, a \o v) /\ Holds(o + Len(a \o v), c)
    BY <1>3, <1>5, <1>8, <2>2, HoldsBoth, Zenon
  <2> QED BY <1>5, <2>1, <2>3
<1>12. Holds(0, a) /\ Holds(4, v)
  <2>1. PICK o \in Nat : o = 0
    OBVIOUS
  <2>2. Holds(o, a \o v)
    BY <1>11, <2>1
  <2>3. Holds(o, a) /\ Holds(o + Len(a), v)
    BY <1>3, <1>8, <2>2, HoldsBoth, Zenon
  <2> QED BY <1>3, <2>1, <2>3
<1> QED BY <1>1, <1>2, <1>8, <1>9, <1>10, <1>11, <1>12, Zenon DEF a, v, c, d, e

\* A peer index table is decoded as it was.
PeersReplay(r) ==
    \E n \in 0 .. Len(r.peers) : rec = PeersUpto(r, n) /\ n + left = Len(r.peers) /\ pos = PeersAt(r, n)
PeerIndexReplay(r) ==
    /\ IndexReadable(r) /\ pc \in {"peerIndex", "peers", "done"}
    /\ pc # "done" => content = WritePeerIndex(r) /\ ~eof
    /\ pc = "peerIndex" => pos = 0 /\ rec.time = r.time
    /\ pc = "peers" => PeersReplay(r)
    /\ pc = "done" => rec = r

\* The decoder advances over what is there.
LEMMA AdvanceOver == ASSUME NEW n \in Nat, Advance(n), pos + n <= RecSize, ~eof PROVE pos' = pos + n /\ ~eof'
BY Zenon DEF Advance

\* The header of a table.
LEMMA PeerIndexBegins ==
    ASSUME DecodePeerIndex, NEW r, PeerIndexReplay(r)
    PROVE  PeerIndexReplay(r)'
<1> DEFINE n == Len(r.view)
           q == Len(r.peers)
<1>1. /\ pc = "peerIndex" /\ pc' = "peers" /\ content' = content
      /\ rec' = [type |-> "PEER_INDEX", time |-> rec.time, collector |-> Field(0, 4),
                 view |-> Field(6, ReadUint16(4)), peers |-> <<>>]
      /\ left' = ReadUint16(6 + ReadUint16(4)) /\ Advance(8 + ReadUint16(4))
  BY Zenon DEF DecodePeerIndex, Goto
<1>2. IndexReadable(r) /\ content = WritePeerIndex(r) /\ ~eof /\ pos = 0 /\ rec.time = r.time
  BY <1>1, Zenon DEF PeerIndexReplay
<1>3. /\ content \in Seq(Byte) /\ Holds(0, r.collector) /\ Holds(4, U16(n)) /\ Holds(6, r.view)
      /\ Holds(6 + n, U16(q)) /\ Holds(8 + n, FlattenSeq(PeerWords(r.peers)))
      /\ n \in Nat /\ q \in Nat /\ r.collector \in Bs(4) /\ r.view \in Seq(Byte)
      /\ r.peers \in Seq(PeerEntries) /\ 8 + n <= RecSize /\ RecSize \in Nat
  BY <1>2, IndexLayout, Zenon
<1>4. n <= MaxUint16 /\ q <= MaxUint16 /\ r.view \in Bs(n)
  BY <1>2, <1>3 DEF IndexReadable, Bs
<1> HIDE DEF n, q
<1>5. PICK two \in Nat, four \in Nat, six \in Nat, last \in Nat, eight \in Nat :
          two = 0 /\ four = 4 /\ six = 6 /\ last = 6 + n /\ eight = 8 + n
  BY <1>3
<1>6. pos + two = 0 /\ pos + four = 4 /\ pos + six = 6 /\ pos + last = 6 + n /\ pos + eight = 8 + n /\ pos \in Nat
  BY <1>2, <1>3, <1>5
<1>7. Field(two, four) = r.collector
  <2>1. Holds(pos + two, r.collector) /\ r.collector \in Bs(four)
    BY <1>3, <1>5, <1>6, Zenon
  <2> QED BY <1>2, <1>3, <1>6, <2>1, FieldIs, Zenon
<1>8. ReadUint16(four) = n
  <2>1. Holds(pos + four, U16(n))
    BY <1>3, <1>5, <1>6, Zenon
  <2> QED BY <1>2, <1>3, <1>4, <1>6, <2>1, FieldU16, Zenon
<1>9. Field(six, n) = r.view
  <2>1. Holds(pos + six, r.view)
    BY <1>3, <1>5, <1>6, Zenon
  <2> QED BY <1>2, <1>3, <1>4, <1>6, <2>1, FieldIs, Zenon
<1>10. ReadUint16(last) = q
  <2>1. Holds(pos + last, U16(q))
    BY <1>3, <1>5, <1>6, Zenon
  <2> QED BY <1>2, <1>3, <1>4, <1>6, <2>1, FieldU16, Zenon
<1>11. rec' = [type |-> "PEER_INDEX", time |-> r.time, collector |-> r.collector, view |-> r.view, peers |-> <<>>]
       /\ left' = q /\ Advance(eight)
  <2>1. Field(0, 4) = r.collector /\ ReadUint16(4) = n /\ Field(6, n) = r.view /\ ReadUint16(6 + n) = q
    BY <1>5, <1>7, <1>8, <1>9, <1>10
  <2>2. left' = q
    BY <1>1, <2>1
  <2> QED BY <1>1, <1>2, <1>5, <2>1, <2>2
<1>12. pos' = eight /\ ~eof'
  <2>1. pos + eight <= RecSize
    BY <1>3, <1>6
  <2>2. pos' = pos + eight /\ ~eof'
    BY <1>2, <1>5, <1>11, <2>1, AdvanceOver, Zenon
  <2> QED BY <1>5, <1>6, <2>2
<1>13. PeersReplay(r)'
  <2>1. SubSeq(r.peers, 1, 0) = <<>>
    BY <1>3, OneFurther, Zenon
  <2>2. rec' = PeersUpto(r, 0)
    BY <1>11, <2>1, Zenon DEF PeersUpto
  <2>3. PeersAt(r, 0) = 8 + n
    <3>1. PeerWords(r.peers) \in Seq(Seq(Byte))
      BY <1>3, PeerWordsType, Zenon
    <3>2. Upto(PeerWords(r.peers), 0) = 0
      BY <3>1, UptoSteps, Zenon
    <3>3. PICK u : u = Upto(PeerWords(r.peers), 0)
      OBVIOUS
    <3>4. PeersAt(r, 0) = 8 + n + u
      BY <3>3, Zenon DEF PeersAt, n
    <3>5. u = 0
      BY <3>2, <3>3
    <3> QED BY ONLY <3>4, <3>5, <1>3
  <2>4. 0 + left' = Len(r.peers) /\ pos' = PeersAt(r, 0) /\ 0 \in 0 .. Len(r.peers)
    BY <1>3, <1>5, <1>11, <1>12, <2>3 DEF q
  <2> QED BY <2>2, <2>4, Zenon DEF PeersReplay
<1>14. content' = WritePeerIndex(r)
  BY <1>1, <1>2
<1>15. pc' = "peers" /\ pc' # "peerIndex" /\ pc' # "done"
  BY <1>1
<1> QED BY <1>2, <1>12, <1>13, <1>14, <1>15 DEF PeerIndexReplay

\* A peer of a table, or its end.
LEMMA PeersGo ==
    ASSUME DecodePeer, left \in Nat, NEW r, PeerIndexReplay(r)
    PROVE  PeerIndexReplay(r)'
<1>1. pc = "peers"
  BY Zenon DEF DecodePeer
<1>2. IndexReadable(r) /\ content = WritePeerIndex(r) /\ ~eof /\ PeersReplay(r)
  BY <1>1, Zenon DEF PeerIndexReplay
<1>3. PICK n \in 0 .. Len(r.peers) : rec = PeersUpto(r, n) /\ n + left = Len(r.peers) /\ pos = PeersAt(r, n)
  BY <1>2, Zenon DEF PeersReplay
<1> DEFINE s == r.peers
           v == Len(r.view)
           t == PeerWords(s)
<1>4. /\ content \in Seq(Byte) /\ Holds(8 + v, FlattenSeq(t)) /\ v \in Nat /\ Len(s) \in Nat
      /\ s \in Seq(PeerEntries) /\ RecSize \in Nat
  BY <1>2, IndexLayout, Zenon
<1>5. t \in Seq(Seq(Byte)) /\ Len(t) = Len(s)
      /\ \A k \in 1 .. Len(s) : t[k] = WritePeer(s[k]) /\ s[k] \in PeerEntries /\ Len(t[k]) = PeerLen(s[k])
  BY <1>4, PeerWordsType, Zenon
<1>6. \A k \in DOMAIN s : Kept(s[k])
  BY <1>2, Zenon DEF IndexReadable
<1>7. r \in PeerIndexes
  BY <1>2, Zenon DEF IndexReadable
<1>8. pos = 8 + v + Upto(t, n)
  BY <1>3, Zenon DEF PeersAt
<1>9. rec = [type |-> "PEER_INDEX", time |-> r.time, collector |-> r.collector, view |-> r.view,
             peers |-> SubSeq(s, 1, n)]
  BY <1>3, Zenon DEF PeersUpto
<1> HIDE DEF s, v, t
<1>10. CASE left = 0
  <2>1. n = Len(s)
    BY <1>3, <1>10 DEF s
  <2>2. SubSeq(s, 1, n) = s
    BY <1>4, <2>1
  <2>3. rec = r
    <3>1. rec = [type |-> "PEER_INDEX", time |-> r.time, collector |-> r.collector, view |-> r.view, peers |-> r.peers]
      BY <1>9, <2>2 DEF s
    <3> QED BY ONLY <1>7, <3>1 DEF PeerIndexes
  <2>4. rec' = rec /\ pc' = "done"
    BY <1>10, Zenon DEF DecodePeer, caller
  <2>5. pc' \in {"peerIndex", "peers", "done"} /\ pc' # "peerIndex" /\ pc' # "peers"
    BY <2>4
  <2> QED BY <1>2, <2>3, <2>4, <2>5, Zenon DEF PeerIndexReplay
<1>11. CASE left # 0
  <2>1. n \in 0 .. Len(t) - 1 /\ n + 1 \in 1 .. Len(s) /\ n \in Nat
    BY <1>3, <1>4, <1>5, <1>11 DEF s
  <2>2. Holds((8 + v) + Upto(t, n), t[n + 1])
    <3>1. 8 + v \in Nat
      BY <1>4
    <3> QED BY <1>4, <1>5, <2>1, <3>1, HoldsWord, Zenon
  <2> DEFINE p == s[n + 1]
  <2>3. p \in PeerEntries /\ t[n + 1] = WritePeer(p) /\ Len(t[n + 1]) = PeerLen(p) /\ Kept(p)
    <3>1. n + 1 \in DOMAIN s
      BY <1>4, <2>1
    <3> QED BY <1>5, <1>6, <2>1, <3>1, Zenon
  <2> HIDE DEF p
  <2>4. Upto(t, n) \in Nat /\ Upto(t, n + 1) = Upto(t, n) + PeerLen(p)
    BY <1>5, <2>1, <2>3, NextWord
  <2>5. pos \in Nat /\ Holds(pos, WritePeer(p))
    <3>1. PICK u : u = Upto(t, n)
      OBVIOUS
    <3>2. pos = 8 + v + u /\ u \in Nat
      BY <1>8, <2>4, <3>1
    <3>3. pos = (8 + v) + u /\ pos \in Nat
      BY ONLY <1>4, <3>2
    <3>4. pos = (8 + v) + Upto(t, n)
      BY <3>1, <3>3
    <3> QED BY <2>2, <2>3, <3>3, <3>4, Zenon
  <2>6. PICK size \in {4, 16} :
               /\ size = (IF ReadUint8(0) % 2 = 1 THEN 16 ELSE 4) /\ ~((ReadUint8(0) \div 2) % 2 = 1)
               /\ Field(1, 4) = p.id /\ Field(5, size) = p.ip /\ Zeros(2) \o Field(5 + size, 2) = p.asn
               /\ PeerLen(p) = 7 + size /\ pos + 7 + size <= RecSize
    BY <1>2, <1>4, <2>3, <2>5, PeerRead, Zenon
  <2>7. /\ rec' = [rec EXCEPT !.peers = Append(@, [id |-> Field(1, 4), ip |-> Field(5, size),
                                                   asn |-> Zeros(4 - 2) \o Field(5 + size, 2)])]
        /\ left' = left - 1 /\ Advance(5 + size + 2) /\ pc' = "peers" /\ content' = content
    BY <1>1, <1>11, <2>6, Zenon DEF DecodePeer
  <2>8. pos' = pos + PeerLen(p) /\ ~eof'
    <3>1. PICK step \in Nat : step = 5 + size + 2
      OBVIOUS
    <3>2. pos + step <= RecSize /\ step = PeerLen(p)
      BY <2>5, <2>6, <3>1
    <3>3. Advance(step)
      BY <2>7, <3>1
    <3> QED BY <1>2, <3>1, <3>2, <3>3, AdvanceOver, Zenon
  <2>9. [id |-> Field(1, 4), ip |-> Field(5, size), asn |-> Zeros(4 - 2) \o Field(5 + size, 2)] = p
    <3>1. 4 - 2 = 2
      OBVIOUS
    <3>2. [id |-> Field(1, 4), ip |-> Field(5, size), asn |-> Zeros(4 - 2) \o Field(5 + size, 2)]
              = [id |-> p.id, ip |-> p.ip, asn |-> p.asn]
      BY <2>6, <3>1, Zenon
    <3>3. p = [id |-> p.id, ip |-> p.ip, asn |-> p.asn]
      BY ONLY <2>3 DEF PeerEntries
    <3> QED BY <3>2, <3>3, Zenon
  <2>10. rec' = [type |-> "PEER_INDEX", time |-> r.time, collector |-> r.collector, view |-> r.view,
                 peers |-> Append(SubSeq(s, 1, n), p)]
    <3>1. rec' = [rec EXCEPT !.peers = Append(@, p)]
      BY <2>7, <2>9, Zenon
    <3> QED BY ONLY <1>9, <3>1
  <2>11. SubSeq(s, 1, n + 1) = Append(SubSeq(s, 1, n), p)
    <3>1. n \in 0 .. Len(s) - 1
      BY <1>5, <2>1
    <3> QED BY <1>4, <3>1, OneFurther, Zenon DEF p
  <2>12. rec' = PeersUpto(r, n + 1)
    BY <2>10, <2>11, Zenon DEF PeersUpto, s
  <2>13. (n + 1) + left' = Len(r.peers) /\ n + 1 \in 0 .. Len(r.peers)
    <3>1. left' = left - 1 /\ n + left = Len(s) /\ left \in Nat /\ Len(s) = Len(r.peers)
      BY <1>3, <2>7, Zenon DEF s
    <3> QED BY ONLY <2>1, <3>1
  <2>14. pos' = PeersAt(r, n + 1)
    <3>1. PICK u, w, l : u = Upto(t, n) /\ w = Upto(t, n + 1) /\ l = PeerLen(p)
      OBVIOUS
    <3>2. pos = 8 + v + u /\ pos' = pos + l /\ w = u + l /\ u \in Nat /\ v \in Nat
      BY <1>4, <1>8, <2>4, <2>8, <3>1
    <3>3. l \in Nat
      BY <2>3, <3>1, WritePeerLen, Zenon
    <3>4. PeersAt(r, n + 1) = 8 + v + w
      BY <3>1, Zenon DEF PeersAt, s, v, t
    <3>5. pos' = 8 + v + w
      BY ONLY <3>2, <3>3
    <3> QED BY <3>4, <3>5
  <2>15. PeersReplay(r)'
    BY <2>12, <2>13, <2>14, Zenon DEF PeersReplay
  <2>16. pc' = "peers" /\ pc' # "peerIndex" /\ pc' # "done" /\ content' = WritePeerIndex(r)
    BY <1>2, <2>7
  <2> QED BY <1>2, <2>8, <2>15, <2>16 DEF PeerIndexReplay
<1> QED BY <1>10, <1>11

-----------------------------------------------------------------------------
(* RIB records.                                                             *)

\* The bytes of the entries of a record, one after the other.
EntryWords(s) == [k \in DOMAIN s |-> WriteEntry(s[k])]
\* They are bytes, and all that WriteRib writes of the entries.
LEMMA EntryWordsType ==
    ASSUME NEW s \in Seq(Entries)
    PROVE  /\ EntryWords(s) \in Seq(Seq(Byte)) /\ Len(EntryWords(s)) = Len(s)
           /\ Concat(WriteEntry, s) = FlattenSeq(EntryWords(s)) /\ FlattenSeq(EntryWords(s)) \in Seq(Byte)
           /\ \A k \in 1 .. Len(s) : EntryWords(s)[k] = WriteEntry(s[k]) /\ s[k] \in Entries
<1> DEFINE t == EntryWords(s)
<1>1. DOMAIN s = 1 .. Len(s) /\ Len(s) \in Nat /\ \A k \in 1 .. Len(s) : s[k] \in Entries
  BY ElementsOf, Zenon
<1>2. \A k \in 1 .. Len(s) : t[k] = WriteEntry(s[k]) /\ t[k] \in Seq(Byte)
  BY <1>1, WriteEntryLen, Zenon DEF EntryWords
<1>3. t = [k \in 1 .. Len(s) |-> t[k]]
  BY <1>1, Zenon DEF EntryWords
<1>4. t \in Seq(Seq(Byte)) /\ Len(t) = Len(s)
  <2> HIDE DEF t
  <2> QED BY ONLY <1>1, <1>2, <1>3
<1>5. Concat(WriteEntry, s) = FlattenSeq(t)
  BY Zenon DEF Concat, EntryWords
<1>6. FlattenSeq(t) \in Seq(Byte)
  <2>1. Len(t) \in 0 .. Len(t)
    BY <1>1, <1>4
  <2> QED BY <1>4, <2>1, FlattenUpto, Zenon
<1> QED BY <1>1, <1>2, <1>4, <1>5, <1>6

\* The subtype of a record that is not generic.
LEMMA SpecificSubtype ==
    ASSUME NEW r, ~Generic(r)
    PROVE  /\ r.asAfiSafi /\ GetSubtype(r) \in 2 .. 5 /\ GetSubtype(r) \in DOMAIN RibSubtype
           /\ RibSubtype[GetSubtype(r)].afi = r.afi /\ RibSubtype[GetSubtype(r)].safi = r.safi
           /\ RibSubtype[GetSubtype(r)].addPath = FALSE
<1> DEFINE own == {t \in 2 .. 5 : RibSubtype[t].afi = r.afi /\ RibSubtype[t].safi = r.safi}
<1>1. r.asAfiSafi /\ own # {}
  BY Zenon DEF Generic, GetSubtype
<1>2. GetSubtype(r) = CHOOSE t \in own : TRUE
  BY <1>1, Zenon DEF GetSubtype
<1>3. GetSubtype(r) \in own
  BY <1>1, <1>2, Zenon
<1>4. PICK t \in 2 .. 5 : t = GetSubtype(r) /\ RibSubtype[t].afi = r.afi /\ RibSubtype[t].safi = r.safi
  BY <1>3, Zenon
<1>5. t \in {2, 3, 4, 5, 8, 10} /\ t # 8 /\ t # 10
  OBVIOUS
<1>6. t \in DOMAIN RibSubtype /\ RibSubtype[t].addPath = (t \in {8, 10})
  BY <1>5 DEF RibSubtype
<1>7. RibSubtype[t].addPath = FALSE
  <2>1. RibSubtype[t].addPath \in BOOLEAN
    BY <1>6, RibSubtypeIs, Zenon
  <2>2. t \notin {8, 10}
    BY <1>5
  <2> QED BY <1>6, <2>1, <2>2, Zenon
<1> QED BY <1>1, <1>4, <1>6, <1>7, Zenon

\* A record that can be read as it was written.
EntryReadable(e) == /\ e \in CanonicalEntries /\ Faithful(e.attrs, NoOptions)
                    /\ Sum(EntryAttributeLen, e.attrs) <= MaxUint16
RibReadable(r) ==
    /\ r \in RibResults /\ CanonicalRib(r) /\ ~Generic(r)
    /\ r.entries \in Seq(CanonicalEntries) /\ Len(r.entries) <= MaxUint16
    /\ \A k \in DOMAIN r.entries : EntryReadable(r.entries[k])

\* Where its fields are.
OnlyLen(r) == NLRILen(r.nlri, FALSE)
\* They follow each other.
LEMMA RibLayout ==
    ASSUME NEW r, RibReadable(r), content = WriteRib(r)
    PROVE  /\ content \in Seq(Byte) /\ Holds(0, r.seq) /\ Holds(4, WriteNLRI(r.nlri, FALSE))
           /\ Holds(4 + OnlyLen(r), U16(Len(r.entries)))
           /\ Holds(6 + OnlyLen(r), FlattenSeq(EntryWords(r.entries)))
           /\ OnlyLen(r) \in Nat /\ Len(r.entries) \in Nat /\ r.seq \in Bs(4) /\ r.nlri \in Routes
           /\ r.entries \in Seq(Entries) /\ 6 + OnlyLen(r) <= RecSize /\ RecSize \in Nat
           /\ WriteNLRI(r.nlri, FALSE) \in Bs(OnlyLen(r))
<1> DEFINE a == r.seq
           c == WriteNLRI(r.nlri, FALSE)
           d == U16(Len(r.entries))
           e == FlattenSeq(EntryWords(r.entries))
           n == OnlyLen(r)
<1>1. r.seq \in Bs(4) /\ r.nlri \in Routes /\ r.entries \in Seq(Entries)
  BY DEF RibReadable, RibResults
<1>2. Len(r.entries) \in Nat
  BY <1>1
<1>3. /\ a \in Seq(Byte) /\ Len(a) = 4 /\ c \in Seq(Byte) /\ Len(c) = n /\ n \in Nat
      /\ d \in Seq(Byte) /\ Len(d) = 2 /\ e \in Seq(Byte)
  <2>1. e \in Seq(Byte)
    BY <1>1, EntryWordsType, Zenon
  <2>2. a \in Seq(Byte) /\ Len(a) = 4
    BY <1>1 DEF Bs
  <2>3. d \in Seq(Byte) /\ Len(d) = 2
    BY <1>2, U16Type, Zenon
  <2>4. c \in Seq(Byte) /\ Len(c) = n /\ n \in Nat
    <3>1. FALSE \in BOOLEAN
      OBVIOUS
    <3> QED BY <1>1, <3>1, WriteNLRILen, Zenon DEF OnlyLen
  <2> QED BY <2>1, <2>2, <2>3, <2>4
<1>4. content = ((a \o c) \o d) \o e
  <2>1. <<>> \o r.seq = a
    BY <1>3
  <2>2. Concat(WriteEntry, r.entries) = e
    BY <1>1, EntryWordsType, Zenon
  <2>3. ~Generic(r)
    BY Zenon DEF RibReadable
  <2> QED BY <2>1, <2>2, <2>3, Zenon DEF WriteRib
<1>5. c \in Bs(n)
  BY <1>3 DEF Bs
<1> HIDE DEF a, c, d, e, n
<1>6. a \o c \in Seq(Byte) /\ Len(a \o c) = 4 + n
  <2>1. a \o c \in Seq(Byte) /\ Len(a \o c) = Len(a) + Len(c)
    BY <1>3, Appended, Zenon
  <2> QED BY <1>3, <2>1
<1>7. (a \o c) \o d \in Seq(Byte) /\ Len((a \o c) \o d) = 6 + n
  <2>1. PICK x : x = a \o c
    OBVIOUS
  <2>2. x \in Seq(Byte) /\ Len(x) = 4 + n
    BY <1>6, <2>1
  <2>3. x \o d \in Seq(Byte) /\ Len(x \o d) = Len(x) + Len(d)
    BY <1>3, <2>2, Appended, Zenon
  <2> QED BY <1>3, <2>1, <2>2, <2>3
<1>8. content \in Seq(Byte) /\ RecSize \in Nat /\ 6 + n <= RecSize
  <2>1. PICK x : x = (a \o c) \o d
    OBVIOUS
  <2>2. x \in Seq(Byte) /\ Len(x) = 6 + n /\ content = x \o e
    BY <1>4, <1>7, <2>1
  <2>3. content \in Seq(Byte) /\ Len(content) = Len(x) + Len(e) /\ Len(e) \in Nat
    BY <1>3, <2>2, Appended, Zenon
  <2>4. RecSize = Len(content)
    BY DEF RecSize
  <2> QED BY <1>3, <2>2, <2>3, <2>4
<1>9. PICK o \in Nat : o = 0
  OBVIOUS
<1>10. Holds(o, (a \o c) \o d) /\ Holds(6 + n, e)
  <2>1. Holds(o, ((a \o c) \o d) \o e)
    BY <1>4, <1>8, <1>9, HoldsAll
  <2>2. o + Len((a \o c) \o d) = 6 + n
    BY <1>3, <1>7, <1>9
  <2> QED BY <1>3, <1>7, <1>8, <2>1, <2>2, HoldsBoth, Zenon
<1>11. Holds(o, a \o c) /\ Holds(4 + n, d)
  <2>1. o + Len(a \o c) = 4 + n
    BY <1>3, <1>6, <1>9
  <2> QED BY <1>3, <1>6, <1>8, <1>10, <2>1, HoldsBoth, Zenon
<1>12. Holds(o, a) /\ Holds(o + Len(a), c)
  BY <1>3, <1>8, <1>11, HoldsBoth, Zenon
<1>13. Holds(0, a) /\ Holds(4, c)
  BY <1>3, <1>9, <1>12
<1> QED BY <1>1, <1>2, <1>3, <1>5, <1>8, <1>10, <1>11, <1>13, Zenon DEF a, c, d, e, n

\* The prefix of a record as it is read.
LEMMA RibPrefixRead ==
    ASSUME content \in Seq(Byte), pos = 0, ~eof, NEW r \in Routes, Holds(4, WriteNLRI(r, FALSE))
    PROVE  /\ <<ReadUint8(4)>> \o Field(5, (ReadUint8(4) + 7) \div 8) = WriteNLRI(r, FALSE)
           /\ NLRILen(r, FALSE) = 1 + (ReadUint8(4) + 7) \div 8 /\ (ReadUint8(4) + 7) \div 8 \in Nat
<1>1. PICK size \in {4, 16} : /\ Ones(r.mask) \in 0 .. 8 * size
                              /\ r.ip \in Seq(Byte) /\ Len(r.ip) = size
                              /\ r.path \in Seq(Byte) /\ Len(r.path) = 4
  BY RouteOnes, Zenon
<1> DEFINE g == GetSplitLen(r)
           tail == SubSeq(r.ip, 1, g)
           x == Ones(r.mask)
<1>2. g \in 0 .. size /\ g = (x + 7) \div 8 /\ x \in Byte
  <2>1. g = (x + 7) \div 8 /\ x \in 0 .. 8 * size
    BY <1>1, Zenon DEF GetSplitLen
  <2> HIDE DEF g, x
  <2>2. x \in Byte /\ (x + 7) \div 8 \in 0 .. size
    BY ONLY <2>1, size \in {4, 16} DEF Byte
  <2> QED BY <2>1, <2>2, Zenon
<1>3. tail \in Seq(Byte) /\ Len(tail) = g /\ tail \in Bs(g)
  <2> HIDE DEF g
  <2>1. tail \in Seq(Byte) /\ Len(tail) = g
    BY <1>1, <1>2
  <2> QED BY <2>1 DEF Bs
<1>4. WriteNLRI(r, FALSE) = <<x>> \o tail
  <2>1. WriteNLRI(r, FALSE) = (<<>> \o <<x>>) \o tail
    BY Zenon DEF WriteNLRI
  <2>2. <<>> \o <<x>> = <<x>>
    OBVIOUS
  <2> QED BY <2>1, <2>2, Zenon
<1>5. NLRILen(r, FALSE) = 1 + g
  <2>1. NLRILen(r, FALSE) = 0 + 1 + g
    BY Zenon DEF NLRILen
  <2> HIDE DEF g
  <2>2. PICK l : l = NLRILen(r, FALSE)
    OBVIOUS
  <2>3. l = 0 + 1 + g /\ g \in 0 .. size
    BY <1>2, <2>1, <2>2, Zenon
  <2>4. l = 1 + g
    BY ONLY <2>3, size \in {4, 16}
  <2> QED BY <2>2, <2>4, Zenon
<1> HIDE DEF g, tail, x
<1>6. PICK four \in Nat, five \in Nat : four = 4 /\ five = 5
  OBVIOUS
<1>7. Holds(pos + four, <<x>>) /\ Holds(pos + five, tail) /\ pos \in Nat
  <2>1. Holds(four, <<x>> \o tail)
    BY <1>4, <1>6
  <2>2. <<x>> \in Seq(Byte) /\ Len(<<x>>) = 1
    BY <1>2
  <2>3. Holds(four, <<x>>) /\ Holds(four + Len(<<x>>), tail)
    BY <1>3, <2>1, <2>2, HoldsBoth, Zenon
  <2>4. pos + four = four /\ pos + five = four + Len(<<x>>) /\ pos \in Nat
    BY <1>6, <2>2
  <2> QED BY <2>3, <2>4, Zenon
<1>8. ReadUint8(four) = x
  BY <1>2, <1>7, FieldByte, Zenon
<1>9. Field(five, g) = tail
  <2>1. g \in Nat
    BY <1>2
  <2> QED BY <1>3, <1>7, <2>1, FieldIs, Zenon
<1>10. (ReadUint8(4) + 7) \div 8 = g /\ ReadUint8(4) = x /\ Field(5, (ReadUint8(4) + 7) \div 8) = tail
  <2>1. ReadUint8(4) = x
    BY <1>6, <1>8
  <2>2. (ReadUint8(4) + 7) \div 8 = g
    BY <1>2, <2>1
  <2>3. Field(5, g) = tail
    BY <1>6, <1>9
  <2> QED BY <2>1, <2>2, <2>3
<1>11. NLRILen(r, FALSE) = 1 + (ReadUint8(4) + 7) \div 8 /\ (ReadUint8(4) + 7) \div 8 \in Nat
  <2>1. g \in Nat
    BY <1>2
  <2> QED BY <1>5, <1>10, <2>1, Zenon
<1> QED BY <1>4, <1>10, <1>11, Zenon

\* A prefix alone is a list of one.
LEMMA OnePrefix ==
    ASSUME NEW r \in Routes
    PROVE  WriteNLRIs(<<r>>, FALSE) = WriteNLRI(r, FALSE) /\ LenNLRIs(<<r>>, FALSE) = NLRILen(r, FALSE)
<1> DEFINE s == <<r>>
           t == NLRIWords(s, FALSE)
           x == WriteNLRI(r, FALSE)
<1>1. s \in Seq(Routes) /\ Len(s) = 1 /\ s[1] = r /\ FALSE \in BOOLEAN
  OBVIOUS
<1>2. x \in Seq(Byte) /\ Len(x) = NLRILen(r, FALSE)
  BY <1>1, WriteNLRILen, Zenon
<1> HIDE DEF s, x
<1>3. /\ t \in Seq(Seq(Byte)) /\ Len(t) = Len(s) /\ WriteNLRIs(s, FALSE) = FlattenSeq(t)
      /\ LenNLRIs(s, FALSE) = Upto(t, Len(s))
      /\ \A k \in 1 .. Len(s) : t[k] = WriteNLRI(s[k], FALSE)
  BY <1>1, NLRIWordsType, Zenon
<1>4. t = <<x>>
  <2>1. 1 \in 1 .. Len(s)
    BY <1>1
  <2>2. t[1] = x /\ Len(t) = 1
    BY <1>1, <1>3, <2>1, Zenon DEF x
  <2> HIDE DEF t
  <2> QED BY ONLY <1>3, <2>2
<1>5. FlattenSeq(t) = x
  BY <1>2, <1>4, OneWord, Zenon
<1>6. Upto(t, Len(t)) = Len(FlattenSeq(t))
  BY <1>3, UptoSteps, Zenon
<1> QED BY <1>2, <1>3, <1>5, <1>6, Zenon DEF s, x

\* The next slice is at its beginning.
LEMMA HasAllNext == (b \in Seq(Byte) => Has(0, b))'
<1>1. b \in Seq(Byte) => Has(0, b)
  BY HasAll
<1> QED BY <1>1, PTL

\* ParseNLRI begins, on a slice of one prefix.
LEMMA PrefixBegins ==
    ASSUME NEW size \in {4, 16}, NEW r \in CanonicalPrefixes(size, FALSE), b' = WriteNLRI(r, FALSE),
           NEW afi \in {AFI_IPV4, AFI_IPV6}, size = SizeOf(afi), NEW to, to = NLRILen(r, FALSE),
           CallParseNLRI(0, to, afi, FALSE, "prefix")
    PROVE  PrefixesReplay(<<r>>, FALSE, 0)' /\ pc' = "nlri" /\ nlri'.ret = "prefix"
<1> DEFINE s == <<r>>
           P == CanonicalPrefixes(size, FALSE)
<1>1. /\ i' = 0 /\ end' = to /\ pc' = "nlri"
      /\ nlri' = [size |-> size, path |-> FALSE, list |-> <<>>, ret |-> "prefix"]
  BY Zenon DEF CallParseNLRI, SizeOf
<1>2. nlri'.size = size /\ nlri'.path = FALSE /\ nlri'.list = <<>> /\ nlri'.ret = "prefix"
  BY <1>1
<1>3. s \in Seq(P) /\ Len(s) = 1
  <2> HIDE DEF P
  <2>1. r \in P
    BY DEF P
  <2> QED BY <2>1
<1>4. r \in Routes /\ s \in Seq(Routes)
  <2>1. r \in Routes
    BY DEF CanonicalPrefixes, Routes
  <2> QED BY <2>1
<1>5. WriteNLRIs(s, FALSE) = WriteNLRI(r, FALSE) /\ LenNLRIs(s, FALSE) = NLRILen(r, FALSE)
  BY <1>4, OnePrefix, Zenon
<1>6. WriteNLRI(r, FALSE) \in Seq(Byte) /\ NLRILen(r, FALSE) \in Nat
  <2>1. FALSE \in BOOLEAN
    OBVIOUS
  <2> QED BY <1>4, <2>1, WriteNLRILen, Zenon
<1>7. Has(0, WriteNLRIs(s, FALSE))'
  <2>1. (b \in Seq(Byte) => Has(0, b))'
    BY HasAllNext
  <2>2. Has(0, b)' /\ b' = WriteNLRIs(s, FALSE)
    BY <1>5, <1>6, <2>1, Zenon
  <2> QED BY <2>2, Zenon DEF Has
<1>8. end' = 0 + LenNLRIs(s, FALSE)
  <2>1. end' = NLRILen(r, FALSE) /\ LenNLRIs(s, FALSE) = NLRILen(r, FALSE) /\ NLRILen(r, FALSE) \in Nat
    BY <1>1, <1>5, <1>6, Zenon
  <2>2. PICK u, v : u = LenNLRIs(s, FALSE) /\ v = end'
    OBVIOUS
  <2>3. u = v /\ u \in Nat
    BY <2>1, <2>2, Zenon
  <2>4. v = 0 + u
    BY ONLY <2>3
  <2> QED BY <2>2, <2>4, Zenon
<1>9. Len(nlri'.list) = 0 /\ Len(nlri'.list) <= Len(s) /\ nlri'.list = SubSeq(s, 1, Len(nlri'.list))
  <2> HIDE DEF s, P
  <2>1. Len(nlri'.list) = 0
    BY <1>2
  <2>2. SubSeq(s, 1, 0) = <<>>
    BY <1>3, OneFurther, Zenon
  <2> QED BY <1>2, <1>3, <2>1, <2>2
<1>10. i' = 0 + Upto(NLRIWords(s, FALSE), 0)
  <2>1. NLRIWords(s, FALSE) \in Seq(Seq(Byte))
    <3>1. FALSE \in BOOLEAN
      OBVIOUS
    <3> QED BY <1>4, <3>1, NLRIWordsType, Zenon
  <2>2. Upto(NLRIWords(s, FALSE), 0) = 0
    BY <2>1, UptoSteps, Zenon
  <2>3. PICK u : u = Upto(NLRIWords(s, FALSE), 0)
    OBVIOUS
  <2>4. i' = 0 /\ u = 0
    BY <1>1, <2>2, <2>3, Zenon
  <2>5. i' = 0 + u
    BY ONLY <2>4
  <2> QED BY <2>3, <2>5, Zenon
<1> HIDE DEF s
<1>11. (pc = "nlri" => /\ Len(nlri.list) <= Len(s) /\ nlri.list = SubSeq(s, 1, Len(nlri.list))
                       /\ i = 0 + Upto(NLRIWords(s, FALSE), Len(nlri.list)))'
  BY <1>9, <1>10, Zenon DEF NLRIWords
<1>12. (s \in Seq(CanonicalPrefixes(nlri.size, FALSE)))'
  BY <1>2, <1>3, Zenon
<1>13. PrefixesReplay(s, FALSE, 0)'
  BY <1>1, <1>2, <1>7, <1>8, <1>11, <1>12, Zenon DEF PrefixesReplay
<1> QED BY <1>1, <1>2, <1>13, Zenon DEF s

\* A RIB record with what has been decoded of it, and where its entries end.
RibSoFar(r, prefix, entries) ==
    [type |-> "RIB", time |-> r.time, seq |-> r.seq, afi |-> r.afi, safi |-> r.safi, asAfiSafi |-> TRUE,
     addPath |-> FALSE, nlri |-> prefix, entries |-> entries]
EntriesAt(r, n) == 6 + OnlyLen(r) + Upto(EntryWords(r.entries), n)

\* A RIB record is decoded as it was: its prefix, each entry, the attributes of the entry.
PrefixReplay(r) == /\ rec = RibSoFar(r, Nil, <<>>) /\ pos = 4 + OnlyLen(r)
                   /\ PrefixesReplay(<<r.nlri>>, FALSE, 0)
EntriesReplay(r) ==
    /\ ~failed
    /\ \E n \in 0 .. Len(r.entries) : /\ rec = RibSoFar(r, r.nlri, SubSeq(r.entries, 1, n))
                                      /\ n + left = Len(r.entries) /\ pos = EntriesAt(r, n)
Begun(e) == [peer |-> e.peer, time |-> e.time]
EntryAttributes(e) ==
    /\ session = NoOptions
    /\ IF pc = "entry" THEN ~failed /\ msg.attrs = e.attrs ELSE AttributesReplay(e.attrs, 0)
EntryReplay(r) ==
    \E n \in 0 .. Len(r.entries) - 1 :
        /\ rec = RibSoFar(r, r.nlri, Append(SubSeq(r.entries, 1, n), Begun(r.entries[n + 1])))
        /\ (n + 1) + left = Len(r.entries) /\ pos = EntriesAt(r, n + 1)
        /\ EntryAttributes(r.entries[n + 1])
RibReplay(r) ==
    /\ RibReadable(r) /\ (pc \in {"rib", "entries", "done"} \/ InPrefix \/ Waits("entry"))
    /\ pc # "done" => content = WriteRib(r) /\ ~eof
    /\ pc = "rib" => pos = 0 /\ rec.time = r.time /\ rec.subtype = GetSubtype(r)
    /\ InPrefix => PrefixReplay(r)
    /\ pc = "entries" => EntriesReplay(r)
    /\ Waits("entry") => EntryReplay(r)
    /\ pc = "done" => rec = RibSoFar(r, r.nlri, r.entries)

\* The header of a record and its prefix.
LEMMA RibBegins ==
    ASSUME DecodeRibSpec, NEW r, RibReplay(r)
    PROVE  RibReplay(r)'
<1> DEFINE t == RibSubtype[rec.subtype]
<1>1. pc = "rib" /\ rec' = Rib(t.afi, t.safi, TRUE, t.addPath) /\ CallPrefix(4, t.afi)
  BY Zenon DEF DecodeRibSpec
<1>2. /\ RibReadable(r) /\ content = WriteRib(r) /\ ~eof /\ pos = 0 /\ rec.time = r.time
      /\ rec.subtype = GetSubtype(r)
  BY <1>1, Zenon DEF RibReplay
<1>3. r \in RibResults /\ CanonicalRib(r) /\ ~Generic(r)
  BY <1>2, Zenon DEF RibReadable
<1>4. /\ r.asAfiSafi /\ rec.subtype \in DOMAIN RibSubtype
      /\ t.afi = r.afi /\ t.safi = r.safi /\ t.addPath = FALSE /\ r.afi \in {AFI_IPV4, AFI_IPV6}
  BY <1>2, <1>3, SpecificSubtype, RibSubtypeIs, Zenon
<1>5. /\ content \in Seq(Byte) /\ Holds(0, r.seq) /\ Holds(4, WriteNLRI(r.nlri, FALSE))
      /\ OnlyLen(r) \in Nat /\ r.seq \in Bs(4) /\ r.nlri \in Routes
      /\ 6 + OnlyLen(r) <= RecSize /\ RecSize \in Nat
  BY <1>2, RibLayout, Zenon
<1>6. rec' = RibSoFar(r, Nil, <<>>)
  <2>1. Field(0, 4) = r.seq
    <3>1. PICK none \in Nat, four \in Nat : none = 0 /\ four = 4
      OBVIOUS
    <3>2. pos + none = 0 /\ pos \in Nat
      BY <1>2, <3>1
    <3>3. Holds(pos + none, r.seq) /\ r.seq \in Bs(four)
      BY <1>5, <3>1, <3>2, Zenon
    <3>4. Field(none, four) = r.seq
      BY <1>2, <1>5, <3>2, <3>3, FieldIs, Zenon
    <3> QED BY <3>1, <3>4
  <2> QED BY <1>1, <1>2, <1>4, <2>1, Zenon DEF Rib, RibSoFar
<1> DEFINE n == (ReadUint8(4) + 7) \div 8
<1>7. /\ <<ReadUint8(4)>> \o Field(5, n) = WriteNLRI(r.nlri, FALSE) /\ OnlyLen(r) = 1 + n /\ n \in Nat
  BY <1>2, <1>5, RibPrefixRead, Zenon DEF OnlyLen
<1>8. /\ b' = <<ReadUint8(4)>> \o Field(4 + 1, n) /\ Advance(4 + 1 + n)
      /\ CallParseNLRI(0, 1 + n, t.afi, FALSE, "prefix") /\ content' = content
  BY <1>1, Zenon DEF CallPrefix
<1>9. b' = WriteNLRI(r.nlri, FALSE)
  <2>1. 4 + 1 = 5
    OBVIOUS
  <2> QED BY <1>7, <1>8, <2>1, Zenon
<1>10. PICK size \in {4, 16} : r.nlri \in CanonicalPrefixes(size, FALSE) /\ size = SizeOf(r.afi)
  BY <1>3, <1>4, Zenon DEF CanonicalRib, RibFamily
<1>11. PICK to : to = 1 + n
  OBVIOUS
<1>12. to = NLRILen(r.nlri, FALSE) /\ CallParseNLRI(0, to, r.afi, FALSE, "prefix")
  BY <1>4, <1>7, <1>8, <1>11, Zenon DEF OnlyLen
<1>13. PICK prefix, afi : prefix = r.nlri /\ afi = r.afi
  OBVIOUS
<1>14. PrefixesReplay(<<prefix>>, FALSE, 0)' /\ pc' = "nlri" /\ nlri'.ret = "prefix"
  BY <1>4, <1>9, <1>10, <1>12, <1>13, PrefixBegins, Zenon
<1>15. pos' = 4 + OnlyLen(r) /\ ~eof'
  <2>1. PICK step : step = 4 + 1 + n
    OBVIOUS
  <2>2. step = 4 + OnlyLen(r)
    <3>1. PICK l : l = OnlyLen(r)
      OBVIOUS
    <3>2. step = 4 + 1 + n /\ l = 1 + n /\ l \in Nat
      BY <1>5, <1>7, <2>1, <3>1, Zenon
    <3> HIDE DEF n
    <3>3. n \in Int
      BY <1>7 DEF n
    <3>4. step = 4 + l
      BY ONLY <3>2, <3>3
    <3> QED BY <3>1, <3>4, Zenon
  <2>3. step \in Nat /\ pos + step <= RecSize /\ pos + step = step
    BY <1>2, <1>5, <2>2
  <2>4. pos' = pos + step /\ ~eof'
    BY <1>2, <1>8, <2>1, <2>3, AdvanceOver, Zenon
  <2> QED BY <2>2, <2>3, <2>4
<1>16. PrefixReplay(r)'
  BY <1>6, <1>13, <1>14, <1>15, Zenon DEF PrefixReplay, OnlyLen, RibSoFar
<1>17. InPrefix' /\ ~Waits("entry")' /\ pc' # "rib" /\ pc' # "entries" /\ pc' # "done"
  BY <1>14 DEF InPrefix, Waits, InAttributes
<1>18. content' = WriteRib(r)
  BY <1>2, <1>8
<1> QED BY <1>2, <1>15, <1>16, <1>17, <1>18, Zenon DEF RibReplay

\* The prefix of a record goes on.
LEMMA RibPrefixGoes ==
    ASSUME Inv, ParseNLRI, InPrefix, NEW r, RibReplay(r)
    PROVE  RibReplay(r)'
<1>1. pc = "nlri" /\ nlri.ret = "prefix"
  <2>1. pc = "nlri"
    BY Zenon DEF ParseNLRI
  <2> QED BY <2>1 DEF InPrefix
<1>2. RibReadable(r) /\ content = WriteRib(r) /\ ~eof /\ PrefixReplay(r)
  BY <1>1, Zenon DEF RibReplay
<1>3. PICK base \in Nat : base = 0
  OBVIOUS
<1>3a. PICK s, path : s = <<r.nlri>> /\ path = FALSE
  OBVIOUS
<1>4. rec = RibSoFar(r, Nil, <<>>) /\ pos = 4 + OnlyLen(r) /\ PrefixesReplay(s, path, base)
  BY <1>2, <1>3, <1>3a DEF PrefixReplay
<1>5. OnlyNLRI /\ PrefixesReplay(s, path, base)' /\ (pc' = "nlri" \/ (pc' = nlri.ret /\ pc' # "nlri"))
  BY <1>4, PrefixesStep, Zenon
<1>6. nlri'.ret = "prefix" /\ UNCHANGED <<rec, content, pos, eof>>
  BY <1>1, <1>5, Zenon DEF OnlyNLRI, caller
<1>7. rec' = RibSoFar(r, Nil, <<>>) /\ pos' = 4 + OnlyLen(r)
  BY <1>4, <1>6, Zenon
<1>8. PrefixesReplay(<<r.nlri>>, FALSE, 0)'
  BY <1>3, <1>3a, <1>5
<1>9. PrefixReplay(r)'
  BY <1>7, <1>8, Zenon DEF PrefixReplay, RibSoFar, OnlyLen
<1>10. pc' \in {"nlri", "prefix"}
  BY <1>1, <1>5
<1>11. InPrefix' /\ ~Waits("entry")' /\ pc' # "rib" /\ pc' # "entries" /\ pc' # "done"
  BY <1>6, <1>10 DEF InPrefix, Waits, InAttributes
<1>12. content' = WriteRib(r) /\ ~eof'
  BY <1>2, <1>6, Zenon
<1> QED BY <1>2, <1>9, <1>11, <1>12, Zenon DEF RibReplay

\* The entries of a record begin.
LEMMA EntriesBegin ==
    ASSUME PrefixDecoded, NEW r, RibReplay(r)
    PROVE  RibReplay(r)'
<1>1. pc = "prefix" /\ InPrefix
  BY Zenon DEF PrefixDecoded, InPrefix
<1>2. RibReadable(r) /\ content = WriteRib(r) /\ ~eof /\ PrefixReplay(r)
  BY <1>1, Zenon DEF RibReplay
<1>3. rec = RibSoFar(r, Nil, <<>>) /\ pos = 4 + OnlyLen(r) /\ PrefixesReplay(<<r.nlri>>, FALSE, 0)
  BY <1>2, Zenon DEF PrefixReplay
<1>4. nlri.list = <<r.nlri>> /\ ~failed
  BY <1>1, <1>3 DEF PrefixesReplay
<1>5. Len(nlri.list) = 1 /\ nlri.list[1] = r.nlri
  BY <1>4
<1>6. /\ pc' = "entries" /\ rec' = [rec EXCEPT !.nlri = nlri.list[1]] /\ failed' = FALSE /\ left' = ReadUint16(0)
      /\ Advance(2) /\ content' = content
  BY <1>4, <1>5, Zenon DEF PrefixDecoded, Goto
<1>7. rec' = RibSoFar(r, r.nlri, <<>>)
  <2>1. rec' = [RibSoFar(r, Nil, <<>>) EXCEPT !.nlri = r.nlri]
    BY <1>3, <1>5, <1>6, Zenon
  <2> QED BY ONLY <2>1 DEF RibSoFar
<1> DEFINE q == Len(r.entries)
<1>8. /\ content \in Seq(Byte) /\ Holds(4 + OnlyLen(r), U16(q)) /\ OnlyLen(r) \in Nat /\ q \in Nat
      /\ r.entries \in Seq(Entries) /\ 6 + OnlyLen(r) <= RecSize /\ RecSize \in Nat
  BY <1>2, RibLayout, Zenon
<1>9. q <= MaxUint16
  BY <1>2, Zenon DEF RibReadable
<1> HIDE DEF q
<1>10. left' = q
  <2>1. PICK none \in Nat : none = 0
    OBVIOUS
  <2>2. pos + none = 4 + OnlyLen(r) /\ pos \in Nat
    BY <1>3, <1>8, <2>1
  <2>3. Holds(pos + none, U16(q))
    BY <1>8, <2>2, Zenon
  <2>4. ReadUint16(none) = q
    BY <1>2, <1>8, <1>9, <2>2, <2>3, FieldU16, Zenon
  <2> QED BY <1>6, <2>1, <2>4
<1>11. pos' = 6 + OnlyLen(r) /\ ~eof'
  <2>1. PICK two \in Nat : two = 2
    OBVIOUS
  <2>2. pos + two = 6 + OnlyLen(r) /\ pos + two <= RecSize
    BY <1>3, <1>8, <2>1
  <2>3. Advance(two)
    BY <1>6, <2>1
  <2>4. pos' = pos + two /\ ~eof'
    BY <1>2, <2>1, <2>2, <2>3, AdvanceOver, Zenon
  <2> QED BY <2>2, <2>4
<1>12. EntriesReplay(r)'
  <2>1. SubSeq(r.entries, 1, 0) = <<>>
    BY <1>8, OneFurther, Zenon
  <2>2. rec' = RibSoFar(r, r.nlri, SubSeq(r.entries, 1, 0))
    BY <1>7, <2>1, Zenon
  <2>3. EntriesAt(r, 0) = 6 + OnlyLen(r)
    <3>1. EntryWords(r.entries) \in Seq(Seq(Byte))
      BY <1>8, EntryWordsType, Zenon
    <3>2. Upto(EntryWords(r.entries), 0) = 0
      BY <3>1, UptoSteps, Zenon
    <3>3. PICK u : u = Upto(EntryWords(r.entries), 0)
      OBVIOUS
    <3>4. EntriesAt(r, 0) = 6 + OnlyLen(r) + u
      BY <3>3, Zenon DEF EntriesAt
    <3>5. u = 0
      BY <3>2, <3>3
    <3> QED BY ONLY <3>4, <3>5, <1>8
  <2>4. 0 + left' = Len(r.entries) /\ pos' = EntriesAt(r, 0) /\ 0 \in 0 .. Len(r.entries)
    BY <1>8, <1>10, <1>11, <2>3 DEF q
  <2> QED BY <1>6, <2>2, <2>4, Zenon DEF EntriesReplay, RibSoFar
<1>13. pc' = "entries" /\ ~InPrefix' /\ ~Waits("entry")' /\ pc' # "rib" /\ pc' # "done"
  BY <1>6 DEF InPrefix, Waits, InAttributes
<1>14. content' = WriteRib(r)
  BY <1>2, <1>6, Zenon
<1> QED BY <1>2, <1>11, <1>12, <1>13, <1>14, Zenon DEF RibReplay

\* An entry is written as its peer, its time, the length of its attributes and its attributes.
EntrySize(e) == Sum(AttributeLen, e.attrs)
EntryBytes(e) == Concat(WriteAttribute, e.attrs)
\* These are as long as Len says.
LEMMA EntryWritten ==
    ASSUME NEW e, EntryReadable(e)
    PROVE  /\ e.peer \in Bs(2) /\ e.time \in Bs(4) /\ e.attrs \in Seq(CanonicalAttributes(NoOptions))
           /\ Sound(e.attrs) /\ (\A k \in DOMAIN e.attrs : Writable(e.attrs[k])) /\ Faithful(e.attrs, NoOptions)
           /\ EntrySize(e) \in Nat /\ EntrySize(e) <= MaxUint16 /\ EntryBytes(e) \in Bs(EntrySize(e))
           /\ WriteEntry(e) = ((e.peer \o e.time) \o U16(EntrySize(e))) \o EntryBytes(e)
           /\ Len(WriteEntry(e)) = 8 + EntrySize(e)
<1> DEFINE s == e.attrs
<1>1. e \in Entries /\ s \in Seq(CanonicalAttributes(NoOptions)) /\ Faithful(s, NoOptions)
      /\ Sum(EntryAttributeLen, s) <= MaxUint16
  BY Zenon DEF EntryReadable, CanonicalEntries
<1>2. e.peer \in Bs(2) /\ e.time \in Bs(4) /\ s \in Seq(Attributes)
  BY <1>1 DEF Entries
<1>3. Sound(s)
  <2> SUFFICES ASSUME NEW k \in DOMAIN s, s[k].code = AGGREGATOR PROVE Len(s[k].id) = 4
    BY Zenon DEF Sound
  <2>1. FaithfulOne(s[k], NoOptions)
    BY <1>1, FaithfulAll, Zenon
  <2>2. AGGREGATOR # ASPATH /\ AGGREGATOR # REACH /\ AGGREGATOR # UNREACH /\ AGGREGATOR \in Decoded
    BY DEF AGGREGATOR, ASPATH, REACH, UNREACH, Decoded
  <2> QED BY <2>1, <2>2, Zenon DEF FaithfulOne
<1>4. \A k \in DOMAIN s : ~Pointer(s[k])
  <2>1. \A a \in Attributes : "pointer" \notin DOMAIN a
    BY DEF Attributes, Origins, Numbers, Atomics, Aggregators, Paths, NextHops, CommunityLists,
           LargeLists, Reaches, Unreaches, Unknowns
  <2>2. \A k \in DOMAIN s : s[k] \in Attributes
    BY <1>2, ElementsOf
  <2> QED BY <2>1, <2>2, Zenon DEF Pointer
<1>5. /\ [k \in DOMAIN s |-> EntryAttributeLen(s[k])] = [k \in DOMAIN s |-> AttributeLen(s[k])]
      /\ [k \in DOMAIN s |-> WriteEntryAttribute(s[k])] = [k \in DOMAIN s |-> WriteAttribute(s[k])]
  <2>1. \A k \in DOMAIN s : /\ EntryAttributeLen(s[k]) = AttributeLen(s[k])
                            /\ WriteEntryAttribute(s[k]) = WriteAttribute(s[k])
    BY <1>4, Zenon DEF EntryAttributeLen, WriteEntryAttribute
  <2> QED BY <2>1, Zenon
<1>6. Sum(EntryAttributeLen, s) = EntrySize(e) /\ Concat(WriteEntryAttribute, s) = EntryBytes(e)
  BY <1>5, Zenon DEF Sum, Concat, EntrySize, EntryBytes
<1>7. WriteEntry(e) = ((e.peer \o e.time) \o U16(EntrySize(e))) \o EntryBytes(e)
  BY <1>6, Zenon DEF WriteEntry
<1>8. EntrySize(e) \in Nat /\ EntrySize(e) <= MaxUint16 /\ EntryBytes(e) \in Bs(EntrySize(e))
  <2>1. /\ AttributeWords(s) \in Seq(Seq(Byte)) /\ Len(AttributeWords(s)) = Len(s)
        /\ EntryBytes(e) = FlattenSeq(AttributeWords(s))
        /\ EntrySize(e) = Upto(AttributeWords(s), Len(s)) /\ EntrySize(e) \in Nat
    BY <1>2, <1>3, AttributeWordsType, Zenon DEF EntrySize, EntryBytes
  <2>2. Upto(AttributeWords(s), Len(s)) = Len(EntryBytes(e))
    BY <2>1, UptoSteps, Zenon
  <2>3. EntryBytes(e) \in Seq(Byte)
    <3>1. Len(s) \in 0 .. Len(s)
      BY <1>2
    <3> QED BY <2>1, <3>1, FlattenUpto, Zenon
  <2> QED BY <1>1, <1>6, <2>1, <2>2, <2>3, Zenon DEF Bs
<1>9. \A k \in DOMAIN s : Writable(s[k])
  <2>1. Sum(AttributeLen, s) <= MaxUint16
    BY <1>8, Zenon DEF EntrySize
  <2> QED BY <1>2, <1>3, <2>1, AllWritable, Zenon
<1>10. Len(WriteEntry(e)) = 8 + EntrySize(e)
  <2> DEFINE u == e.peer
             v == e.time
             w == U16(EntrySize(e))
             x == EntryBytes(e)
  <2>1. /\ u \in Seq(Byte) /\ v \in Seq(Byte) /\ w \in Seq(Byte) /\ x \in Seq(Byte)
        /\ Len(u) = 2 /\ Len(v) = 4 /\ Len(w) = 2 /\ Len(x) = EntrySize(e)
    BY <1>2, <1>8, U16Type DEF Bs
  <2>2. WriteEntry(e) = ((u \o v) \o w) \o x
    BY <1>7, Zenon
  <2> HIDE DEF u, v, w, x
  <2>3. u \o v \in Seq(Byte) /\ Len(u \o v) = Len(u) + Len(v)
    BY <2>1, Appended, Zenon
  <2>4. (u \o v) \o w \in Seq(Byte) /\ Len((u \o v) \o w) = Len(u \o v) + Len(w)
    BY <2>1, <2>3, Appended, Zenon
  <2>5. Len(((u \o v) \o w) \o x) = Len((u \o v) \o w) + Len(x)
    BY <2>1, <2>4, Appended, Zenon
  <2> QED BY <1>8, <2>1, <2>2, <2>3, <2>4, <2>5
<1> QED BY <1>1, <1>2, <1>3, <1>7, <1>8, <1>9, <1>10, Zenon

\* And read as such.
LEMMA EntryRead ==
    ASSUME content \in Seq(Byte), pos \in Nat, ~eof, NEW e, EntryReadable(e), Holds(pos, WriteEntry(e))
    PROVE  /\ Field(0, 2) = e.peer /\ Field(2, 4) = e.time /\ ReadUint16(6) = EntrySize(e)
           /\ Field(8, EntrySize(e)) = EntryBytes(e) /\ pos + (8 + EntrySize(e)) <= RecSize
<1> DEFINE u == e.peer
           v == e.time
           w == U16(EntrySize(e))
           x == EntryBytes(e)
           n == EntrySize(e)
<1>1. /\ u \in Bs(2) /\ v \in Bs(4) /\ x \in Bs(n) /\ n \in Nat /\ n <= MaxUint16
      /\ WriteEntry(e) = ((u \o v) \o w) \o x
  BY EntryWritten, Zenon
<1>2. /\ u \in Seq(Byte) /\ v \in Seq(Byte) /\ w \in Seq(Byte) /\ x \in Seq(Byte)
      /\ Len(u) = 2 /\ Len(v) = 4 /\ Len(w) = 2 /\ Len(x) = n /\ w = U16(n)
  BY <1>1, U16Type DEF Bs
<1> HIDE DEF u, v, w, x, n
<1>3. u \o v \in Seq(Byte) /\ Len(u \o v) = 6
  <2>1. u \o v \in Seq(Byte) /\ Len(u \o v) = Len(u) + Len(v)
    BY <1>2, Appended, Zenon
  <2> QED BY <1>2, <2>1
<1>4. (u \o v) \o w \in Seq(Byte) /\ Len((u \o v) \o w) = 8
  <2>1. (u \o v) \o w \in Seq(Byte) /\ Len((u \o v) \o w) = Len(u \o v) + Len(w)
    BY <1>2, <1>3, Appended, Zenon
  <2> QED BY <1>2, <1>3, <2>1
<1>5. Holds(pos, (u \o v) \o w) /\ Holds(pos + Len((u \o v) \o w), x)
  <2>1. Holds(pos, ((u \o v) \o w) \o x)
    BY <1>1
  <2> QED BY <1>2, <1>4, <2>1, HoldsBoth, Zenon
<1>6. Holds(pos, u \o v) /\ Holds(pos + Len(u \o v), w)
  BY <1>2, <1>3, <1>5, HoldsBoth, Zenon
<1>7. Holds(pos, u) /\ Holds(pos + Len(u), v)
  BY <1>2, <1>6, HoldsBoth, Zenon
<1>8. PICK none \in Nat, two \in Nat, four \in Nat, six \in Nat, eight \in Nat :
          none = 0 /\ two = 2 /\ four = 4 /\ six = 6 /\ eight = 8
  OBVIOUS
<1>9. /\ pos + none = pos /\ pos + two = pos + Len(u) /\ pos + six = pos + Len(u \o v)
      /\ pos + eight = pos + Len((u \o v) \o w)
  BY <1>2, <1>3, <1>4, <1>8
<1>10. Field(none, two) = u
  <2>1. Holds(pos + none, u) /\ u \in Bs(two)
    BY <1>1, <1>7, <1>8, <1>9, Zenon
  <2> QED BY <2>1, FieldIs, Zenon
<1>11. Field(two, four) = v
  <2>1. Holds(pos + two, v) /\ v \in Bs(four)
    BY <1>1, <1>7, <1>8, <1>9, Zenon
  <2> QED BY <2>1, FieldIs, Zenon
<1>12. ReadUint16(six) = n
  <2>1. Holds(pos + six, U16(n))
    BY <1>2, <1>6, <1>9, Zenon
  <2> QED BY <1>1, <2>1, FieldU16, Zenon
<1>13. Field(eight, n) = x /\ pos + eight + n <= RecSize
  <2>1. Holds(pos + eight, x)
    BY <1>5, <1>9, Zenon
  <2> QED BY <1>1, <2>1, FieldIs, Zenon
<1>14. pos + (8 + n) <= RecSize
  <2>1. pos + eight + n = pos + (8 + n)
    BY ONLY <1>8, <1>1, pos \in Nat
  <2> QED BY <1>13, <2>1, Zenon
<1>15. Field(0, 2) = u /\ Field(2, 4) = v /\ ReadUint16(6) = n /\ Field(8, n) = x
  BY <1>8, <1>10, <1>11, <1>12, <1>13
<1> QED BY <1>14, <1>15, Zenon DEF u, v, n, x

\* The attributes of an entry begin.
LEMMA EntryAttributesBegin ==
    ASSUME NEW e, EntryReadable(e), b' = EntryBytes(e), session' = NoOptions, msg' = [attrs |-> <<>>],
           NEW to, to = EntrySize(e), CallParsePathAttribute(0, to, "entry")
    PROVE  EntryAttributes(e)' /\ Waits("entry")' /\ pc' = "attrs"
<1>1. PICK s, ret : s = e.attrs /\ ret = "entry"
  OBVIOUS
<1>2. PICK base \in Nat : base = 0
  OBVIOUS
<1>3. /\ s \in Seq(CanonicalAttributes(NoOptions)) /\ Sound(s) /\ \A k \in DOMAIN s : Writable(s[k])
      /\ EntrySize(e) \in Nat /\ EntryBytes(e) \in Seq(Byte)
  BY <1>1, EntryWritten, Zenon DEF Bs
<1>4. (s \in Seq(CanonicalAttributes(session)))'
  BY <1>3, Zenon
<1>5. Has(base, Concat(WriteAttribute, s))'
  <2>1. (b \in Seq(Byte) => Has(0, b))'
    BY HasAllNext
  <2>2. b' = Concat(WriteAttribute, s)
    BY <1>1, Zenon DEF EntryBytes
  <2>3. Has(0, b)'
    BY <1>3, <2>1, Zenon
  <2>4. Has(base, b)'
    BY <1>2, <2>3
  <2> QED BY <2>2, <2>4, Zenon DEF Has
<1>6. to = base + Sum(AttributeLen, s)
  <2>1. Sum(AttributeLen, s) = to
    BY <1>1, Zenon DEF EntrySize
  <2> QED BY <1>2, <1>3, <2>1
<1>7. CallParsePathAttribute(base, to, ret)
  BY <1>1, <1>2
<1>8. msg'.attrs = <<>>
  OBVIOUS
<1>9. AttributesReplay(s, base)' /\ attr'.ret = ret /\ pc' = "attrs"
  BY <1>3, <1>4, <1>5, <1>6, <1>7, <1>8, AttributesBegin, Zenon
<1>10. AttributesReplay(e.attrs, 0)'
  BY <1>1, <1>2, <1>9
<1>11. Waits("entry")' /\ pc' # "entry"
  BY <1>1, <1>9 DEF Waits, InAttributes
<1>12. EntryAttributes(e)'
  BY <1>10, <1>11, Zenon DEF EntryAttributes
<1> QED BY <1>9, <1>11, <1>12, Zenon

\* An entry of a record begins, or the record ends.
LEMMA EntriesGo ==
    ASSUME DecodeEntry, left \in Nat, NEW r, RibReplay(r)
    PROVE  RibReplay(r)'
<1>1. pc = "entries"
  BY Zenon DEF DecodeEntry
<1>2. RibReadable(r) /\ content = WriteRib(r) /\ ~eof /\ EntriesReplay(r)
  BY <1>1, Zenon DEF RibReplay
<1>3. PICK n \in 0 .. Len(r.entries) :
          rec = RibSoFar(r, r.nlri, SubSeq(r.entries, 1, n)) /\ n + left = Len(r.entries) /\ pos = EntriesAt(r, n)
  BY <1>2, Zenon DEF EntriesReplay
<1> DEFINE s == r.entries
           t == EntryWords(s)
           v == OnlyLen(r)
<1>4. /\ content \in Seq(Byte) /\ Holds(6 + v, FlattenSeq(t)) /\ v \in Nat /\ Len(s) \in Nat
      /\ s \in Seq(Entries) /\ RecSize \in Nat
  BY <1>2, RibLayout, Zenon
<1>5. /\ t \in Seq(Seq(Byte)) /\ Len(t) = Len(s)
      /\ \A k \in 1 .. Len(s) : t[k] = WriteEntry(s[k]) /\ s[k] \in Entries
  BY <1>4, EntryWordsType, Zenon
<1>6. \A k \in DOMAIN s : EntryReadable(s[k])
  BY <1>2, Zenon DEF RibReadable
<1>7. ~failed
  BY <1>2, Zenon DEF EntriesReplay
<1>8. pos = 6 + v + Upto(t, n)
  BY <1>3, Zenon DEF EntriesAt
<1>9. n + left = Len(s) /\ n \in 0 .. Len(s) /\ rec = RibSoFar(r, r.nlri, SubSeq(s, 1, n))
  BY <1>3
<1>10. rec.addPath = FALSE
  BY <1>9 DEF RibSoFar
<1> HIDE DEF s, v, t
<1>11. CASE left = 0
  <2>1. n = Len(s)
    BY <1>9, <1>11, <1>4
  <2>2. SubSeq(s, 1, n) = s
    BY <1>4, <2>1
  <2>3. rec = RibSoFar(r, r.nlri, r.entries)
    BY <1>9, <2>2, Zenon DEF s
  <2>4. rec' = rec /\ pc' = "done"
    BY <1>7, <1>11, Zenon DEF DecodeEntry, caller
  <2>5. pc' # "rib" /\ pc' # "entries" /\ ~InPrefix' /\ ~Waits("entry")' /\ pc' \in {"rib", "entries", "done"}
    BY <2>4 DEF InPrefix, Waits, InAttributes
  <2>6. rec' = RibSoFar(r, r.nlri, r.entries)
    BY <2>3, <2>4, Zenon
  <2> QED BY <1>2, <2>4, <2>5, <2>6, Zenon DEF RibReplay, RibSoFar
<1>12. CASE left # 0
  <2>1. n \in 0 .. Len(t) - 1 /\ n \in 0 .. Len(s) - 1 /\ n + 1 \in 1 .. Len(s) /\ n \in Nat
    BY <1>4, <1>5, <1>9, <1>12
  <2>2. Holds((6 + v) + Upto(t, n), t[n + 1])
    <3>1. 6 + v \in Nat
      BY <1>4
    <3> QED BY <1>4, <1>5, <2>1, <3>1, HoldsWord, Zenon
  <2> DEFINE e == s[n + 1]
             l == EntrySize(e)
  <2>3. e \in Entries /\ t[n + 1] = WriteEntry(e) /\ EntryReadable(e)
    <3>1. n + 1 \in DOMAIN s
      BY <1>4, <2>1
    <3> QED BY <1>5, <1>6, <2>1, <3>1, Zenon
  <2> HIDE DEF e
  <2>4. Upto(t, n) \in Nat /\ Upto(t, n + 1) = Upto(t, n) + Len(WriteEntry(e))
    BY <1>5, <2>1, <2>3, NextWord
  <2>5. pos \in Nat /\ Holds(pos, WriteEntry(e))
    <3>1. PICK u : u = Upto(t, n)
      OBVIOUS
    <3>2. pos = 6 + v + u /\ u \in Nat
      BY <1>8, <2>4, <3>1
    <3>3. pos = (6 + v) + u /\ pos \in Nat
      BY ONLY <1>4, <3>2
    <3>4. pos = (6 + v) + Upto(t, n)
      BY <3>1, <3>3
    <3> QED BY <2>2, <2>3, <3>3, <3>4, Zenon
  <2>6. /\ Field(0, 2) = e.peer /\ Field(2, 4) = e.time /\ ReadUint16(6) = l
        /\ Field(8, l) = EntryBytes(e) /\ pos + (8 + l) <= RecSize
    BY <1>2, <1>4, <2>3, <2>5, EntryRead, Zenon
  <2>7. l \in Nat /\ Len(WriteEntry(e)) = 8 + l
    BY <2>3, EntryWritten, Zenon
  <2>8. /\ rec' = [rec EXCEPT !.entries = Append(@, [peer |-> Field(0, 2), time |-> Field(2, 4)])]
        /\ left' = left - 1 /\ CallAttributes(8 + 0, ReadUint16(6 + 0), FALSE, "entry")
    BY <1>10, <1>12, Zenon DEF DecodeEntry
  <2>9. CallAttributes(8, l, FALSE, "entry")
    <3>1. 8 + 0 = 8 /\ 6 + 0 = 6
      OBVIOUS
    <3> QED BY <2>6, <2>8, <3>1, Zenon
  <2>10. PICK to : to = l
    OBVIOUS
  <2>11. /\ b' = EntryBytes(e) /\ Advance(8 + l) /\ session' = [NoOptions EXCEPT !.enc2bytes = FALSE]
         /\ msg' = [attrs |-> <<>>] /\ CallParsePathAttribute(0, to, "entry") /\ content' = content
    BY <2>6, <2>9, <2>10, Zenon DEF CallAttributes
  <2>12. session' = NoOptions
    <3>1. session' = [NoOptions EXCEPT !.enc2bytes = FALSE]
      BY <2>11, Zenon
    <3> QED BY ONLY <3>1 DEF NoOptions
  <2>13. EntryAttributes(e)' /\ Waits("entry")' /\ pc' = "attrs"
    <3>1. PICK x : x = e
      OBVIOUS
    <3>2. EntryAttributes(x)' /\ Waits("entry")' /\ pc' = "attrs"
      BY <2>3, <2>10, <2>11, <2>12, <3>1, EntryAttributesBegin, Zenon
    <3> QED BY <3>1, <3>2
  <2>14. pos' = pos + (8 + l) /\ ~eof'
    <3>1. PICK step \in Nat : step = 8 + l
      BY <2>7
    <3>2. Advance(step) /\ pos + step <= RecSize
      BY <2>6, <2>11, <3>1
    <3> QED BY <1>2, <3>1, <3>2, AdvanceOver
  <2>15. rec' = RibSoFar(r, r.nlri, Append(SubSeq(s, 1, n), Begun(e)))
    <3>1. rec' = [rec EXCEPT !.entries = Append(@, Begun(e))]
      BY <2>6, <2>8, Zenon DEF Begun
    <3> QED BY ONLY <1>9, <3>1 DEF RibSoFar
  <2>16. (n + 1) + left' = Len(s)
    <3>1. left' = left - 1 /\ n + left = Len(s) /\ left \in Nat
      BY <1>9, <2>8, Zenon
    <3> QED BY ONLY <2>1, <3>1
  <2>17. pos' = EntriesAt(r, n + 1)
    <3>1. PICK u, w : u = Upto(t, n) /\ w = Upto(t, n + 1)
      OBVIOUS
    <3>2. pos = 6 + v + u /\ pos' = pos + (8 + l) /\ w = u + (8 + l) /\ u \in Nat /\ v \in Nat /\ l \in Nat
      BY <1>4, <1>8, <2>4, <2>7, <2>14, <3>1
    <3>3. EntriesAt(r, n + 1) = 6 + v + w
      BY <3>1, Zenon DEF EntriesAt, s, v, t
    <3> HIDE DEF l
    <3>4. pos' = 6 + v + w
      BY ONLY <3>2
    <3> QED BY <3>3, <3>4
  <2>18. EntryReplay(r)'
    <3>1. PICK m : m = n
      OBVIOUS
    <3>2. /\ rec' = RibSoFar(r, r.nlri, Append(SubSeq(r.entries, 1, m), Begun(r.entries[m + 1])))
          /\ (m + 1) + left' = Len(r.entries) /\ pos' = EntriesAt(r, m + 1) /\ EntryAttributes(r.entries[m + 1])'
          /\ m \in 0 .. Len(r.entries) - 1
      BY <2>1, <2>13, <2>15, <2>16, <2>17, <3>1 DEF s, e
    <3> QED BY <3>2, Zenon DEF EntryReplay, RibSoFar, EntriesAt, Begun
  <2>19. content' = WriteRib(r) /\ ~InPrefix' /\ pc' # "rib" /\ pc' # "entries" /\ pc' # "done"
    BY <1>2, <2>11, <2>13 DEF InPrefix
  <2> QED BY <1>2, <2>13, <2>14, <2>18, <2>19, Zenon DEF RibReplay
<1> QED BY <1>11, <1>12

\* The attributes of an entry go on.
LEMMA EntryAttributesGo ==
    ASSUME Inv, UpdateNext, InAttributes, attr.ret = "entry", NEW r, RibReplay(r)
    PROVE  RibReplay(r)'
<1>1. Waits("entry") /\ pc # "entry" /\ pc # "done" /\ pc # "rib" /\ pc # "entries"
  BY DEF Waits, InAttributes
<1>2. RibReadable(r) /\ content = WriteRib(r) /\ ~eof /\ EntryReplay(r)
  BY <1>1, Zenon DEF RibReplay
<1>3. PICK n \in 0 .. Len(r.entries) - 1 :
          /\ rec = RibSoFar(r, r.nlri, Append(SubSeq(r.entries, 1, n), Begun(r.entries[n + 1])))
          /\ (n + 1) + left = Len(r.entries) /\ pos = EntriesAt(r, n + 1)
          /\ EntryAttributes(r.entries[n + 1])
  BY <1>2, Zenon DEF EntryReplay
<1>4. PICK e : e = r.entries[n + 1]
  OBVIOUS
<1>5. session = NoOptions /\ AttributesReplay(e.attrs, 0)
  BY <1>1, <1>3, <1>4, Zenon DEF EntryAttributes
<1>6. PICK base \in Nat : base = 0
  OBVIOUS
<1>7. PICK s : s = e.attrs
  OBVIOUS
<1>8. AttributesReplay(s, base)
  BY <1>5, <1>6, <1>7
<1>9. EntryReadable(e)
  <2>1. r.entries \in Seq(CanonicalEntries)
    BY <1>2, Zenon DEF RibReadable
  <2>2. n + 1 \in DOMAIN r.entries
    BY <2>1
  <2> QED BY <1>2, <1>4, <2>2, Zenon DEF RibReadable
<1>10. \/ OnlyAttributes /\ AttributesReplay(s, base)'
       \/ ReturnAttributes(FALSE) /\ (Faithful(s, session) => msg.attrs = s)
  BY <1>8, AttributesGo, Zenon
<1>11. /\ EntryAttributes(e)' /\ Waits("entry")' /\ UNCHANGED caller
       /\ ~InPrefix' /\ pc' # "rib" /\ pc' # "entries" /\ pc' # "done"
  <2>1. CASE OnlyAttributes /\ AttributesReplay(s, base)'
    <3>1. InAttributes' /\ attr'.ret = "entry" /\ session' = NoOptions /\ UNCHANGED caller
      BY <1>5, <2>1, Zenon DEF OnlyAttributes
    <3>2. AttributesReplay(e.attrs, 0)'
      BY <1>6, <1>7, <2>1
    <3>3. Waits("entry")' /\ pc' # "entry" /\ ~InPrefix' /\ pc' # "rib" /\ pc' # "entries" /\ pc' # "done"
      BY <3>1 DEF Waits, InPrefix, InAttributes
    <3>4. EntryAttributes(e)'
      BY <3>1, <3>2, <3>3, Zenon DEF EntryAttributes
    <3> QED BY <3>1, <3>3, <3>4, Zenon
  <2>2. CASE ReturnAttributes(FALSE) /\ (Faithful(s, session) => msg.attrs = s)
    <3>1. pc' = "entry" /\ failed' = FALSE /\ session' = session /\ msg' = msg /\ UNCHANGED caller
      BY <2>2, Zenon DEF ReturnAttributes
    <3>2. Faithful(s, NoOptions)
      BY <1>7, <1>9, EntryWritten, Zenon
    <3>3. msg.attrs = e.attrs
      BY <1>5, <1>7, <2>2, <3>2
    <3>4. msg'.attrs = e.attrs /\ ~failed' /\ session' = NoOptions
      BY <1>5, <3>1, <3>3
    <3>5. EntryAttributes(e)'
      BY <3>1, <3>4, Zenon DEF EntryAttributes
    <3>6. Waits("entry")' /\ ~InPrefix' /\ pc' # "rib" /\ pc' # "entries" /\ pc' # "done"
      BY <3>1 DEF Waits, InPrefix, InAttributes
    <3> QED BY <3>1, <3>5, <3>6, Zenon
  <2> QED BY <1>10, <2>1, <2>2, Zenon
<1>12. UNCHANGED <<content, pos, eof, rec, left>>
  BY <1>11, Zenon DEF caller
<1>13. EntryReplay(r)'
  <2>1. EntryAttributes(r.entries[n + 1])'
    BY <1>4, <1>11
  <2>2. /\ rec' = RibSoFar(r, r.nlri, Append(SubSeq(r.entries, 1, n), Begun(r.entries[n + 1])))
        /\ (n + 1) + left' = Len(r.entries) /\ pos' = EntriesAt(r, n + 1)
    BY <1>3, <1>12, Zenon
  <2> QED BY <2>1, <2>2, Zenon DEF EntryReplay, RibSoFar, EntriesAt, Begun
<1>14. content' = WriteRib(r) /\ ~eof'
  BY <1>2, <1>12, Zenon
<1> QED BY <1>2, <1>11, <1>13, <1>14, Zenon DEF RibReplay

\* The last of a sequence is replaced.
LEMMA LastReplaced ==
    ASSUME NEW u, NEW n \in Nat, NEW A, u \in Seq(A), Len(u) = n, NEW x, NEW y
    PROVE  [Append(u, x) EXCEPT ![n + 1] = y] = Append(u, y)
<1> DEFINE B == A \cup {x, y}
           f == Append(u, x)
           h == [f EXCEPT ![n + 1] = y]
<1>1. A \subseteq B /\ x \in B /\ y \in B
  OBVIOUS
<1> HIDE DEF B
<1>2. u \in Seq(B)
  BY <1>1, SeqInto, Zenon
<1>3. f \in Seq(B) /\ Len(f) = n + 1 /\ \A k \in 1 .. n : f[k] = u[k]
  BY <1>1, <1>2
<1> HIDE DEF f
<1>4. h \in [1 .. n + 1 -> B] /\ h[n + 1] = y /\ \A k \in 1 .. n : h[k] = u[k]
  BY <1>1, <1>3
<1> HIDE DEF h
<1>5. h = Append(u, y)
  BY <1>1, <1>2, <1>4, IsAppend, Zenon
<1> QED BY <1>5 DEF h, f

\* An entry is whole.
LEMMA EntryEnds ==
    ASSUME EntryDecoded, NEW r, RibReplay(r)
    PROVE  RibReplay(r)'
<1>1. Waits("entry") /\ pc = "entry" /\ pc # "done" /\ pc # "rib" /\ pc # "entries"
  BY DEF EntryDecoded, Waits
<1>2. RibReadable(r) /\ content = WriteRib(r) /\ ~eof /\ EntryReplay(r)
  BY <1>1, Zenon DEF RibReplay
<1>3. PICK n \in 0 .. Len(r.entries) - 1 :
          /\ rec = RibSoFar(r, r.nlri, Append(SubSeq(r.entries, 1, n), Begun(r.entries[n + 1])))
          /\ (n + 1) + left = Len(r.entries) /\ pos = EntriesAt(r, n + 1)
          /\ EntryAttributes(r.entries[n + 1])
  BY <1>2, Zenon DEF EntryReplay
<1> DEFINE s == r.entries
           e == s[n + 1]
           u == SubSeq(s, 1, n)
<1>4. ~failed /\ msg.attrs = e.attrs
  BY <1>1, <1>3, Zenon DEF EntryAttributes
<1>5. /\ pc' = "entries"
      /\ rec' = [rec EXCEPT !.entries[Len(rec.entries)] =
                     [peer |-> @.peer, time |-> @.time, attrs |-> msg.attrs]]
      /\ UNCHANGED <<nested, reader, source, left, first>>
  BY Zenon DEF EntryDecoded, Goto
<1>6. UNCHANGED <<content, pos, eof, left, failed>>
  BY <1>5 DEF nested, reader, locals
<1>7. s \in Seq(CanonicalEntries) /\ n \in 0 .. Len(s) - 1
  BY <1>2, <1>3, Zenon DEF RibReadable
<1>8. /\ u \in Seq(CanonicalEntries) /\ Len(u) = n /\ n \in Nat /\ n \in 0 .. Len(s) /\ n + 1 \in 0 .. Len(s)
      /\ e \in CanonicalEntries /\ SubSeq(s, 1, n + 1) = Append(u, e)
  <2> HIDE DEF s
  <2>1. n \in 0 .. Len(s) /\ n \in Nat /\ n + 1 \in 1 .. Len(s) /\ n + 1 \in 0 .. Len(s)
    BY <1>7
  <2>2. e \in CanonicalEntries
    BY <1>7, <2>1
  <2> QED BY <1>7, <2>1, <2>2, OneFurther, Zenon
<1>9. e = [peer |-> e.peer, time |-> e.time, attrs |-> e.attrs]
  <2>1. e \in Entries
    BY <1>8, Zenon DEF CanonicalEntries
  <2> HIDE DEF e
  <2> QED BY ONLY <2>1 DEF Entries
<1>10. rec = RibSoFar(r, r.nlri, Append(u, Begun(e)))
  BY <1>3, Zenon
<1> HIDE DEF s, e, u
<1>11. rec.entries = Append(u, Begun(e))
  BY <1>10 DEF RibSoFar
<1>12. Len(rec.entries) = n + 1 /\ rec.entries[n + 1] = Begun(e)
  <2>1. Len(Append(u, Begun(e))) = n + 1 /\ Append(u, Begun(e))[n + 1] = Begun(e)
    BY ONLY <1>8
  <2> QED BY <1>11, <2>1
<1>13. rec' = [rec EXCEPT !.entries[n + 1] = e]
  <2>1. rec' = [rec EXCEPT !.entries[n + 1] = [peer |-> @.peer, time |-> @.time, attrs |-> e.attrs]]
    BY <1>4, <1>5, <1>12
  <2>2. Begun(e).peer = e.peer /\ Begun(e).time = e.time
    BY DEF Begun
  <2> QED BY ONLY <1>9, <1>12, <2>1, <2>2
<1>14. rec' = RibSoFar(r, r.nlri, Append(u, e))
  <2>1. [Append(u, Begun(e)) EXCEPT ![n + 1] = e] = Append(u, e)
    BY <1>8, LastReplaced
  <2>2. PICK x, y : x = Append(u, Begun(e)) /\ y = Append(u, e)
    OBVIOUS
  <2>3. rec = RibSoFar(r, r.nlri, x) /\ [x EXCEPT ![n + 1] = e] = y
    BY <1>10, <2>1, <2>2
  <2>4. rec' = RibSoFar(r, r.nlri, y)
    BY ONLY <1>13, <2>3 DEF RibSoFar
  <2> QED BY <2>2, <2>4
<1>15. EntriesReplay(r)'
  <2>1. rec' = RibSoFar(r, r.nlri, SubSeq(r.entries, 1, n + 1))
    BY <1>8, <1>14, Zenon DEF s
  <2>2. (n + 1) + left' = Len(r.entries) /\ pos' = EntriesAt(r, n + 1) /\ n + 1 \in 0 .. Len(r.entries)
    BY <1>3, <1>6, <1>8, Zenon DEF s
  <2>3. ~failed'
    BY <1>4, <1>6, Zenon
  <2> QED BY <2>1, <2>2, <2>3, Zenon DEF EntriesReplay, RibSoFar, EntriesAt
<1>16. content' = WriteRib(r) /\ ~eof'
  BY <1>2, <1>6, Zenon
<1>17. pc' = "entries" /\ ~InPrefix' /\ ~Waits("entry")' /\ pc' # "rib" /\ pc' # "done"
  BY <1>5 DEF InPrefix, Waits, InAttributes
<1> QED BY <1>2, <1>15, <1>16, <1>17, Zenon DEF RibReplay

\* Which decoder runs where.
LEMMA DecoderOf ==
    ASSUME Decode
    PROVE  /\ pc # "done"
           /\ pc = "start" => DecodeSingle \/ Receive \/ ParseSlice
           /\ pc = "stateChange" => DecodeStateChange
           /\ pc = "peerIndex" => DecodePeerIndex
           /\ pc = "peers" => DecodePeer
           /\ pc = "rib" => DecodeRibSpec
           /\ pc = "prefix" => PrefixDecoded
           /\ pc = "entries" => DecodeEntry
           /\ pc = "entry" => EntryDecoded
           /\ pc = "nlri" \/ InAttributes => UpdateNext
<1>1. CASE MrtNext
  BY <1>1 DEF MrtNext, DecodeSingle, DecodeMessage, DecodeStateChange, DecodePeerIndex, DecodePeer,
     DecodeRibSpec, DecodeRibGeneric, PrefixDecoded, DecodeEntry, EntryDecoded, DecodeTableDump,
     TableDumpDecoded, InAttributes
<1>2. CASE UpdateNext
  <2>1. pc = "update" \/ InUpdate \/ InAttributes \/ pc = "nlri"
    BY <1>2, UpdateNextAt
  <2> QED BY <1>2, <2>1 DEF InUpdate, InAttributes
<1>3. CASE PacketNext /\ ~UpdateNext
  <2>1. \/ (pc = "start" /\ (Receive \/ ParseSlice))
        \/ pc \in {"open", "param", "capa", "notification", "keepalive"}
    BY <1>3, DecodersAt DEF PacketNext
  <2> QED BY <2>1 DEF InAttributes
<1> QED BY <1>1, <1>2, <1>3, Zenon DEF Decode

\* Among prefixes that is ParseNLRI.
LEMMA ParseNLRIAt == ASSUME UpdateNext, pc = "nlri" PROVE ParseNLRI
BY DEF UpdateNext, ParseUpdate, WithdrawnParsed, AttributesParsed, UpdateParsed, ParseAttributeHeader,
   ParseOrigin, ParseMedLocPref, ParseAggregator, ParseAtomicAggregate, ParseNextHop, ParseCommunities,
   ParseUnknown, ParseASPath, ParseASPathSegment, ParseReach, ReachParsed, ParseUnreach, UnreachParsed, Case

\* A RIB record goes on.
LEMMA RibGoes ==
    ASSUME Inv, Decode, NEW r, RibReplay(r)
    PROVE  RibReplay(r)'
<1>1. pc \in {"rib", "entries"} \/ InPrefix \/ Waits("entry")
  BY DecoderOf, Zenon DEF RibReplay
<1>2. left \in Nat
  BY DEF Inv, IInv, TypeOK
<1>3. CASE pc \in {"rib", "entries"}
  <2>1. DecodeRibSpec \/ DecodeEntry
    BY <1>3, DecoderOf
  <2> QED BY <1>2, <2>1, RibBegins, EntriesGo, Zenon
<1>4. CASE InPrefix
  <2>1. CASE pc = "prefix"
    BY <2>1, DecoderOf, EntriesBegin, Zenon
  <2>2. CASE pc = "nlri"
    BY <1>4, <2>2, DecoderOf, ParseNLRIAt, RibPrefixGoes, Zenon
  <2> QED BY <1>4, <2>1, <2>2, Zenon DEF InPrefix
<1>5. CASE Waits("entry")
  <2>1. CASE pc = "entry"
    BY <2>1, DecoderOf, EntryEnds, Zenon
  <2>2. CASE InAttributes /\ attr.ret = "entry"
    BY <2>2, DecoderOf, EntryAttributesGo, Zenon
  <2> QED BY <1>5, <2>1, <2>2, Zenon DEF Waits
<1> QED BY <1>1, <1>3, <1>4, <1>5, Zenon

\* A peer index table goes on.
LEMMA PeerIndexGoes ==
    ASSUME Inv, Decode, NEW r, PeerIndexReplay(r)
    PROVE  PeerIndexReplay(r)'
<1>1. left \in Nat
  BY DEF Inv, IInv, TypeOK
<1>2. pc = "peerIndex" \/ pc = "peers"
  BY DecoderOf DEF PeerIndexReplay
<1> QED BY <1>1, <1>2, DecoderOf, PeerIndexBegins, PeersGo, Zenon

\* A record is decoded as it was.
RecordReplay(r) == StateChangeReplay(r) \/ MessageRecordReplay(r) \/ PeerIndexReplay(r) \/ RibReplay(r)
\* Every round of a decoder keeps it on its way.
LEMMA RecordGoes ==
    ASSUME Inv, Decode, source = "mrt", NEW r, RecordReplay(r)
    PROVE  RecordReplay(r)'
<1>1. CASE StateChangeReplay(r)
  <2>1. pc = "stateChange"
    BY <1>1, DecoderOf DEF StateChangeReplay
  <2> QED BY <1>1, <2>1, DecoderOf, StateChangeGoes, Zenon DEF RecordReplay
<1>2. CASE MessageRecordReplay(r)
  BY <1>2, RecordedMessageGoes, Zenon DEF RecordReplay
<1>3. CASE PeerIndexReplay(r)
  BY <1>3, PeerIndexGoes, Zenon DEF RecordReplay
<1>4. CASE RibReplay(r)
  BY <1>4, RibGoes, Zenon DEF RecordReplay
<1> QED BY <1>1, <1>2, <1>3, <1>4, Zenon DEF RecordReplay

-----------------------------------------------------------------------------
(* A record is decoded again.                                               *)

\* A state change.
LEMMA StateChangeStarts ==
    ASSUME DecodeSingle, b \in Seq(Byte), NEW r \in StateChanges, b = WriteRecord(r), RecordFits(r), FaithfulRecord(r)
    PROVE  StateChangeReplay(r)'
<1> DEFINE p == WritePeers(r)
           s == r.states
           body == p \o s
           head == WriteCommonHeader(r.time, TYPE_BGP4MP, STATE_CHANGE_AS4, RecordLen(r))
<1>1. /\ r.type = "STATE_CHANGE" /\ r.time \in Bs(4) /\ r.peerAS \in Bs(4) /\ r.localAS \in Bs(4)
      /\ r.iface \in Bs(2) /\ r.peerIP \in Addresses /\ r.localIP \in Addresses
      /\ Len(r.localIP) = Len(r.peerIP) /\ r.states \in Bs(4)
  BY DEF StateChanges
<1>2. ~Mapped(r.peerIP)
  BY <1>1 DEF FaithfulRecord
<1>3. RecordLen(r) = PeersLen(r) + 4 /\ RecordLen(r) <= MaxMrtLength
  <2>1. RecordLen(r) <= MaxMrtLength
    BY Zenon DEF RecordFits
  <2> QED BY <1>1, <2>1, Zenon DEF RecordLen
<1>4. PeersLen(r) \in Nat /\ p \in Seq(Byte) /\ Len(p) = PeersLen(r)
  BY <1>1, <1>2, WritePeersLen, Zenon
<1>5. s \in Seq(Byte) /\ Len(s) = 4
  BY <1>1 DEF Bs
<1>6. WriteRecord(r) = (head \o p) \o s
  BY <1>1, Zenon DEF WriteRecord
<1>7. PICK type \in Nat, subtype \in Nat :
          type = TYPE_BGP4MP /\ subtype = STATE_CHANGE_AS4 /\ type <= MaxUint16 /\ subtype <= MaxUint16
  BY DEF TYPE_BGP4MP, STATE_CHANGE_AS4, MaxUint16
<1> HIDE DEF p, s
<1>8. body \in Seq(Byte) /\ Len(body) = RecordLen(r)
  <2>1. body \in Seq(Byte) /\ Len(body) = Len(p) + Len(s)
    BY <1>4, <1>5, Appended, Zenon
  <2> QED BY <1>3, <1>4, <1>5, <2>1
<1>9. head \in Seq(Byte)
  <2>1. RecordLen(r) \in Nat
    BY <1>3, <1>4
  <2> QED BY <1>1, <1>7, <2>1, CommonHeaderLen, Zenon DEF Bs
<1>10. WriteRecord(r) = head \o body
  BY <1>4, <1>5, <1>6, <1>9, Associative, Zenon
<1> HIDE DEF body
<1>11. PICK time : time = r.time
  OBVIOUS
<1>12. b = WriteCommonHeader(time, type, subtype, Len(body)) \o body
  BY <1>7, <1>8, <1>10, <1>11, Zenon
<1>13. /\ content' = body /\ pos' = 0 /\ ~eof' /\ rec' = [time |-> time, subtype |-> subtype]
       /\ pc' = "stateChange"
  <2>1. time \in Bs(4) /\ body \in Seq(Byte) /\ Len(body) <= MaxMrtLength
    BY <1>1, <1>3, <1>8, <1>11, Zenon
  <2> QED BY <1>7, <1>12, <2>1, RecordBegins, Zenon
<1>14. rec'.time = r.time /\ pc' \in {"stateChange", "done"} /\ pc' # "done"
  BY <1>11, <1>13
<1> QED BY <1>2, <1>13, <1>14, Zenon DEF StateChangeReplay, body, p, s

\* A message.
LEMMA RecordedMessageStarts ==
    ASSUME DecodeSingle, b \in Seq(Byte), NEW r \in MessageResults, b = WriteRecord(r), RecordFits(r),
           FaithfulRecord(r), r.message \in CanonicalMessages(NoOptions)
    PROVE  MessageRecordReplay(r)'
<1> DEFINE p == WritePeers(r)
           m == r.message
           s == WritePacket(m)
           body == p \o s
           head == WriteCommonHeader(r.time, TYPE_BGP4MP, MESSAGE_AS4, RecordLen(r))
<1>1. /\ r.type = "MESSAGE" /\ r.time \in Bs(4) /\ r.peerAS \in Bs(4) /\ r.localAS \in Bs(4)
      /\ r.iface \in Bs(2) /\ r.peerIP \in Addresses /\ r.localIP \in Addresses
      /\ Len(r.localIP) = Len(r.peerIP) /\ r.message \in Messages
  BY DEF MessageResults
<1>2. ~Mapped(r.peerIP)
  BY <1>1, Zenon DEF FaithfulRecord
<1>3. RecordLen(r) = PeersLen(r) + LenPacket(m) /\ RecordLen(r) <= MaxMrtLength /\ Fits(m)
  BY <1>1, Zenon DEF RecordLen, RecordFits
<1>4. PeersLen(r) \in Nat /\ p \in Seq(Byte) /\ Len(p) = PeersLen(r)
  BY <1>1, <1>2, WritePeersLen, Zenon
<1>5. s \in Seq(Byte) /\ Len(s) = LenPacket(m) /\ LenPacket(m) \in Nat
  <2>1. m.type = "UPDATE" => Sound(m.attrs)
    BY <1>3, Zenon DEF Fits
  <2> QED BY <1>1, <2>1, WritePacketLen, Zenon
<1>6. WriteRecord(r) = (head \o p) \o s
  BY <1>1, Zenon DEF WriteRecord
<1>7. PICK type \in Nat, subtype \in Nat :
          type = TYPE_BGP4MP /\ subtype = MESSAGE_AS4 /\ type <= MaxUint16 /\ subtype <= MaxUint16
  BY DEF TYPE_BGP4MP, MESSAGE_AS4, MaxUint16
<1> HIDE DEF p, s
<1>8. body \in Seq(Byte) /\ Len(body) = RecordLen(r)
  <2>1. body \in Seq(Byte) /\ Len(body) = Len(p) + Len(s)
    BY <1>4, <1>5, Appended, Zenon
  <2> QED BY <1>3, <1>4, <1>5, <2>1
<1>9. head \in Seq(Byte)
  <2>1. RecordLen(r) \in Nat
    BY <1>3, <1>4, <1>5
  <2> QED BY <1>1, <1>7, <2>1, CommonHeaderLen, Zenon DEF Bs
<1>10. WriteRecord(r) = head \o body
  BY <1>4, <1>5, <1>6, <1>9, Associative, Zenon
<1> HIDE DEF body
<1>11. PICK time : time = r.time
  OBVIOUS
<1>12. b = WriteCommonHeader(time, type, subtype, Len(body)) \o body
  BY <1>7, <1>8, <1>10, <1>11, Zenon
<1>13. /\ content' = body /\ pos' = 0 /\ ~eof' /\ rec' = [time |-> time, subtype |-> subtype]
       /\ pc' = "message"
  <2>1. time \in Bs(4) /\ body \in Seq(Byte) /\ Len(body) <= MaxMrtLength
    BY <1>1, <1>3, <1>8, <1>11, Zenon
  <2> QED BY <1>7, <1>12, <2>1, RecordBegins, Zenon
<1>14. rec'.time = r.time
  BY <1>11, <1>13
<1> QED BY <1>2, <1>3, <1>13, <1>14, Zenon DEF MessageRecordReplay, body, p, s

\* A peer index table.
LEMMA PeerIndexStarts ==
    ASSUME DecodeSingle, b \in Seq(Byte), NEW r \in PeerIndexes, b = WriteRecord(r), RecordFits(r),
           FaithfulRecord(r), RecordResult(r)
    PROVE  PeerIndexReplay(r)'
<1> DEFINE body == WritePeerIndex(r)
<1>1. r.type = "PEER_INDEX" /\ r.time \in Bs(4)
  BY DEF PeerIndexes
<1>2. IndexReadable(r)
  <2>1. \A k \in DOMAIN r.peers : Short(r.peers[k].asn) /\ ~Mapped(r.peers[k].ip)
    BY <1>1, Zenon DEF FaithfulRecord
  <2>2. Len(r.peers) <= MaxUint16 /\ Len(r.view) <= MaxUint16
    BY <1>1, Zenon DEF RecordResult
  <2> QED BY <2>1, <2>2, Zenon DEF IndexReadable, Kept
<1>3. RecordLen(r) = PeerIndexLen(r) /\ RecordLen(r) <= MaxMrtLength
  BY <1>1, Zenon DEF RecordLen, RecordFits
<1>4. body \in Seq(Byte) /\ Len(body) = RecordLen(r)
  BY <1>3, WritePeerIndexLen, Zenon DEF Bs
<1>5. PICK type \in Nat, subtype \in Nat :
          type = TYPE_TABLE_DUMPV2 /\ subtype = PEER_INDEX_TABLE /\ type <= MaxUint16 /\ subtype <= MaxUint16
  BY DEF TYPE_TABLE_DUMPV2, PEER_INDEX_TABLE, MaxUint16
<1>6. PICK time : time = r.time
  OBVIOUS
<1>7. b = WriteCommonHeader(time, type, subtype, Len(body)) \o body
  BY <1>1, <1>4, <1>5, <1>6, Zenon DEF WriteRecord
<1> HIDE DEF body
<1>8. /\ content' = body /\ pos' = 0 /\ ~eof' /\ rec' = [time |-> time, subtype |-> subtype]
      /\ pc' = "peerIndex"
  <2>1. time \in Bs(4) /\ body \in Seq(Byte) /\ Len(body) <= MaxMrtLength
    BY <1>1, <1>3, <1>4, <1>6, Zenon
  <2> QED BY <1>5, <1>7, <2>1, RecordBegins, Zenon
<1>9. rec'.time = r.time /\ pc' \in {"peerIndex", "peers", "done"} /\ pc' # "peers" /\ pc' # "done"
  BY <1>6, <1>8
<1> QED BY <1>2, <1>8, <1>9, Zenon DEF PeerIndexReplay, body

\* A RIB record.
LEMMA RibStarts ==
    ASSUME DecodeSingle, b \in Seq(Byte), NEW r \in RibResults, b = WriteRecord(r), RecordFits(r),
           FaithfulRecord(r), RecordResult(r)
    PROVE  RibReplay(r)'
<1> DEFINE body == WriteRib(r)
<1>1. /\ r.type = "RIB" /\ r.time \in Bs(4) /\ r.seq \in Bs(4) /\ r.afi \in Nat /\ r.safi \in Byte /\ r.nlri \in Routes
      /\ r.entries \in Seq(Entries)
  BY DEF RibResults
<1>2. ~Generic(r) /\ \A k \in DOMAIN r.entries : Faithful(r.entries[k].attrs, NoOptions)
  BY <1>1, Zenon DEF FaithfulRecord
<1>3. CanonicalRib(r) /\ Len(r.entries) <= MaxUint16 /\ r.entries \in Seq(CanonicalEntries)
  BY <1>1, Zenon DEF RecordResult
<1>4. /\ RecordLen(r) = RibLen(r) /\ RecordLen(r) <= MaxMrtLength
      /\ \A k \in DOMAIN r.entries : Sum(EntryAttributeLen, r.entries[k].attrs) <= MaxUint16
  BY <1>1, Zenon DEF RecordLen, RecordFits
<1>5. \A k \in DOMAIN r.entries : EntryReadable(r.entries[k])
  <2> TAKE k \in DOMAIN r.entries
  <2>1. r.entries[k] \in CanonicalEntries
    BY <1>3, ElementsOf, Zenon
  <2> QED BY <1>2, <1>4, <2>1, Zenon DEF EntryReadable
<1>6. RibReadable(r)
  BY <1>2, <1>3, <1>5, Zenon DEF RibReadable
<1>7. body \in Seq(Byte) /\ Len(body) = RecordLen(r)
  <2>1. \A k \in DOMAIN r.entries : Sound(r.entries[k].attrs)
    BY <1>5, EntryWritten, Zenon
  <2>2. RibLen(r) \in Nat /\ body \in Seq(Byte) /\ Len(body) = RibLen(r) + (IF Generic(r) THEN 1 ELSE 0)
    BY <1>1, <2>1, WriteRibLen, Zenon
  <2>3. Len(body) = RibLen(r) + 0
    BY <1>2, <2>2, Zenon
  <2> HIDE DEF body
  <2>4. PICK l : l = RibLen(r)
    OBVIOUS
  <2>5. l \in Nat /\ Len(body) = l + 0
    BY <2>2, <2>3, <2>4, Zenon
  <2>6. Len(body) = l
    BY ONLY <2>5
  <2> QED BY <1>4, <2>2, <2>4, <2>6, Zenon
<1>8. PICK type \in Nat, subtype \in Nat :
          type = TYPE_TABLE_DUMPV2 /\ subtype = GetSubtype(r) /\ type <= MaxUint16 /\ subtype <= MaxUint16
          /\ subtype \in 2 .. 5
  <2>1. PICK subtype \in 2 .. 5 : subtype = GetSubtype(r)
    BY <1>2, SpecificSubtype, Zenon
  <2>2. PICK type \in Nat : type = TYPE_TABLE_DUMPV2 /\ type <= MaxUint16
    BY DEF TYPE_TABLE_DUMPV2, MaxUint16
  <2>3. subtype \in Nat /\ subtype <= MaxUint16
    BY <2>1 DEF MaxUint16
  <2> QED BY <2>1, <2>2, <2>3, Zenon
<1>9. PICK time : time = r.time
  OBVIOUS
<1>10. b = WriteCommonHeader(time, type, subtype, Len(body)) \o body
  BY <1>1, <1>7, <1>8, <1>9, Zenon DEF WriteRecord
<1> HIDE DEF body
<1>11. /\ content' = body /\ pos' = 0 /\ ~eof' /\ rec' = [time |-> time, subtype |-> subtype]
       /\ pc' = "rib"
  <2>1. time \in Bs(4) /\ body \in Seq(Byte) /\ Len(body) <= MaxMrtLength
    BY <1>1, <1>4, <1>7, <1>9, Zenon
  <2> QED BY <1>8, <1>10, <2>1, RecordBegins, Zenon
<1>12. rec'.time = r.time /\ rec'.subtype = GetSubtype(r)
  BY <1>8, <1>9, <1>11
<1>13. ~InPrefix' /\ ~Waits("entry")' /\ pc' \in {"rib", "entries", "done"} /\ pc' # "entries" /\ pc' # "done"
  BY <1>11 DEF InPrefix, Waits, InAttributes
<1> QED BY <1>6, <1>11, <1>12, <1>13, Zenon DEF RibReplay, body

\* A record that is written begins to be decoded as it was.
LEMMA RecordStarts ==
    ASSUME Inv, DecodeSingle, FirstCanonical, AtRewritten, first # Nil, RecordFits(first), FaithfulRecord(first)
    PROVE  RecordReplay(first)'
<1>1. source = "mrt" /\ pc = "start"
  BY Zenon DEF DecodeSingle
<1>2. UNCHANGED first
  <2>1. MrtNext
    BY Zenon DEF MrtNext
  <2> QED BY <2>1, MrtKeeps, Zenon
<1>3. b \in Seq(Byte) /\ b = WriteRecord(first)
  <2>1. b \in Seq(Byte)
    BY Zenon DEF Inv, IInv, TypeOK
  <2> QED BY <1>1, <2>1, Zenon DEF AtRewritten, Rewritten
<1>4. PICK r : r = first
  OBVIOUS
<1>5. b = WriteRecord(r) /\ RecordFits(r) /\ FaithfulRecord(r)
  BY <1>3, <1>4, Zenon
<1>6. \/ r \in MessageResults /\ r.message \in CanonicalMessages(NoOptions)
      \/ r \in StateChanges
      \/ r \in PeerIndexes \cup RibResults /\ RecordResult(r)
  BY <1>1, <1>4, Zenon DEF FirstCanonical
<1>7. CASE r \in MessageResults /\ r.message \in CanonicalMessages(NoOptions)
  <2>1. MessageRecordReplay(r)'
    BY <1>3, <1>5, <1>7, RecordedMessageStarts, Zenon
  <2> QED BY <1>2, <1>4, <2>1, Zenon DEF RecordReplay
<1>8. CASE r \in StateChanges
  <2>1. StateChangeReplay(r)'
    BY <1>3, <1>5, <1>8, StateChangeStarts, Zenon
  <2> QED BY <1>2, <1>4, <2>1, Zenon DEF RecordReplay
<1>9. CASE r \in PeerIndexes /\ RecordResult(r)
  <2>1. PeerIndexReplay(r)'
    BY <1>3, <1>5, <1>9, PeerIndexStarts, Zenon
  <2> QED BY <1>2, <1>4, <2>1, Zenon DEF RecordReplay
<1>10. CASE r \in RibResults /\ RecordResult(r)
  <2>1. RibReplay(r)'
    BY <1>3, <1>5, <1>10, RibStarts, Zenon
  <2> QED BY <1>2, <1>4, <2>1, Zenon DEF RecordReplay
<1> QED BY <1>6, <1>7, <1>8, <1>9, <1>10, Zenon

\* Nothing changes.
LEMMA RecordReplayStays ==
    ASSUME UNCHANGED vars, NEW r, RecordReplay(r)
    PROVE  RecordReplay(r)'
<1>1. UNCHANGED <<b, session, i, pc, msg, rec, locals, content, pos, eof, left>>
  BY Zenon DEF vars, caller
<1>2. UNCHANGED <<nlri, attr, failed>>
  BY <1>1, Zenon DEF locals
<1>3. StateChangeReplay(r) => StateChangeReplay(r)'
  BY <1>1, Zenon DEF StateChangeReplay
<1>4. MessageRecordReplay(r) => MessageRecordReplay(r)'
  <2>1. MessageReplay(r.message) => MessageReplay(r.message)'
    <3>1. PICK m : m = r.message
      OBVIOUS
    <3>2. MessageReplay(m) => MessageReplay(m)'
      BY ReplayStays, Zenon
    <3> QED BY <3>1, <3>2, Zenon
  <2>2. OfRecord(r) => OfRecord(r)'
    BY <1>1, <2>1, Zenon DEF OfRecord
  <2> QED BY <1>1, <2>2, Zenon DEF MessageRecordReplay
<1>5. PeerIndexReplay(r) => PeerIndexReplay(r)'
  <2>1. PeersReplay(r) => PeersReplay(r)'
    BY <1>1, Zenon DEF PeersReplay
  <2> QED BY <1>1, <2>1, Zenon DEF PeerIndexReplay
<1>6. RibReplay(r) => RibReplay(r)'
  <2>1. PrefixReplay(r) => PrefixReplay(r)'
    <3>1. PICK s : s = <<r.nlri>>
      OBVIOUS
    <3>2. PrefixesReplay(s, FALSE, 0) => PrefixesReplay(s, FALSE, 0)'
      BY PartsStay, Zenon
    <3>3. PrefixesReplay(<<r.nlri>>, FALSE, 0) => PrefixesReplay(<<r.nlri>>, FALSE, 0)'
      BY <3>1, <3>2, Zenon
    <3> QED BY <1>1, <3>3, Zenon DEF PrefixReplay
  <2>2. EntriesReplay(r) => EntriesReplay(r)'
    BY <1>1, <1>2, Zenon DEF EntriesReplay
  <2>3. \A e : EntryAttributes(e) => EntryAttributes(e)'
    <3>1. \A s : AttributesReplay(s, 0) => AttributesReplay(s, 0)'
      BY PartsStay, Zenon
    <3> QED BY <1>1, <1>2, <3>1, Zenon DEF EntryAttributes
  <2>4. EntryReplay(r) => EntryReplay(r)'
    BY <1>1, <2>3, Zenon DEF EntryReplay
  <2>5. InPrefix' = InPrefix /\ Waits("entry")' = Waits("entry")
    BY <1>1, <1>2, Zenon DEF InPrefix, Waits, InAttributes
  <2> QED BY <1>1, <2>1, <2>2, <2>4, <2>5, Zenon DEF RibReplay
<1> QED BY <1>3, <1>4, <1>5, <1>6, Zenon DEF RecordReplay

\* What was returned, fits and is not lost is decoded again as it was.
RecordReplayed ==
    first # Nil /\ source = "mrt" /\ RecordFits(first) /\ FaithfulRecord(first) /\ pc # "start" => RecordReplay(first)

\* Every step keeps it.
LEMMA NextRecordReplayed == ASSUME Clean, RecordReplayed, [Next]_vars PROVE RecordReplayed'
<1>0. Inv /\ FirstCanonical /\ AtRewritten
  BY Zenon DEF Clean
<1>1. CASE Decode
  <2>1. UNCHANGED <<source, first>> /\ pc' # "start"
    BY <1>0, <1>1, DecodeKeeps
  <2>2. RecordFits(first)' = RecordFits(first) /\ FaithfulRecord(first)' = FaithfulRecord(first)
    BY <2>1, Zenon
  <2>3. SUFFICES ASSUME first # Nil, source = "mrt", RecordFits(first), FaithfulRecord(first)
                 PROVE  RecordReplay(first)'
    BY <2>1, <2>2, Zenon DEF RecordReplayed
  <2>4. CASE pc = "start"
    <3>1. DecodeSingle
      <4>1. DecodeSingle \/ Receive \/ ParseSlice
        BY <1>1, <2>4, DecoderOf, Zenon
      <4>2. ~Receive /\ ~ParseSlice
        BY <2>3 DEF Receive, ParseSlice
      <4> QED BY <4>1, <4>2
    <3> QED BY <1>0, <2>3, <3>1, RecordStarts, Zenon
  <2>5. CASE pc # "start"
    <3>1. PICK r : r = first
      OBVIOUS
    <3>2. RecordReplay(r)
      BY <2>3, <2>5, <3>1, Zenon DEF RecordReplayed
    <3>3. RecordReplay(r)'
      BY <1>0, <1>1, <2>3, <3>2, RecordGoes, Zenon
    <3> QED BY <2>1, <3>1, <3>3, Zenon
  <2> QED BY <2>4, <2>5
<1>2. CASE Rewrite \/ Convert
  <2>1. pc' = "start"
    BY <1>2, Zenon DEF Rewrite, Convert, DecodeAgain
  <2> QED BY <2>1, Zenon DEF RecordReplayed
<1>3. CASE UNCHANGED vars
  <2>1. UNCHANGED <<pc, source, first>>
    BY <1>3, Zenon DEF vars, caller
  <2>2. PICK r : r = first
    OBVIOUS
  <2>3. RecordReplay(r) => RecordReplay(r)'
    BY <1>3, RecordReplayStays, Zenon
  <2> QED BY <2>1, <2>2, <2>3, Zenon DEF RecordReplayed
<1> QED BY <1>1, <1>2, <1>3, Zenon DEF Next

\* What has been returned is replayed as it was.
LEMMA AlwaysRecordReplayed == Spec => [](Clean /\ RecordReplayed)
<1>1. Init => Clean /\ RecordReplayed
  <2>1. Init => first = Nil
    BY Zenon DEF Init
  <2> QED BY <2>1, InitClean, Zenon DEF RecordReplayed
<1>2. Clean /\ RecordReplayed /\ [Next]_vars => (Clean /\ RecordReplayed)'
  BY NextClean, NextRecordReplayed, Zenon
<1> QED BY <1>1, <1>2, PTL DEF Spec

\* At the end of a message.
LEMMA MessageEnd ==
    ASSUME Final, NEW m, MessageReplay(m), pc # "message",
           m.type = "UPDATE" => Faithful(m.attrs, session)
    PROVE  pc = "done" /\ msg = m
<1>1. CASE OpenReplay(m)
  <2>1. pc \in {"open", "param", "capa", "done"}
    BY <1>1, Zenon DEF OpenReplay
  <2>2. pc = "done"
    BY <2>1 DEF Final
  <2> QED BY <1>1, <2>2, Zenon DEF OpenReplay
<1>2. CASE UpdateReplay(m)
  <2>1. pc = "update" \/ InUpdate \/ pc = "done"
    BY <1>2, Zenon DEF UpdateReplay
  <2>2. pc = "done"
    BY <2>1 DEF Final, InUpdate, InAttributes
  <2>3. m.type = "UPDATE"
    <3>1. m \in Updates
      BY <1>2, UpdateFacts, Zenon
    <3> QED BY <3>1 DEF Updates
  <2> QED BY <1>2, <2>2, <2>3, Zenon DEF UpdateReplay
<1>3. CASE NotificationReplay(m) \/ KeepAliveReplay(m)
  <2>1. pc \in {"notification", "keepalive", "done"}
    BY <1>3 DEF NotificationReplay, KeepAliveReplay
  <2>2. pc = "done"
    BY <2>1 DEF Final
  <2> QED BY <1>3, <2>2, Zenon DEF NotificationReplay, KeepAliveReplay
<1> QED BY <1>1, <1>2, <1>3, Zenon DEF MessageReplay

\* At the end of a record.
LEMMA RecordEnd ==
    ASSUME Final, source = "mrt", NEW r, RecordReplay(r), FaithfulRecord(r)
    PROVE  pc = "done" /\ Result = r
<1>1. CASE StateChangeReplay(r)
  <2>1. pc = "done"
    BY <1>1 DEF StateChangeReplay, Final
  <2>2. rec = r /\ r \in StateChanges
    BY <1>1, <2>1, Zenon DEF StateChangeReplay
  <2>3. rec.type = "STATE_CHANGE"
    BY <2>2 DEF StateChanges
  <2>4. Result = rec
    BY <2>3 DEF Result
  <2> QED BY <2>1, <2>2, <2>4
<1>2. CASE PeerIndexReplay(r)
  <2>1. pc = "done"
    BY <1>2 DEF PeerIndexReplay, Final
  <2>2. rec = r /\ r \in PeerIndexes
    BY <1>2, <2>1, Zenon DEF PeerIndexReplay, IndexReadable
  <2>3. rec.type = "PEER_INDEX"
    BY <2>2 DEF PeerIndexes
  <2>4. Result = rec
    BY <2>3 DEF Result
  <2> QED BY <2>1, <2>2, <2>4
<1>3. CASE RibReplay(r)
  <2>1. pc = "done"
    <3>1. pc \in {"rib", "entries", "done"} \/ InPrefix \/ Waits("entry")
      BY <1>3, Zenon DEF RibReplay
    <3> QED BY <3>1 DEF InPrefix, Waits, InAttributes, Final
  <2>2. rec = RibSoFar(r, r.nlri, r.entries) /\ r \in RibResults /\ CanonicalRib(r) /\ ~Generic(r)
    BY <1>3, <2>1, Zenon DEF RibReplay, RibReadable
  <2>3. r.asAfiSafi = TRUE
    BY <2>2, SpecificSubtype, Zenon
  <2>4. rec.type = "RIB"
    BY <2>2 DEF RibSoFar
  <2>5. Result = [f \in DOMAIN rec \ {"addPath"} |-> rec[f]]
    BY <2>4 DEF Result
  <2>6. Result = r
    <3> DEFINE fields == {"type", "time", "seq", "afi", "safi", "asAfiSafi", "nlri", "entries"}
    <3>1. DOMAIN rec = fields \cup {"addPath"}
      BY <2>2 DEF RibSoFar
    <3>2. Result = [f \in fields |-> rec[f]]
      BY ONLY <2>5, <3>1
    <3>3. /\ rec.type = r.type /\ rec.time = r.time /\ rec.seq = r.seq /\ rec.afi = r.afi /\ rec.safi = r.safi
          /\ rec.asAfiSafi = r.asAfiSafi /\ rec.nlri = r.nlri /\ rec.entries = r.entries
      BY <2>2, <2>3 DEF RibSoFar, RibResults
    <3>4. \A f \in fields : rec[f] = r[f]
      BY ONLY <3>3
    <3>5. r = [f \in fields |-> r[f]]
      BY ONLY <2>2 DEF RibResults
    <3> HIDE DEF fields
    <3>6. [f \in fields |-> rec[f]] = [f \in fields |-> r[f]]
      BY <3>4
    <3> QED BY <3>2, <3>5, <3>6, Zenon
  <2> QED BY <2>1, <2>6
<1>4. CASE MessageRecordReplay(r)
  <2>1. pc # "message"
    BY DEF Final
  <2>2. r \in MessageResults /\ MessageReplay(r.message) /\ session = NoOptions /\ rec = Unmessaged(r)
    BY <1>4, <2>1, Zenon DEF MessageRecordReplay, OfRecord
  <2>3. r.type = "MESSAGE"
    BY <2>2 DEF MessageResults
  <2>4. PICK m : m = r.message
    OBVIOUS
  <2>5. m.type = "UPDATE" => Faithful(m.attrs, session)
    BY <2>2, <2>3, <2>4, Zenon DEF FaithfulRecord
  <2>6. pc = "done" /\ msg = m
    BY <2>1, <2>2, <2>4, <2>5, MessageEnd, Zenon
  <2>7. rec.type = "MESSAGE"
    BY <2>2 DEF Unmessaged
  <2>8. Result = With(rec, "message", m)
    BY <2>6, <2>7 DEF Result
  <2>9. r = [type |-> "MESSAGE", time |-> r.time, peerAS |-> r.peerAS, localAS |-> r.localAS,
             iface |-> r.iface, peerIP |-> r.peerIP, localIP |-> r.localIP, message |-> m]
    BY ONLY <2>2, <2>4 DEF MessageResults
  <2>10. Result = r
    BY ONLY <2>2, <2>8, <2>9 DEF Unmessaged, With
  <2> QED BY <2>6, <2>10
<1> QED BY <1>1, <1>2, <1>3, <1>4, Zenon DEF RecordReplay

\* DecodeSingle of what Write returns: a record of an MRT file that was accepted and written is
\* accepted again and the same, whatever the file holds, when its lengths fit their fields and nothing
\* in it is of what Write loses: the state changes and messages of BGP4MP, the index of the peers of
\* a TABLE_DUMPV2 and the entries of its RIBs come back as they were.
THEOREM RecordsRoundTrip == Spec => []MrtRoundTrip
<1>1. Clean /\ RecordReplayed => MrtRoundTrip
  <2> SUFFICES ASSUME Clean, RecordReplayed, Final, first # Nil, source = "mrt", FaithfulRecord(first), RecordFits(first)
               PROVE  pc = "done" /\ Result = first
    BY Zenon DEF MrtRoundTrip
  <2>1. pc # "start"
    BY DEF Final
  <2>2. RecordReplay(first)
    BY <2>1, Zenon DEF RecordReplayed
  <2> QED BY <2>2, RecordEnd, Zenon
<1> QED BY <1>1, AlwaysRecordReplayed, PTL
===============================================================================
