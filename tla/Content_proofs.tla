---------------------------- MODULE Content_proofs ----------------------------
(***************************************************************************)
(* For every input: no decoder reads outside of its slice, every round of  *)
(* every loop gets ahead, and what the decoders return has its types and   *)
(* accounts for the input.                                                 *)
(***************************************************************************)
EXTENDS Writing_proofs

-----------------------------------------------------------------------------
(* The inductive invariant: where each slice ends, for every place of the  *)
(* decoder.                                                                *)

InAttributes == \/ pc \in {"attrs", "attr", "aspath", "reach", "unreach"}
                \/ pc = "nlri" /\ nlri.ret \in {"reach", "unreach"}

\* No slice has been read yet.
AtStart == pc \in {"start", "open", "update", "notification", "keepalive", "message",
                   "stateChange", "peerIndex", "rib", "generic", "tableDump"} => i = 0

\* A list of prefixes is inside of b, that of an attribute is the rest of the attribute, and the
\* withdrawn routes leave room for the length of the attributes.
NLRIInside ==
    /\ pc = "nlri" => /\ nlri.ret \in {"withdrawn", "prefixes", "reach", "unreach", "prefix"}
                      /\ i <= end /\ end <= Size
    /\ pc = "withdrawn" \/ (pc = "nlri" /\ nlri.ret = "withdrawn") => i <= end /\ end + 2 <= Size

\* An attribute is inside of the attributes, and these are inside of b.
AttributesInside ==
    /\ InAttributes => /\ attr.ret \in {"attributes", "entry", "tableDumpAttributes"}
                       /\ attrsEnd <= Size
    /\ pc = "attributes" => i <= attrsEnd /\ attrsEnd <= Size
    /\ pc = "attrs" => i <= attrsEnd
    /\ InAttributes /\ pc # "attrs" => i <= attrEnd /\ attrEnd <= attrsEnd
    /\ InAttributes /\ pc \in {"nlri", "reach", "unreach"} => end = attrEnd

Returns == "ret" \in DOMAIN attr /\ "ret" \in DOMAIN nlri

IInv == TypeOK /\ NoPanic /\ AtStart /\ NLRIInside /\ AttributesInside /\ Returns

\* What LoopsAdvance says of a step.
Advances == UNCHANGED caller /\ pc' # "panic" => i' >= i /\ (pc' = pc => i' > i)

\* What TypeOK says of positions and of what is read there, without the sequences.
Readable ==
    /\ Size \in Nat /\ i \in Nat /\ i <= Size
    /\ end \in Nat /\ attrsEnd \in Nat /\ attrEnd \in Nat
    /\ \A k \in Nat : At(k) \in Nat /\ At(k) <= 255 /\ Uint16(k) \in Nat

-----------------------------------------------------------------------------
(* What the decoders read.                                                 *)

\* Every byte that is read is a byte, also outside of the slice.
LEMMA AtType == b \in Seq(Byte) => \A k \in Int : At(k) \in Nat /\ At(k) <= 255
<1> SUFFICES ASSUME b \in Seq(Byte), NEW k \in Int PROVE At(k) \in Nat /\ At(k) <= 255
  BY Zenon
<1>1. \A x \in Byte : x \in Nat /\ x <= 255
  BY DEF Byte
<1>2. CASE k \in 0 .. Size - 1
  <2>1. b[k + 1] \in Byte
    BY <1>2 DEF Size
  <2> QED BY ONLY <1>1, <1>2, <2>1 DEF At
<1>3. CASE k \notin 0 .. Size - 1
  BY ONLY <1>3 DEF At
<1> QED BY <1>2, <1>3, Zenon

\* Positions are numbers, and so is what is read at them.
LEMMA ReadableTypeOK == TypeOK => Readable
<1> SUFFICES ASSUME TypeOK PROVE Readable
  OBVIOUS
<1>1. b \in Seq(Byte)
  BY Zenon DEF TypeOK
<1>2. i \in 0 .. Size /\ end \in Nat /\ attrsEnd \in Nat /\ attrEnd \in Nat
  BY Zenon DEF TypeOK
<1>3. Size \in Nat
  BY ONLY <1>1 DEF Size
<1>4. \A k \in Int : At(k) \in Nat /\ At(k) <= 255
  BY <1>1, AtType, Zenon
<1>5. \A k \in Nat : Uint16(k) \in Nat
  BY ONLY <1>4 DEF Uint16
<1>6. i \in Nat /\ i <= Size
  BY ONLY <1>2, <1>3
<1> QED BY ONLY <1>2, <1>3, <1>4, <1>5, <1>6 DEF Readable

\* The extended-length flag is a bit.
LEMMA ExtendedBit == ASSUME NEW flag \in Nat PROVE Extended(flag) \in {0, 1}
BY DEF Extended, ATTRIBUTE_EXTENDED

-----------------------------------------------------------------------------
(* Steps in a slice: b and what its caller keeps stay.                      *)

\* Types are kept when the positions stay numbers.
LEMMA InSliceType ==
    ASSUME TypeOK, pc' \in PCs, failed' \in BOOLEAN, i' \in Nat, i' <= Size,
           end' \in Nat, attrsEnd' \in Nat, attrEnd' \in Nat, UNCHANGED <<b, caller>>
    PROVE  TypeOK' /\ Size' = Size
<1>1. Size' = Size /\ i' \in 0 .. Size'
  <2>1. Size' = Size
    BY DEF Size
  <2>2. Size \in Nat
    BY ReadableTypeOK DEF Readable
  <2> QED BY <2>1, <2>2
<1>2. /\ b' \in Seq(Byte) /\ content' \in Seq(Byte) /\ pos' \in 0 .. RecSize'
      /\ source' \in {"socket", "packet", "mrt"} /\ eof' \in BOOLEAN
      /\ left' \in Nat /\ left' <= MaxUint16
  <2>1. /\ b' = b /\ content' = content /\ pos' = pos /\ source' = source /\ eof' = eof
        /\ left' = left /\ RecSize' = RecSize
    BY DEF caller, RecSize
  <2> QED BY <2>1, Zenon DEF TypeOK
<1> QED BY <1>1, <1>2, Zenon DEF TypeOK

\* A step that leaves every slice as it is.
LEMMA InSlice ==
    ASSUME IInv, UNCHANGED <<b, caller>>, pc' \in PCs, pc' # "panic", failed' \in BOOLEAN,
           i' \in Nat, i <= i', i' <= Size, pc' # pc \/ i < i',
           end' \in Nat, attrsEnd' \in Nat, attrEnd' \in Nat,
           Size' = Size => AtStart' /\ NLRIInside' /\ AttributesInside' /\ Returns'
    PROVE  IInv' /\ Advances
<1>1. TypeOK' /\ Size' = Size
  BY InSliceType, Zenon DEF IInv
<1>2. NoPanic'
  BY DEF NoPanic
<1>3. Advances
  <2>1. i \in Nat
    BY ReadableTypeOK DEF IInv, Readable
  <2> QED BY <2>1 DEF Advances
<1> QED BY <1>1, <1>2, <1>3, Zenon DEF IInv

\* What IInv says of the positions, for the steps below.
LEMMA Facts == IInv => TypeOK /\ Readable /\ failed \in BOOLEAN /\ Returns
BY ReadableTypeOK, Zenon DEF IInv, TypeOK

\* A function that returns an error or a result leaves nothing to prove about slices.
LEMMA Halts ==
    ASSUME IInv, pc' \in {"done", "partial", "error", "nil"}, pc # pc',
           UNCHANGED <<b, i, locals, caller>>
    PROVE  IInv' /\ Advances
<1>1. Readable /\ failed \in BOOLEAN /\ Returns
  BY Facts
<1>2. pc' \in PCs /\ pc' # "panic"
  BY DEF PCs
<1>3. /\ failed' \in BOOLEAN /\ end' \in Nat /\ attrsEnd' \in Nat /\ attrEnd' \in Nat
      /\ i' \in Nat /\ i <= i' /\ i' <= Size
  BY <1>1 DEF locals, Readable
<1>4. AtStart' /\ NLRIInside' /\ AttributesInside'
  BY DEF AtStart, NLRIInside, AttributesInside, InAttributes
<1>5. Returns'
  BY <1>1 DEF Returns, locals
<1> QED BY <1>2, <1>3, <1>4, <1>5, InSlice, Zenon

\* So does an error.
LEMMA Fails == ASSUME IInv, Fail, pc # "error" PROVE IInv' /\ Advances
BY Halts DEF Fail

-----------------------------------------------------------------------------
(* OPEN.                                                                    *)

\* Between the decoders of an OPEN only the position in b matters.
LEMMA InOpen ==
    ASSUME IInv, UNCHANGED <<b, caller, attrsEnd, attrEnd, nlri, attr, failed>>,
           pc' \in {"param", "capa", "done"}, pc' # pc \/ i < i',
           i' \in Nat, i <= i', i' <= Size, end' \in Nat
    PROVE  IInv' /\ Advances
<1>1. Readable /\ failed \in BOOLEAN /\ Returns
  BY Facts
<1>2. pc' \in PCs /\ pc' # "panic"
  BY DEF PCs
<1>3. failed' \in BOOLEAN /\ attrsEnd' \in Nat /\ attrEnd' \in Nat
  BY <1>1 DEF Readable
<1>4. AtStart' /\ NLRIInside' /\ AttributesInside'
  BY DEF AtStart, NLRIInside, AttributesInside, InAttributes
<1>5. Returns'
  BY <1>1 DEF Returns
<1> QED BY <1>2, <1>3, <1>4, <1>5, InSlice, Zenon

\* The fixed part has 10 bytes.
LEMMA ParseOpenStep == ASSUME IInv, ParseOpen PROVE IInv' /\ Advances
<1>1. Readable /\ pc = "open" /\ i = 0
  BY Facts DEF IInv, AtStart, ParseOpen
<1>2. CASE Fail
  BY <1>1, <1>2, Fails
<1>3. CASE ~Fail
  <2>1. /\ pc' \in {"done", "param"} /\ i' = 10 /\ Size >= 10
        /\ UNCHANGED <<b, locals, caller>>
    BY <1>1, <1>3 DEF ParseOpen, Reading, Readable
  <2>2. end' \in Nat /\ UNCHANGED <<attrsEnd, attrEnd, nlri, attr, failed>>
    BY <1>1, <2>1 DEF locals, Readable
  <2>3. pc' # pc /\ i' \in Nat /\ i <= i' /\ i' <= Size
    BY <1>1, <2>1 DEF Readable
  <2> QED BY <2>1, <2>2, <2>3, InOpen
<1> QED BY <1>2, <1>3

\* The condition of the loop leaves room for the header of a parameter.
LEMMA ParseParameterStep == ASSUME IInv, ParseParameter PROVE IInv' /\ Advances
<1>1. Readable /\ pc = "param"
  BY Facts DEF ParseParameter
<1>2. CASE Fail
  BY <1>1, <1>2, Fails
<1>3. CASE i >= Size - 1
  BY <1>1, <1>3, Halts DEF ParseParameter
<1>4. CASE ~Fail /\ ~(i >= Size - 1)
  <2>1. i + 2 <= Size /\ i + 1 \in Nat /\ At(i + 1) \in Nat
    BY <1>1, <1>4 DEF Readable
  <2>2. /\ pc' \in {"param", "capa"} /\ i' = i + 2 /\ end' = i + 2 + At(i + 1)
        /\ UNCHANGED <<b, attrsEnd, attrEnd, nlri, attr, failed, caller>>
    BY <1>4, <2>1 DEF ParseParameter, Reading
  <2>3. i' \in Nat /\ i < i' /\ i <= i' /\ i' <= Size /\ end' \in Nat
    BY <1>1, <2>1, <2>2 DEF Readable
  <2> QED BY <2>2, <2>3, InOpen
<1> QED BY <1>2, <1>3, <1>4

\* A capability is inside of b, if not of its parameter.
LEMMA ParseCapabilitiesStep == ASSUME IInv, ParseCapabilities PROVE IInv' /\ Advances
<1>1. Readable /\ pc = "capa"
  BY Facts DEF ParseCapabilities
<1>2. CASE Fail
  BY <1>1, <1>2, Fails
<1>3. CASE i >= Size - 1 \/ i >= end
  <2>1. pc' = "param" /\ i' = i /\ UNCHANGED <<b, locals, caller>>
    BY <1>3 DEF ParseCapabilities
  <2>2. end' \in Nat /\ UNCHANGED <<attrsEnd, attrEnd, nlri, attr, failed>>
    BY <1>1, <2>1 DEF locals, Readable
  <2>3. pc' # pc /\ i' \in Nat /\ i <= i' /\ i' <= Size
    BY <1>1, <2>1 DEF Readable
  <2> QED BY <2>1, <2>2, <2>3, InOpen
<1>4. CASE ~Fail /\ ~(i >= Size - 1 \/ i >= end)
  <2>1. i + 2 <= Size /\ At(i + 1) \in Nat
    BY <1>1, <1>4 DEF Readable
  <2>2. /\ pc' = pc /\ i' = i + 2 + At(i + 1) /\ i' <= Size
        /\ UNCHANGED <<b, locals, caller>>
    BY <1>1, <1>4, <2>1 DEF ParseCapabilities, Reading, Readable
  <2>3. end' \in Nat /\ UNCHANGED <<attrsEnd, attrEnd, nlri, attr, failed>>
    BY <1>1, <2>2 DEF locals, Readable
  <2>4. i' \in Nat /\ i < i' /\ i <= i'
    BY <1>1, <2>1, <2>2 DEF Readable
  <2> QED BY <1>1, <2>2, <2>3, <2>4, InOpen
<1> QED BY <1>2, <1>3, <1>4

-----------------------------------------------------------------------------
(* Prefixes.                                                                *)

\* A call of ParseNLRI on a part of b, from a place that is not in it.
LEMMA CallParseNLRIStep ==
    ASSUME IInv, pc # "nlri", NEW from \in Nat, NEW to \in Nat, NEW afi, NEW path, NEW ret,
           CallParseNLRI(from, to, afi, path, ret), UNCHANGED <<b, caller>>,
           i <= from, from <= to, to <= Size, pc # ret,
           ret \in {"withdrawn", "prefixes", "reach", "unreach"},
           ret = "withdrawn" => to + 2 <= Size,
           attrsEnd' \in Nat, attrEnd' \in Nat, "ret" \in DOMAIN attr',
           ret \in {"reach", "unreach"} =>
               /\ attr'.ret \in {"attributes", "entry", "tableDumpAttributes"}
               /\ to = attrEnd' /\ attrEnd' <= attrsEnd' /\ attrsEnd' <= Size
    PROVE  IInv' /\ Advances
<1>1. /\ Readable /\ i' = from /\ end' = to /\ failed' \in BOOLEAN /\ pc' \in {"nlri", ret}
      /\ nlri'.ret = ret /\ "ret" \in DOMAIN nlri'
  BY Facts DEF CallParseNLRI
<1>2. pc' \in PCs /\ pc' # "panic" /\ pc' # pc
  BY <1>1 DEF PCs
<1>3. i' \in Nat /\ i <= i' /\ i' <= Size /\ end' \in Nat
  BY <1>1 DEF Readable
<1>4. ASSUME Size' = Size PROVE AtStart' /\ NLRIInside'
  BY <1>1, <1>4 DEF AtStart, NLRIInside
<1>5. ASSUME Size' = Size PROVE AttributesInside'
  BY <1>1, <1>5 DEF AttributesInside, InAttributes
<1>6. Returns'
  BY <1>1 DEF Returns
<1> QED BY <1>1, <1>2, <1>3, <1>4, <1>5, <1>6, InSlice, Zenon

\* ParseNLRI returns to where it was called from.
LEMMA ReturnNLRIStep ==
    ASSUME IInv, pc = "nlri", NEW list, NEW err \in BOOLEAN, ReturnNLRI(list, err)
    PROVE  IInv' /\ Advances
<1>1. /\ Readable /\ Returns /\ nlri.ret \in {"withdrawn", "prefixes", "reach", "unreach", "prefix"}
      /\ i <= end /\ end <= Size
  BY Facts DEF IInv, NLRIInside
<1>2. /\ pc' = nlri.ret /\ failed' \in BOOLEAN /\ UNCHANGED <<b, i, end, attrsEnd, attrEnd, attr, caller>>
      /\ "ret" \in DOMAIN nlri'
  BY <1>1 DEF ReturnNLRI, Returns
<1>3. pc' \in PCs /\ pc' # "panic" /\ pc' # pc
  BY <1>1, <1>2 DEF PCs
<1>4. i' \in Nat /\ i <= i' /\ i' <= Size /\ end' \in Nat /\ attrsEnd' \in Nat /\ attrEnd' \in Nat
  BY <1>1, <1>2 DEF Readable
<1>5. ASSUME Size' = Size PROVE AtStart' /\ NLRIInside'
  BY <1>1, <1>2, <1>5 DEF IInv, AtStart, NLRIInside
<1>6. ASSUME Size' = Size PROVE AttributesInside'
  BY <1>1, <1>2, <1>6 DEF IInv, AttributesInside, InAttributes
<1>7. Returns'
  BY <1>1, <1>2 DEF Returns
<1> QED BY <1>2, <1>3, <1>4, <1>5, <1>6, <1>7, InSlice, Zenon

\* One prefix.
LEMMA ParsePrefixStep ==
    ASSUME IInv, pc = "nlri", NEW k \in Nat, i <= k, NEW size \in Nat, k + 1 <= end,
           ParsePrefix(k, size)
    PROVE  IInv' /\ Advances
<1>1. Readable /\ Returns /\ failed \in BOOLEAN /\ i <= end /\ end <= Size
  BY Facts DEF IInv, NLRIInside
<1>2. CASE At(k) > 8 * nlri.size \/ k + 1 + size > end
  <2>1. ReturnNLRI(nlri.list, TRUE)
    BY <1>2 DEF ParsePrefix, Reading
  <2> QED BY <2>1, ReturnNLRIStep
<1>3. CASE ~(At(k) > 8 * nlri.size \/ k + 1 + size > end)
  <2>1. k + 1 + size <= end
    BY <1>1, <1>3 DEF Readable
  <2>2. /\ i' = k + 1 + size /\ nlri' = [nlri EXCEPT !.list = Append(@, Prefix(k + 1, At(k)))]
        /\ UNCHANGED <<b, session, pc, end, attrsEnd, attrEnd, attr, failed, msg, caller>>
    BY <1>3, <2>1 DEF ParsePrefix, Reading
  <2>3. nlri'.ret = nlri.ret /\ "ret" \in DOMAIN nlri'
    BY <1>1, <2>2 DEF Returns
  <2>4. i' \in Nat /\ i < i' /\ i' <= end /\ i' <= Size
    BY <1>1, <2>1, <2>2 DEF Readable
  <2>5. pc' \in PCs /\ pc' # "panic"
    BY <2>2 DEF PCs
  <2>6. failed' \in BOOLEAN /\ end' \in Nat /\ attrsEnd' \in Nat /\ attrEnd' \in Nat /\ i <= i'
    BY <1>1, <2>2, <2>4 DEF Readable
  <2>7. ASSUME Size' = Size PROVE AtStart' /\ NLRIInside' /\ AttributesInside' /\ Returns'
    <3>1. i' <= end'
      BY <2>2, <2>4
    <3>2. AtStart' /\ NLRIInside'
      BY <2>2, <2>3, <2>7, <3>1, <1>1 DEF IInv, AtStart, NLRIInside
    <3>3. AttributesInside'
      BY <2>2, <2>3, <2>7, <3>1, <1>1 DEF IInv, AttributesInside, InAttributes
    <3> QED BY <1>1, <2>2, <2>3, <3>2, <3>3 DEF Returns
  <2> QED BY <2>2, <2>4, <2>5, <2>6, <2>7, InSlice, Zenon
<1> QED BY <1>2, <1>3, Zenon

\* A round of ParseNLRI: one prefix, or the end.
LEMMA ParseNLRIStep == ASSUME IInv, ParseNLRI PROVE IInv' /\ Advances
<1> DEFINE short == nlri.path /\ end - i < 5
           k     == IF nlri.path THEN i + 4 ELSE i
<1>1. Readable /\ pc = "nlri"
  BY Facts DEF ParseNLRI
<1>2. CASE \E list, err : err \in BOOLEAN /\ ReturnNLRI(list, err)
  BY <1>1, <1>2, ReturnNLRIStep, Zenon
<1>3. CASE i < end /\ ~short /\ ParsePrefix(k, (At(k) + 7) \div 8)
  <2>1. k \in Nat /\ i <= k /\ k + 1 <= end
    BY <1>1, <1>3 DEF Readable
  <2>2. (At(k) + 7) \div 8 \in Nat
    <3>1. At(k) \in Nat
      BY <1>1, <2>1, Zenon DEF Readable
    <3> QED BY <3>1
  <2> HIDE DEF k
  <2> QED BY <1>1, <1>3, <2>1, <2>2, ParsePrefixStep
<1> QED
  <2>1. FALSE \in BOOLEAN /\ TRUE \in BOOLEAN
    OBVIOUS
  <2> QED BY <1>2, <1>3, <2>1, Zenon DEF ParseNLRI

-----------------------------------------------------------------------------
(* Attributes.                                                              *)

\* Inside of an attribute, its end is inside of the attributes and these are inside of b.
LEMMA InAttribute ==
    ASSUME IInv, pc \in {"attr", "aspath", "reach", "unreach"}
    PROVE  /\ Readable /\ Returns /\ failed \in BOOLEAN
           /\ attr.ret \in {"attributes", "entry", "tableDumpAttributes"}
           /\ i <= attrEnd /\ attrEnd <= attrsEnd /\ attrsEnd <= Size
BY Facts DEF IInv, AttributesInside, InAttributes

\* ParsePathAttribute returns to where it was called from.
LEMMA LeaveAttributes ==
    ASSUME IInv, pc \in {"attrs", "attr", "aspath"}, pc' = attr.ret, failed' \in BOOLEAN,
           UNCHANGED <<b, i, end, attrsEnd, attrEnd, nlri, attr, caller>>
    PROVE  IInv' /\ Advances
<1>1. /\ Readable /\ Returns /\ attr.ret \in {"attributes", "entry", "tableDumpAttributes"}
      /\ attrEnd \in Nat /\ attrsEnd <= Size
  BY Facts DEF IInv, AttributesInside, InAttributes, Readable
<1>2. i <= attrsEnd
  <2>1. CASE pc = "attrs"
    BY <2>1 DEF IInv, AttributesInside, InAttributes
  <2>2. CASE pc \in {"attr", "aspath"}
    <3>1. i <= attrEnd /\ attrEnd <= attrsEnd
      BY <2>2, InAttribute
    <3> QED BY <1>1, <3>1 DEF Readable
  <2> QED BY <2>1, <2>2
<1>3. pc' \in PCs /\ pc' # "panic" /\ pc' # pc
  BY <1>1 DEF PCs
<1>4. i' \in Nat /\ i <= i' /\ i' <= Size /\ end' \in Nat /\ attrsEnd' \in Nat /\ attrEnd' \in Nat
  BY <1>1 DEF Readable
<1>5. ASSUME Size' = Size PROVE AtStart' /\ NLRIInside' /\ AttributesInside' /\ Returns'
  BY <1>1, <1>2, <1>5 DEF AtStart, NLRIInside, AttributesInside, InAttributes, Returns
<1> QED BY <1>3, <1>4, <1>5, InSlice, Zenon

\* So does ReturnAttributes.
LEMMA ReturnAttributesStep ==
    ASSUME IInv, pc \in {"attrs", "attr", "aspath"}, NEW err \in BOOLEAN, ReturnAttributes(err)
    PROVE  IInv' /\ Advances
BY LeaveAttributes DEF ReturnAttributes

\* After an attribute the next one begins at its end, which is not before the position.
LEMMA AppendAttributeStep ==
    ASSUME IInv, pc \in {"attr", "aspath", "reach", "unreach"}, NEW a, AppendAttribute(a)
    PROVE  IInv' /\ Advances
<1>1. /\ Readable /\ Returns /\ failed \in BOOLEAN
      /\ attr.ret \in {"attributes", "entry", "tableDumpAttributes"}
      /\ i <= attrEnd /\ attrEnd <= attrsEnd /\ attrsEnd <= Size
  BY InAttribute
<1>2. /\ i' = attrEnd /\ pc' = "attrs"
      /\ UNCHANGED <<b, end, attrsEnd, attrEnd, nlri, attr, failed, caller>>
  BY DEF AppendAttribute
<1>3. pc' \in PCs /\ pc' # "panic" /\ pc' # pc /\ failed' \in BOOLEAN
  BY <1>1, <1>2 DEF PCs
<1>4. i' \in Nat /\ i <= i' /\ i' <= Size /\ end' \in Nat /\ attrsEnd' \in Nat /\ attrEnd' \in Nat
  BY <1>1, <1>2 DEF Readable
<1>5. ASSUME Size' = Size PROVE AtStart' /\ NLRIInside' /\ AttributesInside' /\ Returns'
  BY <1>1, <1>2, <1>5 DEF AtStart, NLRIInside, AttributesInside, InAttributes, Returns
<1> QED BY <1>2, <1>3, <1>4, <1>5, InSlice, Zenon

\* An attribute is entered when it is inside of the attributes.
LEMMA EnterAttributeStep ==
    ASSUME IInv, pc = "attrs", NEW start \in Nat, NEW length \in Nat, i <= start,
           start <= attrsEnd, EnterAttribute(start, length)
    PROVE  IInv' /\ Advances
<1>1. /\ Readable /\ Returns /\ failed \in BOOLEAN /\ attrsEnd <= Size
      /\ attr.ret \in {"attributes", "entry", "tableDumpAttributes"}
  BY Facts DEF IInv, AttributesInside, InAttributes
<1>2. CASE start + length > attrsEnd
  <2>1. ReturnAttributes(TRUE)
    BY <1>2 DEF EnterAttribute, Reading
  <2> QED BY <2>1, ReturnAttributesStep
<1>3. CASE ~(start + length > attrsEnd)
  <2>1. start + length <= attrsEnd
    BY <1>1, <1>3 DEF Readable
  <2>2. /\ attr' = [ret |-> attr.ret, flag |-> At(i), code |-> At(i + 1)]
        /\ i' = start /\ attrEnd' = start + length /\ pc' = "attr"
        /\ UNCHANGED <<b, session, end, attrsEnd, nlri, failed, msg, caller>>
    BY <1>3, <2>1 DEF EnterAttribute, Reading
  <2>3. attr'.ret = attr.ret /\ "ret" \in DOMAIN attr'
    BY <2>2
  <2>4. pc' \in PCs /\ pc' # "panic" /\ pc' # pc /\ failed' \in BOOLEAN
    BY <1>1, <2>2 DEF PCs
  <2>5. i' \in Nat /\ i <= i' /\ i' <= Size /\ end' \in Nat /\ attrsEnd' \in Nat /\ attrEnd' \in Nat
    BY <1>1, <2>2 DEF Readable
  <2>6. i' <= attrEnd' /\ attrEnd' <= attrsEnd'
    BY <1>1, <2>1, <2>2 DEF Readable
  <2>7. ASSUME Size' = Size PROVE AtStart' /\ NLRIInside' /\ AttributesInside' /\ Returns'
    BY <1>1, <2>2, <2>3, <2>6, <2>7
       DEF AtStart, NLRIInside, AttributesInside, InAttributes, Returns
  <2> QED BY <2>2, <2>4, <2>5, <2>7, InSlice, Zenon
<1> QED BY <1>2, <1>3

\* A round of ParsePathAttribute: the header has 3 bytes, or 4 when it is extended.
LEMMA ParseAttributeHeaderStep == ASSUME IInv, ParseAttributeHeader PROVE IInv' /\ Advances
<1> DEFINE ext    == Extended(At(i))
           length == IF ext = 1 THEN Uint16(i + 2) ELSE At(i + 2)
<1>1. Readable /\ pc = "attrs"
  BY Facts DEF ParseAttributeHeader
<1>2. CASE \E err \in BOOLEAN : ReturnAttributes(err)
  BY <1>1, <1>2, ReturnAttributesStep
<1>3. CASE /\ i < attrsEnd /\ attrsEnd - i >= 3
           /\ Reading(i + 3, attrsEnd,
                IF ext = 1 /\ i + 3 > attrsEnd - 1 THEN ReturnAttributes(TRUE)
                ELSE EnterAttribute(i + 3 + ext, length))
  <2>1. ext \in {0, 1} /\ length \in Nat
    <3>1. At(i) \in Nat /\ At(i + 2) \in Nat /\ Uint16(i + 2) \in Nat
      BY <1>1 DEF Readable
    <3> QED BY <3>1, ExtendedBit
  <2> HIDE DEF ext, length
  <2>2. i + 3 <= attrsEnd
    <3>1. attrsEnd - i >= 3
      BY <1>3, Zenon
    <3> QED BY <1>1, <3>1 DEF Readable
  <2>3. IF ext = 1 /\ i + 3 > attrsEnd - 1 THEN ReturnAttributes(TRUE)
        ELSE EnterAttribute(i + 3 + ext, length)
    BY <1>3, <2>2, Zenon DEF Reading
  <2>4. CASE ext = 1 /\ i + 3 > attrsEnd - 1
    <3>1. ReturnAttributes(TRUE)
      BY <2>4, <2>3, Zenon
    <3> QED BY <1>1, <3>1, ReturnAttributesStep
  <2>5. CASE ~(ext = 1 /\ i + 3 > attrsEnd - 1)
    <3>1. EnterAttribute(i + 3 + ext, length)
      BY <2>5, <2>3, Zenon
    <3>2. i + 3 + ext \in Nat /\ i <= i + 3 + ext /\ i + 3 + ext <= attrsEnd
      BY <1>1, <2>1, <2>5, <2>2 DEF Readable
    <3> QED BY <1>1, <2>1, <3>1, <3>2, EnterAttributeStep
  <2> QED BY <2>4, <2>5
<1> QED
  <2>1. FALSE \in BOOLEAN /\ TRUE \in BOOLEAN
    OBVIOUS
  <2> QED BY <1>2, <1>3, <2>1, Zenon DEF ParseAttributeHeader

\* ORIGIN has a byte.
LEMMA ParseOriginStep == ASSUME IInv, ParseOrigin PROVE IInv' /\ Advances
<1>1. pc = "attr" /\ Readable
  BY Facts DEF ParseOrigin, Case
<1>2. CASE Data = 0
  <2>1. ReturnAttributes(TRUE)
    BY <1>2, Zenon DEF ParseOrigin
  <2> QED BY <1>1, <2>1, ReturnAttributesStep
<1>3. CASE Data # 0
  <2>1. i + 1 <= attrEnd
    BY <1>1, <1>3, InAttribute DEF Data, Readable
  <2>2. \E a : AppendAttribute(a)
    BY <1>3, <2>1, Zenon DEF ParseOrigin, Reading
  <2> QED BY <1>1, <2>2, AppendAttributeStep
<1> QED BY <1>2, <1>3

\* MULTI_EXIT_DISC and LOCAL_PREF have 4 bytes.
LEMMA ParseMedLocPrefStep == ASSUME IInv, ParseMedLocPref PROVE IInv' /\ Advances
<1>1. pc = "attr" /\ Readable
  BY Facts DEF ParseMedLocPref, Case
<1>2. CASE Data < 4
  <2>1. ReturnAttributes(TRUE)
    BY <1>2, Zenon DEF ParseMedLocPref
  <2> QED BY <1>1, <2>1, ReturnAttributesStep
<1>3. CASE ~(Data < 4)
  <2>1. i + 4 <= attrEnd
    BY <1>1, <1>3, InAttribute DEF Data, Readable
  <2>2. \E a : AppendAttribute(a)
    BY <1>3, <2>1, Zenon DEF ParseMedLocPref, Reading
  <2> QED BY <1>1, <2>2, AppendAttributeStep
<1> QED BY <1>2, <1>3

\* AGGREGATOR has 6 or 8 bytes when it is read.
LEMMA ParseAggregatorStep == ASSUME IInv, ParseAggregator PROVE IInv' /\ Advances
<1>1. pc = "attr" /\ Readable
  BY Facts DEF ParseAggregator, Case
<1>2. (Data = 8 => i + 8 <= attrEnd) /\ (Data = 6 => i + 6 <= attrEnd)
  BY <1>1, InAttribute DEF Data, Readable
<1>3. \E a : AppendAttribute(a)
  BY <1>2, Zenon DEF ParseAggregator, Reading
<1> QED BY <1>1, <1>3, AppendAttributeStep

\* ATOMIC_AGGREGATE is not read.
LEMMA ParseAtomicAggregateStep == ASSUME IInv, ParseAtomicAggregate PROVE IInv' /\ Advances
BY AppendAttributeStep DEF ParseAtomicAggregate, Case

\* NEXT_HOP has 4 bytes; the error leaves ParsePathAttribute too.
LEMMA ParseNextHopStep == ASSUME IInv, ParseNextHop PROVE IInv' /\ Advances
<1>1. pc = "attr" /\ Readable
  BY Facts DEF ParseNextHop, Case
<1>2. CASE Data < 4
  <2>1. pc' = attr.ret /\ failed' = TRUE /\ UNCHANGED <<b, session, i, end, attrsEnd, attrEnd, nlri, attr, caller>>
    BY <1>2, Zenon DEF ParseNextHop
  <2> QED BY <1>1, <2>1, LeaveAttributes
<1>3. CASE ~(Data < 4)
  <2>1. i + 4 <= attrEnd
    BY <1>1, <1>3, InAttribute DEF Data, Readable
  <2>2. \E a : AppendAttribute(a)
    BY <1>3, <2>1, Zenon DEF ParseNextHop, Reading
  <2> QED BY <1>1, <2>2, AppendAttributeStep
<1> QED BY <1>2, <1>3

\* The communities that are read are complete.
LEMMA ParseCommunitiesStep == ASSUME IInv, ParseCommunities PROVE IInv' /\ Advances
<1> DEFINE size == IF attr.code = COMMUNITIES THEN 4 ELSE 12
           n    == Data \div size
<1>1. pc = "attr" /\ Readable
  BY Facts DEF ParseCommunities, Case
<1>2. i + size * n <= attrEnd
  <2>1. Data \in Nat /\ i + Data = attrEnd
    BY <1>1, InAttribute DEF Data, Readable
  <2>2. size = 4 \/ size = 12
    OBVIOUS
  <2> HIDE DEF size
  <2>3. size * n <= Data /\ size * n \in Nat
    <3>1. CASE size = 4
      BY <2>1, <3>1
    <3>2. CASE size = 12
      BY <2>1, <3>2
    <3> QED BY <2>2, <3>1, <3>2
  <2> HIDE DEF n
  <2> QED BY <1>1, <2>1, <2>3 DEF Readable
<1>3. \E a : AppendAttribute(a)
  BY <1>2, Zenon DEF ParseCommunities, Reading
<1> QED BY <1>1, <1>3, AppendAttributeStep

\* An attribute of another code is copied.
LEMMA ParseUnknownStep == ASSUME IInv, ParseUnknown PROVE IInv' /\ Advances
BY AppendAttributeStep DEF ParseUnknown

\* AS_PATH begins where its attribute does.
LEMMA ParseASPathStep == ASSUME IInv, ParseASPath PROVE IInv' /\ Advances
<1>1. /\ pc = "attr" /\ pc' = "aspath" /\ attr' = [ret |-> attr.ret, segments |-> <<>>]
      /\ UNCHANGED <<b, i, end, attrsEnd, attrEnd, nlri, failed, caller>>
  BY DEF ParseASPath, Case
<1>2. /\ Readable /\ Returns /\ failed \in BOOLEAN
      /\ attr.ret \in {"attributes", "entry", "tableDumpAttributes"}
      /\ i <= attrEnd /\ attrEnd <= attrsEnd /\ attrsEnd <= Size
  BY <1>1, InAttribute
<1>3. pc' \in PCs /\ pc' # "panic" /\ pc' # pc
  BY <1>1 DEF PCs
<1>4. /\ failed' \in BOOLEAN /\ i' \in Nat /\ i <= i' /\ i' <= Size
      /\ end' \in Nat /\ attrsEnd' \in Nat /\ attrEnd' \in Nat
  BY <1>1, <1>2 DEF Readable
<1>5. ASSUME Size' = Size PROVE AtStart' /\ NLRIInside' /\ AttributesInside' /\ Returns'
  BY <1>1, <1>2, <1>5 DEF AtStart, NLRIInside, AttributesInside, InAttributes, Returns
<1> QED BY <1>1, <1>3, <1>4, <1>5, InSlice, Zenon

\* A segment takes as many AS numbers as the attribute has, at most.
LEMMA ParseASPathSegmentStep == ASSUME IInv, ParseASPathSegment PROVE IInv' /\ Advances
<1> DEFINE width == Width(session.enc2bytes)
           room  == (attrEnd - (i + 2)) \div width
           n     == IF At(i + 1) < room THEN At(i + 1) ELSE room
<1>1. /\ pc = "aspath" /\ Readable /\ Returns /\ failed \in BOOLEAN
      /\ attr.ret \in {"attributes", "entry", "tableDumpAttributes"}
      /\ i <= attrEnd /\ attrEnd <= attrsEnd /\ attrsEnd <= Size
  BY InAttribute DEF ParseASPathSegment
<1>2. CASE i >= attrEnd \/ i + 1 >= attrEnd
  <2>1. \E a : AppendAttribute(a)
    BY <1>2, Zenon DEF ParseASPathSegment
  <2> QED BY <1>1, <2>1, AppendAttributeStep
<1>3. CASE ~(i >= attrEnd \/ i + 1 >= attrEnd)
  <2>1. i + 2 <= attrEnd /\ attrEnd - (i + 2) \in Nat /\ At(i + 1) \in Nat
    BY <1>1, <1>3 DEF Readable
  <2>2. i + 2 + width * n <= attrEnd /\ width * n \in Nat
    <3>1. width = 2 \/ width = 4
      BY DEF Width
    <3> HIDE DEF width
    <3>2. room \in Nat /\ width * room <= attrEnd - (i + 2)
      <4>1. CASE width = 2
        BY <2>1, <4>1
      <4>2. CASE width = 4
        BY <2>1, <4>2
      <4> QED BY <3>1, <4>1, <4>2
    <3> HIDE DEF room
    <3>3. n \in Nat /\ n <= room
      BY <2>1, <3>2
    <3> HIDE DEF n
    <3>4. width * n <= width * room /\ width * n \in Nat
      <4>1. CASE width = 2
        BY <3>2, <3>3, <4>1
      <4>2. CASE width = 4
        BY <3>2, <3>3, <4>2
      <4> QED BY <3>1, <4>1, <4>2
    <3>5. width * room \in Nat
      BY <3>1, <3>2
    <3> QED BY <1>1, <2>1, <3>2, <3>4, <3>5 DEF Readable
  <2> HIDE DEF n
  <2>3. /\ \E s : attr' = [attr EXCEPT !.segments = s]
        /\ i' = i + 2 + width * n
        /\ UNCHANGED <<b, session, pc, end, attrsEnd, attrEnd, nlri, failed, msg, caller>>
    BY <1>3, <2>2, Zenon DEF ParseASPathSegment, Reading, n
  <2>4. attr'.ret = attr.ret /\ "ret" \in DOMAIN attr'
    BY <1>1, <2>3 DEF Returns
  <2> HIDE DEF width
  <2>5. i' \in Nat /\ i < i' /\ i <= i' /\ i' <= attrEnd /\ i' <= Size
    BY <1>1, <2>2, <2>3 DEF Readable
  <2>6. pc' \in PCs /\ pc' # "panic"
    BY <1>1, <2>3 DEF PCs
  <2>7. failed' \in BOOLEAN /\ end' \in Nat /\ attrsEnd' \in Nat /\ attrEnd' \in Nat
    BY <1>1, <2>3 DEF Readable
  <2>8. ASSUME Size' = Size PROVE AtStart' /\ NLRIInside' /\ AttributesInside' /\ Returns'
    BY <1>1, <2>3, <2>4, <2>5, <2>8
       DEF AtStart, NLRIInside, AttributesInside, InAttributes, Returns
  <2> QED BY <2>3, <2>5, <2>6, <2>7, <2>8, InSlice, Zenon
<1> QED BY <1>2, <1>3

\* MP_REACH: the next hop and the byte after it are inside, and the rest are prefixes.
LEMMA ParseReachStep == ASSUME IInv, ParseReach PROVE IInv' /\ Advances
<1> DEFINE nh   == At(i + 3)
           path == InAfiSafi(Uint16(i), At(i + 2))
<1>1. /\ pc = "attr" /\ Readable /\ Returns /\ failed \in BOOLEAN
      /\ attr.ret \in {"attributes", "entry", "tableDumpAttributes"}
      /\ i <= attrEnd /\ attrEnd <= attrsEnd /\ attrsEnd <= Size
  BY InAttribute DEF ParseReach, Case
<1>2. CASE Data < 4
  <2>1. ReturnAttributes(TRUE)
    BY <1>2, Zenon DEF ParseReach
  <2> QED BY <1>1, <2>1, ReturnAttributesStep
<1>3. CASE ~(Data < 4)
  <2>1. i + 4 <= attrEnd /\ nh \in Nat
    BY <1>1, <1>3 DEF Data, Readable
  <2>2. CASE ~NextHopFits(nh)
    <3>1. ReturnAttributes(TRUE)
      BY <1>3, <2>1, <2>2, Zenon DEF ParseReach, Reading
    <3> QED BY <1>1, <3>1, ReturnAttributesStep
  <2>3. CASE NextHopFits(nh)
    <3>1. i + 5 + nh <= attrEnd
      BY <2>3, Zenon DEF NextHopFits
    <3>2. /\ attr' = [ret |-> attr.ret, afi |-> Uint16(i), safi |-> At(i + 2),
                      nextHop |-> Bytes(i + 4, nh), addPath |-> path]
          /\ CallParseNLRI(i + 5 + nh, attrEnd, Uint16(i), path, "reach")
          /\ UNCHANGED <<b, session, attrsEnd, attrEnd, msg, caller>>
      BY <1>3, <2>1, <2>3, <3>1, Zenon DEF ParseReach, Reading
    <3>3. attr'.ret = attr.ret /\ "ret" \in DOMAIN attr'
      BY <3>2
    <3> HIDE DEF nh, path
    <3>4. /\ i + 5 + nh \in Nat /\ i <= i + 5 + nh /\ attrEnd \in Nat /\ attrEnd <= Size
          /\ attrsEnd' \in Nat /\ attrEnd' \in Nat
      BY <1>1, <2>1, <3>2 DEF Readable
    <3>5. attr'.ret \in {"attributes", "entry", "tableDumpAttributes"}
          /\ attrEnd = attrEnd' /\ attrEnd' <= attrsEnd' /\ attrsEnd' <= Size
      BY <1>1, <3>2, <3>3
    <3>6. pc # "nlri" /\ pc # "reach" /\ UNCHANGED <<b, caller>>
      BY <1>1, <3>2
    <3> QED BY <3>1, <3>2, <3>3, <3>4, <3>5, <3>6, CallParseNLRIStep
  <2> QED BY <2>2, <2>3
<1> QED BY <1>2, <1>3

\* MP_UNREACH: all but the first 3 bytes are prefixes.
LEMMA ParseUnreachStep == ASSUME IInv, ParseUnreach PROVE IInv' /\ Advances
<1> DEFINE path == InAfiSafi(Uint16(i), At(i + 2))
<1>1. /\ pc = "attr" /\ Readable /\ Returns /\ failed \in BOOLEAN
      /\ attr.ret \in {"attributes", "entry", "tableDumpAttributes"}
      /\ i <= attrEnd /\ attrEnd <= attrsEnd /\ attrsEnd <= Size
  BY InAttribute DEF ParseUnreach, Case
<1>2. CASE Data < 3
  <2>1. ReturnAttributes(TRUE)
    BY <1>2, Zenon DEF ParseUnreach
  <2> QED BY <1>1, <2>1, ReturnAttributesStep
<1>3. CASE ~(Data < 3)
  <2>1. i + 3 <= attrEnd
    BY <1>1, <1>3 DEF Data, Readable
  <2>2. /\ attr' = [ret |-> attr.ret, afi |-> Uint16(i), safi |-> At(i + 2)]
        /\ CallParseNLRI(i + 3, attrEnd, Uint16(i), path, "unreach")
        /\ UNCHANGED <<b, session, attrsEnd, attrEnd, msg, caller>>
    BY <1>3, <2>1, Zenon DEF ParseUnreach, Reading
  <2>3. attr'.ret = attr.ret /\ "ret" \in DOMAIN attr'
    BY <2>2
  <2> HIDE DEF path
  <2>4. /\ i + 3 \in Nat /\ i <= i + 3 /\ attrEnd \in Nat /\ attrEnd <= Size
        /\ attrsEnd' \in Nat /\ attrEnd' \in Nat
    BY <1>1, <2>1, <2>2 DEF Readable
  <2>5. attr'.ret \in {"attributes", "entry", "tableDumpAttributes"}
        /\ attrEnd = attrEnd' /\ attrEnd' <= attrsEnd' /\ attrsEnd' <= Size
    BY <1>1, <2>2, <2>3
  <2>6. pc # "nlri" /\ pc # "unreach" /\ UNCHANGED <<b, caller>>
    BY <1>1, <2>2
  <2> QED BY <2>1, <2>2, <2>3, <2>4, <2>5, <2>6, CallParseNLRIStep
<1> QED BY <1>2, <1>3

\* After the prefixes of an attribute.
LEMMA PrefixesOfAttributeStep == ASSUME IInv, ReachParsed \/ UnreachParsed PROVE IInv' /\ Advances
<1>1. pc \in {"reach", "unreach"} /\ \E a : AppendAttribute(a)
  BY Zenon DEF ReachParsed, UnreachParsed
<1> QED BY <1>1, AppendAttributeStep

-----------------------------------------------------------------------------
(* UPDATE.                                                                  *)

\* The withdrawn routes leave room for the length of the attributes.
LEMMA ParseUpdateStep == ASSUME IInv, ParseUpdate PROVE IInv' /\ Advances
<1> DEFINE path == InAfiSafi(AFI_IPV4, SAFI_UNICAST)
           to   == 2 + Uint16(0)
<1>1. pc = "update" /\ i = 0 /\ Readable /\ Returns /\ Uint16(0) \in Nat
  BY Facts DEF IInv, AtStart, ParseUpdate, Readable
<1>2. CASE Fail
  BY <1>1, <1>2, Fails
<1>3. CASE ~Fail
  <2>1. ~(Size < 4) /\ ~(Uint16(0) + 4 > Size)
    BY <1>3, Zenon DEF ParseUpdate
  <2>2. to \in Nat /\ 2 <= to /\ to + 2 <= Size /\ to <= Size
    BY <1>1, <2>1 DEF Readable
  <2>3. /\ CallParseNLRI(2, to, AFI_IPV4, path, "withdrawn")
        /\ UNCHANGED <<b, session, attrsEnd, attrEnd, attr, caller>>
    BY <1>3, <2>1, <2>2, Zenon DEF ParseUpdate, Reading
  <2> HIDE DEF path, to
  <2>4. attrsEnd' \in Nat /\ attrEnd' \in Nat /\ "ret" \in DOMAIN attr' /\ i <= 2 /\ pc # "nlri"
        /\ pc # "withdrawn" /\ UNCHANGED <<b, caller>>
    BY <1>1, <2>3 DEF Readable, Returns
  <2> QED BY <2>2, <2>3, <2>4, CallParseNLRIStep
<1> QED BY <1>2, <1>3

\* The attributes follow.
LEMMA WithdrawnParsedStep == ASSUME IInv, WithdrawnParsed PROVE IInv' /\ Advances
<1> DEFINE from == end + 2
           to   == end + 2 + Uint16(end)
<1>1. /\ pc = "withdrawn" /\ Readable /\ Returns /\ failed \in BOOLEAN /\ Uint16(end) \in Nat
      /\ i <= end /\ end + 2 <= Size
  BY Facts DEF IInv, NLRIInside, WithdrawnParsed, Readable
<1>2. CASE Fail
  BY <1>1, <1>2, Fails
<1>3. CASE ~Fail
  <2>1. ~failed /\ ~(Uint16(end) + end + 2 > Size)
    BY <1>1, <1>3, Zenon DEF WithdrawnParsed, Reading
  <2>2. from \in Nat /\ to \in Nat /\ i <= from /\ from <= to /\ to <= Size
    BY <1>1, <2>1 DEF Readable
  <2>3. /\ CallParsePathAttribute(from, to, "attributes")
        /\ UNCHANGED <<b, session, end, attrEnd, nlri, failed, caller>>
    BY <1>1, <1>3, <2>1, <2>2, Zenon DEF WithdrawnParsed, Reading
  <2> HIDE DEF from, to
  <2>4. /\ i' = from /\ attrsEnd' = to /\ attr' = [ret |-> "attributes"] /\ pc' = "attrs"
    BY <2>3 DEF CallParsePathAttribute
  <2>5. pc' \in PCs /\ pc' # "panic" /\ pc' # pc
    BY <1>1, <2>4 DEF PCs
  <2>6. /\ failed' \in BOOLEAN /\ i' \in Nat /\ i <= i' /\ i' <= Size
        /\ end' \in Nat /\ attrsEnd' \in Nat /\ attrEnd' \in Nat /\ i' <= attrsEnd' /\ attrsEnd' <= Size
    BY <1>1, <2>2, <2>3, <2>4 DEF Readable
  <2>7. ASSUME Size' = Size PROVE AtStart' /\ NLRIInside' /\ AttributesInside' /\ Returns'
    BY <1>1, <2>3, <2>4, <2>6, <2>7
       DEF AtStart, NLRIInside, AttributesInside, InAttributes, Returns
  <2> QED BY <2>3, <2>5, <2>6, <2>7, InSlice, Zenon
<1> QED BY <1>2, <1>3

\* The rest of b are prefixes.
LEMMA AttributesParsedStep == ASSUME IInv, AttributesParsed PROVE IInv' /\ Advances
<1>1. /\ pc = "attributes" /\ Readable /\ Returns /\ i <= attrsEnd /\ attrsEnd <= Size
      /\ failed \in BOOLEAN
  BY Facts DEF IInv, AttributesInside, AttributesParsed
<1>2. CASE failed
  <2>1. pc' = "partial" /\ UNCHANGED <<b, i, locals, caller>>
    BY <1>2, Zenon DEF AttributesParsed
  <2> QED BY <1>1, <2>1, Halts
<1>3. CASE ~failed
  <2>1. /\ CallParseNLRI(attrsEnd, Size, AFI_IPV4, msg.addPath, "prefixes")
        /\ UNCHANGED <<b, session, attrsEnd, attrEnd, attr, msg, caller>>
    BY <1>1, <1>3, Zenon DEF AttributesParsed, Reading
  <2>2. attrsEnd \in Nat /\ Size \in Nat /\ attrsEnd' \in Nat /\ attrEnd' \in Nat /\ "ret" \in DOMAIN attr'
    BY <1>1, <2>1 DEF Readable, Returns
  <2>3. Size <= Size /\ pc # "nlri" /\ pc # "prefixes" /\ UNCHANGED <<b, caller>>
    BY <1>1, <2>1, <2>2
  <2> QED BY <1>1, <2>1, <2>2, <2>3, CallParseNLRIStep
<1> QED BY <1>1, <1>2, <1>3

\* The decoders that only look at what the functions they call have returned.
LEMMA ReturnsStep ==
    ASSUME IInv, UpdateParsed \/ ParseKeepAlive \/ ParseNotification
    PROVE  IInv' /\ Advances
<1>1. CASE UpdateParsed
  <2>1. pc' \in {"partial", "done"} /\ pc # pc' /\ UNCHANGED <<b, i, locals, caller>>
    BY <1>1 DEF UpdateParsed
  <2> QED BY <2>1, Halts
<1>2. CASE ParseKeepAlive
  <2>1. pc' = "done" /\ pc # pc' /\ UNCHANGED <<b, i, locals, caller>>
    BY <1>2 DEF ParseKeepAlive
  <2> QED BY <2>1, Halts
<1>3. CASE ParseNotification
  <2>1. pc = "notification" /\ Readable
    BY <1>3, Facts DEF ParseNotification
  <2>2. CASE Fail
    BY <2>1, <2>2, Fails
  <2>3. CASE ~Fail
    <3>1. ~(Size < 2)
      BY <1>3, <2>3, Zenon DEF ParseNotification
    <3>2. 2 <= Size
      BY <2>1, <3>1 DEF Readable
    <3>3. pc' = "done" /\ UNCHANGED <<b, i, locals, caller>>
      BY <1>3, <2>3, <3>1, <3>2, Zenon DEF ParseNotification, Reading
    <3> QED BY <2>1, <3>3, Halts
  <2> QED BY <2>2, <2>3
<1> QED BY <1>1, <1>2, <1>3

-----------------------------------------------------------------------------
(* What the byteReader reads.                                               *)

\* A part of a slice consists of bytes.
LEMMA SubSlice ==
    ASSUME NEW s \in Seq(Byte), NEW m \in Int, NEW n \in Int, 1 <= m, m <= n + 1, n <= Len(s)
    PROVE  SubSeq(s, m, n) \in Seq(Byte) /\ Len(SubSeq(s, m, n)) = n - m + 1
<1>1. \A j \in m .. n : s[j] \in Byte
  <2>1. Len(s) \in Nat
    OBVIOUS
  <2>2. \A j \in m .. n : j \in 1 .. Len(s)
    BY ONLY <2>1, m \in Int, n \in Int, 1 <= m, n <= Len(s)
  <2> QED BY <2>2
<1>2. /\ SubSeq(s, m, n) \in Seq(Byte)
      /\ Len(SubSeq(s, m, n)) = IF m <= n THEN n - m + 1 ELSE 0
  BY ONLY <1>1, m \in Int, n \in Int, SubSeqProperties
<1>3. (IF m <= n THEN n - m + 1 ELSE 0) = n - m + 1
  OBVIOUS
<1> QED BY <1>2, <1>3, Zenon

\* A field of a record has its size and consists of bytes, also when it does not fit.
LEMMA FieldType ==
    ASSUME content \in Seq(Byte), pos \in Nat, NEW o \in Nat, NEW n \in Nat
    PROVE  Field(o, n) \in Seq(Byte) /\ Len(Field(o, n)) = n
<1>1. CASE ~eof /\ pos + o + n <= RecSize
  <2>1. /\ pos + o + 1 \in Int /\ pos + o + n \in Int /\ 1 <= pos + o + 1
        /\ pos + o + 1 <= (pos + o + n) + 1 /\ (pos + o + n) - (pos + o + 1) + 1 = n
    OBVIOUS
  <2>2. Field(o, n) = SubSeq(content, pos + o + 1, pos + o + n)
    BY <1>1, Zenon DEF Field
  <2>3. pos + o + n <= Len(content)
    BY <1>1, Zenon DEF RecSize
  <2>4. /\ SubSeq(content, pos + o + 1, pos + o + n) \in Seq(Byte)
        /\ Len(SubSeq(content, pos + o + 1, pos + o + n)) = (pos + o + n) - (pos + o + 1) + 1
    BY <2>1, <2>3, SubSlice, Zenon
  <2> QED BY <2>1, <2>2, <2>4, Zenon
<1>2. CASE ~(~eof /\ pos + o + n <= RecSize)
  <2>1. Field(o, n) = Zeros(n)
    BY <1>2, Zenon DEF Field
  <2>2. 0 \in Byte
    BY DEF Byte
  <2>3. Zeros(n) \in Seq(Byte) /\ Len(Zeros(n)) = n
    BY ONLY <2>2, n \in Nat DEF Zeros
  <2> QED BY <2>1, <2>3, Zenon
<1> QED BY <1>1, <1>2, Zenon

\* A number of two bytes.
LEMMA TwoBytes ==
    ASSUME NEW x \in Nat, NEW y \in Nat, x <= 255, y <= 255
    PROVE  256 * x + y \in Nat /\ 256 * x + y <= MaxUint16
BY SMT DEF MaxUint16

\* Numbers read from a record.
LEMMA ReadType ==
    ASSUME content \in Seq(Byte), pos \in Nat, NEW o \in Nat
    PROVE  /\ ReadUint8(o) \in Byte /\ ReadUint8(o) \in Nat
           /\ ReadUint16(o) \in Nat /\ ReadUint16(o) <= MaxUint16
<1>1. \A x \in Byte : x \in Nat /\ x <= 255
  BY DEF Byte
<1>2. \A s \in Seq(Byte) : \A j \in 1 .. Len(s) : s[j] \in Byte
  OBVIOUS
<1>3. 1 \in Nat /\ 2 \in Nat /\ 1 \in 1 .. 1 /\ 1 \in 1 .. 2 /\ 2 \in 1 .. 2
  OBVIOUS
<1>4. Field(o, 1) \in Seq(Byte) /\ Len(Field(o, 1)) = 1
  BY <1>3, FieldType, Zenon
<1>5. Field(o, 2) \in Seq(Byte) /\ Len(Field(o, 2)) = 2
  BY <1>3, FieldType, Zenon
<1>6. Field(o, 1)[1] \in Byte /\ Field(o, 2)[1] \in Byte /\ Field(o, 2)[2] \in Byte
  BY <1>2, <1>3, <1>4, <1>5, Zenon
<1>7. /\ Field(o, 1)[1] \in Nat
      /\ Field(o, 2)[1] \in Nat /\ Field(o, 2)[1] <= 255 /\ Field(o, 2)[2] \in Nat /\ Field(o, 2)[2] <= 255
  BY ONLY <1>1, <1>6
<1>8. ReadUint8(o) \in Byte /\ ReadUint8(o) \in Nat
  BY <1>6, <1>7, Zenon DEF ReadUint8
<1>9. ReadUint16(o) \in Nat /\ ReadUint16(o) <= MaxUint16
  BY ONLY <1>7, TwoBytes, SMT DEF ReadUint16
<1> QED BY <1>8, <1>9, Zenon

\* What IInv says of the record.
LEMMA RecordFacts ==
    ASSUME IInv
    PROVE  /\ content \in Seq(Byte) /\ pos \in Nat /\ pos <= RecSize /\ RecSize \in Nat
           /\ eof \in BOOLEAN /\ left \in Nat /\ left <= MaxUint16
<1>1. /\ content \in Seq(Byte) /\ pos \in 0 .. RecSize /\ eof \in BOOLEAN
      /\ left \in Nat /\ left <= MaxUint16
  BY Zenon DEF IInv, TypeOK
<1>2. RecSize \in Nat
  <2>1. content \in Seq(Byte)
    BY <1>1, Zenon
  <2> QED BY ONLY <2>1 DEF RecSize
<1>3. pos \in Nat /\ pos <= RecSize
  <2>1. pos \in 0 .. RecSize
    BY <1>1, Zenon
  <2> QED BY ONLY <1>2, <2>1
<1> QED BY <1>1, <1>2, <1>3, Zenon

\* The byteReader stays inside of its record.
LEMMA AdvanceType ==
    ASSUME IInv, content' = content, NEW n \in Nat, Advance(n)
    PROVE  pos' \in 0 .. RecSize' /\ eof' \in BOOLEAN
<1>1. RecSize' = RecSize
  BY Zenon DEF RecSize
<1>2. pos \in Nat /\ pos <= RecSize /\ RecSize \in Nat
  BY RecordFacts, Zenon
<1>3. pos + n <= RecSize => pos + n \in 0 .. RecSize
  BY ONLY <1>2, n \in Nat
<1>4. pos \in 0 .. RecSize
  BY ONLY <1>2
<1> QED BY <1>1, <1>3, <1>4, Zenon DEF Advance

-----------------------------------------------------------------------------
(* Steps that begin with another slice, or that stay in the record.         *)

\* What a step leaves of a record.
RecordKept == /\ content' = content /\ source' = source
              /\ pos' \in 0 .. RecSize' /\ eof' \in BOOLEAN
              /\ left' \in Nat /\ left' <= MaxUint16

\* A new slice is decoded from its beginning.
LEMMA NewSlice ==
    ASSUME IInv, b' \in Seq(Byte), i' = 0, RecordKept, pc' \in PCs, pc' # "panic",
           failed' \in BOOLEAN, end' \in Nat, attrsEnd' \in Nat, attrEnd' \in Nat,
           NLRIInside', AttributesInside', Returns', (i = 0 /\ pc' # pc) \/ left' # left
    PROVE  IInv' /\ Advances
<1>1. i' \in 0 .. Size'
  <2>1. Size' \in Nat
    <3>1. b' \in Seq(Byte)
      OBVIOUS
    <3> QED BY ONLY <3>1 DEF Size
  <2> QED BY ONLY <2>1, i' = 0
<1>2. content \in Seq(Byte) /\ source \in {"socket", "packet", "mrt"}
  BY Zenon DEF IInv, TypeOK
<1>3. TypeOK'
  BY <1>1, <1>2, Zenon DEF TypeOK, RecordKept
<1>4. NoPanic' /\ AtStart'
  BY Zenon DEF NoPanic, AtStart
<1>5. Advances
  <2>1. CASE i = 0 /\ pc' # pc
    <3>1. i' >= i
      BY ONLY <2>1, i' = 0
    <3> QED BY <2>1, <3>1, Zenon DEF Advances
  <2>2. CASE left' # left
    BY ONLY <2>2 DEF Advances, caller
  <2> QED BY <2>1, <2>2
<1> QED BY <1>3, <1>4, <1>5, Zenon DEF IInv

\* The byteReader goes on and the slice stays.
LEMMA InRecord ==
    ASSUME IInv, RecordKept, UNCHANGED <<b, i, end, attrsEnd, attrEnd, nlri, attr>>,
           failed' \in BOOLEAN, pc' \in {"peers", "entries", "done", "partial", "error"},
           pc' # pc \/ left' # left
    PROVE  IInv' /\ Advances
<1>1. Size' = Size
  BY Zenon DEF Size
<1>2. /\ content \in Seq(Byte) /\ source \in {"socket", "packet", "mrt"}
      /\ b \in Seq(Byte) /\ i \in 0 .. Size /\ end \in Nat /\ attrsEnd \in Nat /\ attrEnd \in Nat
  BY Zenon DEF IInv, TypeOK
<1>3. pc' \in PCs
  BY DEF PCs
<1>4. TypeOK'
  BY <1>1, <1>2, <1>3, Zenon DEF TypeOK, RecordKept
<1>5. NoPanic' /\ AtStart' /\ NLRIInside' /\ AttributesInside'
  BY DEF NoPanic, AtStart, NLRIInside, AttributesInside, InAttributes
<1>6. Returns'
  BY Facts DEF Returns
<1>7. Advances
  <2>1. CASE pc' # pc
    <3>1. i' >= i
      BY Facts DEF Readable
    <3> QED BY <2>1, <3>1, Zenon DEF Advances
  <2>2. CASE left' # left
    BY ONLY <2>2 DEF Advances, caller
  <2> QED BY <2>1, <2>2
<1> QED BY <1>4, <1>5, <1>6, <1>7, Zenon DEF IInv

\* Nothing of the record is touched.
LEMMA RecordStays == ASSUME IInv, UNCHANGED <<source, content, pos, eof, left>> PROVE RecordKept
<1>1. pos \in 0 .. RecSize /\ eof \in BOOLEAN /\ left \in Nat /\ left <= MaxUint16
  BY Zenon DEF IInv, TypeOK
<1>2. RecSize' = RecSize
  BY Zenon DEF RecSize
<1> QED BY <1>1, <1>2, Zenon DEF RecordKept

-----------------------------------------------------------------------------
(* Messages.                                                                *)

\* A header that is accepted announces a body of no negative length.
LEMMA BodyLenType == ASSUME NEW s, ParsePacketHeader(s) PROVE BodyLen(s) \in Nat
<1>1. LengthField(s) \in GetBGPHeaderLen .. MaxMessage
  BY Zenon DEF ParsePacketHeader
<1>2. GetBGPHeaderLen \in Int /\ MaxMessage \in Int
  BY DEF GetBGPHeaderLen, MaxMessage
<1> QED BY <1>1, <1>2 DEF BodyLen

\* A message is decoded in a slice of its own.
LEMMA ParsePacketStep ==
    ASSUME IInv, i = 0, pc \in {"start", "message"}, RecordKept,
           NEW type, NEW body, body \in Seq(Byte), NEW options, ParsePacket(type, body, options)
    PROVE  IInv' /\ Advances
<1>1. /\ b' = body /\ i' = 0 /\ UNCHANGED locals
      /\ pc' \in {"open", "update", "notification", "keepalive", "error"}
  BY DEF ParsePacket
<1>2. pc' \in PCs /\ pc' # "panic" /\ pc' # pc
  BY <1>1 DEF PCs
<1>3. failed' \in BOOLEAN /\ end' \in Nat /\ attrsEnd' \in Nat /\ attrEnd' \in Nat /\ Returns'
  BY <1>1, Facts DEF locals, Readable, Returns
<1>4. NLRIInside' /\ AttributesInside'
  BY <1>1 DEF NLRIInside, AttributesInside, InAttributes
<1>5. b' \in Seq(Byte)
  BY <1>1, Zenon
<1> QED BY <1>1, <1>2, <1>3, <1>4, <1>5, NewSlice, Zenon

\* The body of a message of which n bytes follow the header is inside of the slice.
LEMMA BodyInside ==
    ASSUME NEW s, s \in Seq(Byte), NEW n \in Nat, ~(GetBGPHeaderLen + n > Len(s))
    PROVE  SubSeq(s, 20, 19 + n) \in Seq(Byte) /\ SubSeq(s, 1, 19) \in Seq(Byte)
<1>1. Len(s) \in Nat
  OBVIOUS
<1>2. 19 + n <= Len(s) /\ 19 <= Len(s)
  BY ONLY <1>1, n \in Nat, ~(GetBGPHeaderLen + n > Len(s)) DEF GetBGPHeaderLen
<1>3. /\ 20 \in Int /\ 19 + n \in Int /\ 1 <= 20 /\ 20 <= (19 + n) + 1
      /\ 1 \in Int /\ 19 \in Int /\ 1 <= 1 /\ 1 <= 19 + 1
  OBVIOUS
<1> QED BY <1>2, <1>3, SubSlice, Zenon

\* The receive routine and the users of the package pass on what the header announces.
LEMMA ReceiveStep == ASSUME IInv, Receive \/ ParseSlice PROVE IInv' /\ Advances
<1>1. pc = "start" /\ i = 0 /\ b \in Seq(Byte)
  BY Zenon DEF Receive, ParseSlice, IInv, AtStart, TypeOK
<1>2. CASE Fail
  BY <1>1, <1>2, Fails
<1>3. CASE ~Fail
  <2>1. ParsePacketHeader(b) /\ ~(GetBGPHeaderLen + BodyLen(b) > Len(b)) /\ UNCHANGED caller
    BY <1>3, Zenon DEF Receive, ParseSlice, Size
  <2>2. BodyLen(b) \in Nat
    BY <2>1, BodyLenType
  <2>3. SubSeq(b, 20, 19 + BodyLen(b)) \in Seq(Byte) /\ SubSeq(b, 1, 19) \in Seq(Byte)
    BY <1>1, <2>1, <2>2, BodyInside, Zenon
  <2>4. \E type, body, options : body \in Seq(Byte) /\ ParsePacket(type, body, options)
    <3>1. CASE Receive
      BY <1>3, <2>1, <2>3, <3>1, Zenon DEF Receive, Size
    <3>2. CASE ParseSlice
      BY <1>3, <2>1, <2>3, <3>2, Zenon DEF ParseSlice, Size
    <3> QED BY <3>1, <3>2
  <2>5. RecordKept
    BY <2>1, RecordStays DEF caller
  <2> QED BY <1>1, <2>4, <2>5, ParsePacketStep, Zenon
<1> QED BY <1>2, <1>3

-----------------------------------------------------------------------------
(* MRT records.                                                             *)

\* The length of a record is a number.
LEMMA RecordLengthType == IInv => RecordLength \in Nat
<1> SUFFICES ASSUME IInv PROVE RecordLength \in Nat
  OBVIOUS
<1>1. At(9) \in Nat /\ Uint16(10) \in Nat
  BY Facts DEF Readable
<1> QED BY ONLY <1>1, SMT DEF RecordLength, MaxMrtLength

\* The record is the part of the stream that its header announces.
LEMMA DecodeSingleStep == ASSUME IInv, DecodeSingle PROVE IInv' /\ Advances
<1>1. pc = "start" /\ i = 0 /\ b \in Seq(Byte) /\ Readable /\ Returns /\ failed \in BOOLEAN
  BY Facts, Zenon DEF DecodeSingle, IInv, AtStart, TypeOK
<1>2. CASE Fail
  BY <1>1, <1>2, Fails
<1>3. CASE ~Fail
  <2>1. /\ ~(12 + RecordLength > Size)
        /\ content' = SubSeq(b, 13, 12 + RecordLength) /\ pos' = 0 /\ eof' = FALSE
        /\ UNCHANGED <<nested, source, left, first>>
    BY <1>3, Zenon DEF DecodeSingle
  <2>2. pc' \in {"message", "stateChange", "nil", "peerIndex", "generic", "rib", "tableDump", "error"}
    BY <1>3 DEF DecodeSingle
  <2>3. content' \in Seq(Byte)
    <3>1. RecordLength \in Nat /\ Size \in Nat
      BY <1>1, RecordLengthType DEF Readable
    <3>2. /\ 13 \in Int /\ 12 + RecordLength \in Int /\ 1 <= 13 /\ 13 <= (12 + RecordLength) + 1
          /\ 12 + RecordLength <= Size
      BY ONLY <2>1, <3>1
    <3>3. 12 + RecordLength <= Len(b)
      BY <3>2, Zenon DEF Size
    <3>4. SubSeq(b, 13, 12 + RecordLength) \in Seq(Byte)
      BY <1>1, <3>2, <3>3, SubSlice, Zenon
    <3> QED BY <2>1, <3>4, Zenon
  <2>4. pos' \in 0 .. RecSize' /\ eof' \in BOOLEAN
    <3>1. RecSize' \in Nat
      <4>1. content' \in Seq(Byte)
        BY <2>3, Zenon
      <4> QED BY ONLY <4>1 DEF RecSize
    <3>2. pos' = 0
      BY <2>1, Zenon
    <3>3. pos' \in 0 .. RecSize'
      BY ONLY <3>1, <3>2
    <3> QED BY <2>1, <3>3, Zenon
  <2>5. UNCHANGED <<b, i, end, attrsEnd, attrEnd, nlri, attr, failed, source, left>> /\ Size' = Size
    BY <2>1, Zenon DEF nested, locals, Size
  <2>6. TypeOK'
    <3>1. pc' \in PCs
      BY <2>2 DEF PCs
    <3> QED BY <2>3, <2>4, <2>5, <3>1, Zenon DEF IInv, TypeOK
  <2>7. NoPanic' /\ AtStart' /\ NLRIInside' /\ AttributesInside' /\ Returns'
    BY <1>1, <2>2, <2>5 DEF NoPanic, AtStart, NLRIInside, AttributesInside, InAttributes, Returns
  <2>8. Advances
    BY <1>1, <2>2, <2>5 DEF Advances
  <2> QED BY <2>6, <2>7, <2>8, Zenon DEF IInv
<1> QED BY <1>2, <1>3

\* An address has 4 or 16 bytes.
LEMMA SizeIPType == SizeIP \in Nat
BY DEF SizeIP

\* A step of the byteReader.
LEMMA RecordAdvances ==
    ASSUME IInv, UNCHANGED <<content, source>>, NEW n \in Nat, Advance(n),
           left' \in Nat, left' <= MaxUint16
    PROVE  RecordKept
BY AdvanceType, Zenon DEF RecordKept

\* The message of a BGP4MP record is a slice of its own.
LEMMA DecodeMessageStep == ASSUME IInv, DecodeMessage PROVE IInv' /\ Advances
<1> DEFINE header  == 12 + 2 * SizeIP
           message == Field(header, RecSize - header)
<1>1. /\ pc = "message" /\ i = 0 /\ failed \in BOOLEAN
      /\ content \in Seq(Byte) /\ pos \in Nat /\ RecSize \in Nat /\ left \in Nat /\ left <= MaxUint16
  BY Facts, RecordFacts, Zenon DEF DecodeMessage, IInv, AtStart
<1>2. CASE Fail
  BY <1>1, <1>2, Fails
<1>3. CASE ~Fail
  <2>1. ~(RecSize < header) /\ Advance(RecSize) /\ UNCHANGED <<content, source, left, first>>
    BY <1>3, Zenon DEF DecodeMessage
  <2>2. RecordKept
    BY <1>1, <2>1, RecordAdvances, Zenon
  <2>3. message \in Seq(Byte)
    <3>1. header \in Nat
      BY SizeIPType
    <3>2. RecSize - header \in Nat
      <4> HIDE DEF header
      <4> QED BY ONLY <1>1, <2>1, <3>1
    <3> QED BY <1>1, <3>1, <3>2, FieldType, Zenon
  <2> HIDE DEF header, message
  <2>4. CASE ~ParsePacketHeader(message) \/ GetBGPHeaderLen + BodyLen(message) > Len(message)
    <3>1. pc' = "error" /\ UNCHANGED <<b, i, locals>>
      BY <1>3, <2>4, Zenon DEF DecodeMessage, header, message
    <3>2. failed' \in BOOLEAN /\ UNCHANGED <<b, i, end, attrsEnd, attrEnd, nlri, attr>>
      BY <1>1, <3>1, Zenon DEF locals
    <3> QED BY <1>1, <2>2, <3>1, <3>2, InRecord
  <2>5. CASE ~(~ParsePacketHeader(message) \/ GetBGPHeaderLen + BodyLen(message) > Len(message))
    <3>1. BodyLen(message) \in Nat
      BY <2>5, BodyLenType, Zenon
    <3>2. SubSeq(message, 20, 19 + BodyLen(message)) \in Seq(Byte)
      BY <2>3, <2>5, <3>1, BodyInside, Zenon
    <3>3. \E type, body, options : body \in Seq(Byte) /\ ParsePacket(type, body, options)
      BY <1>3, <2>5, <3>2, Zenon DEF DecodeMessage, header, message
    <3> QED BY <1>1, <2>2, <3>3, ParsePacketStep, Zenon
  <2> QED BY <2>4, <2>5
<1> QED BY <1>2, <1>3

\* The other steps of the byteReader that leave the decoders of messages alone.
LEMMA DecodeStateChangeStep == ASSUME IInv, DecodeStateChange PROVE IInv' /\ Advances
<1>1. 16 + 2 * SizeIP \in Nat
  BY SizeIPType
<1>2. /\ pc' = "done" /\ pc # pc' /\ Advance(16 + 2 * SizeIP)
      /\ UNCHANGED <<nested, content, source, left, first>>
  BY DEF DecodeStateChange
<1>3. failed' \in BOOLEAN /\ UNCHANGED <<b, i, end, attrsEnd, attrEnd, nlri, attr>>
  BY <1>2, Facts, Zenon DEF nested, locals
<1>4. RecordKept
  BY <1>1, <1>2, RecordFacts, RecordAdvances, Zenon
<1> QED BY <1>2, <1>3, <1>4, InRecord

\* A peer index table begins.
LEMMA DecodePeerIndexStep == ASSUME IInv, DecodePeerIndex PROVE IInv' /\ Advances
<1> DEFINE n == ReadUint16(4)
<1>1. content \in Seq(Byte) /\ pos \in Nat /\ failed \in BOOLEAN
  BY Facts, RecordFacts, Zenon
<1>2. n \in Nat
  BY <1>1, ReadType, 4 \in Nat, Zenon
<1> HIDE DEF n
<1>3. 6 + n \in Nat /\ 8 + n \in Nat
  BY <1>2
<1>4. /\ pc = "peerIndex" /\ pc' = "peers" /\ left' = ReadUint16(6 + n) /\ Advance(8 + n)
      /\ UNCHANGED <<nested, content, source, first>>
  BY Zenon DEF DecodePeerIndex, Goto, n
<1>5. left' \in Nat /\ left' <= MaxUint16
  BY <1>1, <1>3, <1>4, ReadType, Zenon
<1>6. RecordKept
  BY <1>3, <1>4, <1>5, RecordAdvances, Zenon
<1>7. failed' \in BOOLEAN /\ UNCHANGED <<b, i, end, attrsEnd, attrEnd, nlri, attr>>
  BY <1>1, <1>4, Zenon DEF nested, locals
<1>8. pc' # pc
  BY <1>4
<1> QED BY <1>4, <1>6, <1>7, <1>8, InRecord

\* One less is left.
LEMMA OneLess == ASSUME IInv, left # 0 PROVE left - 1 \in Nat /\ left - 1 <= MaxUint16 /\ left - 1 # left
<1>1. left \in Nat /\ left <= MaxUint16
  BY RecordFacts, Zenon
<1> QED BY ONLY <1>1, left # 0, SMT DEF MaxUint16

\* A peer: there is one less to decode.
LEMMA DecodePeerStep == ASSUME IInv, DecodePeer PROVE IInv' /\ Advances
<1> DEFINE sizeIP  == IF ReadUint8(0) % 2 = 1 THEN 16 ELSE 4
           sizeASN == IF (ReadUint8(0) \div 2) % 2 = 1 THEN 4 ELSE 2
<1>1. pc = "peers" /\ failed \in BOOLEAN
  BY Facts, Zenon DEF DecodePeer
<1>2. CASE left = 0
  <2>1. pc' = "done" /\ UNCHANGED <<b, i, locals, caller>>
    BY <1>2, Zenon DEF DecodePeer, nested
  <2> QED BY <1>1, <2>1, Halts
<1>3. CASE left # 0
  <2>1. 5 + sizeIP + sizeASN \in Nat
    OBVIOUS
  <2>2. /\ left' = left - 1 /\ Advance(5 + sizeIP + sizeASN)
        /\ UNCHANGED <<nested, pc, content, source, first>>
    BY <1>3, Zenon DEF DecodePeer
  <2> HIDE DEF sizeIP, sizeASN
  <2>3. left' \in Nat /\ left' <= MaxUint16 /\ left' # left
    BY <1>3, <2>2, OneLess, Zenon
  <2>4. RecordKept
    BY <2>1, <2>2, <2>3, RecordAdvances, Zenon
  <2>5. failed' \in BOOLEAN /\ UNCHANGED <<b, i, end, attrsEnd, attrEnd, nlri, attr>>
    BY <1>1, <2>2, Zenon DEF nested, locals
  <2> QED BY <1>1, <2>2, <2>3, <2>4, <2>5, InRecord
<1> QED BY <1>2, <1>3

\* A byte in front of a slice.
LEMMA Prefixed ==
    ASSUME NEW s \in Seq(Byte), NEW x \in Byte
    PROVE  <<x>> \o s \in Seq(Byte) /\ Len(<<x>> \o s) = 1 + Len(s)
<1>1. <<x>> \in Seq(Byte) /\ Len(<<x>>) = 1
  OBVIOUS
<1>2. <<x>> \o s \in Seq(Byte) /\ Len(<<x>> \o s) = Len(<<x>>) + Len(s)
  BY ONLY <1>1, s \in Seq(Byte), ConcatProperties
<1> QED BY <1>1, <1>2, Zenon

\* The prefix of a RIB record is as long as its slice.
LEMMA CallPrefixStep ==
    ASSUME IInv, i = 0, pc \in {"rib", "generic"}, NEW o \in Nat, NEW afi, CallPrefix(o, afi)
    PROVE  IInv' /\ Advances
<1> DEFINE size == (ReadUint8(o) + 7) \div 8
<1>1. content \in Seq(Byte) /\ pos \in Nat /\ failed \in BOOLEAN /\ left \in Nat /\ left <= MaxUint16
      /\ Readable /\ Returns
  BY Facts, RecordFacts, Zenon
<1>2. ReadUint8(o) \in Byte /\ ReadUint8(o) \in Nat
  BY <1>1, ReadType, Zenon
<1>3. size \in Nat
  BY <1>2
<1>4. /\ b' = <<ReadUint8(o)>> \o Field(o + 1, size) /\ Advance(o + 1 + size)
      /\ CallParseNLRI(0, 1 + size, afi, FALSE, "prefix")
      /\ UNCHANGED <<session, attrsEnd, attrEnd, attr, msg, content, source, left, first>>
  BY Zenon DEF CallPrefix
<1> HIDE DEF size
<1>5. o + 1 \in Nat /\ o + 1 + size \in Nat
  BY <1>3
<1>6. b' \in Seq(Byte) /\ Size' = 1 + size
  <2>1. Field(o + 1, size) \in Seq(Byte) /\ Len(Field(o + 1, size)) = size
    BY <1>1, <1>3, <1>5, FieldType, Zenon
  <2>2. /\ <<ReadUint8(o)>> \o Field(o + 1, size) \in Seq(Byte)
        /\ Len(<<ReadUint8(o)>> \o Field(o + 1, size)) = 1 + size
    BY <1>2, <2>1, Prefixed, Zenon
  <2> QED BY <1>4, <2>2, Zenon DEF Size
<1>7. /\ i' = 0 /\ end' = 1 + size /\ failed' \in BOOLEAN /\ pc' \in {"nlri", "prefix"}
      /\ nlri'.ret = "prefix" /\ "ret" \in DOMAIN nlri'
  BY <1>4 DEF CallParseNLRI
<1>8. pc' \in PCs /\ pc' # "panic" /\ pc' # pc
  BY <1>7 DEF PCs
<1>9. RecordKept
  BY <1>1, <1>4, <1>5, RecordAdvances, Zenon
<1>10. end' \in Nat /\ attrsEnd' \in Nat /\ attrEnd' \in Nat
  BY <1>1, <1>3, <1>4, <1>7 DEF Readable
<1>11. NLRIInside' /\ AttributesInside' /\ Returns'
  <2>1. i' <= end' /\ end' <= Size'
    BY <1>3, <1>6, <1>7
  <2> QED BY <1>1, <1>4, <1>7, <2>1 DEF NLRIInside, AttributesInside, InAttributes, Returns
<1>12. b' \in Seq(Byte)
  BY <1>6, Zenon
<1> QED BY <1>7, <1>8, <1>9, <1>10, <1>11, <1>12, NewSlice, Zenon

\* A RIB record begins.
LEMMA DecodeRibStep == ASSUME IInv, DecodeRibSpec \/ DecodeRibGeneric PROVE IInv' /\ Advances
<1>1. pc \in {"rib", "generic"} /\ i = 0 /\ failed \in BOOLEAN
  BY Facts DEF DecodeRibSpec, DecodeRibGeneric, IInv, AtStart
<1>2. 4 \in Nat /\ 7 \in Nat
  OBVIOUS
<1>3. CASE \E afi : CallPrefix(4, afi) \/ CallPrefix(7, afi)
  BY <1>1, <1>2, <1>3, CallPrefixStep, Zenon
<1>4. CASE pc' = "error" /\ Advance(7) /\ UNCHANGED <<nested, content, source, left, first>>
  <2>1. RecordKept
    BY <1>2, <1>4, RecordFacts, RecordAdvances, Zenon
  <2>2. failed' \in BOOLEAN /\ UNCHANGED <<b, i, end, attrsEnd, attrEnd, nlri, attr>>
    BY <1>1, <1>4, Zenon DEF nested, locals
  <2> QED BY <1>1, <1>4, <2>1, <2>2, InRecord
<1> QED BY <1>3, <1>4, Zenon DEF DecodeRibSpec, DecodeRibGeneric

\* After the prefix come the entries.
LEMMA PrefixDecodedStep == ASSUME IInv, PrefixDecoded PROVE IInv' /\ Advances
<1>1. pc = "prefix" /\ failed \in BOOLEAN /\ content \in Seq(Byte) /\ pos \in Nat
  BY Facts, RecordFacts, Zenon DEF PrefixDecoded
<1>2. CASE Len(nlri.list) # 1 \/ failed
  <2>1. pc' = "error" /\ UNCHANGED <<b, i, locals, caller>>
    BY <1>2, Zenon DEF PrefixDecoded, nested
  <2> QED BY <1>1, <2>1, Halts
<1>3. CASE ~(Len(nlri.list) # 1 \/ failed)
  <2>1. 0 \in Nat /\ 2 \in Nat
    OBVIOUS
  <2>2. /\ pc' = "entries" /\ failed' = FALSE /\ left' = ReadUint16(0) /\ Advance(2)
        /\ UNCHANGED <<b, i, end, attrsEnd, attrEnd, nlri, attr, content, source>>
    BY <1>3, Zenon DEF PrefixDecoded, Goto
  <2>3. left' \in Nat /\ left' <= MaxUint16 /\ failed' \in BOOLEAN
    BY <1>1, <2>1, <2>2, ReadType, Zenon
  <2>4. RecordKept
    BY <2>1, <2>2, <2>3, RecordAdvances, Zenon
  <2>5. pc' # pc
    BY <1>1, <2>2
  <2> QED BY <2>2, <2>3, <2>4, <2>5, InRecord
<1> QED BY <1>2, <1>3

\* Attributes of n bytes are decoded in a slice of their own.
LEMMA CallAttributesStep ==
    ASSUME IInv, pc \in {"entries", "tableDump"}, (i = 0 \/ left' # left),
           left' \in Nat, left' <= MaxUint16,
           NEW o \in Nat, NEW n \in Nat, NEW enc2bytes, NEW ret \in {"entry", "tableDumpAttributes"},
           CallAttributes(o, n, enc2bytes, ret)
    PROVE  IInv' /\ Advances
<1>1. content \in Seq(Byte) /\ pos \in Nat /\ failed \in BOOLEAN /\ Readable /\ Returns
  BY Facts, RecordFacts, Zenon
<1>2. /\ b' = Field(o, n) /\ Advance(o + n)
      /\ CallParsePathAttribute(0, n, ret)
      /\ UNCHANGED <<end, attrEnd, nlri, failed, content, source, first>>
  BY Zenon DEF CallAttributes
<1>3. b' \in Seq(Byte) /\ Size' = n
  BY <1>1, <1>2, FieldType, Zenon DEF Size
<1>4. i' = 0 /\ attrsEnd' = n /\ attr' = [ret |-> ret] /\ pc' = "attrs"
  BY <1>2 DEF CallParsePathAttribute
<1>5. attr'.ret = ret /\ "ret" \in DOMAIN attr'
  BY <1>4
<1>6. pc' \in PCs /\ pc' # "panic" /\ pc' # pc
  BY <1>4 DEF PCs
<1>7. RecordKept
  <2>1. o + n \in Nat
    OBVIOUS
  <2> QED BY <1>2, <2>1, RecordAdvances, Zenon
<1>8. failed' \in BOOLEAN /\ end' \in Nat /\ attrsEnd' \in Nat /\ attrEnd' \in Nat
  BY <1>1, <1>2, <1>4 DEF Readable
<1>9. NLRIInside' /\ AttributesInside' /\ Returns'
  <2>1. i' <= attrsEnd' /\ attrsEnd' <= Size'
    BY <1>3, <1>4
  <2> QED BY <1>1, <1>2, <1>4, <1>5, <2>1 DEF NLRIInside, AttributesInside, InAttributes, Returns
<1> QED BY <1>3, <1>4, <1>6, <1>7, <1>8, <1>9, NewSlice, Zenon

\* An entry of a RIB record: there is one less to decode.
LEMMA DecodeEntryStep == ASSUME IInv, DecodeEntry PROVE IInv' /\ Advances
<1> DEFINE skip == IF rec.addPath THEN 4 ELSE 0
<1>1. /\ pc = "entries" /\ failed \in BOOLEAN /\ content \in Seq(Byte) /\ pos \in Nat
  BY Facts, RecordFacts, Zenon DEF DecodeEntry
<1>2. CASE left = 0
  <2>1. pc' \in {"partial", "done"} /\ UNCHANGED <<b, i, locals, caller>>
    BY <1>2, Zenon DEF DecodeEntry, nested
  <2> QED BY <1>1, <2>1, Halts
<1>3. CASE left # 0
  <2>1. 6 + skip \in Nat /\ 8 + skip \in Nat
    OBVIOUS
  <2>2. left' = left - 1 /\ CallAttributes(8 + skip, ReadUint16(6 + skip), FALSE, "entry")
    BY <1>3, Zenon DEF DecodeEntry
  <2> HIDE DEF skip
  <2>3. ReadUint16(6 + skip) \in Nat
    BY <1>1, <2>1, ReadType, Zenon
  <2>4. left' \in Nat /\ left' <= MaxUint16 /\ left' # left
    BY <1>3, <2>2, OneLess, Zenon
  <2> QED BY <1>1, <2>1, <2>2, <2>3, <2>4, CallAttributesStep, Zenon
<1> QED BY <1>2, <1>3

\* After the attributes of an entry comes the next one.
LEMMA EntryDecodedStep == ASSUME IInv, EntryDecoded PROVE IInv' /\ Advances
<1>1. /\ pc = "entry" /\ pc' = "entries" /\ pc' # pc
      /\ UNCHANGED <<b, i, end, attrsEnd, attrEnd, nlri, attr, failed>>
      /\ UNCHANGED <<source, content, pos, eof, left>>
  BY DEF EntryDecoded, Goto, nested, locals, reader
<1>2. RecordKept
  BY <1>1, RecordStays
<1>3. failed' \in BOOLEAN
  BY <1>1, Facts
<1> QED BY <1>1, <1>2, <1>3, InRecord

\* The record of a table dump has one list of attributes.
LEMMA DecodeTableDumpStep == ASSUME IInv, DecodeTableDump PROVE IInv' /\ Advances
<1> DEFINE size == CASE rec.subtype = AFI_IPV4 -> 4 [] rec.subtype = AFI_IPV6 -> 16 [] OTHER -> 0
           rest == 6 + size
<1>1. /\ pc = "tableDump" /\ i = 0 /\ content \in Seq(Byte) /\ pos \in Nat
      /\ left \in Nat /\ left <= MaxUint16
  BY Facts, RecordFacts, Zenon DEF DecodeTableDump, IInv, AtStart
<1>2. size \in Nat
  BY DEF AFI_IPV4, AFI_IPV6
<1>3. /\ left' = left
      /\ CallAttributes(rest + 8 + size, ReadUint16(rest + 6 + size), TRUE, "tableDumpAttributes")
  BY Zenon DEF DecodeTableDump
<1> HIDE DEF size
<1>4. rest + 6 + size \in Nat /\ rest + 8 + size \in Nat
  BY <1>2
<1>5. ReadUint16(rest + 6 + size) \in Nat
  BY <1>1, <1>4, ReadType, Zenon
<1>6. left' \in Nat /\ left' <= MaxUint16
  BY <1>1, <1>3, Zenon
<1> QED BY <1>1, <1>3, <1>4, <1>5, <1>6, CallAttributesStep, Zenon

\* It is complete with them.
LEMMA TableDumpDecodedStep == ASSUME IInv, TableDumpDecoded PROVE IInv' /\ Advances
<1>1. /\ pc = "tableDumpAttributes" /\ pc' \in {"error", "done"} /\ pc' # pc
      /\ UNCHANGED <<b, i, end, attrsEnd, attrEnd, nlri, attr, failed>>
      /\ UNCHANGED <<source, content, pos, eof, left>>
  BY DEF TableDumpDecoded, Goto, nested, locals, reader
<1>2. RecordKept
  BY <1>1, RecordStays
<1>3. failed' \in BOOLEAN
  BY <1>1, Facts
<1> QED BY <1>1, <1>2, <1>3, InRecord

-----------------------------------------------------------------------------
(* All steps, and the theorems.                                             *)

\* The decoders of messages.
LEMMA PacketStep == ASSUME IInv, PacketNext PROVE IInv' /\ Advances
<1>1. CASE Receive \/ ParseSlice
  BY <1>1, ReceiveStep
<1>2. CASE ParseNotification \/ ParseKeepAlive \/ UpdateParsed
  BY <1>2, ReturnsStep
<1>3. CASE OpenNext
  BY <1>3, ParseOpenStep, ParseParameterStep, ParseCapabilitiesStep DEF OpenNext
<1>4. CASE ParseUpdate \/ WithdrawnParsed \/ AttributesParsed
  BY <1>4, ParseUpdateStep, WithdrawnParsedStep, AttributesParsedStep
<1>5. CASE ParseNLRI \/ ParseAttributeHeader
  BY <1>5, ParseNLRIStep, ParseAttributeHeaderStep
<1>6. CASE ParseOrigin \/ ParseMedLocPref \/ ParseAggregator \/ ParseAtomicAggregate
  BY <1>6, ParseOriginStep, ParseMedLocPrefStep, ParseAggregatorStep, ParseAtomicAggregateStep
<1>7. CASE ParseNextHop \/ ParseCommunities \/ ParseUnknown
  BY <1>7, ParseNextHopStep, ParseCommunitiesStep, ParseUnknownStep
<1>8. CASE ParseASPath \/ ParseASPathSegment
  BY <1>8, ParseASPathStep, ParseASPathSegmentStep
<1>9. CASE ParseReach \/ ReachParsed \/ ParseUnreach \/ UnreachParsed
  BY <1>9, ParseReachStep, ParseUnreachStep, PrefixesOfAttributeStep
<1> QED
  BY <1>1, <1>2, <1>3, <1>4, <1>5, <1>6, <1>7, <1>8, <1>9, Zenon DEF PacketNext, UpdateNext

\* The decoders of MRT records.
LEMMA MrtStep == ASSUME IInv, MrtNext PROVE IInv' /\ Advances
<1>1. CASE DecodeSingle \/ DecodeMessage \/ DecodeStateChange
  BY <1>1, DecodeSingleStep, DecodeMessageStep, DecodeStateChangeStep
<1>2. CASE DecodePeerIndex \/ DecodePeer
  BY <1>2, DecodePeerIndexStep, DecodePeerStep
<1>3. CASE DecodeRibSpec \/ DecodeRibGeneric \/ PrefixDecoded
  BY <1>3, DecodeRibStep, PrefixDecodedStep
<1>4. CASE DecodeEntry \/ EntryDecoded
  BY <1>4, DecodeEntryStep, EntryDecodedStep
<1>5. CASE DecodeTableDump \/ TableDumpDecoded
  BY <1>5, DecodeTableDumpStep, TableDumpDecodedStep
<1> QED BY <1>1, <1>2, <1>3, <1>4, <1>5, Zenon DEF MrtNext

\* A decoder begins at the start of what arrived.
LEMMA InitIInv == Init => IInv
<1> SUFFICES ASSUME Init PROVE IInv
  OBVIOUS
<1>1. /\ b \in Seq(Byte) /\ source \in {"socket", "packet", "mrt"}
      /\ pc = "start" /\ i = 0 /\ end = 0 /\ attrsEnd = 0 /\ attrEnd = 0 /\ failed = FALSE
      /\ nlri = [size |-> 4, path |-> FALSE, list |-> <<>>, ret |-> "none"]
      /\ attr = [ret |-> "none"]
      /\ content = <<>> /\ pos = 0 /\ eof = FALSE /\ left = 0
  BY InputsAssumption, Zenon DEF Init
<1>2. i \in 0 .. Size
  <2>1. b \in Seq(Byte) /\ i = 0
    BY <1>1, Zenon
  <2> QED BY ONLY <2>1 DEF Size
<1>3. content \in Seq(Byte) /\ pos \in 0 .. RecSize
  <2>1. content = <<>> /\ pos = 0
    BY <1>1, Zenon
  <2> QED BY ONLY <2>1 DEF RecSize
<1>4. end \in Nat /\ attrsEnd \in Nat /\ attrEnd \in Nat /\ left \in Nat /\ left <= MaxUint16
  <2>1. end = 0 /\ attrsEnd = 0 /\ attrEnd = 0 /\ left = 0
    BY <1>1, Zenon
  <2> QED BY ONLY <2>1, SMT DEF MaxUint16
<1>5. pc \in PCs /\ failed \in BOOLEAN /\ eof \in BOOLEAN
  <2>1. pc = "start" /\ failed = FALSE /\ eof = FALSE
    BY <1>1, Zenon
  <2> QED BY ONLY <2>1 DEF PCs
<1>6. TypeOK
  BY <1>1, <1>2, <1>3, <1>4, <1>5, Zenon DEF TypeOK
<1>7. NoPanic /\ AtStart /\ NLRIInside /\ AttributesInside /\ Returns
  <2>1. pc = "start" /\ i = 0 /\ attr = [ret |-> "none"]
        /\ nlri = [size |-> 4, path |-> FALSE, list |-> <<>>, ret |-> "none"]
    BY <1>1, Zenon
  <2> QED BY ONLY <2>1 DEF NoPanic, AtStart, NLRIInside, AttributesInside, InAttributes, Returns
<1> QED BY <1>6, <1>7, Zenon DEF IInv

\* Every step keeps the invariant, and gets ahead unless nothing happens.
LEMMA NextIInv == ASSUME IInv, [Decode]_vars PROVE IInv' /\ [Advances]_vars
<1>1. CASE Decode
  BY <1>1, PacketStep, MrtStep DEF Decode
<1>2. CASE UNCHANGED vars
  <2>1. UNCHANGED <<b, session, pc, i, msg, locals, caller>>
    BY <1>2, Zenon DEF vars
  <2>2. /\ UNCHANGED <<end, attrsEnd, attrEnd, nlri, attr, failed>>
        /\ UNCHANGED <<source, content, pos, eof, left>>
    BY <2>1, Zenon DEF locals, caller
  <2>3. Size' = Size /\ RecSize' = RecSize
    BY <2>1, <2>2, Zenon DEF Size, RecSize
  <2>4. TypeOK'
    BY <2>1, <2>2, <2>3, Zenon DEF IInv, TypeOK
  <2>5. InAttributes' = InAttributes
    BY <2>1, <2>2, Zenon DEF InAttributes
  <2>6. NoPanic' /\ AtStart' /\ NLRIInside' /\ AttributesInside' /\ Returns'
    BY <2>1, <2>2, <2>3, <2>5, Zenon
       DEF IInv, NoPanic, AtStart, NLRIInside, AttributesInside, Returns
  <2> QED BY <1>2, <2>4, <2>6, Zenon DEF IInv
<1> QED BY <1>1, <1>2

-----------------------------------------------------------------------------
(* The types of what is decoded, by the place of the decoder.              *)

Starts == [time : Bs(4), subtype : Nat]
RibHeads == RibsWith({Nil}, {<<>>})

\* A record whose last entry waits for its attributes.
OpenRib(r) ==
    /\ r \in RibsWith(Routes, Seq(Entries \cup [peer : Bs(2), time : Bs(4)]))
    /\ r.entries # <<>>
    /\ r.entries[Len(r.entries)].peer \in Bs(2) /\ r.entries[Len(r.entries)].time \in Bs(4)
    /\ \A k \in 1 .. Len(r.entries) - 1 : r.entries[k] \in Entries

\* The attributes of an entry of an MRT record, and those of an UPDATE.
Outside == {"entry", "tableDumpAttributes"}
InEntry == pc \in Outside \/ (InAttributes /\ attr.ret \in Outside)
InUpdate == \/ pc \in {"withdrawn", "attributes", "prefixes"}
            \/ pc = "nlri" /\ nlri.ret \in {"withdrawn", "prefixes"}
            \/ InAttributes /\ attr.ret = "attributes"
InMessage == pc \in {"open", "param", "capa", "update", "notification", "keepalive"} \/ InUpdate
InPrefix == pc = "prefix" \/ (pc = "nlri" /\ nlri.ret = "prefix")
Waits(place) == pc = place \/ (InAttributes /\ attr.ret = place)

NLRIs == [size : {4, 16}, path : BOOLEAN, list : Seq(Routes),
          ret : {"none", "withdrawn", "prefixes", "reach", "unreach", "prefix"}]

SliceTyped == session.enc2bytes \in BOOLEAN /\ nlri \in NLRIs
AttributeTyped ==
    /\ pc = "attr" => attr.flag \in Byte /\ attr.code \in Byte
    /\ pc = "aspath" => attr \in [ret : {"attributes"} \cup Outside, segments : Seq(Segments)]
    /\ pc = "reach" \/ (pc = "nlri" /\ nlri.ret = "reach") =>
          /\ attr.afi \in Nat /\ attr.safi \in Byte /\ attr.nextHop \in Seq(Byte)
          /\ attr.addPath \in BOOLEAN
    /\ pc = "unreach" \/ (pc = "nlri" /\ nlri.ret = "unreach") => attr.afi \in Nat /\ attr.safi \in Byte
MessageTyped ==
    /\ pc \in {"param", "capa"} => msg \in Opens
    /\ pc = "capa" => msg.params # <<>>
    /\ InUpdate => msg \in Updates
    /\ InEntry => msg \in [attrs : Seq(Attributes)]
RecordTyped ==
    /\ pc \in {"message", "stateChange", "peerIndex", "rib", "generic", "tableDump"} =>
          source = "mrt" /\ rec \in Starts
    /\ pc = "rib" => rec.subtype \in DOMAIN RibSubtype
    /\ pc = "peers" => source = "mrt" /\ rec \in PeerIndexes
    /\ InPrefix => source = "mrt" /\ rec \in RibHeads
    /\ pc = "entries" => source = "mrt" /\ rec \in Ribs
    /\ Waits("entry") => source = "mrt" /\ OpenRib(rec)
    /\ Waits("tableDumpAttributes") => source = "mrt" /\ rec.type = "TABLE_DUMP" /\ "attrs" \in DOMAIN rec
    /\ InMessage /\ source = "mrt" => rec \in MessageRecords
ResultTyped ==
    pc \in {"done", "partial"} =>
        \/ msg \in Messages /\ (source = "mrt" => rec \in MessageRecords)
        \/ source = "mrt" /\ (rec \in StateChanges \cup PeerIndexes \cup Ribs \/ rec.type = "TABLE_DUMP")
Typed == SliceTyped /\ AttributeTyped /\ MessageTyped /\ RecordTyped /\ ResultTyped

Inv == IInv /\ Typed

-----------------------------------------------------------------------------
(* What is read.                                                           *)

\* Bytes of the slice, or zeros.
LEMMA BytesType ==
    ASSUME b \in Seq(Byte), NEW k \in Int, NEW n \in Nat
    PROVE  Bytes(k, n) \in Bs(n)
<1> DEFINE f == [j \in 1 .. n |-> At(k + j - 1)]
<1>1. \A j \in 1 .. n : At(k + j - 1) \in Byte
  <2> TAKE j \in 1 .. n
  <2>1. k + j - 1 \in Int
    OBVIOUS
  <2>2. At(k + j - 1) \in Nat /\ At(k + j - 1) <= 255
    BY <2>1, AtType, Zenon
  <2> QED BY ONLY <2>2 DEF Byte
<1>2. f \in [1 .. n -> Byte]
  BY <1>1, Zenon
<1>3. f \in Seq(Byte) /\ Len(f) = n
  <2> HIDE DEF f
  <2> QED BY <1>2
<1> QED BY <1>3, Zenon DEF Bytes, Bs

\* A byte of it.
LEMMA AtByte == ASSUME b \in Seq(Byte), NEW k \in Int PROVE At(k) \in Byte
<1>1. At(k) \in Nat /\ At(k) <= 255
  BY AtType, Zenon
<1> QED BY ONLY <1>1 DEF Byte

\* A prefix of at most as many bits as its address has.
LEMMA PrefixType ==
    ASSUME b \in Seq(Byte), i \in Nat, nlri \in NLRIs, NEW k \in Nat, NEW bits \in Nat,
           bits <= 8 * nlri.size
    PROVE  Prefix(k, bits) \in Routes
<1> DEFINE size == nlri.size
           ip == [j \in 1 .. size |-> IF j <= (bits + 7) \div 8 THEN At(k + j - 1) ELSE 0]
           path == IF nlri.path THEN Bytes(i, 4) ELSE Zeros(4)
<1>1. size \in {4, 16}
  BY DEF NLRIs
<1>2. path \in Bs(4)
  <2>1. Bytes(i, 4) \in Bs(4) /\ Zeros(4) \in Bs(4)
    <3>1. i \in Int /\ 4 \in Nat
      OBVIOUS
    <3> QED BY <3>1, BytesType, ZerosType
  <2> QED BY <2>1
<1>3. ip \in Bs(size)
  <2>1. \A j \in 1 .. size : (IF j <= (bits + 7) \div 8 THEN At(k + j - 1) ELSE 0) \in Byte
    <3> TAKE j \in 1 .. size
    <3>1. k + j - 1 \in Int
      BY <1>1
    <3>2. At(k + j - 1) \in Byte /\ 0 \in Byte
      BY <3>1, AtByte DEF Byte
    <3> QED BY <3>2, Zenon
  <2>2. ip \in [1 .. size -> Byte]
    BY <2>1, Zenon
  <2>3. ip \in Seq(Byte) /\ Len(ip) = size
    <3> HIDE DEF ip
    <3> QED BY <1>1, <2>2
  <2> QED BY <2>3, Zenon DEF Bs
<1>4. bits \in 0 .. 8 * size
  BY <1>1
<1>5. Prefix(k, bits) = [path |-> path, mask |-> Mask(size)[bits], ip |-> ip]
  BY Zenon DEF Prefix
<1> HIDE DEF size, ip, path
<1>6. Prefix(k, bits) \in Route(size)
  BY <1>2, <1>3, <1>4, <1>5 DEF Route
<1> QED BY <1>1, <1>6 DEF Routes

-----------------------------------------------------------------------------
(* Steps within a message, and returns.                                    *)

\* An error has no result.
LEMMA FailTyped == ASSUME Inv, Fail PROVE Typed'
<1>1. pc' = "error" /\ session' = session /\ nlri' = nlri
  BY Zenon DEF Fail, locals
<1>2. SliceTyped'
  BY <1>1, Zenon DEF Inv, Typed, SliceTyped
<1>3. AttributeTyped' /\ MessageTyped' /\ RecordTyped' /\ ResultTyped'
  BY <1>1 DEF AttributeTyped, MessageTyped, RecordTyped, ResultTyped, InUpdate, InEntry,
     InAttributes,
              InMessage, InPrefix, Waits, Outside
<1> QED BY <1>2, <1>3, Zenon DEF Typed

\* ParseNLRI returns to a place that its caller has prepared.
LEMMA ReturnNLRITyped ==
    ASSUME Inv, pc = "nlri", NEW list \in Seq(Routes), NEW err \in BOOLEAN, ReturnNLRI(list, err)
    PROVE  Typed'
<1>1. /\ nlri \in NLRIs /\ session.enc2bytes \in BOOLEAN
      /\ nlri.ret \in {"withdrawn", "prefixes", "reach", "unreach", "prefix"}
  BY DEF Inv, IInv, Typed, SliceTyped, NLRIInside
<1>2. /\ pc' = nlri.ret /\ nlri' = [nlri EXCEPT !.list = list]
      /\ UNCHANGED <<session, attr, msg, source, rec>>
  BY Zenon DEF ReturnNLRI, caller
<1>3. nlri' \in NLRIs
  BY <1>1, <1>2 DEF NLRIs
<1>4. SliceTyped'
  BY <1>1, <1>2, <1>3, Zenon DEF SliceTyped
<1>5. InAttributes => attr.ret \in {"attributes", "entry", "tableDumpAttributes"}
  BY DEF Inv, IInv, AttributesInside
<1>6. AttributeTyped'
  BY <1>1, <1>2 DEF Inv, Typed, AttributeTyped
<1>7. MessageTyped'
  BY <1>1, <1>2, <1>5 DEF Inv, Typed, MessageTyped, InUpdate, InEntry, InAttributes, Outside
<1>8. RecordTyped'
  BY <1>1, <1>2, <1>5 DEF Inv, Typed, RecordTyped, InUpdate, InAttributes, InMessage, InPrefix,
     Waits
<1>9. ResultTyped'
  BY <1>1, <1>2 DEF ResultTyped
<1> QED BY <1>4, <1>6, <1>7, <1>8, <1>9, Zenon DEF Typed

\* Attributes of an UPDATE or of an entry.
LEMMA AttributesOf ==
    ASSUME Inv, InAttributes, NEW s \in Seq(Attributes)
    PROVE  /\ msg.attrs \in Seq(Attributes)
           /\ InUpdate => [msg EXCEPT !.attrs = s] \in Updates
           /\ InEntry => [msg EXCEPT !.attrs = s] \in [attrs : Seq(Attributes)]
<1>1. attr.ret \in {"attributes", "entry", "tableDumpAttributes"}
  BY DEF Inv, IInv, AttributesInside
<1>2. InUpdate \/ InEntry
  BY <1>1 DEF InUpdate, InEntry, Outside
<1>3. CASE InUpdate
  <2>1. msg \in Updates
    BY <1>3, Zenon DEF Inv, Typed, MessageTyped
  <2>2. msg.attrs \in Seq(Attributes) /\ [msg EXCEPT !.attrs = s] \in Updates
    BY ONLY <2>1, s \in Seq(Attributes) DEF Updates
  <2>3. ~InEntry
    BY <1>1, <1>3 DEF InEntry, InUpdate, Outside, InAttributes
  <2> QED BY <2>2, <2>3, Zenon
<1>4. CASE InEntry
  <2>1. msg \in [attrs : Seq(Attributes)]
    BY <1>4, Zenon DEF Inv, Typed, MessageTyped
  <2>2. msg.attrs \in Seq(Attributes) /\ [msg EXCEPT !.attrs = s] \in [attrs : Seq(Attributes)]
    BY ONLY <2>1, s \in Seq(Attributes)
  <2>3. ~InUpdate
    BY <1>1, <1>4 DEF InEntry, InUpdate, Outside, InAttributes
  <2> QED BY <2>2, <2>3, Zenon
<1> QED BY <1>2, <1>3, <1>4, Zenon

\* ParsePathAttribute goes on in place, or returns, with attributes.
LEMMA InAttributesTyped ==
    ASSUME Inv, InAttributes, UNCHANGED <<session, nlri, source, rec>>,
           pc' \in {"attrs", "attr", "aspath", attr.ret}, attr'.ret = attr.ret,
           \/ msg' = msg
           \/ \E s \in Seq(Attributes) : msg' = [msg EXCEPT !.attrs = s],
           pc' = "attr" => attr'.flag \in Byte /\ attr'.code \in Byte,
           pc' = "aspath" => attr' \in [ret : {"attributes"} \cup Outside, segments : Seq(Segments)]
    PROVE  Typed'
<1>1. attr.ret \in {"attributes", "entry", "tableDumpAttributes"}
  BY DEF Inv, IInv, AttributesInside
<1>2. InUpdate \/ InEntry
  BY <1>1 DEF InUpdate, InEntry, Outside
<1>3. (InUpdate => msg' \in Updates) /\ (InEntry => msg' \in [attrs : Seq(Attributes)])
  <2>1. CASE msg' = msg
    BY <2>1, Zenon DEF Inv, Typed, MessageTyped
  <2>2. CASE \E s \in Seq(Attributes) : msg' = [msg EXCEPT !.attrs = s]
    BY <2>2, AttributesOf
  <2> QED BY <2>1, <2>2
<1>4. (InUpdate' => InUpdate) /\ (InEntry' => InEntry) /\ (InMessage' => InMessage)
  BY <1>1 DEF InUpdate, InEntry, Outside, InAttributes, InMessage
<1>5. SliceTyped'
  BY Zenon DEF Inv, Typed, SliceTyped
<1>6. AttributeTyped'
  BY <1>1 DEF AttributeTyped
<1>7. MessageTyped'
  BY <1>1, <1>3, <1>4 DEF MessageTyped
<1>8. RecordTyped'
  BY <1>1, <1>4 DEF Inv, Typed, RecordTyped, InPrefix, Waits, InAttributes
<1>9. ResultTyped'
  BY <1>1 DEF ResultTyped
<1> QED BY <1>5, <1>6, <1>7, <1>8, <1>9, Zenon DEF Typed

\* AppendAttribute adds one to the attributes.
LEMMA AppendAttributeTyped ==
    ASSUME Inv, pc \in {"attr", "aspath", "reach", "unreach"}, NEW a \in Attributes,
           AppendAttribute(a)
    PROVE  Typed'
<1>1. InAttributes /\ pc' = "attrs" /\ UNCHANGED <<session, nlri, source, rec, attr>>
  BY DEF InAttributes, AppendAttribute, caller
<1>2. msg.attrs \in Seq(Attributes) /\ msg' = [msg EXCEPT !.attrs = Append(msg.attrs, a)]
  <2>1. <<>> \in Seq(Attributes)
    OBVIOUS
  <2> QED BY <1>1, <2>1, AttributesOf DEF AppendAttribute
<1>3. Append(msg.attrs, a) \in Seq(Attributes)
  BY ONLY <1>2, a \in Attributes
<1>4. \E s \in Seq(Attributes) : msg' = [msg EXCEPT !.attrs = s]
  BY <1>2, <1>3, Zenon
<1>5. pc' \in {"attrs", "attr", "aspath", attr.ret} /\ attr'.ret = attr.ret
      /\ pc' # "attr" /\ pc' # "aspath"
  BY <1>1
<1> QED BY <1>1, <1>4, <1>5, InAttributesTyped

\* ReturnAttributes leaves them as they are.
LEMMA ReturnAttributesTyped ==
    ASSUME Inv, pc \in {"attrs", "attr", "aspath"}, NEW err \in BOOLEAN, ReturnAttributes(err)
    PROVE  Typed'
<1>1. InAttributes /\ pc' = attr.ret /\ UNCHANGED <<session, nlri, source, rec, attr, msg>>
  BY DEF InAttributes, ReturnAttributes, caller
<1>2. attr.ret \in {"attributes", "entry", "tableDumpAttributes"}
  BY <1>1 DEF Inv, IInv, AttributesInside
<1>3. pc' # "attr" /\ pc' # "aspath" /\ attr'.ret = attr.ret
  BY <1>1, <1>2
<1> QED BY <1>1, <1>3, InAttributesTyped

\* ParseNLRI is called from within an attribute, or from ParseUpdate.
LEMMA CallParseNLRITyped ==
    ASSUME Inv, NEW from, NEW to, NEW afi, NEW path \in BOOLEAN, NEW ret,
           CallParseNLRI(from, to, afi, path, ret),
           ret \in {"withdrawn", "prefixes", "reach", "unreach", "prefix"},
           session'.enc2bytes \in BOOLEAN,
           ret = "reach" => /\ attr'.afi \in Nat /\ attr'.safi \in Byte
                            /\ attr'.nextHop \in Seq(Byte) /\ attr'.addPath \in BOOLEAN,
           ret = "unreach" => attr'.afi \in Nat /\ attr'.safi \in Byte,
           ret \in {"withdrawn", "prefixes"} => msg' \in Updates,
           ret \in {"reach", "unreach"} =>
               /\ attr'.ret \in {"attributes", "entry", "tableDumpAttributes"}
               /\ attr'.ret = "attributes" => msg' \in Updates
               /\ attr'.ret \in Outside => msg' \in [attrs : Seq(Attributes)],
           ret = "prefix" => source' = "mrt" /\ rec' \in RibHeads,
           ret \in {"withdrawn", "prefixes"} \/ (ret \in {"reach", "unreach"} /\ attr'.ret = "attributes") =>
               (source' = "mrt" => rec' \in MessageRecords),
           ret \in {"reach", "unreach"} /\ attr'.ret = "entry" => source' = "mrt" /\ OpenRib(rec)',
           ret \in {"reach", "unreach"} /\ attr'.ret = "tableDumpAttributes" =>
               source' = "mrt" /\ rec'.type = "TABLE_DUMP" /\ "attrs" \in DOMAIN rec'
    PROVE  Typed'
<1>1. /\ nlri' = [size |-> IF afi = AFI_IPV6 THEN 16 ELSE 4, path |-> path, list |-> <<>>, ret |-> ret]
      /\ pc' \in {"nlri", ret}
  BY DEF CallParseNLRI
<1>2. nlri' \in NLRIs /\ nlri'.ret = ret
  <2>1. <<>> \in Seq(Routes)
    OBVIOUS
  <2> QED BY <1>1, <2>1 DEF NLRIs
<1>3. SliceTyped'
  BY <1>2, Zenon DEF SliceTyped
<1>4. AttributeTyped'
  BY <1>1, <1>2 DEF AttributeTyped
<1>5. MessageTyped'
  BY <1>1, <1>2 DEF MessageTyped, InUpdate, InEntry, InAttributes, Outside
<1>6. RecordTyped'
  BY <1>1, <1>2 DEF RecordTyped, InUpdate, InAttributes, InMessage, InPrefix, Waits
<1>7. ResultTyped'
  BY <1>1 DEF ResultTyped
<1> QED BY <1>3, <1>4, <1>5, <1>6, <1>7, Zenon DEF Typed

\* From within an attribute.
LEMMA CallFromAttributeTyped ==
    ASSUME Inv, pc = "attr", NEW from, NEW to, NEW afi, NEW path \in BOOLEAN,
           NEW ret \in {"reach", "unreach"}, CallParseNLRI(from, to, afi, path, ret),
           UNCHANGED <<session, msg, source, rec>>, attr'.ret = attr.ret,
           attr'.afi \in Nat, attr'.safi \in Byte,
           ret = "reach" => attr'.nextHop \in Seq(Byte) /\ attr'.addPath \in BOOLEAN
    PROVE  Typed'
<1>1. attr.ret \in {"attributes", "entry", "tableDumpAttributes"} /\ InAttributes
  BY DEF Inv, IInv, AttributesInside, InAttributes
<1>2. session'.enc2bytes \in BOOLEAN
  BY DEF Inv, Typed, SliceTyped
<1>3. /\ attr.ret = "attributes" => msg \in Updates
      /\ attr.ret \in Outside => msg \in [attrs : Seq(Attributes)]
  BY <1>1, Zenon DEF Inv, Typed, MessageTyped, InUpdate, InEntry
<1>4. /\ attr.ret = "attributes" => (source = "mrt" => rec \in MessageRecords)
      /\ attr.ret = "entry" => source = "mrt" /\ OpenRib(rec)
      /\ attr.ret = "tableDumpAttributes" =>
             source = "mrt" /\ rec.type = "TABLE_DUMP" /\ "attrs" \in DOMAIN rec
  BY <1>1, Zenon DEF Inv, Typed, RecordTyped, InUpdate, InMessage, Waits
<1>5. OpenRib(rec)' = OpenRib(rec)
  BY DEF OpenRib
<1>6. /\ attr'.ret \in {"attributes", "entry", "tableDumpAttributes"}
      /\ attr'.ret = "attributes" => msg' \in Updates
      /\ attr'.ret \in Outside => msg' \in [attrs : Seq(Attributes)]
      /\ attr'.ret = "attributes" => (source' = "mrt" => rec' \in MessageRecords)
      /\ attr'.ret = "entry" => source' = "mrt" /\ OpenRib(rec)'
      /\ attr'.ret = "tableDumpAttributes" =>
             source' = "mrt" /\ rec'.type = "TABLE_DUMP" /\ "attrs" \in DOMAIN rec'
  BY <1>1, <1>3, <1>4, <1>5, Zenon
<1>7. ret # "withdrawn" /\ ret # "prefixes" /\ ret # "prefix"
  OBVIOUS
<1> QED BY <1>2, <1>6, <1>7, CallParseNLRITyped

-----------------------------------------------------------------------------
(* Attributes.                                                             *)

\* What the invariant gives within an attribute.
LEMMA InAttributeFacts ==
    ASSUME Inv, pc \in {"attr", "aspath", "reach", "unreach"}
    PROVE  /\ b \in Seq(Byte) /\ i \in Nat /\ attrEnd \in Nat /\ i <= attrEnd /\ Data \in Nat
           /\ session.enc2bytes \in BOOLEAN /\ attr.ret \in {"attributes"} \cup Outside
           /\ nlri.list \in Seq(Routes)
<1>1. Readable /\ i <= attrEnd /\ attr.ret \in {"attributes", "entry", "tableDumpAttributes"}
  BY InAttribute DEF Inv
<1>2. b \in Seq(Byte)
  BY Zenon DEF Inv, IInv, TypeOK
<1>3. i \in Nat /\ attrEnd \in Nat /\ Data \in Nat
  BY <1>1 DEF Readable, Data
<1>4. session.enc2bytes \in BOOLEAN /\ nlri.list \in Seq(Routes)
  BY DEF Inv, Typed, SliceTyped, NLRIs
<1> QED BY <1>1, <1>2, <1>3, <1>4 DEF Outside

\* Bytes at a position or after it.
LEMMA BytesAfter ==
    ASSUME b \in Seq(Byte), i \in Nat, NEW k \in Nat, NEW n \in Nat
    PROVE  At(i + k) \in Byte /\ Bytes(i + k, n) \in Bs(n)
<1>1. i + k \in Int
  OBVIOUS
<1> QED BY <1>1, AtByte, BytesType

\* Bytes at the position.
LEMMA BytesHere ==
    ASSUME b \in Seq(Byte), i \in Nat, NEW n \in Nat
    PROVE  At(i) \in Byte /\ Bytes(i, n) \in Bs(n)
<1>1. i \in Int
  OBVIOUS
<1> QED BY <1>1, AtByte, BytesType

\* ORIGIN.
LEMMA OriginTyped == ASSUME Inv, ParseOrigin PROVE Typed'
<1>1. pc = "attr" /\ \/ ReturnAttributes(TRUE)
                     \/ AppendAttribute([code |-> ORIGIN, origin |-> At(i)])
                     \/ ~(i + 1 <= attrEnd) /\ Data # 0
  BY Zenon DEF ParseOrigin, Case, Reading
<1>2. ~(~(i + 1 <= attrEnd) /\ Data # 0)
  BY <1>1, InAttributeFacts DEF Data
<1>3. [code |-> ORIGIN, origin |-> At(i)] \in Attributes
  <2>1. At(i) \in Byte
    BY <1>1, InAttributeFacts, BytesHere
  <2> QED BY <2>1 DEF Attributes, Origins
<1> QED BY <1>1, <1>2, <1>3, AppendAttributeTyped, ReturnAttributesTyped

\* MULTI_EXIT_DISC and LOCAL_PREF.
LEMMA MedLocPrefTyped == ASSUME Inv, ParseMedLocPref PROVE Typed'
<1>1. pc = "attr" /\ attr.code \in {MED, LOCPREF}
      /\ \/ ReturnAttributes(TRUE)
         \/ AppendAttribute([code |-> attr.code, value |-> Bytes(i, 4)])
         \/ ~(i + 4 <= attrEnd) /\ ~(Data < 4)
  BY Zenon DEF ParseMedLocPref, Case, Reading
<1>2. ~(~(i + 4 <= attrEnd) /\ ~(Data < 4))
  BY <1>1, InAttributeFacts DEF Data
<1>3. [code |-> attr.code, value |-> Bytes(i, 4)] \in Attributes
  <2>1. Bytes(i, 4) \in Bs(4)
    BY <1>1, InAttributeFacts, BytesHere
  <2> QED BY <1>1, <2>1 DEF Attributes, Numbers
<1> QED BY <1>1, <1>2, <1>3, AppendAttributeTyped, ReturnAttributesTyped

\* A number of 2 bytes among those of 4.
LEMMA Widened ==
    ASSUME NEW x \in Bs(2)
    PROVE  Zeros(2) \o x \in Bs(4)
<1>1. Zeros(2) \in Seq(Byte) /\ Len(Zeros(2)) = 2 /\ x \in Seq(Byte) /\ Len(x) = 2
  BY ZerosType DEF Bs
<1>2. Zeros(2) \o x \in Seq(Byte) /\ Len(Zeros(2) \o x) = 2 + 2
  BY <1>1, Appended, Zenon
<1> QED BY <1>2 DEF Bs

\* AGGREGATOR, whose Identifier is missing when its size is wrong.
LEMMA AggregatorTyped == ASSUME Inv, ParseAggregator PROVE Typed'
<1> DEFINE A(asn, id) == [code |-> AGGREGATOR, asn |-> asn, id |-> id, enc2bytes |-> session.enc2bytes]
<1>1. pc = "attr" /\ \/ AppendAttribute(A(Bytes(i, 4), Bytes(i + 4, 4)))
                     \/ AppendAttribute(A(Zeros(2) \o Bytes(i, 2), Bytes(i + 2, 4)))
                     \/ AppendAttribute(A(Zeros(4), <<>>))
                     \/ Data = 8 /\ ~(i + 8 <= attrEnd)
                     \/ Data = 6 /\ ~(i + 6 <= attrEnd)
  BY Zenon DEF ParseAggregator, Case, Reading
<1>2. ~(Data = 8 /\ ~(i + 8 <= attrEnd)) /\ ~(Data = 6 /\ ~(i + 6 <= attrEnd))
  BY <1>1, InAttributeFacts DEF Data
<1>3. ASSUME NEW asn \in Bs(4), NEW id \in Bs(4) \cup {<<>>} PROVE A(asn, id) \in Attributes
  <2>1. session.enc2bytes \in BOOLEAN
    BY <1>1, InAttributeFacts
  <2> QED BY <2>1 DEF Attributes, Aggregators
<1>4. Bytes(i, 4) \in Bs(4) /\ Bytes(i + 4, 4) \in Bs(4) /\ Bytes(i + 2, 4) \in Bs(4)
      /\ Zeros(2) \o Bytes(i, 2) \in Bs(4) /\ Zeros(4) \in Bs(4)
  <2>1. b \in Seq(Byte) /\ i \in Nat
    BY <1>1, InAttributeFacts, Zenon
  <2> QED BY <2>1, BytesHere, BytesAfter, Widened, ZerosType
<1> HIDE DEF A
<1>5. /\ A(Bytes(i, 4), Bytes(i + 4, 4)) \in Attributes
      /\ A(Zeros(2) \o Bytes(i, 2), Bytes(i + 2, 4)) \in Attributes
      /\ A(Zeros(4), <<>>) \in Attributes
  BY <1>3, <1>4, Zenon
<1> QED BY <1>1, <1>2, <1>5, AppendAttributeTyped, Zenon

\* ATOMIC_AGGREGATE.
LEMMA AtomicAggregateTyped == ASSUME Inv, ParseAtomicAggregate PROVE Typed'
<1>1. [code |-> ATOMIC_AGGREGATE] \in Attributes
  BY DEF Attributes, Atomics
<1> QED BY <1>1, AppendAttributeTyped DEF ParseAtomicAggregate, Case

\* NEXT_HOP, whose error drops the attributes.
LEMMA NextHopTyped == ASSUME Inv, ParseNextHop PROVE Typed'
<1>1. pc = "attr" /\ \/ AppendAttribute([code |-> NEXTHOP, nextHop |-> Bytes(i, 4)])
                     \/ ~(i + 4 <= attrEnd) /\ ~(Data < 4)
                     \/ /\ pc' = attr.ret /\ msg' = [msg EXCEPT !.attrs = <<>>]
                        /\ UNCHANGED <<session, nlri, attr, caller>>
  BY Zenon DEF ParseNextHop, Case, Reading
<1>2. ~(~(i + 4 <= attrEnd) /\ ~(Data < 4))
  BY <1>1, InAttributeFacts DEF Data
<1>3. [code |-> NEXTHOP, nextHop |-> Bytes(i, 4)] \in Attributes
  <2>1. Bytes(i, 4) \in Bs(4)
    BY <1>1, InAttributeFacts, BytesHere
  <2> QED BY <2>1 DEF Attributes, NextHops
<1>4. CASE /\ pc' = attr.ret /\ msg' = [msg EXCEPT !.attrs = <<>>]
           /\ UNCHANGED <<session, nlri, attr, caller>>
  <2>1. InAttributes /\ UNCHANGED <<session, nlri, source, rec, attr>>
    BY <1>1, <1>4 DEF InAttributes, caller
  <2>2. attr.ret \in {"attributes"} \cup Outside
    BY <1>1, InAttributeFacts, Zenon
  <2>3. pc' # "attr" /\ pc' # "aspath" /\ attr'.ret = attr.ret
    BY <1>4, <2>1, <2>2 DEF Outside
  <2>4. <<>> \in Seq(Attributes)
    OBVIOUS
  <2>5. \E s \in Seq(Attributes) : msg' = [msg EXCEPT !.attrs = s]
    BY <1>4, <2>4, Zenon
  <2> QED BY <1>4, <2>1, <2>3, <2>5, InAttributesTyped
<1> QED BY <1>1, <1>2, <1>3, <1>4, AppendAttributeTyped

\* COMMUNITIES and LARGE_COMMUNITIES.
LEMMA CommunitiesTyped == ASSUME Inv, ParseCommunities PROVE Typed'
<1> DEFINE size == IF attr.code = COMMUNITIES THEN 4 ELSE 12
           n    == Data \div size
           list == [k \in 1 .. n |-> Bytes(i + size * (k - 1), size)]
<1>1. /\ pc = "attr" /\ attr.code \in {COMMUNITIES, LARGECOMMUNITIES}
      /\ \/ AppendAttribute([code |-> attr.code, list |-> list])
         \/ pc' = "panic"
  BY Zenon DEF ParseCommunities, Case, Reading
<1>2. pc' # "panic"
  BY ParseCommunitiesStep DEF Inv, IInv, NoPanic
<1>3. size \in {4, 12} /\ n \in Nat
  <2>1. size \in {4, 12} /\ Data \in Nat
    BY <1>1, InAttributeFacts
  <2> HIDE DEF size
  <2> QED BY <2>1
<1>4. list \in Seq(Bs(size))
  <2> HIDE DEF n, size
  <2>1. \A k \in 1 .. n : Bytes(i + size * (k - 1), size) \in Bs(size)
    <3> TAKE k \in 1 .. n
    <3>1. size * (k - 1) \in Nat /\ size \in Nat
      BY <1>3
    <3> QED BY <1>1, <3>1, InAttributeFacts, BytesAfter
  <2>2. list \in [1 .. n -> Bs(size)]
    BY <2>1, Zenon
  <2> HIDE DEF list
  <2> QED BY <1>3, <2>2
<1>5. [code |-> attr.code, list |-> list] \in Attributes
  <2> HIDE DEF list
  <2>1. CASE attr.code = COMMUNITIES
    BY <1>4, <2>1 DEF Attributes, CommunityLists
  <2>2. CASE attr.code = LARGECOMMUNITIES
    <3>1. attr.code # COMMUNITIES
      BY <2>2 DEF COMMUNITIES, LARGECOMMUNITIES
    <3> QED BY <1>4, <2>2, <3>1 DEF Attributes, LargeLists
  <2> QED BY <1>1, <2>1, <2>2
<1> QED BY <1>1, <1>2, <1>5, AppendAttributeTyped

\* An attribute without a decoder.
LEMMA UnknownTyped == ASSUME Inv, ParseUnknown PROVE Typed'
<1>1. pc = "attr" /\ AppendAttribute([code |-> attr.code, flag |-> attr.flag, data |-> Bytes(i, Data)])
      /\ attr.code \notin Decoded
  BY DEF ParseUnknown
<1>2. attr.code \in Byte \ Decoded /\ attr.flag \in Byte
  BY <1>1 DEF Inv, Typed, AttributeTyped
<1>3. Bytes(i, Data) \in Seq(Byte)
  <2>1. Bytes(i, Data) \in Bs(Data)
    BY <1>1, InAttributeFacts, BytesHere
  <2> QED BY <2>1 DEF Bs
<1>4. [code |-> attr.code, flag |-> attr.flag, data |-> Bytes(i, Data)] \in Attributes
  BY <1>2, <1>3 DEF Attributes, Unknowns
<1> QED BY <1>1, <1>4, AppendAttributeTyped

\* AS_PATH begins.
LEMMA ASPathTyped == ASSUME Inv, ParseASPath PROVE Typed'
<1>1. /\ pc = "attr" /\ pc' = "aspath" /\ attr' = [ret |-> attr.ret, segments |-> <<>>]
      /\ UNCHANGED <<session, nlri, source, rec, msg>>
  BY DEF ParseASPath, Case, caller
<1>2. InAttributes /\ attr.ret \in {"attributes"} \cup Outside
  BY <1>1, InAttributeFacts DEF InAttributes
<1>3. attr' \in [ret : {"attributes"} \cup Outside, segments : Seq(Segments)]
  <2>1. <<>> \in Seq(Segments)
    OBVIOUS
  <2> QED BY <1>1, <1>2, <2>1
<1>4. attr'.ret = attr.ret /\ pc' # "attr"
  BY <1>1
<1> QED BY <1>1, <1>2, <1>3, <1>4, InAttributesTyped

\* A segment of it, with all the AS numbers it announces.
LEMMA ASPathSegmentTyped == ASSUME Inv, ParseASPathSegment PROVE Typed'
<1> DEFINE width == Width(session.enc2bytes)
           room  == (attrEnd - (i + 2)) \div width
           n     == IF At(i + 1) < room THEN At(i + 1) ELSE room
           path  == [k \in 1 .. At(i + 1) |->
                        IF k > n THEN Zeros(4)
                        ELSE Zeros(4 - width) \o Bytes(i + 2 + width * (k - 1), width)]
           segment == [stype |-> At(i), path |-> path]
           whole == [code |-> ASPATH, segments |-> attr.segments, enc2bytes |-> session.enc2bytes]
<1>1. /\ pc = "aspath"
      /\ \/ AppendAttribute(whole)
         \/ /\ attr' = [attr EXCEPT !.segments = Append(@, segment)]
            /\ UNCHANGED <<session, pc, nlri, msg, caller>>
         \/ pc' = "panic"
  BY Zenon DEF ParseASPathSegment, Reading
<1>2. pc' # "panic"
  BY ParseASPathSegmentStep DEF Inv, IInv, NoPanic
<1>3. /\ attr \in [ret : {"attributes"} \cup Outside, segments : Seq(Segments)]
      /\ session.enc2bytes \in BOOLEAN /\ b \in Seq(Byte) /\ i \in Nat
  BY <1>1, InAttributeFacts DEF Inv, Typed, AttributeTyped
<1>4. CASE AppendAttribute(whole)
  <2>1. attr.segments \in Seq(Segments)
    BY <1>3
  <2>2. whole \in Attributes
    BY <1>3, <2>1 DEF Attributes, Paths
  <2> QED BY <1>1, <1>4, <2>2, AppendAttributeTyped
<1>5. CASE /\ attr' = [attr EXCEPT !.segments = Append(@, segment)]
           /\ UNCHANGED <<session, pc, nlri, msg, caller>>
  <2>1. width \in {2, 4}
    BY DEF Width
  <2>2. \A k \in Nat : Zeros(4 - width) \o Bytes(i + 2 + width * (k - 1), width) \in Bs(4)
    <3> HIDE DEF width
    <3> TAKE k \in Nat
    <3>1. i + 2 + width * (k - 1) \in Int
      BY <1>3, <2>1
    <3>2. Bytes(i + 2 + width * (k - 1), width) \in Bs(width)
      BY <1>3, <2>1, <3>1, BytesType
    <3>3. CASE width = 2
      BY <3>2, <3>3, Widened
    <3>4. CASE width = 4
      <4> DEFINE x == Bytes(i + 2 + width * (k - 1), width)
      <4>1. x \in Seq(Byte) /\ Len(x) = 4
        BY <3>2, <3>4 DEF Bs
      <4> HIDE DEF x
      <4>2. Zeros(4 - width) = <<>>
        BY <3>4 DEF Zeros
      <4>3. <<>> \o x = x
        BY ONLY <4>1
      <4>4. Zeros(4 - width) \o x = x
        BY <4>2, <4>3, Zenon
      <4> QED BY <4>1, <4>4 DEF x, Bs
    <3> QED BY <2>1, <3>3, <3>4
  <2>3. segment \in Segments
    <3>1. At(i) \in Byte /\ At(i + 1) \in Byte /\ Zeros(4) \in Bs(4)
      BY <1>3, BytesHere, BytesAfter, ZerosType
    <3>2. At(i + 1) \in Nat
      BY <3>1 DEF Byte
    <3>3. \A k \in 1 .. At(i + 1) :
             (IF k > n THEN Zeros(4)
              ELSE Zeros(4 - width) \o Bytes(i + 2 + width * (k - 1), width)) \in Bs(4)
      <4> HIDE DEF n, width
      <4> TAKE k \in 1 .. At(i + 1)
      <4>1. k \in Nat
        OBVIOUS
      <4>2. Zeros(4 - width) \o Bytes(i + 2 + width * (k - 1), width) \in Bs(4)
        BY <4>1, <2>2, Zenon
      <4> QED BY <3>1, <4>2, Zenon
    <3>4. path \in [1 .. At(i + 1) -> Bs(4)]
      BY <3>3, Zenon
    <3> HIDE DEF path
    <3>5. path \in Seq(Bs(4))
      BY <3>2, <3>4
    <3> QED BY <3>1, <3>5 DEF Segments
  <2> HIDE DEF segment
  <2>4. attr' \in [ret : {"attributes"} \cup Outside, segments : Seq(Segments)] /\ attr'.ret = attr.ret
    <3>1. attr.segments \in Seq(Segments)
      BY <1>3
    <3>2. Append(attr.segments, segment) \in Seq(Segments)
      BY <2>3, <3>1
    <3> QED BY <1>3, <1>5, <3>2
  <2>5. InAttributes /\ UNCHANGED <<session, nlri, source, rec, msg>> /\ pc' # "attr"
    BY <1>1, <1>5 DEF InAttributes, caller
  <2>6. pc' = "aspath"
    BY <1>1, <1>5
  <2> QED BY <2>4, <2>5, <2>6, InAttributesTyped
<1> QED BY <1>1, <1>2, <1>4, <1>5

\* The header of an attribute.
LEMMA AttributeHeaderTyped == ASSUME Inv, ParseAttributeHeader PROVE Typed'
<1>1. /\ pc = "attrs"
      /\ \/ \E err \in {FALSE, TRUE} : ReturnAttributes(err)
         \/ pc' = "panic"
         \/ /\ attr' = [ret |-> attr.ret, flag |-> At(i), code |-> At(i + 1)] /\ pc' = "attr"
            /\ UNCHANGED <<session, nlri, msg, caller>>
  BY Zenon DEF ParseAttributeHeader, EnterAttribute, Reading
<1>2. pc' # "panic"
  BY ParseAttributeHeaderStep DEF Inv, IInv, NoPanic
<1>3. CASE /\ attr' = [ret |-> attr.ret, flag |-> At(i), code |-> At(i + 1)] /\ pc' = "attr"
           /\ UNCHANGED <<session, nlri, msg, caller>>
  <2>1. b \in Seq(Byte) /\ i \in Nat
    <3>1. Readable
      BY Facts DEF Inv
    <3>2. b \in Seq(Byte)
      BY Zenon DEF Inv, IInv, TypeOK
    <3> QED BY <3>1, <3>2, Zenon DEF Readable
  <2>2. At(i) \in Byte /\ At(i + 1) \in Byte
    BY <2>1, BytesHere, BytesAfter
  <2>3. attr'.ret = attr.ret /\ attr'.flag \in Byte /\ attr'.code \in Byte
    BY <1>3, <2>2
  <2>4. InAttributes /\ UNCHANGED <<session, nlri, source, rec, msg>>
    BY <1>1, <1>3 DEF InAttributes, caller
  <2> QED BY <1>3, <2>3, <2>4, InAttributesTyped
<1> QED BY <1>1, <1>2, <1>3, ReturnAttributesTyped

\* The AFI of an attribute.
LEMMA AfiType == ASSUME b \in Seq(Byte), i \in Nat PROVE Uint16(i) \in Nat
<1>1. At(i) \in Nat /\ At(i + 1) \in Nat
  <2>1. At(i) \in Byte /\ At(i + 1) \in Byte
    BY BytesHere, BytesAfter
  <2> QED BY ONLY <2>1 DEF Byte
<1> QED BY ONLY <1>1 DEF Uint16

\* MP_REACH, up to its prefixes.
LEMMA ReachTyped == ASSUME Inv, ParseReach PROVE Typed'
<1> DEFINE nh   == At(i + 3)
           path == InAfiSafi(Uint16(i), At(i + 2))
<1>1. /\ pc = "attr"
      /\ \/ ReturnAttributes(TRUE)
         \/ /\ attr' = [ret |-> attr.ret, afi |-> Uint16(i), safi |-> At(i + 2),
                        nextHop |-> Bytes(i + 4, nh), addPath |-> path]
            /\ CallParseNLRI(i + 5 + nh, attrEnd, Uint16(i), path, "reach")
            /\ UNCHANGED <<b, session, attrsEnd, attrEnd, msg, caller>>
         \/ pc' = "panic"
  BY Zenon DEF ParseReach, Case, Reading
<1>2. pc' # "panic"
  BY ParseReachStep DEF Inv, IInv, NoPanic
<1>3. CASE /\ attr' = [ret |-> attr.ret, afi |-> Uint16(i), safi |-> At(i + 2),
                       nextHop |-> Bytes(i + 4, nh), addPath |-> path]
           /\ CallParseNLRI(i + 5 + nh, attrEnd, Uint16(i), path, "reach")
           /\ UNCHANGED <<b, session, attrsEnd, attrEnd, msg, caller>>
  <2>1. b \in Seq(Byte) /\ i \in Nat
    BY <1>1, InAttributeFacts, Zenon
  <2>2. Uint16(i) \in Nat /\ At(i + 2) \in Byte /\ nh \in Byte
    BY <2>1, AfiType, BytesAfter
  <2>3. path \in BOOLEAN
    BY DEF InAfiSafi
  <2>4. Bytes(i + 4, nh) \in Seq(Byte)
    <3>1. nh \in Nat
      BY <2>2 DEF Byte
    <3> HIDE DEF nh
    <3>2. Bytes(i + 4, nh) \in Bs(nh)
      BY <2>1, <3>1, BytesAfter
    <3> QED BY <3>2 DEF Bs
  <2> HIDE DEF nh, path
  <2>5. /\ attr'.ret = attr.ret /\ attr'.afi \in Nat /\ attr'.safi \in Byte
        /\ attr'.nextHop \in Seq(Byte) /\ attr'.addPath \in BOOLEAN
    BY <1>3, <2>2, <2>3, <2>4
  <2>6. UNCHANGED <<session, msg, source, rec>>
    BY <1>3 DEF caller
  <2> QED BY <1>1, <1>3, <2>3, <2>5, <2>6, CallFromAttributeTyped
<1> QED BY <1>1, <1>2, <1>3, ReturnAttributesTyped

\* MP_UNREACH, up to its prefixes.
LEMMA UnreachTyped == ASSUME Inv, ParseUnreach PROVE Typed'
<1> DEFINE path == InAfiSafi(Uint16(i), At(i + 2))
<1>1. /\ pc = "attr"
      /\ \/ ReturnAttributes(TRUE)
         \/ /\ attr' = [ret |-> attr.ret, afi |-> Uint16(i), safi |-> At(i + 2)]
            /\ CallParseNLRI(i + 3, attrEnd, Uint16(i), path, "unreach")
            /\ UNCHANGED <<b, session, attrsEnd, attrEnd, msg, caller>>
         \/ pc' = "panic"
  BY Zenon DEF ParseUnreach, Case, Reading
<1>2. pc' # "panic"
  BY ParseUnreachStep DEF Inv, IInv, NoPanic
<1>3. CASE /\ attr' = [ret |-> attr.ret, afi |-> Uint16(i), safi |-> At(i + 2)]
           /\ CallParseNLRI(i + 3, attrEnd, Uint16(i), path, "unreach")
           /\ UNCHANGED <<b, session, attrsEnd, attrEnd, msg, caller>>
  <2>1. b \in Seq(Byte) /\ i \in Nat
    BY <1>1, InAttributeFacts, Zenon
  <2>2. Uint16(i) \in Nat /\ At(i + 2) \in Byte
    BY <2>1, AfiType, BytesAfter
  <2>3. path \in BOOLEAN
    BY DEF InAfiSafi
  <2> HIDE DEF path
  <2>5. attr'.ret = attr.ret /\ attr'.afi \in Nat /\ attr'.safi \in Byte
    BY <1>3, <2>2
  <2>6. UNCHANGED <<session, msg, source, rec>>
    BY <1>3 DEF caller
  <2> QED BY <1>1, <1>3, <2>3, <2>5, <2>6, CallFromAttributeTyped
<1> QED BY <1>1, <1>2, <1>3, ReturnAttributesTyped

\* Both, with their prefixes.
LEMMA PrefixesParsedTyped == ASSUME Inv, ReachParsed \/ UnreachParsed PROVE Typed'
<1>1. CASE ReachParsed
  <2> DEFINE a == [code |-> REACH, afi |-> attr.afi, safi |-> attr.safi,
                   nextHop |-> attr.nextHop, nlri |-> nlri.list, addPath |-> attr.addPath]
  <2>1. pc = "reach" /\ AppendAttribute(a)
    BY <1>1 DEF ReachParsed
  <2>2. /\ attr.afi \in Nat /\ attr.safi \in Byte /\ attr.nextHop \in Seq(Byte)
        /\ attr.addPath \in BOOLEAN /\ nlri.list \in Seq(Routes)
    BY <2>1, InAttributeFacts DEF Inv, Typed, AttributeTyped
  <2>3. a \in Attributes
    BY <2>2 DEF Attributes, Reaches
  <2> QED BY <2>1, <2>3, AppendAttributeTyped
<1>2. CASE UnreachParsed
  <2> DEFINE a == [code |-> UNREACH, afi |-> attr.afi, safi |-> attr.safi,
                   nlri |-> nlri.list, addPath |-> FALSE]
  <2>1. pc = "unreach" /\ AppendAttribute(a)
    BY <1>2 DEF UnreachParsed
  <2>2. attr.afi \in Nat /\ attr.safi \in Byte /\ nlri.list \in Seq(Routes)
    BY <2>1, InAttributeFacts DEF Inv, Typed, AttributeTyped
  <2>3. a \in Attributes
    BY <2>2 DEF Attributes, Unreaches
  <2> QED BY <2>1, <2>3, AppendAttributeTyped
<1> QED BY <1>1, <1>2

-----------------------------------------------------------------------------
(* Prefixes and UPDATE.                                                    *)

\* A round of ParseNLRI: a prefix is only made of a length that fits its family.
LEMMA NLRITyped == ASSUME Inv, ParseNLRI PROVE Typed'
<1> DEFINE k     == IF nlri.path THEN i + 4 ELSE i
           size  == (At(k) + 7) \div 8
<1>1. /\ pc = "nlri" /\ nlri \in NLRIs /\ nlri.list \in Seq(Routes) /\ b \in Seq(Byte) /\ i \in Nat
  <2>1. pc = "nlri" /\ nlri \in NLRIs /\ b \in Seq(Byte) /\ Readable
    BY Facts, Zenon DEF Inv, IInv, TypeOK, Typed, SliceTyped, ParseNLRI
  <2> QED BY <2>1 DEF NLRIs, Readable
<1>2. pc' # "panic"
  BY ParseNLRIStep DEF Inv, IInv, NoPanic
<1>3. \/ \E list \in {nlri.list, <<>>}, err \in {FALSE, TRUE} : ReturnNLRI(list, err)
      \/ pc' = "panic"
      \/ /\ ~(At(k) > 8 * nlri.size)
         /\ nlri' = [nlri EXCEPT !.list = Append(@, Prefix(k + 1, At(k)))]
         /\ UNCHANGED <<session, pc, attr, msg, caller>>
  BY Zenon DEF ParseNLRI, ParsePrefix, Reading
<1>4. CASE \E list \in {nlri.list, <<>>}, err \in {FALSE, TRUE} : ReturnNLRI(list, err)
  <2>1. <<>> \in Seq(Routes)
    OBVIOUS
  <2> QED BY <1>1, <1>4, <2>1, ReturnNLRITyped
<1>5. CASE /\ ~(At(k) > 8 * nlri.size)
           /\ nlri' = [nlri EXCEPT !.list = Append(@, Prefix(k + 1, At(k)))]
           /\ UNCHANGED <<session, pc, attr, msg, caller>>
  <2>1. k \in Int /\ k + 1 \in Nat
    BY <1>1
  <2>2. At(k) \in Nat /\ At(k) <= 8 * nlri.size
    <3> HIDE DEF k
    <3>1. At(k) \in Nat
      BY <1>1, <2>1, AtType, Zenon
    <3>2. nlri.size \in {4, 16}
      BY <1>1 DEF NLRIs
    <3> QED BY <1>5, <3>1, <3>2
  <2> HIDE DEF k
  <2>3. Prefix(k + 1, At(k)) \in Routes
    BY <1>1, <2>1, <2>2, PrefixType
  <2>4. nlri' \in NLRIs /\ nlri'.ret = nlri.ret
    <3>1. Append(nlri.list, Prefix(k + 1, At(k))) \in Seq(Routes)
      BY <1>1, <2>3
    <3> QED BY <1>1, <1>5, <3>1 DEF NLRIs
  <2>5. UNCHANGED <<session, pc, attr, msg, source, rec>>
    BY <1>5 DEF caller
  <2>6. SliceTyped'
    BY <2>4, <2>5, Zenon DEF Inv, Typed, SliceTyped
  <2>7. AttributeTyped'
    BY <2>4, <2>5, Zenon DEF Inv, Typed, AttributeTyped
  <2>8. /\ InUpdate' = InUpdate /\ InEntry' = InEntry /\ InMessage' = InMessage
        /\ InPrefix' = InPrefix /\ InAttributes' = InAttributes
    BY <2>4, <2>5, Zenon DEF InUpdate, InEntry, InMessage, InAttributes, InPrefix, Outside
  <2>9. MessageTyped'
    BY <2>5, <2>8, Zenon DEF Inv, Typed, MessageTyped
  <2>10. RecordTyped'
    BY <2>5, <2>8, Zenon DEF Inv, Typed, RecordTyped, Waits, OpenRib
  <2>11. ResultTyped'
    BY <2>5, Zenon DEF Inv, Typed, ResultTyped
  <2> QED BY <2>6, <2>7, <2>9, <2>10, <2>11, Zenon DEF Typed
<1> QED BY <1>2, <1>3, <1>4, <1>5, Zenon

\* An UPDATE begins.
LEMMA UpdateTyped == ASSUME Inv, ParseUpdate PROVE Typed'
<1> DEFINE path == InAfiSafi(AFI_IPV4, SAFI_UNICAST)
           m == [type |-> "UPDATE", withdrawn |-> <<>>, attrs |-> <<>>, nlri |-> <<>>, addPath |-> path]
<1>1. /\ pc = "update"
      /\ \/ Fail
         \/ pc' = "panic"
         \/ /\ msg' = m /\ CallParseNLRI(2, 2 + Uint16(0), AFI_IPV4, path, "withdrawn")
            /\ UNCHANGED <<session, caller>>
  BY Zenon DEF ParseUpdate, Reading
<1>2. pc' # "panic"
  BY ParseUpdateStep DEF Inv, IInv, NoPanic
<1>3. CASE /\ msg' = m /\ CallParseNLRI(2, 2 + Uint16(0), AFI_IPV4, path, "withdrawn")
           /\ UNCHANGED <<session, caller>>
  <2>1. path \in BOOLEAN
    BY DEF InAfiSafi
  <2>2. m \in Updates
    <3>1. <<>> \in Seq(Routes) /\ <<>> \in Seq(Attributes)
      OBVIOUS
    <3> QED BY <2>1, <3>1 DEF Updates
  <2>3. session'.enc2bytes \in BOOLEAN /\ (source = "mrt" => rec \in MessageRecords)
    BY <1>1, <1>3 DEF Inv, Typed, SliceTyped, RecordTyped, InMessage
  <2>4. UNCHANGED <<source, rec>>
    BY <1>3 DEF caller
  <2> HIDE DEF path, m
  <2> QED BY <1>3, <2>1, <2>2, <2>3, <2>4, CallParseNLRITyped
<1> QED BY <1>1, <1>2, <1>3, FailTyped

\* Its withdrawn routes become part of it.
LEMMA WithdrawnTyped == ASSUME Inv, WithdrawnParsed PROVE Typed'
<1>1. /\ pc = "withdrawn"
      /\ \/ Fail
         \/ pc' = "panic"
         \/ /\ msg' = [msg EXCEPT !.withdrawn = nlri.list]
            /\ attr' = [ret |-> "attributes"] /\ pc' = "attrs"
            /\ UNCHANGED <<session, nlri, caller>>
  BY Zenon DEF WithdrawnParsed, Reading, CallParsePathAttribute
<1>2. pc' # "panic"
  BY WithdrawnParsedStep DEF Inv, IInv, NoPanic
<1>3. CASE /\ msg' = [msg EXCEPT !.withdrawn = nlri.list]
           /\ attr' = [ret |-> "attributes"] /\ pc' = "attrs"
           /\ UNCHANGED <<session, nlri, caller>>
  <2>1. msg \in Updates /\ nlri \in NLRIs
    BY <1>1, Zenon DEF Inv, Typed, MessageTyped, SliceTyped, InUpdate
  <2>2. nlri.list \in Seq(Routes)
    BY <2>1 DEF NLRIs
  <2>3. msg' \in Updates
    BY <1>3, <2>1, <2>2 DEF Updates
  <2>4. attr'.ret = "attributes" /\ UNCHANGED <<source, rec>>
    BY <1>3 DEF caller
  <2>5. source = "mrt" => rec \in MessageRecords
    BY <1>1, Zenon DEF Inv, Typed, RecordTyped, InMessage, InUpdate
  <2>6. SliceTyped'
    BY <1>3, Zenon DEF Inv, Typed, SliceTyped
  <2>7. AttributeTyped' /\ ResultTyped'
    BY <1>3 DEF AttributeTyped, ResultTyped
  <2>8. MessageTyped'
    BY <1>3, <2>3, <2>4 DEF MessageTyped, InEntry, Outside, InAttributes
  <2>9. RecordTyped'
    BY <1>3, <2>4, <2>5 DEF RecordTyped, InPrefix, Waits, InAttributes
  <2> QED BY <2>6, <2>7, <2>8, <2>9, Zenon DEF Typed
<1> QED BY <1>1, <1>2, <1>3, FailTyped

\* A decoder returns a message.
LEMMA MessageReturned ==
    ASSUME Inv, InMessage, pc' \in {"done", "partial"}, msg' \in Messages,
           UNCHANGED <<session, nlri, source, rec>>
    PROVE  Typed'
<1>1. source = "mrt" => rec \in MessageRecords
  BY Zenon DEF Inv, Typed, RecordTyped
<1>2. ResultTyped'
  BY <1>1 DEF ResultTyped
<1>3. SliceTyped'
  BY Zenon DEF Inv, Typed, SliceTyped
<1>4. AttributeTyped'
  BY DEF AttributeTyped
<1>5. MessageTyped' /\ RecordTyped'
  BY DEF MessageTyped, RecordTyped, InUpdate, InEntry, InMessage, InPrefix, Waits, InAttributes,
     Outside
<1> QED BY <1>2, <1>3, <1>4, <1>5, Zenon DEF Typed

\* Its attributes have been decoded.
LEMMA AttributesParsedTyped == ASSUME Inv, AttributesParsed PROVE Typed'
<1>1. /\ pc = "attributes"
      /\ \/ pc' = "panic"
         \/ pc' = "partial" /\ UNCHANGED <<session, locals, msg, caller>>
         \/ /\ CallParseNLRI(attrsEnd, Size, AFI_IPV4, msg.addPath, "prefixes")
            /\ UNCHANGED <<session, msg, caller>>
  BY Zenon DEF AttributesParsed, Reading
<1>2. pc' # "panic"
  BY AttributesParsedStep DEF Inv, IInv, NoPanic
<1>3. msg \in Updates /\ InMessage
  BY <1>1, Zenon DEF Inv, Typed, MessageTyped, InMessage, InUpdate
<1>4. CASE pc' = "partial" /\ UNCHANGED <<session, locals, msg, caller>>
  <2>1. UNCHANGED <<session, nlri, source, rec>> /\ msg' \in Messages
    BY <1>3, <1>4 DEF locals, caller, Messages
  <2> QED BY <1>3, <1>4, <2>1, MessageReturned
<1>5. CASE /\ CallParseNLRI(attrsEnd, Size, AFI_IPV4, msg.addPath, "prefixes")
           /\ UNCHANGED <<session, msg, caller>>
  <2>1. msg.addPath \in BOOLEAN /\ msg' \in Updates
    BY <1>3, <1>5 DEF Updates
  <2>2. session'.enc2bytes \in BOOLEAN /\ (source = "mrt" => rec \in MessageRecords)
    BY <1>3, <1>5, Zenon DEF Inv, Typed, SliceTyped, RecordTyped
  <2>3. UNCHANGED <<source, rec>>
    BY <1>5 DEF caller
  <2> QED BY <1>5, <2>1, <2>2, <2>3, CallParseNLRITyped
<1> QED BY <1>1, <1>2, <1>4, <1>5

\* It is returned.
LEMMA UpdateParsedTyped == ASSUME Inv, UpdateParsed PROVE Typed'
<1>1. /\ pc = "prefixes" /\ pc' \in {"partial", "done"} /\ msg' = [msg EXCEPT !.nlri = nlri.list]
      /\ UNCHANGED <<session, nlri, source, rec>>
  BY DEF UpdateParsed, locals, caller
<1>2. msg \in Updates /\ InMessage /\ nlri \in NLRIs
  BY <1>1, Zenon DEF Inv, Typed, MessageTyped, SliceTyped, InMessage, InUpdate
<1>3. nlri.list \in Seq(Routes)
  BY <1>2 DEF NLRIs
<1>4. msg' \in Updates
  BY <1>1, <1>2, <1>3 DEF Updates
<1> QED BY <1>1, <1>2, <1>4, MessageReturned DEF Messages

-----------------------------------------------------------------------------
(* OPEN, NOTIFICATION and KEEPALIVE.                                        *)

\* Bytes of the data of a capability, or zeros.
LEMMA ReadOf ==
    ASSUME NEW data \in Seq(Byte), NEW from \in Nat, NEW to \in Nat, 1 <= from, from <= to
    PROVE  (IF to <= Len(data) THEN SubSeq(data, from, to) ELSE Zeros(to - from + 1)) \in Bs(to - from + 1)
<1>1. CASE to <= Len(data)
  <2>1. SubSeq(data, from, to) \in Seq(Byte) /\ Len(SubSeq(data, from, to)) = to - from + 1
    BY <1>1, SubSlice
  <2> QED BY <1>1, <2>1 DEF Bs
<1>2. CASE ~(to <= Len(data))
  <2>1. to - from + 1 \in Nat
    OBVIOUS
  <2> QED BY <1>2, <2>1, ZerosType, Zenon
<1> QED BY <1>1, <1>2, Zenon

\* ParseCapability.
LEMMA CapabilityType ==
    ASSUME NEW code \in Byte, NEW data \in Seq(Byte)
    PROVE  ParseCapability(code, data) \in Capas
<1> DEFINE Read(from, to) == IF to <= Len(data) THEN SubSeq(data, from, to) ELSE Zeros(to - from + 1)
           list == [k \in 1 .. Len(data) \div 4 |-> SubSeq(data, 4 * k - 3, 4 * k)]
<1>1. ParseCapability(code, data) =
          CASE code = CAPA_MP  -> [code |-> code, afi |-> Read(1, 2), safi |-> Read(4, 4)[1]]
            [] code = CAPA_ASN -> [code |-> code, asn |-> Read(1, 4)]
            [] code = CAPA_RR  -> [code |-> code]
            [] code = CAPA_ADDPATH -> [code |-> code, list |-> list]
            [] OTHER -> [code |-> code, data |-> data]
  BY Zenon DEF ParseCapability
<1>2. Read(1, 2) \in Bs(2) /\ Read(1, 4) \in Bs(4) /\ Read(4, 4) \in Bs(1)
  <2>1. Read(1, 2) \in Bs(2 - 1 + 1)
    BY ReadOf
  <2>2. Read(1, 4) \in Bs(4 - 1 + 1)
    BY ReadOf
  <2>3. Read(4, 4) \in Bs(4 - 4 + 1)
    BY ReadOf
  <2> HIDE DEF Read
  <2> QED BY <2>1, <2>2, <2>3
<1>3. Read(4, 4)[1] \in Byte
  <2> HIDE DEF Read
  <2> QED BY <1>2 DEF Bs
<1>4. list \in Seq(Bs(4))
  <2>1. Len(data) \div 4 \in Nat
    OBVIOUS
  <2>2. \A k \in 1 .. Len(data) \div 4 : SubSeq(data, 4 * k - 3, 4 * k) \in Bs(4)
    <3> TAKE k \in 1 .. Len(data) \div 4
    <3>1. 4 * k - 3 \in Int /\ 4 * k \in Int /\ 1 <= 4 * k - 3 /\ 4 * k - 3 <= 4 * k + 1 /\ 4 * k <= Len(data)
      OBVIOUS
    <3>2. SubSeq(data, 4 * k - 3, 4 * k) \in Seq(Byte)
          /\ Len(SubSeq(data, 4 * k - 3, 4 * k)) = 4 * k - (4 * k - 3) + 1
      BY <3>1, SubSlice
    <3>3. 4 * k - (4 * k - 3) + 1 = 4
      OBVIOUS
    <3> QED BY <3>2, <3>3, Zenon DEF Bs
  <2>3. list \in [1 .. Len(data) \div 4 -> Bs(4)]
    BY <2>2, Zenon
  <2> HIDE DEF list
  <2> QED BY <2>1, <2>3
<1> HIDE DEF Read, list
<1>5. /\ CAPA_MP # CAPA_ASN /\ CAPA_MP # CAPA_RR /\ CAPA_MP # CAPA_ADDPATH /\ CAPA_ASN # CAPA_RR
      /\ CAPA_ASN # CAPA_ADDPATH /\ CAPA_RR # CAPA_ADDPATH
  BY DEF CAPA_MP, CAPA_ASN, CAPA_RR, CAPA_ADDPATH
<1>6. CASE code = CAPA_MP
  <2>1. ParseCapability(code, data) = [code |-> code, afi |-> Read(1, 2), safi |-> Read(4, 4)[1]]
    BY <1>1, <1>5, <1>6, Zenon
  <2> QED BY ONLY <1>2, <1>3, <1>6, <2>1 DEF Capas
<1>7. CASE code = CAPA_ASN
  <2>1. ParseCapability(code, data) = [code |-> code, asn |-> Read(1, 4)]
    BY <1>1, <1>5, <1>7, Zenon
  <2> QED BY ONLY <1>2, <1>7, <2>1 DEF Capas
<1>8. CASE code = CAPA_RR
  <2>1. ParseCapability(code, data) = [code |-> code]
    BY <1>1, <1>5, <1>8, Zenon
  <2> QED BY ONLY <1>8, <2>1 DEF Capas
<1>9. CASE code = CAPA_ADDPATH
  <2>1. ParseCapability(code, data) = [code |-> code, list |-> list]
    BY <1>1, <1>5, <1>9, Zenon
  <2> QED BY ONLY <1>4, <1>9, <2>1 DEF Capas
<1>10. CASE code \notin {CAPA_MP, CAPA_ASN, CAPA_RR, CAPA_ADDPATH}
  <2>1. ParseCapability(code, data) = [code |-> code, data |-> data]
    BY <1>1, <1>10, Zenon
  <2> QED BY ONLY <1>10, <2>1, code \in Byte, data \in Seq(Byte) DEF Capas
<1> QED BY <1>6, <1>7, <1>8, <1>9, <1>10

\* Between the parameters of an OPEN, and after them.
LEMMA InOpenTyped ==
    ASSUME Inv, pc \in {"open", "param", "capa"}, pc' \in {"param", "capa", "done"}, msg' \in Opens,
           pc' = "capa" => msg'.params # <<>>, UNCHANGED <<session, nlri, source, rec>>
    PROVE  Typed'
<1>1. CASE pc' = "done"
  <2>1. InMessage /\ msg' \in Messages
    BY DEF InMessage, Messages
  <2> QED BY <1>1, <2>1, MessageReturned
<1>2. CASE pc' \in {"param", "capa"}
  <2>1. source = "mrt" => rec \in MessageRecords
    BY DEF Inv, Typed, RecordTyped, InMessage
  <2>2. SliceTyped'
    BY Zenon DEF Inv, Typed, SliceTyped
  <2>3. AttributeTyped' /\ ResultTyped'
    BY <1>2 DEF AttributeTyped, ResultTyped
  <2>4. MessageTyped'
    BY <1>2 DEF MessageTyped, InUpdate, InEntry, InAttributes, Outside
  <2>5. RecordTyped'
    BY <1>2, <2>1 DEF RecordTyped, InPrefix, Waits, InAttributes
  <2> QED BY <2>2, <2>3, <2>4, <2>5, Zenon DEF Typed
<1> QED BY <1>1, <1>2

\* An OPEN begins.
LEMMA ParseOpenTyped == ASSUME Inv, ParseOpen PROVE Typed'
<1> DEFINE m == [type |-> "OPEN", version |-> At(0), asn |-> Bytes(1, 2),
                 hold |-> Bytes(3, 2), id |-> Bytes(5, 4), params |-> <<>>]
<1>1. /\ pc = "open"
      /\ \/ Fail
         \/ pc' = "panic"
         \/ msg' = m /\ pc' \in {"param", "capa", "done"} /\ pc' # "capa" /\ UNCHANGED <<session, locals, caller>>
  BY DEF ParseOpen, Reading
<1>2. pc' # "panic"
  BY ParseOpenStep DEF Inv, IInv, NoPanic
<1>3. CASE /\ msg' = m /\ pc' \in {"param", "capa", "done"} /\ pc' # "capa"
           /\ UNCHANGED <<session, locals, caller>>
  <2>1. b \in Seq(Byte)
    BY Zenon DEF Inv, IInv, TypeOK
  <2>2. At(0) \in Byte /\ Bytes(1, 2) \in Bs(2) /\ Bytes(3, 2) \in Bs(2) /\ Bytes(5, 4) \in Bs(4)
    <3>1. 0 \in Int /\ 1 \in Int /\ 3 \in Int /\ 5 \in Int /\ 2 \in Nat /\ 4 \in Nat
      OBVIOUS
    <3> QED BY <2>1, <3>1, AtByte, BytesType, Zenon
  <2>3. m \in Opens
    <3>1. <<>> \in Seq(Params)
      OBVIOUS
    <3> QED BY ONLY <2>2, <3>1 DEF Opens
  <2> HIDE DEF m
  <2>4. UNCHANGED <<session, nlri, source, rec>>
    BY <1>3, Zenon DEF locals, caller
  <2> QED BY <1>1, <1>3, <2>3, <2>4, InOpenTyped
<1> QED BY <1>1, <1>2, <1>3, FailTyped

\* A parameter of it.
LEMMA ParseParameterTyped == ASSUME Inv, ParseParameter PROVE Typed'
<1> DEFINE p == [type |-> At(i), capas |-> <<>>]
<1>1. /\ pc = "param"
      /\ \/ Fail
         \/ pc' = "panic"
         \/ pc' = "done" /\ UNCHANGED <<session, locals, msg, caller>>
         \/ /\ msg' = [msg EXCEPT !.params = Append(@, p)]
            /\ pc' \in {"param", "capa"} /\ UNCHANGED <<session, nlri, caller>>
  BY DEF ParseParameter, Reading
<1>2. pc' # "panic"
  BY ParseParameterStep DEF Inv, IInv, NoPanic
<1>3. msg \in Opens
  BY <1>1 DEF Inv, Typed, MessageTyped
<1>4. CASE pc' = "done" /\ UNCHANGED <<session, locals, msg, caller>>
  <2>1. UNCHANGED <<session, nlri, source, rec>>
    BY <1>4, Zenon DEF locals, caller
  <2> QED BY <1>1, <1>3, <1>4, <2>1, InOpenTyped
<1>5. CASE /\ msg' = [msg EXCEPT !.params = Append(@, p)]
           /\ pc' \in {"param", "capa"} /\ UNCHANGED <<session, nlri, caller>>
  <2>1. b \in Seq(Byte) /\ i \in Nat
    BY Facts, Zenon DEF Inv, IInv, TypeOK, Readable
  <2>2. p \in Params
    <3>1. At(i) \in Byte
      BY <2>1, BytesHere
    <3>2. <<>> \in Seq(Capas)
      OBVIOUS
    <3> QED BY ONLY <3>1, <3>2 DEF Params
  <2> HIDE DEF p
  <2>3. msg.params \in Seq(Params)
    BY ONLY <1>3 DEF Opens
  <2>4. Append(msg.params, p) \in Seq(Params) /\ Append(msg.params, p) # <<>>
    BY ONLY <2>2, <2>3
  <2>5. msg' \in Opens /\ msg'.params # <<>>
    BY ONLY <1>3, <1>5, <2>4 DEF Opens
  <2>6. UNCHANGED <<session, nlri, source, rec>>
    BY <1>5, Zenon DEF caller
  <2> QED BY <1>1, <1>5, <2>5, <2>6, InOpenTyped
<1> QED BY <1>1, <1>2, <1>4, <1>5, FailTyped

\* A capability of the last parameter.
LEMMA ParseCapabilitiesTyped == ASSUME Inv, ParseCapabilities PROVE Typed'
<1> DEFINE c == ParseCapability(At(i), Bytes(i + 2, At(i + 1)))
<1>1. /\ pc = "capa"
      /\ \/ Fail
         \/ pc' = "panic"
         \/ pc' = "param" /\ UNCHANGED <<session, locals, msg, caller>>
         \/ /\ msg' = [msg EXCEPT !.params[Len(msg.params)].capas = Append(@, c)]
            /\ UNCHANGED <<session, pc, locals, caller>>
  BY Zenon DEF ParseCapabilities, Reading
<1>2. pc' # "panic"
  BY ParseCapabilitiesStep DEF Inv, IInv, NoPanic
<1>3. msg \in Opens /\ msg.params # <<>>
  BY <1>1 DEF Inv, Typed, MessageTyped
<1>4. CASE pc' = "param" /\ UNCHANGED <<session, locals, msg, caller>>
  <2>1. UNCHANGED <<session, nlri, source, rec>>
    BY <1>4, Zenon DEF locals, caller
  <2> QED BY <1>1, <1>3, <1>4, <2>1, InOpenTyped
<1>5. CASE /\ msg' = [msg EXCEPT !.params[Len(msg.params)].capas = Append(@, c)]
           /\ UNCHANGED <<session, pc, locals, caller>>
  <2>1. b \in Seq(Byte) /\ i \in Nat
    BY Facts, Zenon DEF Inv, IInv, TypeOK, Readable
  <2>2. c \in Capas
    <3>1. At(i) \in Byte /\ At(i + 1) \in Byte
      BY <2>1, BytesHere, BytesAfter
    <3>2. Bytes(i + 2, At(i + 1)) \in Seq(Byte)
      <4>1. At(i + 1) \in Nat
        BY <3>1 DEF Byte
      <4>2. Bytes(i + 2, At(i + 1)) \in Bs(At(i + 1))
        BY <2>1, <4>1, BytesAfter
      <4> QED BY <4>2 DEF Bs
    <3> QED BY <3>1, <3>2, CapabilityType
  <2> HIDE DEF c
  <2> DEFINE n == Len(msg.params)
             q == [msg.params[n] EXCEPT !.capas = Append(@, c)]
  <2>3. msg.params \in Seq(Params) /\ n \in Nat /\ n \in DOMAIN msg.params
    BY ONLY <1>3 DEF Opens
  <2>4. msg.params[n] \in Params /\ msg.params[n].capas \in Seq(Capas)
    <3>1. \A j \in DOMAIN msg.params : msg.params[j] \in Params
      BY ONLY <2>3
    <3>2. msg.params[n] \in Params
      BY <2>3, <3>1, Zenon
    <3> QED BY ONLY <3>2 DEF Params
  <2>5. q \in Params
    <3>1. Append(msg.params[n].capas, c) \in Seq(Capas)
      BY ONLY <2>2, <2>4
    <3> QED BY ONLY <2>4, <3>1 DEF Params
  <2>6. msg' = [msg EXCEPT !.params = [msg.params EXCEPT ![n] = q]]
    BY <1>5, <1>3, <2>3, <2>4 DEF Opens, Params
  <2> HIDE DEF q
  <2>7. [msg.params EXCEPT ![n] = q] \in Seq(Params) /\ [msg.params EXCEPT ![n] = q] # <<>>
    BY ONLY <2>3, <2>5
  <2>8. msg' \in Opens /\ msg'.params # <<>>
    BY ONLY <1>3, <2>6, <2>7 DEF Opens
  <2>9. UNCHANGED <<session, nlri, source, rec>> /\ pc' = "capa"
    BY <1>1, <1>5, Zenon DEF locals, caller
  <2> QED BY <1>1, <2>8, <2>9, InOpenTyped
<1> QED BY <1>1, <1>2, <1>4, <1>5, FailTyped

\* NOTIFICATION and KEEPALIVE.
LEMMA ShortMessagesTyped == ASSUME Inv, ParseNotification \/ ParseKeepAlive PROVE Typed'
<1>1. CASE ParseKeepAlive
  <2>1. /\ InMessage /\ pc' = "done" /\ msg' \in Messages
        /\ UNCHANGED <<session, nlri, source, rec>>
    BY <1>1 DEF ParseKeepAlive, InMessage, Messages, KeepAlives, locals, caller
  <2> QED BY <2>1, MessageReturned
<1>2. CASE ParseNotification
  <2> DEFINE m == [type |-> "NOTIFICATION", error |-> Bytes(0, 2), data |-> SubSeq(b, 3, Size)]
  <2>1. /\ pc = "notification"
        /\ \/ Fail
           \/ pc' = "panic"
           \/ 2 <= Size /\ msg' = m /\ pc' = "done" /\ UNCHANGED <<session, locals, caller>>
    BY <1>2, Zenon DEF ParseNotification, Reading
  <2>2. pc' # "panic"
    BY <1>2, ReturnsStep DEF Inv, IInv, NoPanic
  <2>3. CASE 2 <= Size /\ msg' = m /\ pc' = "done" /\ UNCHANGED <<session, locals, caller>>
    <3>1. b \in Seq(Byte)
      BY Zenon DEF Inv, IInv, TypeOK
    <3>2. Bytes(0, 2) \in Bs(2)
      <4>1. 0 \in Int /\ 2 \in Nat
        OBVIOUS
      <4> QED BY <3>1, <4>1, BytesType, Zenon
    <3>3. SubSeq(b, 3, Size) \in Seq(Byte)
      <4>1. Size \in Int /\ Size <= Len(b) /\ 3 \in Int /\ 1 <= 3 /\ 3 <= Size + 1
        BY <3>1, <2>3 DEF Size
      <4> QED BY <3>1, <4>1, SubSlice, Zenon
    <3>4. m \in Messages
      BY ONLY <3>2, <3>3 DEF Messages, Notifications
    <3> HIDE DEF m
    <3>5. InMessage /\ UNCHANGED <<session, nlri, source, rec>>
      BY <2>1, <2>3 DEF InMessage, locals, caller
    <3> QED BY <2>3, <3>4, <3>5, MessageReturned
  <2> QED BY <2>1, <2>2, <2>3, FailTyped
<1> QED BY <1>1, <1>2

-----------------------------------------------------------------------------
(* The choice of the decoder.                                               *)

\* Where nothing is decoded only the record and the result have a type.
LEMMA OutsideTyped ==
    ASSUME session'.enc2bytes \in BOOLEAN, nlri' \in NLRIs, RecordTyped', ResultTyped',
           pc' \in {"start", "open", "update", "notification", "keepalive", "message", "stateChange",
                    "peerIndex", "peers", "rib", "generic", "tableDump", "entries", "done", "partial",
                    "error", "nil"}
    PROVE  Typed'
<1>1. AttributeTyped'
  BY DEF AttributeTyped
<1>2. MessageTyped'
  BY DEF MessageTyped, InUpdate, InEntry, InAttributes, Outside
<1>3. SliceTyped'
  BY Zenon DEF SliceTyped
<1> QED BY <1>1, <1>2, <1>3, Zenon DEF Typed

\* An error is no result of a record.
LEMMA ErrorTyped ==
    ASSUME Inv, pc' \in {"error", "nil"}, UNCHANGED <<session, nlri>>
    PROVE  Typed'
<1>1. session'.enc2bytes \in BOOLEAN /\ nlri' \in NLRIs
  BY Zenon DEF Inv, Typed, SliceTyped
<1>2. RecordTyped' /\ ResultTyped'
  BY DEF RecordTyped, ResultTyped, InMessage, InUpdate, InPrefix, Waits, InAttributes
<1> QED BY <1>1, <1>2, OutsideTyped

\* The decoder of a body is chosen.
LEMMA ParsePacketTyped ==
    ASSUME Inv, NEW type, NEW body, NEW options, options.enc2bytes \in BOOLEAN,
           ParsePacket(type, body, options), source' = "mrt" => rec' \in MessageRecords
    PROVE  Typed'
<1>1. pc' \in {"open", "update", "notification", "keepalive", "error"} /\ session' = options /\ nlri' = nlri
  <2>1. UNCHANGED locals /\ session' = options
    BY Zenon DEF ParsePacket
  <2>2. pc' \in {"open", "update", "notification", "keepalive", "error"}
    BY DEF ParsePacket
  <2> QED BY <2>1, <2>2 DEF locals
<1>2. session'.enc2bytes \in BOOLEAN /\ nlri' \in NLRIs
  BY <1>1, Zenon DEF Inv, Typed, SliceTyped
<1>3. RecordTyped' /\ ResultTyped'
  BY <1>1 DEF RecordTyped, ResultTyped, InMessage, InUpdate, InPrefix, Waits, InAttributes
<1> QED BY <1>1, <1>2, <1>3, OutsideTyped

\* A message of the socket, or of a slice.
LEMMA ReceiveTyped == ASSUME Inv, Receive \/ ParseSlice PROVE Typed'
<1>1. \/ Fail
      \/ \E type, body : /\ \/ ParsePacket(type, body, session) \/ ParsePacket(type, body, NoOptions)
                         /\ source # "mrt" /\ UNCHANGED caller
  <2>1. "socket" # "mrt" /\ "packet" # "mrt"
    OBVIOUS
  <2> QED BY <2>1, Zenon DEF Receive, ParseSlice
<1>2. session.enc2bytes \in BOOLEAN /\ NoOptions.enc2bytes \in BOOLEAN
  BY DEF Inv, Typed, SliceTyped, NoOptions
<1>3. UNCHANGED caller => source' = source
  BY DEF caller
<1>4. CASE \E type, body : /\ \/ ParsePacket(type, body, session) \/ ParsePacket(type, body, NoOptions)
                           /\ source # "mrt" /\ UNCHANGED caller
  <2>1. PICK type, body : /\ \/ ParsePacket(type, body, session) \/ ParsePacket(type, body, NoOptions)
                          /\ source # "mrt" /\ UNCHANGED caller
    BY <1>4
  <2>2. source' # "mrt"
    BY <1>3, <2>1
  <2>3. CASE ParsePacket(type, body, session)
    BY <1>2, <2>2, <2>3, ParsePacketTyped
  <2>4. CASE ParsePacket(type, body, NoOptions)
    BY <1>2, <2>2, <2>4, ParsePacketTyped
  <2> QED BY <2>1, <2>3, <2>4
<1> QED BY <1>1, <1>4, FailTyped

-----------------------------------------------------------------------------
(* MRT records.                                                             *)

\* A field of a record.
LEMMA FieldBytes == ASSUME Inv, NEW o \in Nat, NEW n \in Nat PROVE Field(o, n) \in Bs(n)
<1>1. content \in Seq(Byte) /\ pos \in Nat
  BY RecordFacts DEF Inv
<1>2. Field(o, n) \in Seq(Byte) /\ Len(Field(o, n)) = n
  BY <1>1, FieldType
<1> QED BY <1>2 DEF Bs

\* Numbers of a record.
LEMMA ReadNumbers == ASSUME Inv, NEW o \in Nat PROVE ReadUint8(o) \in Byte /\ ReadUint16(o) \in Nat
<1>1. content \in Seq(Byte) /\ pos \in Nat
  BY RecordFacts DEF Inv
<1> QED BY <1>1, ReadType

\* The size of the addresses of a BGP4MP record.
LEMMA SizeIPIs == SizeIP \in {4, 16}
BY DEF SizeIP

\* The subtypes of a RIB record.
LEMMA RibSubtypeIs ==
    /\ DOMAIN RibSubtype = {2, 3, 4, 5, 8, 10}
    /\ \A t \in DOMAIN RibSubtype : /\ RibSubtype[t].afi \in {AFI_IPV4, AFI_IPV6}
                                    /\ RibSubtype[t].safi \in {SAFI_UNICAST, SAFI_MULTICAST}
                                    /\ RibSubtype[t].addPath \in BOOLEAN
<1>1. DOMAIN RibSubtype = {2, 3, 4, 5, 8, 10}
  BY DEF RibSubtype
<1>2. ASSUME NEW t \in {2, 3, 4, 5, 8, 10}
      PROVE RibSubtype[t] = [afi  |-> IF t \in {2, 3, 8} THEN AFI_IPV4 ELSE AFI_IPV6,
                             safi |-> IF t \in {3, 5} THEN SAFI_MULTICAST ELSE SAFI_UNICAST,
                             addPath |-> t \in {8, 10}]
  BY Zenon DEF RibSubtype
<1>3. ASSUME NEW t \in {2, 3, 4, 5, 8, 10}
      PROVE /\ RibSubtype[t].afi \in {AFI_IPV4, AFI_IPV6}
            /\ RibSubtype[t].safi \in {SAFI_UNICAST, SAFI_MULTICAST}
            /\ RibSubtype[t].addPath \in BOOLEAN
  <2> DEFINE afi  == IF t \in {2, 3, 8} THEN AFI_IPV4 ELSE AFI_IPV6
             safi == IF t \in {3, 5} THEN SAFI_MULTICAST ELSE SAFI_UNICAST
             path == t \in {8, 10}
  <2>1. afi \in {AFI_IPV4, AFI_IPV6} /\ safi \in {SAFI_UNICAST, SAFI_MULTICAST} /\ path \in BOOLEAN
    OBVIOUS
  <2>2. RibSubtype[t] = [afi |-> afi, safi |-> safi, addPath |-> path]
    BY <1>2, Zenon
  <2> HIDE DEF afi, safi, path
  <2> QED BY <2>1, <2>2
<1> QED BY <1>1, <1>3, Zenon

\* The families.
LEMMA AfiSafiTypes ==
    /\ AFI_IPV4 \in Nat /\ AFI_IPV6 \in Nat /\ SAFI_UNICAST \in Byte /\ SAFI_MULTICAST \in Byte
    /\ AFI_IPV4 # AFI_IPV6 /\ SAFI_UNICAST # SAFI_MULTICAST
BY DEF AFI_IPV4, AFI_IPV6, SAFI_UNICAST, SAFI_MULTICAST, Byte

\* A record begins.
LEMMA SingleTyped == ASSUME Inv, DecodeSingle PROVE Typed'
<1>1. \/ Fail
      \/ /\ source = "mrt" /\ rec' = [time |-> Bytes(0, 4), subtype |-> Uint16(6)]
         /\ pc' \in {"message", "stateChange", "nil", "peerIndex", "generic", "rib", "tableDump", "error"}
         /\ pc' = "rib" => Uint16(6) \in DOMAIN RibSubtype
         /\ UNCHANGED <<nested, source>>
  <2> DEFINE place == CASE Uint16(4) = TYPE_BGP4MP /\ Uint16(6) = MESSAGE_AS4 -> "message"
                       [] Uint16(4) = TYPE_BGP4MP /\ Uint16(6) = STATE_CHANGE_AS4 -> "stateChange"
                       [] Uint16(4) = TYPE_BGP4MP /\ Uint16(6) \notin {MESSAGE_AS4, STATE_CHANGE_AS4} -> "nil"
                       [] Uint16(4) = TYPE_TABLE_DUMPV2 /\ Uint16(6) = PEER_INDEX_TABLE -> "peerIndex"
                       [] Uint16(4) = TYPE_TABLE_DUMPV2 /\ Uint16(6) = RIB_GENERIC -> "generic"
                       [] Uint16(4) = TYPE_TABLE_DUMPV2 /\ Uint16(6) \in DOMAIN RibSubtype -> "rib"
                       [] Uint16(4) = TYPE_TABLE_DUMP -> "tableDump"
                       [] OTHER -> "error"
  <2>1. \/ Fail
        \/ /\ source = "mrt" /\ rec' = [time |-> Bytes(0, 4), subtype |-> Uint16(6)]
           /\ pc' = place /\ UNCHANGED <<nested, source, left, first>>
    BY Zenon DEF DecodeSingle
  <2>2. /\ place \in {"message", "stateChange", "nil", "peerIndex", "generic", "rib", "tableDump", "error"}
        /\ place = "rib" => Uint16(6) \in DOMAIN RibSubtype
    BY ONLY DEF TYPE_BGP4MP, TYPE_TABLE_DUMPV2, TYPE_TABLE_DUMP
  <2> HIDE DEF place
  <2> QED BY <2>1, <2>2
<1>2. CASE /\ source = "mrt" /\ rec' = [time |-> Bytes(0, 4), subtype |-> Uint16(6)]
           /\ pc' \in {"message", "stateChange", "nil", "peerIndex", "generic", "rib", "tableDump", "error"}
           /\ pc' = "rib" => Uint16(6) \in DOMAIN RibSubtype
           /\ UNCHANGED <<nested, source>>
  <2>1. b \in Seq(Byte) /\ Readable
    BY Facts, Zenon DEF Inv, IInv, TypeOK
  <2>2. Bytes(0, 4) \in Bs(4) /\ Uint16(6) \in Nat
    <3>1. 0 \in Int /\ 4 \in Nat /\ 6 \in Nat
      OBVIOUS
    <3> QED BY <2>1, <3>1, BytesType, Zenon DEF Readable
  <2>3. rec' \in Starts /\ rec'.subtype = Uint16(6)
    BY ONLY <1>2, <2>2 DEF Starts
  <2>4. UNCHANGED <<session, nlri, source>>
    BY <1>2, Zenon DEF nested, locals
  <2>5. session'.enc2bytes \in BOOLEAN /\ nlri' \in NLRIs
    BY <2>4, Zenon DEF Inv, Typed, SliceTyped
  <2>6. RecordTyped' /\ ResultTyped'
    <3>1. (DOMAIN RibSubtype)' = DOMAIN RibSubtype
      BY Zenon DEF RibSubtype
    <3> QED BY <1>2, <2>3, <2>4, <3>1
            DEF RecordTyped, ResultTyped, InMessage, InUpdate, InPrefix, Waits, InAttributes
  <2> QED BY <1>2, <2>5, <2>6, OutsideTyped
<1> QED BY <1>1, <1>2, FailTyped

\* The head of a BGP4MP record.
LEMMA PeersType ==
    ASSUME Inv, rec \in Starts, NEW type
    PROVE  /\ SizeIP \in {4, 16} /\ rec.time \in Bs(4)
           /\ Field(0, 4) \in Bs(4) /\ Field(4, 4) \in Bs(4) /\ Field(8, 2) \in Bs(2)
           /\ Field(12, SizeIP) \in Addresses /\ Field(12 + SizeIP, SizeIP) \in Addresses
           /\ Len(Field(12 + SizeIP, SizeIP)) = Len(Field(12, SizeIP))
<1>1. SizeIP \in {4, 16}
  BY SizeIPIs
<1>2. /\ Field(0, 4) \in Bs(4) /\ Field(4, 4) \in Bs(4) /\ Field(8, 2) \in Bs(2)
      /\ Field(12, SizeIP) \in Bs(SizeIP) /\ Field(12 + SizeIP, SizeIP) \in Bs(SizeIP)
  <2>1. /\ 0 \in Nat /\ 2 \in Nat /\ 4 \in Nat /\ 8 \in Nat /\ 12 \in Nat /\ SizeIP \in Nat
        /\ 12 + SizeIP \in Nat
    BY <1>1
  <2> QED BY <2>1, FieldBytes, Zenon
<1>3. rec.time \in Bs(4)
  BY DEF Starts
<1>4. Len(Field(12 + SizeIP, SizeIP)) = Len(Field(12, SizeIP))
  BY <1>2, Zenon DEF Bs
<1> QED BY <1>1, <1>2, <1>3, <1>4, Zenon DEF Addresses

\* A message in a record.
LEMMA DecodeMessageTyped == ASSUME Inv, DecodeMessage PROVE Typed'
<1>1. \/ Fail
      \/ pc' = "error" /\ UNCHANGED <<session, locals>>
      \/ /\ \E type, body : ParsePacket(type, body, NoOptions)
         /\ rec' = Peers("MESSAGE")
  BY Zenon DEF DecodeMessage
<1>2. rec \in Starts
  BY DEF DecodeMessage, Inv, Typed, RecordTyped
<1>3. CASE pc' = "error" /\ UNCHANGED <<session, locals>>
  <2>1. UNCHANGED <<session, nlri>>
    BY <1>3, Zenon DEF locals
  <2> QED BY <1>3, <2>1, ErrorTyped
<1>4. CASE (\E type, body : ParsePacket(type, body, NoOptions)) /\ rec' = Peers("MESSAGE")
  <2>1. rec' \in MessageRecords
    <3>1. /\ SizeIP \in {4, 16} /\ rec.time \in Bs(4)
          /\ Field(0, 4) \in Bs(4) /\ Field(4, 4) \in Bs(4) /\ Field(8, 2) \in Bs(2)
          /\ Field(12, SizeIP) \in Addresses /\ Field(12 + SizeIP, SizeIP) \in Addresses
          /\ Len(Field(12 + SizeIP, SizeIP)) = Len(Field(12, SizeIP))
      BY <1>2, PeersType
    <3>2. /\ rec' \in [type : {"MESSAGE"}, time : Bs(4), peerAS : Bs(4), localAS : Bs(4), iface : Bs(2),
                       peerIP : Addresses, localIP : Addresses]
          /\ Len(rec'.localIP) = Len(rec'.peerIP)
      BY ONLY <1>4, <3>1 DEF Peers
    <3> QED BY <3>2, Zenon DEF MessageRecords
  <2>2. NoOptions.enc2bytes \in BOOLEAN
    BY DEF NoOptions
  <2> QED BY <1>4, <2>1, <2>2, ParsePacketTyped
<1> QED BY <1>1, <1>3, <1>4, FailTyped

\* A record is read.
LEMMA InRecordTyped ==
    ASSUME Inv, UNCHANGED <<session, nlri, source>>, source = "mrt",
           \/ pc' = "peers" /\ rec' \in PeerIndexes
           \/ pc' = "entries" /\ rec' \in Ribs
           \/ /\ pc' \in {"done", "partial"}
              /\ rec' \in StateChanges \cup PeerIndexes \cup Ribs \/ rec'.type = "TABLE_DUMP"
    PROVE  Typed'
<1>1. session'.enc2bytes \in BOOLEAN /\ nlri' \in NLRIs
  BY Zenon DEF Inv, Typed, SliceTyped
<1>2. RecordTyped' /\ ResultTyped'
  BY DEF RecordTyped, ResultTyped, InMessage, InUpdate, InPrefix, Waits, InAttributes
<1> QED BY <1>1, <1>2, OutsideTyped

\* A state change.
LEMMA StateChangeTyped == ASSUME Inv, DecodeStateChange PROVE Typed'
<1>1. /\ pc = "stateChange" /\ pc' = "done"
      /\ rec' = With(Peers("STATE_CHANGE"), "states", Field(12 + 2 * SizeIP, 2) \o Field(14 + 2 * SizeIP, 2))
      /\ UNCHANGED <<session, nlri, source>>
  <2>1. UNCHANGED <<nested, source>>
    BY Zenon DEF DecodeStateChange
  <2>2. UNCHANGED <<session, nlri, source>>
    BY <2>1, Zenon DEF nested, locals
  <2> QED BY <2>2, Zenon DEF DecodeStateChange
<1>2. rec \in Starts /\ source = "mrt"
  BY <1>1 DEF Inv, Typed, RecordTyped
<1>3. rec' \in StateChanges
  <2> DEFINE states == Field(12 + 2 * SizeIP, 2) \o Field(14 + 2 * SizeIP, 2)
  <2>1. /\ SizeIP \in {4, 16} /\ rec.time \in Bs(4)
        /\ Field(0, 4) \in Bs(4) /\ Field(4, 4) \in Bs(4) /\ Field(8, 2) \in Bs(2)
        /\ Field(12, SizeIP) \in Addresses /\ Field(12 + SizeIP, SizeIP) \in Addresses
        /\ Len(Field(12 + SizeIP, SizeIP)) = Len(Field(12, SizeIP))
    BY <1>2, PeersType
  <2>2. states \in Bs(4)
    <3>1. 2 \in Nat /\ 12 + 2 * SizeIP \in Nat /\ 14 + 2 * SizeIP \in Nat
      BY <2>1
    <3>2. Field(12 + 2 * SizeIP, 2) \in Bs(2) /\ Field(14 + 2 * SizeIP, 2) \in Bs(2)
      BY <3>1, FieldBytes, Zenon
    <3>3. /\ Field(12 + 2 * SizeIP, 2) \in Seq(Byte) /\ Len(Field(12 + 2 * SizeIP, 2)) = 2
          /\ Field(14 + 2 * SizeIP, 2) \in Seq(Byte) /\ Len(Field(14 + 2 * SizeIP, 2)) = 2
      BY ONLY <3>2 DEF Bs
    <3>4. states \in Seq(Byte) /\ Len(states) = 2 + 2
      BY <3>3, Appended
    <3> QED BY <3>4 DEF Bs
  <2> HIDE DEF states
  <2>3. rec' = [type |-> "STATE_CHANGE", time |-> rec.time, peerAS |-> Field(0, 4), localAS |-> Field(4, 4),
                iface |-> Field(8, 2), peerIP |-> Field(12, SizeIP),
                localIP |-> Field(12 + SizeIP, SizeIP), states |-> states]
    <3>1. rec' = With(Peers("STATE_CHANGE"), "states", states)
      BY <1>1 DEF states
    <3> QED BY ONLY <3>1 DEF Peers, With
  <2>4. /\ rec' \in [type : {"STATE_CHANGE"}, time : Bs(4), peerAS : Bs(4), localAS : Bs(4), iface : Bs(2),
                     peerIP : Addresses, localIP : Addresses, states : Bs(4)]
        /\ Len(rec'.localIP) = Len(rec'.peerIP)
    BY ONLY <2>1, <2>2, <2>3
  <2> QED BY <2>4, Zenon DEF StateChanges
<1> QED BY <1>1, <1>2, <1>3, InRecordTyped

\* A peer index table.
LEMMA PeerIndexTyped == ASSUME Inv, DecodePeerIndex PROVE Typed'
<1> DEFINE n == ReadUint16(4)
           r == [type |-> "PEER_INDEX", time |-> rec.time, collector |-> Field(0, 4),
                 view |-> Field(6, n), peers |-> <<>>]
<1>1. pc = "peerIndex" /\ pc' = "peers" /\ rec' = r /\ UNCHANGED <<session, nlri, source>>
  <2>1. pc = "peerIndex" /\ pc' = "peers" /\ rec' = r /\ UNCHANGED <<nested, source>>
    BY Zenon DEF DecodePeerIndex, Goto
  <2> QED BY <2>1, Zenon DEF nested, locals
<1>2. rec \in Starts /\ source = "mrt"
  BY <1>1 DEF Inv, Typed, RecordTyped
<1>3. r \in PeerIndexes
  <2>1. n \in Nat
    BY ReadNumbers
  <2> HIDE DEF n
  <2>2. Field(0, 4) \in Bs(4) /\ Field(6, n) \in Bs(n)
    BY <2>1, FieldBytes
  <2>3. Field(6, n) \in Seq(Byte)
    BY <2>2 DEF Bs
  <2>4. rec.time \in Bs(4) /\ <<>> \in Seq(PeerEntries)
    BY <1>2 DEF Starts
  <2> QED BY ONLY <2>2, <2>3, <2>4 DEF PeerIndexes
<1> HIDE DEF r
<1> QED BY <1>1, <1>2, <1>3, InRecordTyped

\* A peer of it.
LEMMA DecodePeerTyped == ASSUME Inv, DecodePeer PROVE Typed'
<1> DEFINE sizeIP  == IF ReadUint8(0) % 2 = 1 THEN 16 ELSE 4
           sizeASN == IF (ReadUint8(0) \div 2) % 2 = 1 THEN 4 ELSE 2
           p == [id |-> Field(1, 4), ip |-> Field(5, sizeIP),
                 asn |-> Zeros(4 - sizeASN) \o Field(5 + sizeIP, sizeASN)]
<1>1. /\ pc = "peers"
      /\ \/ pc' = "done" /\ rec' = rec
         \/ pc' = "peers" /\ rec' = [rec EXCEPT !.peers = Append(@, p)]
  BY Zenon DEF DecodePeer, caller
<1>2. UNCHANGED <<session, nlri, source>>
  <2>1. UNCHANGED <<nested, source>>
    BY Zenon DEF DecodePeer, caller
  <2> QED BY <2>1, Zenon DEF nested, locals
<1>3. rec \in PeerIndexes /\ source = "mrt"
  BY <1>1 DEF Inv, Typed, RecordTyped
<1>4. p \in PeerEntries
  <2>1. sizeIP \in {4, 16} /\ sizeASN \in {2, 4}
    OBVIOUS
  <2> HIDE DEF sizeIP, sizeASN
  <2>2. Field(1, 4) \in Bs(4) /\ Field(5, sizeIP) \in Bs(sizeIP) /\ Field(5 + sizeIP, sizeASN) \in Bs(sizeASN)
    <3>1. 1 \in Nat /\ 4 \in Nat /\ 5 \in Nat /\ sizeIP \in Nat /\ sizeASN \in Nat /\ 5 + sizeIP \in Nat
      BY <2>1
    <3> QED BY <3>1, FieldBytes, Zenon
  <2>3. Field(5, sizeIP) \in Addresses
    BY <2>1, <2>2, Zenon DEF Addresses
  <2>4. Zeros(4 - sizeASN) \o Field(5 + sizeIP, sizeASN) \in Bs(4)
    <3> DEFINE x == Field(5 + sizeIP, sizeASN)
    <3> HIDE DEF x
    <3>1. x \in Bs(sizeASN)
      BY <2>2 DEF x
    <3>2. CASE sizeASN = 2
      <4>1. Zeros(2) \o x \in Bs(4)
        BY <3>1, <3>2, Widened
      <4>2. 4 - sizeASN = 2
        BY <3>2
      <4> QED BY <4>1, <4>2 DEF x
    <3>3. CASE sizeASN = 4
      <4>1. Zeros(4 - sizeASN) = <<>>
        BY <3>3 DEF Zeros
      <4>2. x \in Seq(Byte) /\ Len(x) = 4
        BY <3>1, <3>3 DEF Bs
      <4>3. <<>> \o x = x
        BY ONLY <4>2
      <4> QED BY <3>1, <3>3, <4>1, <4>3, Zenon DEF x
    <3> QED BY <2>1, <3>2, <3>3
  <2> QED BY ONLY <2>2, <2>3, <2>4 DEF PeerEntries
<1> HIDE DEF p
<1>5. [rec EXCEPT !.peers = Append(@, p)] \in PeerIndexes
  <2>1. rec.peers \in Seq(PeerEntries)
    BY ONLY <1>3 DEF PeerIndexes
  <2>2. Append(rec.peers, p) \in Seq(PeerEntries)
    BY ONLY <1>4, <2>1
  <2> QED BY ONLY <1>3, <2>2 DEF PeerIndexes
<1>6. \/ pc' = "done" /\ rec' \in PeerIndexes
      \/ pc' = "peers" /\ rec' \in PeerIndexes
  BY <1>1, <1>3, <1>5
<1> QED BY <1>2, <1>3, <1>6, InRecordTyped

\* The prefix of a RIB record is decoded next.
LEMMA CallPrefixTyped ==
    ASSUME Inv, NEW o, NEW afi, CallPrefix(o, afi), source = "mrt", rec' \in RibHeads
    PROVE  Typed'
<1>1. /\ CallParseNLRI(0, 1 + ((ReadUint8(o) + 7) \div 8), afi, FALSE, "prefix")
      /\ UNCHANGED <<session, source>>
  BY Zenon DEF CallPrefix
<1>2. session'.enc2bytes \in BOOLEAN /\ source' = "mrt" /\ FALSE \in BOOLEAN
  BY <1>1, Zenon DEF Inv, Typed, SliceTyped
<1> DEFINE to == 1 + ((ReadUint8(o) + 7) \div 8)
<1>3. CallParseNLRI(0, to, afi, FALSE, "prefix")
  BY <1>1
<1> HIDE DEF to
<1>4. /\ "prefix" # "reach" /\ "prefix" # "unreach" /\ "prefix" \notin {"withdrawn", "prefixes"}
      /\ "prefix" \notin {"reach", "unreach"}
      /\ "prefix" \in {"withdrawn", "prefixes", "reach", "unreach", "prefix"}
  OBVIOUS
<1> QED BY <1>2, <1>3, <1>4, CallParseNLRITyped, Zenon

\* A RIB record, up to its prefix.
LEMMA DecodeRibTyped == ASSUME Inv, DecodeRibSpec \/ DecodeRibGeneric PROVE Typed'
<1>1. rec \in Starts /\ source = "mrt"
  BY DEF DecodeRibSpec, DecodeRibGeneric, Inv, Typed, RecordTyped
<1>2. ASSUME NEW afi \in Nat, NEW safi \in Byte, NEW as \in BOOLEAN, NEW path \in BOOLEAN
      PROVE Rib(afi, safi, as, path) \in RibHeads
  <2>1. Field(0, 4) \in Bs(4)
    BY FieldBytes
  <2>2. rec.time \in Bs(4)
    BY <1>1 DEF Starts
  <2> QED BY ONLY <2>1, <2>2, afi \in Nat, safi \in Byte, as \in BOOLEAN, path \in BOOLEAN
             DEF Rib, RibHeads, RibsWith
<1>3. CASE DecodeRibSpec
  <2> DEFINE t == RibSubtype[rec.subtype]
  <2>1. pc = "rib" /\ rec' = Rib(t.afi, t.safi, TRUE, t.addPath) /\ CallPrefix(4, t.afi)
    BY <1>3, Zenon DEF DecodeRibSpec
  <2>2. t.afi \in {AFI_IPV4, AFI_IPV6} /\ t.safi \in {SAFI_UNICAST, SAFI_MULTICAST} /\ t.addPath \in BOOLEAN
    BY <2>1, RibSubtypeIs, Zenon DEF Inv, Typed, RecordTyped
  <2>3. rec' \in RibHeads
    BY <1>2, <2>1, <2>2, AfiSafiTypes
  <2> QED BY <1>1, <2>1, <2>3, CallPrefixTyped
<1>4. CASE DecodeRibGeneric
  <2>1. /\ rec' = Rib(ReadUint16(4), ReadUint8(6), FALSE, FALSE)
        /\ \/ CallPrefix(7, ReadUint16(4))
           \/ pc' = "error" /\ UNCHANGED nested
    BY <1>4, Zenon DEF DecodeRibGeneric
  <2>2. ReadUint16(4) \in Nat /\ ReadUint8(6) \in Byte
    BY ReadNumbers
  <2>3. rec' \in RibHeads
    BY <1>2, <2>1, <2>2
  <2>4. CASE pc' = "error" /\ UNCHANGED nested
    <3>1. UNCHANGED <<session, nlri>>
      BY <2>4, Zenon DEF nested, locals
    <3> QED BY <2>4, <3>1, ErrorTyped
  <2> QED BY <1>1, <2>1, <2>3, <2>4, CallPrefixTyped
<1> QED BY <1>3, <1>4

\* Its prefix.
LEMMA PrefixDecodedTyped == ASSUME Inv, PrefixDecoded PROVE Typed'
<1>1. /\ pc = "prefix"
      /\ \/ pc' = "error" /\ UNCHANGED <<session, locals>>
         \/ /\ Len(nlri.list) = 1 /\ pc' = "entries" /\ rec' = [rec EXCEPT !.nlri = nlri.list[1]]
            /\ UNCHANGED <<session, nlri, source>>
  <2>1. UNCHANGED nested => UNCHANGED <<session, locals>>
    BY Zenon DEF nested
  <2> QED BY <2>1, Zenon DEF PrefixDecoded, Goto
<1>2. rec \in RibHeads /\ source = "mrt" /\ nlri \in NLRIs
  BY <1>1, Zenon DEF Inv, Typed, RecordTyped, SliceTyped, InPrefix
<1>3. CASE pc' = "error" /\ UNCHANGED <<session, locals>>
  <2>1. UNCHANGED <<session, nlri>>
    BY <1>3, Zenon DEF locals
  <2> QED BY <1>3, <2>1, ErrorTyped
<1>4. CASE /\ Len(nlri.list) = 1 /\ pc' = "entries" /\ rec' = [rec EXCEPT !.nlri = nlri.list[1]]
           /\ UNCHANGED <<session, nlri, source>>
  <2>1. nlri.list[1] \in Routes
    <3>1. nlri.list \in Seq(Routes)
      BY ONLY <1>2 DEF NLRIs
    <3> QED BY ONLY <1>4, <3>1
  <2>2. rec' \in Ribs
    <3>1. <<>> \in Seq(Entries)
      OBVIOUS
    <3> QED BY ONLY <1>2, <1>4, <2>1, <3>1 DEF RibHeads, Ribs, RibsWith
  <2> QED BY <1>2, <1>4, <2>2, InRecordTyped
<1> QED BY <1>1, <1>3, <1>4

\* The attributes of an entry are decoded next.
LEMMA CallAttributesTyped ==
    ASSUME Inv, NEW o, NEW n, NEW enc2bytes \in BOOLEAN, NEW ret, CallAttributes(o, n, enc2bytes, ret),
           source = "mrt",
           \/ ret = "entry" /\ OpenRib(rec')
           \/ ret = "tableDumpAttributes" /\ rec'.type = "TABLE_DUMP" /\ "attrs" \in DOMAIN rec'
    PROVE  Typed'
<1>1. /\ session' = [NoOptions EXCEPT !.enc2bytes = enc2bytes] /\ msg' = [attrs |-> <<>>]
      /\ attr' = [ret |-> ret] /\ pc' = "attrs" /\ UNCHANGED <<nlri, source>>
  BY Zenon DEF CallAttributes, CallParsePathAttribute
<1>2. session'.enc2bytes \in BOOLEAN
  BY <1>1 DEF NoOptions
<1>3. SliceTyped'
  BY <1>1, <1>2, Zenon DEF SliceTyped, Inv, Typed
<1>4. AttributeTyped' /\ ResultTyped'
  BY <1>1 DEF AttributeTyped, ResultTyped
<1>5. attr'.ret = ret
  BY <1>1
<1>6. MessageTyped'
  <2>1. msg' \in [attrs : Seq(Attributes)]
    <3>1. <<>> \in Seq(Attributes)
      OBVIOUS
    <3> QED BY ONLY <1>1, <3>1
  <2> QED BY <1>1, <1>5, <2>1 DEF MessageTyped, InUpdate, InEntry, InAttributes, Outside
<1>7. RecordTyped'
  <2>1. (ret = "entry" => OpenRib(rec)')
    BY Zenon DEF OpenRib
  <2> QED BY <1>1, <1>5, <2>1 DEF RecordTyped, InPrefix, InMessage, InUpdate, InAttributes, Waits
<1> QED BY <1>3, <1>4, <1>6, <1>7, Zenon DEF Typed

\* An entry of it, up to its attributes.
LEMMA DecodeEntryTyped == ASSUME Inv, DecodeEntry PROVE Typed'
<1> DEFINE skip == IF rec.addPath THEN 4 ELSE 0
           e == [peer |-> Field(0, 2), time |-> Field(2, 4)]
<1>1. /\ pc = "entries"
      /\ \/ pc' \in {"partial", "done"} /\ UNCHANGED <<nested, caller>>
         \/ /\ rec' = [rec EXCEPT !.entries = Append(@, e)]
            /\ CallAttributes(8 + skip, ReadUint16(6 + skip), FALSE, "entry")
  BY DEF DecodeEntry
<1>2. rec \in Ribs /\ source = "mrt"
  BY <1>1 DEF Inv, Typed, RecordTyped
<1>3. CASE pc' \in {"partial", "done"} /\ UNCHANGED <<nested, caller>>
  <2>1. UNCHANGED <<session, nlri, source, rec>>
    BY <1>3, Zenon DEF nested, locals, caller
  <2> QED BY <1>2, <1>3, <2>1, InRecordTyped
<1>4. CASE /\ rec' = [rec EXCEPT !.entries = Append(@, e)]
           /\ CallAttributes(8 + skip, ReadUint16(6 + skip), FALSE, "entry")
  <2>1. Field(0, 2) \in Bs(2) /\ Field(2, 4) \in Bs(4)
    BY FieldBytes
  <2>2. e \in [peer : Bs(2), time : Bs(4)] /\ e.peer \in Bs(2) /\ e.time \in Bs(4)
    BY ONLY <2>1
  <2> HIDE DEF e
  <2> DEFINE all == Append(rec.entries, e)
             Open == Entries \cup [peer : Bs(2), time : Bs(4)]
  <2>3. rec.entries \in Seq(Entries)
    BY ONLY <1>2 DEF Ribs, RibsWith
  <2>4. all \in Seq(Open) /\ all # <<>> /\ all[Len(all)] = e /\ \A k \in 1 .. Len(all) - 1 : all[k] \in Entries
    <3>1. rec.entries \in Seq(Open) /\ e \in Open
      BY ONLY <2>2, <2>3
    <3>2. all \in Seq(Open) /\ all # <<>> /\ all[Len(all)] = e
      <4> HIDE DEF Open
      <4> QED BY ONLY <3>1
    <3>3. \A k \in 1 .. Len(all) - 1 : all[k] \in Entries
      BY ONLY <2>3
    <3> QED BY <3>2, <3>3
  <2>5. rec'.entries = all /\ rec' \in RibsWith(Routes, Seq(Open))
    <3> HIDE DEF all, Open
    <3>1. rec' = [rec EXCEPT !.entries = all]
      BY <1>4 DEF all
    <3> QED BY ONLY <1>2, <2>4, <3>1 DEF Ribs, RibsWith
  <2> HIDE DEF all
  <2>6. OpenRib(rec')
    BY <2>2, <2>4, <2>5, Zenon DEF OpenRib
  <2> QED BY <1>2, <1>4, <2>6, CallAttributesTyped
<1> QED BY <1>1, <1>3, <1>4

\* The attributes of an entry.
LEMMA EntryDecodedTyped == ASSUME Inv, EntryDecoded PROVE Typed'
<1> DEFINE n == Len(rec.entries)
           last == rec.entries[n]
           e == [peer |-> last.peer, time |-> last.time, attrs |-> msg.attrs]
<1>1. /\ pc = "entry" /\ pc' = "entries" /\ UNCHANGED <<session, nlri, source>>
      /\ rec' = [rec EXCEPT !.entries[n] = [peer |-> @.peer, time |-> @.time, attrs |-> msg.attrs]]
  <2>1. UNCHANGED <<nested, source>> /\ pc = "entry"
    BY Zenon DEF EntryDecoded
  <2>2. UNCHANGED <<session, nlri, source>>
    BY <2>1, Zenon DEF nested, locals
  <2>3. /\ pc' = "entries"
        /\ rec' = [rec EXCEPT !.entries[n] = [peer |-> @.peer, time |-> @.time, attrs |-> msg.attrs]]
    BY Zenon DEF EntryDecoded, Goto
  <2> QED BY <2>1, <2>2, <2>3
<1>2. OpenRib(rec) /\ source = "mrt" /\ msg \in [attrs : Seq(Attributes)]
  BY <1>1, Zenon DEF Inv, Typed, RecordTyped, MessageTyped, InEntry, Outside, Waits
<1>3. e \in Entries
  BY <1>2 DEF OpenRib, Entries
<1> HIDE DEF e
<1> DEFINE Open == Entries \cup [peer : Bs(2), time : Bs(4)]
           all == [rec.entries EXCEPT ![n] = e]
<1>4. rec.entries \in Seq(Open) /\ n \in Nat /\ n \in DOMAIN rec.entries /\ rec \in RibsWith(Routes, Seq(Open))
  <2>1. rec \in RibsWith(Routes, Seq(Open)) /\ rec.entries # <<>>
    BY <1>2 DEF OpenRib
  <2> HIDE DEF Open
  <2> QED BY ONLY <2>1 DEF RibsWith
<1>5. all \in Seq(Entries)
  <2>1. \A k \in 1 .. n : all[k] \in Entries
    <3>1. \A k \in 1 .. n - 1 : rec.entries[k] \in Entries
      BY <1>2 DEF OpenRib
    <3> HIDE DEF Open
    <3> QED BY ONLY <1>3, <1>4, <3>1
  <2>2. DOMAIN all = 1 .. n
    BY ONLY <1>4
  <2>3. all \in [1 .. n -> Entries]
    <3>1. all = [k \in DOMAIN all |-> all[k]]
      BY DEF all
    <3> HIDE DEF all
    <3> QED BY <2>1, <2>2, <3>1
  <2> HIDE DEF all, Open
  <2> QED BY ONLY <1>4, <2>3
<1>6. rec' = [rec EXCEPT !.entries = all]
  <2> HIDE DEF Open
  <2> QED BY <1>1, <1>4 DEF e, RibsWith
<1> HIDE DEF all
<1>7. rec' \in Ribs
  <2> HIDE DEF Open
  <2> QED BY ONLY <1>4, <1>5, <1>6 DEF Ribs, RibsWith
<1> QED BY <1>1, <1>2, <1>7, InRecordTyped

\* A TABLE_DUMP record.
LEMMA TableDumpTyped == ASSUME Inv, DecodeTableDump \/ TableDumpDecoded PROVE Typed'
<1>1. CASE DecodeTableDump
  <2>1. source = "mrt"
    BY <1>1 DEF DecodeTableDump, Inv, Typed, RecordTyped
  <2>2. /\ rec'.type = "TABLE_DUMP" /\ "attrs" \in DOMAIN rec'
    BY <1>1 DEF DecodeTableDump
  <2>3. \E o, n : CallAttributes(o, n, TRUE, "tableDumpAttributes")
    BY <1>1, Zenon DEF DecodeTableDump
  <2>4. TRUE \in BOOLEAN
    OBVIOUS
  <2> QED BY <2>1, <2>2, <2>3, <2>4, CallAttributesTyped
<1>2. CASE TableDumpDecoded
  <2>1. /\ pc = "tableDumpAttributes"
        /\ \/ pc' = "error"
           \/ pc' = "done" /\ rec' = [rec EXCEPT !.attrs = msg.attrs]
        /\ UNCHANGED <<nested, source>>
    BY <1>2, Zenon DEF TableDumpDecoded, Goto
  <2>2. UNCHANGED <<session, nlri, source>>
    BY <2>1, Zenon DEF nested, locals
  <2>3. source = "mrt" /\ rec.type = "TABLE_DUMP" /\ "attrs" \in DOMAIN rec
    BY <2>1 DEF Inv, Typed, RecordTyped, Waits
  <2>4. CASE pc' = "done" /\ rec' = [rec EXCEPT !.attrs = msg.attrs]
    <3>1. rec'.type = "TABLE_DUMP"
      <4>1. \A x : [rec EXCEPT !.attrs = x].type = rec.type
        OBVIOUS
      <4> QED BY <2>3, <2>4, <4>1
    <3> QED BY <2>2, <2>3, <2>4, <3>1, InRecordTyped
  <2> QED BY <2>1, <2>2, <2>4, ErrorTyped
<1> QED BY <1>1, <1>2

-----------------------------------------------------------------------------
(* The invariant.                                                           *)

\* All steps of the decoder of an UPDATE.
LEMMA UpdateNextTyped == ASSUME Inv, UpdateNext PROVE Typed'
<1>1. CASE ParseUpdate \/ WithdrawnParsed \/ AttributesParsed \/ UpdateParsed
  BY <1>1, UpdateTyped, WithdrawnTyped, AttributesParsedTyped, UpdateParsedTyped
<1>2. CASE ParseNLRI \/ ParseAttributeHeader
  BY <1>2, NLRITyped, AttributeHeaderTyped
<1>3. CASE ParseOrigin \/ ParseMedLocPref \/ ParseAggregator \/ ParseAtomicAggregate
  BY <1>3, OriginTyped, MedLocPrefTyped, AggregatorTyped, AtomicAggregateTyped
<1>4. CASE ParseNextHop \/ ParseCommunities \/ ParseUnknown
  BY <1>4, NextHopTyped, CommunitiesTyped, UnknownTyped
<1>5. CASE ParseASPath \/ ParseASPathSegment
  BY <1>5, ASPathTyped, ASPathSegmentTyped
<1>6. CASE ParseReach \/ ReachParsed \/ ParseUnreach \/ UnreachParsed
  BY <1>6, ReachTyped, UnreachTyped, PrefixesParsedTyped
<1> QED BY <1>1, <1>2, <1>3, <1>4, <1>5, <1>6, Zenon DEF UpdateNext

\* All steps of the decoders.
LEMMA DecodeTyped == ASSUME Inv, Decode PROVE Typed'
<1>1. CASE Receive \/ ParseSlice \/ ParseNotification \/ ParseKeepAlive
  BY <1>1, ReceiveTyped, ShortMessagesTyped
<1>2. CASE OpenNext
  BY <1>2, ParseOpenTyped, ParseParameterTyped, ParseCapabilitiesTyped DEF OpenNext
<1>3. CASE UpdateNext
  BY <1>3, UpdateNextTyped
<1>4. CASE DecodeSingle \/ DecodeMessage \/ DecodeStateChange \/ DecodePeerIndex \/ DecodePeer
  BY <1>4, SingleTyped, DecodeMessageTyped, StateChangeTyped, PeerIndexTyped, DecodePeerTyped
<1>5. CASE DecodeRibSpec \/ DecodeRibGeneric \/ PrefixDecoded \/ DecodeEntry \/ EntryDecoded
  BY <1>5, DecodeRibTyped, PrefixDecodedTyped, DecodeEntryTyped, EntryDecodedTyped
<1>6. CASE DecodeTableDump \/ TableDumpDecoded
  BY <1>6, TableDumpTyped
<1> QED BY <1>1, <1>2, <1>3, <1>4, <1>5, <1>6, Zenon DEF Decode, PacketNext, MrtNext

\* And none.
LEMMA StaysTyped == ASSUME Inv, UNCHANGED vars PROVE Typed'
<1>1. UNCHANGED <<session, pc, msg, nlri, attr, source, rec>>
  <2>1. UNCHANGED <<session, pc, msg, locals, caller>>
    BY Zenon DEF vars
  <2> QED BY <2>1, Zenon DEF locals, caller
<1>2. /\ InUpdate' = InUpdate /\ InEntry' = InEntry /\ InMessage' = InMessage
      /\ InPrefix' = InPrefix /\ InAttributes' = InAttributes
  BY <1>1, Zenon DEF InUpdate, InEntry, InMessage, InAttributes, InPrefix, Outside
<1>3. SliceTyped' /\ AttributeTyped'
  BY <1>1, Zenon DEF Inv, Typed, SliceTyped, AttributeTyped
<1>4. MessageTyped'
  BY <1>1, <1>2, Zenon DEF Inv, Typed, MessageTyped
<1>5. RecordTyped'
  BY <1>1, <1>2, Zenon DEF Inv, Typed, RecordTyped, Waits, OpenRib, RibSubtype
<1>6. ResultTyped'
  BY <1>1, Zenon DEF Inv, Typed, ResultTyped
<1> QED BY <1>3, <1>4, <1>5, <1>6, Zenon DEF Typed

\* Before anything has been read.
LEMMA StartsTyped ==
    ASSUME session.enc2bytes \in BOOLEAN, nlri \in NLRIs, pc = "start"
    PROVE  Typed
<1>1. SliceTyped
  BY DEF SliceTyped
<1>2. AttributeTyped /\ MessageTyped
  BY DEF AttributeTyped, MessageTyped, InUpdate, InEntry, InAttributes, Outside
<1>3. RecordTyped /\ ResultTyped
  BY DEF RecordTyped, ResultTyped, InMessage, InUpdate, InPrefix, Waits, InAttributes
<1> QED BY <1>1, <1>2, <1>3, Zenon DEF Typed

\* So the invariant holds when an input arrives.
LEMMA InitInv == Init => Inv
<1> SUFFICES ASSUME Init PROVE Inv
  OBVIOUS
<1>1. IInv
  BY InitIInv
<1>2. /\ session.enc2bytes \in BOOLEAN /\ pc = "start"
      /\ nlri = [size |-> 4, path |-> FALSE, list |-> <<>>, ret |-> "none"]
  BY InputsAssumption, Zenon DEF Init
<1>3. nlri \in NLRIs
  <2>1. <<>> \in Seq(Routes)
    OBVIOUS
  <2> QED BY <1>2, <2>1 DEF NLRIs
<1> QED BY <1>1, <1>2, <1>3, StartsTyped DEF Inv

-----------------------------------------------------------------------------
(* What is written is decoded again.                                        *)

\* What the decoder of a message or of a record returns.
LEMMA ResultType ==
    ASSUME Inv, pc = "done"
    PROVE  /\ source # "mrt" => msg \in Messages /\ Result = msg
           /\ source = "mrt" =>
                \/ rec \in MessageRecords /\ rec.type = "MESSAGE" /\ Result \in MessageResults
                   /\ Result.peerIP = rec.peerIP /\ Result.message = msg
                \/ rec \in StateChanges \cup PeerIndexes /\ Result = rec
                \/ rec \in Ribs /\ rec.type = "RIB" /\ Result \in RibResults
                   /\ \A f \in {"asAfiSafi", "afi", "safi", "entries"} : Result[f] = rec[f]
                \/ rec.type = "TABLE_DUMP" /\ Result = rec
<1>1. \/ msg \in Messages /\ (source = "mrt" => rec \in MessageRecords)
      \/ source = "mrt" /\ (rec \in StateChanges \cup PeerIndexes \cup Ribs \/ rec.type = "TABLE_DUMP")
  BY Zenon DEF Inv, Typed, ResultTyped
<1>2. source # "mrt" => Result = msg
  BY Zenon DEF Result
<1>3. ASSUME source = "mrt", rec \in MessageRecords, msg \in Messages
      PROVE  /\ rec.type = "MESSAGE" /\ Result \in MessageResults
             /\ Result.peerIP = rec.peerIP /\ Result.message = msg
  <2>1. rec.type = "MESSAGE"
    BY <1>3 DEF MessageRecords
  <2>2. Result = With(rec, "message", msg)
    <3>1. rec.type # "RIB"
      BY <2>1
    <3> QED BY <1>3, <2>1, <3>1, Zenon DEF Result
  <2>3. /\ rec \in [type : {"MESSAGE"}, time : Bs(4), peerAS : Bs(4), localAS : Bs(4), iface : Bs(2),
                    peerIP : Addresses, localIP : Addresses]
        /\ Len(rec.localIP) = Len(rec.peerIP)
    BY <1>3, Zenon DEF MessageRecords
  <2>4. /\ Result \in [type : {"MESSAGE"}, time : Bs(4), peerAS : Bs(4), localAS : Bs(4), iface : Bs(2),
                       peerIP : Addresses, localIP : Addresses, message : Messages]
        /\ Result.peerIP = rec.peerIP /\ Result.localIP = rec.localIP /\ Result.message = msg
    BY ONLY <1>3, <2>2, <2>3 DEF With
  <2> QED BY <2>1, <2>3, <2>4, Zenon DEF MessageResults
<1>4. ASSUME source = "mrt", rec \in StateChanges \cup PeerIndexes PROVE Result = rec
  <2>1. rec.type # "MESSAGE" /\ rec.type # "RIB"
    BY <1>4 DEF StateChanges, PeerIndexes
  <2> QED BY <1>4, <2>1, Zenon DEF Result
<1>5. ASSUME source = "mrt", rec \in Ribs
      PROVE  /\ rec.type = "RIB" /\ Result \in RibResults
             /\ \A f \in {"asAfiSafi", "afi", "safi", "entries"} : Result[f] = rec[f]
  <2>1. rec.type = "RIB"
    BY <1>5 DEF Ribs, RibsWith
  <2>2. Result = [f \in DOMAIN rec \ {"addPath"} |-> rec[f]]
    <3>1. rec.type # "MESSAGE"
      BY <2>1
    <3> QED BY <1>5, <2>1, <3>1, Zenon DEF Result
  <2> DEFINE r == Result
  <2>3. r = [f \in DOMAIN rec \ {"addPath"} |-> rec[f]]
    BY <2>2
  <2> HIDE DEF r
  <2>4. DOMAIN r = {"type", "time", "seq", "afi", "safi", "asAfiSafi", "nlri", "entries"}
    BY ONLY <1>5, <2>3 DEF Ribs, RibsWith
  <2>5. \A f \in DOMAIN r : r[f] = rec[f]
    BY ONLY <2>3
  <2>6. r \in RibResults
    <3>1. r = [type |-> rec.type, time |-> rec.time, seq |-> rec.seq, afi |-> rec.afi, safi |-> rec.safi,
               asAfiSafi |-> rec.asAfiSafi, nlri |-> rec.nlri, entries |-> rec.entries]
      BY ONLY <2>3, <2>4, <2>5
    <3> QED BY ONLY <1>5, <3>1 DEF Ribs, RibsWith, RibResults
  <2> QED BY <2>1, <2>4, <2>5, <2>6 DEF r
<1>6. ASSUME source = "mrt", rec.type = "TABLE_DUMP" PROVE Result = rec
  <2>1. rec.type # "MESSAGE" /\ rec.type # "RIB"
    BY <1>6
  <2> QED BY <1>6, <2>1, Zenon DEF Result
<1> QED BY <1>1, <1>2, <1>3, <1>4, <1>5, <1>6, Zenon

\* A decoder is at the start of what was written.
LEMMA DecodeAgainInv ==
    ASSUME Inv, pc = "done", NEW s \in Seq(Byte), DecodeAgain(s), source' \in {"socket", "packet", "mrt"}
    PROVE  Inv'
<1>1. /\ b' = s /\ pc' = "start" /\ i' = 0
      /\ UNCHANGED <<session, content, pos, eof, left>>
      /\ UNCHANGED <<end, attrsEnd, attrEnd, nlri, attr, failed>>
  <2>1. UNCHANGED locals
    BY Zenon DEF DecodeAgain
  <2>2. UNCHANGED <<end, attrsEnd, attrEnd, nlri, attr, failed>>
    BY <2>1, Zenon DEF locals
  <2> QED BY <2>2, Zenon DEF DecodeAgain
<1>2. TypeOK /\ Returns /\ nlri \in NLRIs /\ session.enc2bytes \in BOOLEAN
  BY Zenon DEF Inv, IInv, Typed, SliceTyped
<1>3. i' \in 0 .. Size' /\ pc' \in PCs /\ RecSize' = RecSize
  BY <1>1 DEF Size, PCs, RecSize
<1>4. TypeOK'
  BY <1>1, <1>2, <1>3, Zenon DEF TypeOK
<1>5. NoPanic' /\ AtStart' /\ NLRIInside' /\ AttributesInside'
  BY <1>1 DEF NoPanic, AtStart, NLRIInside, AttributesInside, InAttributes
<1>6. Returns'
  BY <1>1, <1>2, Zenon DEF Returns
<1>7. RecordTyped' /\ ResultTyped'
  BY <1>1 DEF RecordTyped, ResultTyped, InMessage, InUpdate, InPrefix, Waits, InAttributes
<1>8. Typed'
  BY <1>1, <1>2, <1>7, OutsideTyped
<1> QED BY <1>4, <1>5, <1>6, <1>8, Zenon DEF Inv, IInv

\* What is written is bytes.
LEMMA RewriteInv == ASSUME Inv, Rewrite PROVE Inv'
<1> DEFINE s == IF source = "mrt" THEN WriteRecord(Result) ELSE WritePacket(Result)
<1>1. pc = "done" /\ Result.type # "TABLE_DUMP" /\ DecodeAgain(s) /\ source' = source
  BY Zenon DEF Rewrite
<1>2. source \in {"socket", "packet", "mrt"}
  BY Zenon DEF Inv, IInv, TypeOK
<1>3. s \in Seq(Byte)
  <2>1. CASE source # "mrt"
    BY <1>1, <2>1, ResultType, WritePacketLen, Zenon
  <2>2. CASE source = "mrt"
    <3>1. \/ Result \in MessageResults \/ Result \in StateChanges \cup PeerIndexes \/ Result \in RibResults
      BY <1>1, <2>2, ResultType, Zenon
    <3> QED BY <2>2, <3>1, WriteRecordLen, Zenon
  <2> QED BY <2>1, <2>2
<1> HIDE DEF s
<1> QED BY <1>1, <1>2, <1>3, DecodeAgainInv, Zenon

\* So is the UPDATE converted from an entry.
LEMMA ConvertInv == ASSUME Inv, Convert PROVE Inv'
<1>1. /\ pc = "done" /\ source = "mrt" /\ rec.type = "RIB" /\ source' = "packet"
      /\ \E k \in DOMAIN rec.entries : DecodeAgain(WritePacket(ConvertToUpdateIndex(rec, k)))
  BY Zenon DEF Convert
<1>2. PICK k \in DOMAIN rec.entries : DecodeAgain(WritePacket(ConvertToUpdateIndex(rec, k)))
  BY <1>1
<1>3. rec \in Ribs
  <2>1. \/ rec \in MessageRecords /\ rec.type = "MESSAGE"
        \/ rec \in StateChanges \cup PeerIndexes
        \/ rec \in Ribs
        \/ rec.type = "TABLE_DUMP"
    BY <1>1, ResultType, Zenon
  <2>2. rec \notin StateChanges \cup PeerIndexes
    BY <1>1 DEF StateChanges, PeerIndexes
  <2>3. "RIB" # "MESSAGE" /\ "RIB" # "TABLE_DUMP"
    OBVIOUS
  <2> QED BY <1>1, <2>1, <2>2, <2>3, Zenon
<1>4. rec.nlri \in Routes /\ rec.entries \in Seq(Entries)
  BY <1>3 DEF Ribs, RibsWith
<1>5. WritePacket(ConvertToUpdateIndex(rec, k)) \in Seq(Byte)
  BY <1>4, ConversionType, WritePacketLen, Zenon
<1>6. source' \in {"socket", "packet", "mrt"}
  BY <1>1
<1> QED BY <1>1, <1>2, <1>5, <1>6, DecodeAgainInv, Zenon

-----------------------------------------------------------------------------
(* All steps, and the theorems.                                             *)

\* Every step keeps the invariant, and gets ahead unless nothing happens or what is returned is
\* written.
LEMMA NextInv == ASSUME Inv, [Next]_vars PROVE Inv' /\ [~Final => Advances]_vars
<1>1. CASE Decode
  <2>1. IInv' /\ Advances
    BY <1>1, PacketStep, MrtStep, Zenon DEF Decode, Inv
  <2> QED BY <1>1, <2>1, DecodeTyped, Zenon DEF Inv
<1>2. CASE Rewrite \/ Convert
  <2>1. Final
    BY <1>2 DEF Final, Rewrite, Convert
  <2> QED BY <1>2, <2>1, RewriteInv, ConvertInv, Zenon
<1>3. CASE UNCHANGED vars
  <2>1. IInv'
    BY <1>3, NextIInv DEF Inv
  <2> QED BY <1>3, <2>1, StaysTyped, Zenon DEF Inv
<1> QED BY <1>1, <1>2, <1>3, Zenon DEF Next

\* The invariant holds for every input.
LEMMA AlwaysInv == Spec => []Inv
<1>1. Init => Inv
  BY InitInv
<1>2. Inv /\ [Next]_vars => Inv'
  BY NextInv
<1> QED BY <1>1, <1>2, PTL DEF Spec

\* For every input, and for what is written and decoded again: the decoder stays within its slice and
\* the byteReader within its record, however the lengths in them lie.
THEOREM TypeCorrect == Spec => []TypeOK
<1>1. Inv => TypeOK
  BY DEF Inv, IInv
<1> QED BY <1>1, AlwaysInv, PTL

\* The length checks of all decoders suffice for every input: no slice is read or cut outside of its
\* bounds, by no decoder, also when it decodes what was written from any earlier result.
THEOREM NeverPanics == Spec => []NoPanic
<1>1. Inv => NoPanic
  BY DEF Inv, IInv
<1> QED BY <1>1, AlwaysInv, PTL

\* Every round of every loop of the decoders gets ahead in its slice, so that no input of a peer can
\* hold a decoder for ever.
THEOREM RoundsAdvance == Spec => LoopsAdvance
<1>1. Inv /\ [Next]_vars => [~Final /\ UNCHANGED caller /\ pc' # "panic" => i' >= i /\ (pc' = pc => i' > i)]_vars
  BY NextInv, Zenon DEF Advances
<1> QED BY <1>1, AlwaysInv, PTL DEF Spec, LoopsAdvance

\* Whether a record is generic depends on its AFI and SAFI.
LEMMA GenericSame ==
    ASSUME NEW r, NEW q, r.asAfiSafi = q.asAfiSafi, r.afi = q.afi, r.safi = q.safi
    PROVE  Generic(r) = Generic(q)
<1> DEFINE own == {t \in 2 .. 5 : RibSubtype[t].afi = r.afi /\ RibSubtype[t].safi = r.safi}
           its == {t \in 2 .. 5 : RibSubtype[t].afi = q.afi /\ RibSubtype[t].safi = q.safi}
<1>1. own = its
  BY Zenon
<1>2. /\ GetSubtype(r) = IF r.asAfiSafi /\ own # {} THEN CHOOSE t \in own : TRUE ELSE RIB_GENERIC
      /\ GetSubtype(q) = IF q.asAfiSafi /\ its # {} THEN CHOOSE t \in its : TRUE ELSE RIB_GENERIC
  BY Zenon DEF GetSubtype
<1> HIDE DEF own, its
<1>3. GetSubtype(r) = GetSubtype(q)
  BY <1>1, <1>2
<1> QED BY <1>3, Zenon DEF Generic

\* The lengths of a result.
LEMMA InvLenExact == Inv => LenExact
<1> SUFFICES ASSUME Inv, pc = "done" PROVE LenExact
  BY DEF LenExact
<1> DEFINE Message == source # "mrt" /\ Fits(msg) => Len(WritePacket(msg)) = LenPacket(msg)
<1>1. Message
  BY ResultType, WritePacketLen, Zenon DEF Fits
<1>2. CASE source # "mrt"
  <2>1. LenExact
    BY <1>1, <1>2, Zenon DEF LenExact
  <2> QED BY <2>1
<1>3. CASE source = "mrt" /\ rec \in MessageRecords /\ rec.type = "MESSAGE" /\ Result \in MessageResults
           /\ Result.peerIP = rec.peerIP /\ Result.message = msg
  <2>1. Result.type = "MESSAGE"
    BY <1>3 DEF MessageResults
  <2>2. ~Mapped(rec.peerIP) /\ Fits(msg) => Len(WriteRecord(Result)) = 12 + RecordLen(Result)
    BY <1>3, <2>1, WriteRecordLen, Zenon DEF Fits
  <2>3. rec.type # "PEER_INDEX" /\ rec.type # "RIB"
    BY <1>3
  <2> QED BY <1>3, <2>2, <2>3, Zenon DEF LenExact
<1>4. CASE source = "mrt" /\ rec \in StateChanges /\ Result = rec
  <2>1. rec.type = "STATE_CHANGE" /\ rec.type # "PEER_INDEX" /\ rec.type # "RIB" /\ rec.type # "MESSAGE"
    BY <1>4 DEF StateChanges
  <2>2. ~Mapped(rec.peerIP) => Len(WriteRecord(Result)) = 12 + RecordLen(Result)
    BY <1>4, <2>1, WriteRecordLen, Zenon
  <2> QED BY <1>4, <2>1, <2>2, Zenon DEF LenExact
<1>5. CASE source = "mrt" /\ rec \in PeerIndexes /\ Result = rec
  <2>1. rec.type = "PEER_INDEX" /\ rec.type # "STATE_CHANGE" /\ rec.type # "RIB" /\ rec.type # "MESSAGE"
    BY <1>5 DEF PeerIndexes
  <2>2. Len(WriteRecord(rec)) = 12 + RecordLen(rec)
    BY <1>5, <2>1, WriteRecordLen, Zenon
  <2> QED BY <1>5, <2>1, <2>2, Zenon DEF LenExact
<1>6. CASE source = "mrt" /\ rec \in Ribs /\ rec.type = "RIB" /\ Result \in RibResults
           /\ \A f \in {"asAfiSafi", "afi", "safi", "entries"} : Result[f] = rec[f]
  <2>1. /\ Result.asAfiSafi = rec.asAfiSafi /\ Result.afi = rec.afi /\ Result.safi = rec.safi
        /\ Result.entries = rec.entries
    BY <1>6
  <2>2. Generic(Result) = Generic(rec)
    BY <2>1, GenericSame
  <2>3. Result.type = "RIB"
    BY <1>6 DEF RibResults
  <2>4. (\A k \in DOMAIN rec.entries : Sound(rec.entries[k].attrs))
          => Len(WriteRecord(Result)) = 12 + RecordLen(Result) + (IF Generic(rec) THEN 1 ELSE 0)
    BY <1>6, <2>1, <2>2, <2>3, WriteRecordLen, Zenon
  <2>5. rec.type # "STATE_CHANGE" /\ rec.type # "PEER_INDEX" /\ rec.type # "MESSAGE"
    BY <1>6
  <2> QED BY <1>6, <2>4, <2>5, Zenon DEF LenExact
<1>7. CASE source = "mrt" /\ rec.type = "TABLE_DUMP"
  <2>1. rec.type # "STATE_CHANGE" /\ rec.type # "PEER_INDEX" /\ rec.type # "MESSAGE" /\ rec.type # "RIB"
    BY <1>7
  <2> QED BY <1>7, <2>1, Zenon DEF LenExact
<1> QED BY <1>2, <1>3, <1>4, <1>5, <1>6, <1>7, ResultType, Zenon

\* For whatever a decoder accepts, Len of a message or record is the number of bytes its Write writes,
\* within the limits that LenExact names: the length fields computed by Len never lie.
THEOREM LengthsExact == Spec => []LenExact
BY AlwaysInv, InvLenExact, PTL

-----------------------------------------------------------------------------
(* The attributes of an UPDATE, counted by their headers.                   *)

ByteAt(s, k) == IF k \in 0 .. Len(s) - 1 THEN s[k + 1] ELSE 0
Word(s, k) == 256 * ByteAt(s, k) + ByteAt(s, k + 1)

\* Where the attribute at k ends.
NextAt(s, k) == k + 3 + Extended(ByteAt(s, k))
                  + (IF Extended(ByteAt(s, k)) = 1 THEN Word(s, k + 2) ELSE ByteAt(s, k + 2))

\* AttributeCount in s.
CountFrom(s, to, g, k) ==
    IF k = to THEN 0
    ELSE LET rest == IF NextAt(s, k) <= to THEN g[NextAt(s, k)] ELSE -1 IN
         IF rest = -1 THEN -1 ELSE rest + 1
CountFunction(s, to) == CHOOSE g : g = [k \in 0 .. to |-> CountFrom(s, to, g, k)]
Count(s, from, to) == CountFunction(s, to)[from]

\* What is read of b.
LEMMA ReadIs ==
    ASSUME NEW k
    PROVE  At(k) = ByteAt(b, k) /\ Uint16(k) = Word(b, k)
BY Zenon DEF At, Size, ByteAt, Uint16, Word

\* AttributeCount reads b.
LEMMA CountIs ==
    ASSUME NEW from, NEW to
    PROVE  AttributeCount(from, to) = Count(b, from, to)
BY Zenon DEF AttributeCount, Count, CountFunction, CountFrom, NextAt, Word, ByteAt, Uint16, At, Size

\* Bytes and words are numbers, and the next attribute is behind this one.
LEMMA ByteAtType == ASSUME NEW s \in Seq(Byte), NEW k \in Int PROVE ByteAt(s, k) \in Nat /\ ByteAt(s, k) <= 255
<1>1. CASE k \in 0 .. Len(s) - 1
  <2>1. s[k + 1] \in Byte
    BY <1>1
  <2>2. ByteAt(s, k) = s[k + 1]
    BY <1>1, Zenon DEF ByteAt
  <2>3. \A x \in Byte : x \in Nat /\ x <= 255
    BY DEF Byte
  <2> QED BY <2>1, <2>2, <2>3, Zenon
<1>2. CASE k \notin 0 .. Len(s) - 1
  BY ONLY <1>2 DEF ByteAt
<1> QED BY <1>1, <1>2, Zenon

\* So are words.
LEMMA WordType == ASSUME NEW s \in Seq(Byte), NEW k \in Int PROVE Word(s, k) \in Nat
<1>1. ByteAt(s, k) \in Nat /\ ByteAt(s, k + 1) \in Nat
  <2>1. k + 1 \in Int
    OBVIOUS
  <2> QED BY <2>1, ByteAtType, Zenon
<1> QED BY ONLY <1>1 DEF Word

\* The next attribute is behind this one.
LEMMA NextLater ==
    ASSUME NEW s \in Seq(Byte), NEW k \in Nat
    PROVE  NextAt(s, k) \in Nat /\ NextAt(s, k) > k
<1>1. k \in Int /\ k + 2 \in Int
  OBVIOUS
<1>2. ByteAt(s, k) \in Nat /\ ByteAt(s, k + 2) \in Nat /\ Word(s, k + 2) \in Nat
  BY <1>1, ByteAtType, WordType, Zenon
<1>3. Extended(ByteAt(s, k)) \in {0, 1}
  BY <1>2, ExtendedBit, Zenon
<1> QED BY ONLY <1>2, <1>3 DEF NextAt

\* The recursive function of AttributeCount exists, since it only looks further behind.
LEMMA CountExists ==
    ASSUME NEW s \in Seq(Byte), NEW to \in Nat
    PROVE  \E g : \A k \in 0 .. to : g[k] = CountFrom(s, to, g, k)
<1> DEFINE T == {d \in Nat : d <= to => \E g : \A k \in to - d .. to : g[k] = CountFrom(s, to, g, k)}
<1>0. \A k \in Nat : NextAt(s, k) \in Nat /\ NextAt(s, k) > k
  BY NextLater
<1>1. 0 \in T
  <2> DEFINE g == [k \in 0 .. to |-> 0]
  <2>1. \A k \in to - 0 .. to : g[k] = CountFrom(s, to, g, k)
    BY DEF CountFrom
  <2> QED BY <2>1
<1>2. ASSUME NEW d \in Nat, d \in T PROVE d + 1 \in T
  <2> SUFFICES ASSUME d + 1 <= to
               PROVE \E g : \A k \in to - (d + 1) .. to : g[k] = CountFrom(s, to, g, k)
    OBVIOUS
  <2> DEFINE m == to - d
  <2>1. m \in Nat /\ m - 1 \in Nat /\ to - (d + 1) = m - 1 /\ m <= to
    OBVIOUS
  <2>2. PICK g : \A k \in m .. to : g[k] = CountFrom(s, to, g, k)
    BY <1>2
  <2> HIDE DEF m
  <2> DEFINE h == [k \in m - 1 .. to |-> IF k = m - 1 THEN CountFrom(s, to, g, k) ELSE g[k]]
  <2>3. \A k \in m .. to : h[k] = g[k]
    BY <2>1
  <2>4. h[m - 1] = CountFrom(s, to, g, m - 1)
    BY <2>1
  <2> HIDE DEF h
  <2>5. ASSUME NEW k \in m - 1 .. to PROVE CountFrom(s, to, h, k) = CountFrom(s, to, g, k)
    <3>1. NextAt(s, k) \in Nat /\ NextAt(s, k) > k
      BY <1>0, <2>1
    <3>2. NextAt(s, k) <= to => NextAt(s, k) \in m .. to
      BY <3>1, <2>1
    <3> QED BY <3>2, <2>3, Zenon DEF CountFrom
  <2>6. \A k \in m - 1 .. to : h[k] = CountFrom(s, to, h, k)
    <3> TAKE k \in m - 1 .. to
    <3>1. k = m - 1 \/ k \in m .. to
      BY <2>1
    <3> QED BY <3>1, <2>2, <2>3, <2>4, <2>5, Zenon
  <2> QED BY <2>1, <2>6
<1>3. to \in T
  <2> HIDE DEF T
  <2> QED BY <1>1, <1>2, Induction
<1> QED
  BY <1>3

\* So AttributeCount is what its definition says.
LEMMA CountUnfolds ==
    ASSUME NEW s \in Seq(Byte), NEW to \in Nat, NEW k \in 0 .. to
    PROVE  Count(s, k, to) =
             IF k = to THEN 0
             ELSE IF NextAt(s, k) <= to /\ Count(s, NextAt(s, k), to) # -1
                  THEN Count(s, NextAt(s, k), to) + 1 ELSE -1
<1> DEFINE F(g) == [j \in 0 .. to |-> CountFrom(s, to, g, j)]
           c == CountFunction(s, to)
<1>1. PICK g : \A j \in 0 .. to : g[j] = CountFrom(s, to, g, j)
  BY CountExists
<1> DEFINE h == [j \in 0 .. to |-> g[j]]
<1>2. h = F(h)
  <2>1. \A j \in 0 .. to : NextAt(s, j) <= to => NextAt(s, j) \in 0 .. to
    BY NextLater
  <2>2. \A j \in 0 .. to : h[j] = g[j]
    OBVIOUS
  <2> HIDE DEF h
  <2>3. \A j \in 0 .. to : CountFrom(s, to, h, j) = CountFrom(s, to, g, j)
    BY <2>1, <2>2, Zenon DEF CountFrom
  <2>4. \A j \in 0 .. to : h[j] = CountFrom(s, to, h, j)
    BY <1>1, <2>2, <2>3, Zenon
  <2>5. h = [j \in 0 .. to |-> h[j]]
    BY DEF h
  <2> QED BY <2>4, <2>5
<1>3. c = F(c)
  <2> HIDE DEF h
  <2> QED BY <1>2, Zenon DEF CountFunction
<1>4. c[k] = CountFrom(s, to, c, k)
  <2> HIDE DEF c
  <2> QED BY <1>3
<1> HIDE DEF c
<1> QED
  BY <1>4, Zenon DEF Count, CountFrom, c

\* A count is a number, or -1.
LEMMA CountType ==
    ASSUME NEW s \in Seq(Byte), NEW to \in Nat, NEW k \in 0 .. to
    PROVE  Count(s, k, to) \in Nat \cup {-1}
<1> DEFINE T == {d \in Nat : \A j \in 0 .. to : to - d <= j => Count(s, j, to) \in Nat \cup {-1}}
<1>1. 0 \in T
  <2> SUFFICES ASSUME NEW j \in 0 .. to, to - 0 <= j PROVE Count(s, j, to) \in Nat \cup {-1}
    OBVIOUS
  <2>1. j = to
    OBVIOUS
  <2> QED BY <2>1, CountUnfolds
<1>2. ASSUME NEW d \in Nat, d \in T PROVE d + 1 \in T
  <2> SUFFICES ASSUME NEW j \in 0 .. to, to - (d + 1) <= j PROVE Count(s, j, to) \in Nat \cup {-1}
    OBVIOUS
  <2>1. NextAt(s, j) \in Nat /\ NextAt(s, j) > j
    BY NextLater
  <2>2. NextAt(s, j) <= to => NextAt(s, j) \in 0 .. to /\ to - d <= NextAt(s, j)
    BY <2>1
  <2>3. NextAt(s, j) <= to => Count(s, NextAt(s, j), to) \in Nat \cup {-1}
    BY <1>2, <2>2
  <2> QED BY <2>3, CountUnfolds
<1>3. to \in T
  <2> HIDE DEF T
  <2> QED BY <1>1, <1>2, Induction
<1> QED BY <1>3

-----------------------------------------------------------------------------
(* Nothing is skipped: the invariant.                                       *)

\* An UPDATE says how long its withdrawn routes are, and where its attributes begin and end.
Gone(s) == Word(s, 0)
From(s) == Gone(s) + 4
To(s)   == From(s) + Word(s, From(s) - 2)

\* The attributes of s before k are n, and those of all of s, if they end at their end.
Reached(s, k, n) ==
    /\ k \in 0 .. To(s)
    /\ Count(s, From(s), To(s)) = IF Count(s, k, To(s)) = -1 THEN -1 ELSE n + Count(s, k, To(s))
Counted(s, n) == Count(s, From(s), To(s)) = n

InNLRI(ret) == pc = "nlri" /\ nlri.ret = ret
OfUpdate    == InAttributes /\ attr.ret = "attributes"
AtWithdrawn == pc = "withdrawn" \/ InNLRI("withdrawn")
AtPrefixes  == pc = "prefixes" \/ InNLRI("prefixes")

\* The prefixes read so far take up what has been read of their slice.
WithdrawnRead ==
    AtWithdrawn => /\ end = Gone(b) + 2 /\ msg.attrs = <<>> /\ msg.nlri = <<>>
                   /\ nlri.path = msg.addPath
                   /\ pc = "nlri" \/ ~failed => LenNLRIs(nlri.list, msg.addPath) = i - 2
WithdrawnKept ==
    OfUpdate \/ pc = "attributes" \/ AtPrefixes =>
        LenNLRIs(msg.withdrawn, msg.addPath) = Gone(b) /\ attrsEnd = To(b) /\ msg.nlri = <<>>
AttributesRead ==
    OfUpdate => IF pc = "attrs" THEN Reached(b, i, Len(msg.attrs))
                                ELSE Reached(b, attrEnd, Len(msg.attrs) + 1)
AttributesKept ==
    (pc = "attributes" /\ ~failed) \/ AtPrefixes => Counted(b, Len(msg.attrs))
PrefixesRead ==
    AtPrefixes => /\ end = Size /\ nlri.path = msg.addPath
                  /\ pc = "nlri" \/ ~failed => LenNLRIs(nlri.list, msg.addPath) = i - To(b)
\* A list that was read without an error ends where its slice does.
ListsEnd == pc \in {"withdrawn", "prefixes"} /\ ~failed => i = end
AllRead ==
    pc \in {"done", "partial"} /\ source # "mrt" /\ msg.type = "UPDATE" =>
        /\ pc = "done" \/ msg.nlri # <<>> => Counted(b, Len(msg.attrs))
        /\ pc = "done" => /\ LenNLRIs(msg.withdrawn, msg.addPath) = Gone(b)
                          /\ LenNLRIs(msg.nlri, msg.addPath) = Size - To(b)
Accounted ==
    WithdrawnRead /\ WithdrawnKept /\ AttributesRead /\ AttributesKept /\ PrefixesRead /\ ListsEnd /\ AllRead

\* Outside of an UPDATE there is nothing to account for.
Elsewhere == /\ ~AtWithdrawn /\ ~OfUpdate /\ pc # "attributes" /\ ~AtPrefixes
             /\ pc \in {"done", "partial"} => source = "mrt" \/ msg.type # "UPDATE"

\* Trivially so.
LEMMA ElsewhereAccounted == Elsewhere => Accounted
BY DEF Elsewhere, Accounted, WithdrawnRead, WithdrawnKept, AttributesRead, AttributesKept,
   PrefixesRead,
       ListsEnd, AllRead, AtWithdrawn, AtPrefixes

-----------------------------------------------------------------------------
(* What a step among the attributes does.                                   *)

Leaves   == pc' = attr.ret /\ failed' = TRUE /\ msg' \in {msg, [msg EXCEPT !.attrs = <<>>]}
Finishes == pc = "attrs" /\ i >= attrsEnd /\ pc' = attr.ret /\ msg' = msg
Enters   == /\ pc = "attrs" /\ pc' = "attr" /\ i < attrsEnd
            /\ attrEnd' = NextAt(b, i) /\ attrEnd' <= attrsEnd /\ msg' = msg
Goes     == /\ pc # "attrs" /\ UNCHANGED <<attrEnd, msg>>
            /\ pc' \in {"aspath", "reach", "unreach"} \/ (pc' = "nlri" /\ nlri'.ret \in {"reach", "unreach"})
Adds     == /\ pc # "attrs" /\ pc' = "attrs" /\ i' = attrEnd /\ UNCHANGED attrEnd
            /\ \E a : msg' = [msg EXCEPT !.attrs = Append(@, a)]
AttributeStep == /\ UNCHANGED <<b, attrsEnd, source>> /\ attr'.ret = attr.ret
                 /\ Leaves \/ Finishes \/ Enters \/ Goes \/ Adds

\* An error.
LEMMA ReturnsError == ASSUME ReturnAttributes(TRUE) PROVE AttributeStep
<1>1. Leaves /\ UNCHANGED <<b, attrsEnd, source, attr>>
  BY DEF ReturnAttributes, Leaves, caller
<1> QED BY <1>1, Zenon DEF AttributeStep

\* An attribute is complete.
LEMMA AppendsAttribute == ASSUME pc # "attrs", NEW a, AppendAttribute(a) PROVE AttributeStep
<1>1. UNCHANGED <<b, attrsEnd, source, attr, attrEnd>>
  BY DEF AppendAttribute, caller
<1>2. Adds
  BY <1>1, Zenon DEF AppendAttribute, Adds
<1> QED BY <1>1, <1>2, Zenon DEF AttributeStep

\* The prefixes of an attribute.
LEMMA CallsNLRI ==
    ASSUME pc = "attr", NEW from, NEW to, NEW afi, NEW path, NEW ret \in {"reach", "unreach"},
           CallParseNLRI(from, to, afi, path, ret), attr'.ret = attr.ret,
           UNCHANGED <<b, session, attrsEnd, attrEnd, msg, caller>>
    PROVE  AttributeStep
<1>1. UNCHANGED <<b, attrsEnd, source, attrEnd, msg>>
  BY DEF caller
<1>2. pc' \in {"reach", "unreach"} \/ (pc' = "nlri" /\ nlri'.ret \in {"reach", "unreach"})
  BY DEF CallParseNLRI
<1>3. Goes
  BY <1>1, <1>2 DEF Goes
<1> QED BY <1>1, <1>3, Zenon DEF AttributeStep

\* A round of ParseNLRI within an attribute.
LEMMA NLRIOfAttribute ==
    ASSUME Inv, ParseNLRI, nlri.ret \in {"reach", "unreach"}, pc' # "panic"
    PROVE  AttributeStep
<1>1. /\ pc = "nlri"
      /\ \/ \E list, err : ReturnNLRI(list, err)
         \/ /\ \E x : nlri' = [nlri EXCEPT !.list = x]
            /\ UNCHANGED <<b, session, pc, end, attrsEnd, attrEnd, attr, failed, msg, caller>>
  BY Zenon DEF ParseNLRI, ParsePrefix, Reading
<1>2. "ret" \in DOMAIN nlri
  BY DEF Inv, IInv, Returns
<1>3. CASE \E list, err : ReturnNLRI(list, err)
  <2>1. pc' = nlri.ret /\ UNCHANGED <<b, attrsEnd, source, attr, attrEnd, msg>>
    BY <1>3 DEF ReturnNLRI, caller
  <2>2. Goes
    BY <1>1, <2>1 DEF Goes
  <2> QED BY <2>1, <2>2, Zenon DEF AttributeStep
<1>4. CASE /\ \E x : nlri' = [nlri EXCEPT !.list = x]
           /\ UNCHANGED <<b, session, pc, end, attrsEnd, attrEnd, attr, failed, msg, caller>>
  <2>1. UNCHANGED <<b, attrsEnd, source, attr, attrEnd, msg, pc>> /\ nlri'.ret = nlri.ret
    BY <1>2, <1>4 DEF caller
  <2>2. Goes
    BY <1>1, <2>1 DEF Goes
  <2> QED BY <2>1, <2>2, Zenon DEF AttributeStep
<1> QED BY <1>1, <1>3, <1>4

\* The header of an attribute: it ends where NextAt says.
LEMMA HeaderOfAttribute == ASSUME Inv, ParseAttributeHeader, pc' # "panic" PROVE AttributeStep
<1> DEFINE ext == Extended(At(i))
           start == i + 3 + ext
           length == IF ext = 1 THEN Uint16(i + 2) ELSE At(i + 2)
<1>1. /\ pc = "attrs"
      /\ \/ i >= attrsEnd /\ ReturnAttributes(FALSE)
         \/ ReturnAttributes(TRUE)
         \/ i < attrsEnd /\ EnterAttribute(start, length)
  BY Zenon DEF ParseAttributeHeader, Reading
<1>2. CASE i >= attrsEnd /\ ReturnAttributes(FALSE)
  <2>1. Finishes /\ UNCHANGED <<b, attrsEnd, source, attr>>
    BY <1>1, <1>2 DEF ReturnAttributes, Finishes, caller
  <2> QED BY <2>1, Zenon DEF AttributeStep
<1>3. CASE i < attrsEnd /\ EnterAttribute(start, length) /\ ~ReturnAttributes(TRUE)
  <2>1. /\ ~(start + length > attrsEnd) /\ attrEnd' = start + length /\ pc' = "attr"
        /\ attr' = [ret |-> attr.ret, flag |-> At(i), code |-> At(i + 1)]
        /\ UNCHANGED <<b, attrsEnd, msg, caller>>
    BY <1>3, Zenon DEF EnterAttribute, Reading
  <2>2. start + length = NextAt(b, i)
    <3>1. At(i) = ByteAt(b, i) /\ At(i + 2) = ByteAt(b, i + 2) /\ Uint16(i + 2) = Word(b, i + 2)
      BY ReadIs, Zenon
    <3> QED BY ONLY <3>1, Zenon DEF NextAt, start, length, ext
  <2>3. i \in Nat /\ attrsEnd \in Nat /\ b \in Seq(Byte)
    BY Facts, Zenon DEF Inv, IInv, Readable, TypeOK
  <2>4. NextAt(b, i) \in Nat
    BY <2>3, NextLater
  <2>5. NextAt(b, i) <= attrsEnd
    BY ONLY <2>1, <2>2, <2>3, <2>4
  <2>6. attr'.ret = attr.ret /\ UNCHANGED <<b, attrsEnd, source, msg>>
    BY <2>1 DEF caller
  <2>7. Enters
    BY <1>1, <1>3, <2>1, <2>2, <2>5, <2>6, Zenon DEF Enters
  <2> QED BY <2>6, <2>7, Zenon DEF AttributeStep
<1> QED BY <1>1, <1>2, <1>3, ReturnsError, Zenon

\* The content of an attribute.
LEMMA ContentOfAttribute ==
    ASSUME pc = "attr" \/ pc = "aspath" \/ pc = "reach" \/ pc = "unreach", UpdateNext, pc' # "panic"
    PROVE  AttributeStep
<1>1. pc # "attrs" /\ pc # "nlri"
  OBVIOUS
<1>2. CASE ParseOrigin \/ ParseMedLocPref \/ ParseAggregator \/ ParseAtomicAggregate \/ ParseCommunities
           \/ ParseUnknown
  <2>1. ReturnAttributes(TRUE) \/ \E a : AppendAttribute(a)
    BY <1>2, Zenon DEF ParseOrigin, ParseMedLocPref, ParseAggregator, ParseAtomicAggregate,
                       ParseCommunities, ParseUnknown, Reading
  <2> QED BY <1>1, <2>1, ReturnsError, AppendsAttribute, Zenon
<1>3. CASE ParseNextHop
  <2>1. \/ \E a : AppendAttribute(a)
        \/ /\ pc' = attr.ret /\ failed' = TRUE /\ msg' = [msg EXCEPT !.attrs = <<>>]
           /\ UNCHANGED <<b, session, i, end, attrsEnd, attrEnd, nlri, attr, caller>>
    BY <1>3, Zenon DEF ParseNextHop, Reading
  <2>2. ASSUME /\ pc' = attr.ret /\ failed' = TRUE /\ msg' = [msg EXCEPT !.attrs = <<>>]
               /\ UNCHANGED <<b, session, i, end, attrsEnd, attrEnd, nlri, attr, caller>>
        PROVE AttributeStep
    <3>1. Leaves /\ UNCHANGED <<b, attrsEnd, source, attr>>
      BY <2>2 DEF Leaves, caller
    <3> QED BY <3>1, Zenon DEF AttributeStep
  <2> QED BY <1>1, <2>1, <2>2, AppendsAttribute, Zenon
<1>4. CASE ParseASPath
  <2>1. /\ pc' = "aspath" /\ attr'.ret = attr.ret /\ UNCHANGED <<b, attrsEnd, source, attrEnd, msg>>
    BY <1>4 DEF ParseASPath, caller
  <2>2. Goes
    BY <1>1, <2>1 DEF Goes
  <2> QED BY <2>1, <2>2, Zenon DEF AttributeStep
<1>5. CASE ParseASPathSegment
  <2>1. \/ \E a : AppendAttribute(a)
        \/ /\ \E x : attr' = [attr EXCEPT !.segments = x]
           /\ pc = "aspath" /\ UNCHANGED <<b, session, pc, end, attrsEnd, attrEnd, nlri, failed, msg, caller>>
    BY <1>5, Zenon DEF ParseASPathSegment, Reading
  <2>2. ASSUME /\ \E x : attr' = [attr EXCEPT !.segments = x]
               /\ pc = "aspath" /\ UNCHANGED <<b, session, pc, end, attrsEnd, attrEnd, nlri, failed, msg, caller>>
        PROVE AttributeStep
    <3>1. \A x : [attr EXCEPT !.segments = x].ret = attr.ret
      OBVIOUS
    <3>2. pc' = "aspath" /\ attr'.ret = attr.ret /\ UNCHANGED <<b, attrsEnd, source, attrEnd, msg>>
      BY <2>2, <3>1 DEF caller
    <3>3. Goes
      BY <1>1, <3>2 DEF Goes
    <3> QED BY <3>2, <3>3, Zenon DEF AttributeStep
  <2> QED BY <1>1, <2>1, <2>2, AppendsAttribute, Zenon
<1>6. CASE ParseReach
  <2> DEFINE path == InAfiSafi(Uint16(i), At(i + 2))
             a == [ret |-> attr.ret, afi |-> Uint16(i), safi |-> At(i + 2),
                   nextHop |-> Bytes(i + 4, At(i + 3)), addPath |-> path]
  <2>1. \/ ReturnAttributes(TRUE)
        \/ /\ attr' = a /\ \E from, to, afi : CallParseNLRI(from, to, afi, path, "reach")
           /\ pc = "attr" /\ UNCHANGED <<b, session, attrsEnd, attrEnd, msg, caller>>
    BY <1>6, Zenon DEF ParseReach, Reading, Case
  <2>2. a.ret = attr.ret /\ "reach" \in {"reach", "unreach"}
    OBVIOUS
  <2> HIDE DEF path, a
  <2> QED BY <2>1, <2>2, ReturnsError, CallsNLRI, Zenon
<1>7. CASE ParseUnreach
  <2> DEFINE path == InAfiSafi(Uint16(i), At(i + 2))
             a == [ret |-> attr.ret, afi |-> Uint16(i), safi |-> At(i + 2)]
  <2>1. \/ ReturnAttributes(TRUE)
        \/ /\ attr' = a /\ \E from, to, afi : CallParseNLRI(from, to, afi, path, "unreach")
           /\ pc = "attr" /\ UNCHANGED <<b, session, attrsEnd, attrEnd, msg, caller>>
    BY <1>7, Zenon DEF ParseUnreach, Reading, Case
  <2>2. a.ret = attr.ret /\ "unreach" \in {"reach", "unreach"}
    OBVIOUS
  <2> HIDE DEF path, a
  <2> QED BY <2>1, <2>2, ReturnsError, CallsNLRI, Zenon
<1>8. CASE ReachParsed \/ UnreachParsed
  <2>1. \E a : AppendAttribute(a)
    BY <1>8, Zenon DEF ReachParsed, UnreachParsed
  <2> QED BY <1>1, <2>1, AppendsAttribute, Zenon
<1>9. ~ParseUpdate /\ ~WithdrawnParsed /\ ~AttributesParsed /\ ~UpdateParsed /\ ~ParseNLRI /\ ~ParseAttributeHeader
  BY DEF ParseUpdate, WithdrawnParsed, AttributesParsed, UpdateParsed, ParseNLRI,
     ParseAttributeHeader
<1> QED BY <1>2, <1>3, <1>4, <1>5, <1>6, <1>7, <1>8, <1>9, Zenon DEF UpdateNext

\* So every step among the attributes is one of these.
LEMMA AttributeStepIs == ASSUME Inv, InAttributes, UpdateNext, pc' # "panic" PROVE AttributeStep
<1>1. CASE pc = "attrs"
  <2>1. ParseAttributeHeader
    BY <1>1, Zenon DEF UpdateNext, ParseUpdate, WithdrawnParsed, AttributesParsed, UpdateParsed,
       ParseNLRI,
         ParseOrigin, ParseMedLocPref, ParseAggregator, ParseAtomicAggregate, ParseNextHop,
         ParseCommunities, ParseUnknown, ParseASPath, ParseASPathSegment, ParseReach, ReachParsed,
         ParseUnreach, UnreachParsed, Case
  <2> QED BY <2>1, HeaderOfAttribute
<1>2. CASE pc = "nlri" /\ nlri.ret \in {"reach", "unreach"}
  <2>1. ParseNLRI
    BY <1>2, Zenon DEF UpdateNext, ParseUpdate, WithdrawnParsed, AttributesParsed, UpdateParsed,
         ParseAttributeHeader, ParseOrigin, ParseMedLocPref, ParseAggregator, ParseAtomicAggregate,
         ParseNextHop, ParseCommunities, ParseUnknown, ParseASPath, ParseASPathSegment, ParseReach,
         ReachParsed, ParseUnreach, UnreachParsed, Case
  <2> QED BY <1>2, <2>1, NLRIOfAttribute
<1>3. CASE pc \in {"attr", "aspath", "reach", "unreach"}
  BY <1>3, ContentOfAttribute
<1> QED BY <1>1, <1>2, <1>3 DEF InAttributes

-----------------------------------------------------------------------------
(* The attributes.                                                          *)

\* What is known among the attributes of an UPDATE.
LEMMA OfUpdateFacts ==
    ASSUME Inv, Accounted, OfUpdate
    PROVE  /\ b \in Seq(Byte) /\ msg \in Updates /\ Len(msg.attrs) \in Nat /\ i \in Nat
           /\ To(b) \in Nat /\ From(b) \in 0 .. To(b)
           /\ LenNLRIs(msg.withdrawn, msg.addPath) = Gone(b) /\ attrsEnd = To(b) /\ msg.nlri = <<>>
           /\ IF pc = "attrs" THEN Reached(b, i, Len(msg.attrs)) ELSE Reached(b, attrEnd, Len(msg.attrs) + 1)
<1>1. b \in Seq(Byte) /\ i \in Nat /\ msg \in Updates
  BY Facts, Zenon DEF Inv, IInv, Readable, TypeOK, Typed, MessageTyped, InUpdate, OfUpdate
<1>2. Len(msg.attrs) \in Nat
  BY ONLY <1>1 DEF Updates
<1>3. To(b) \in Nat /\ From(b) \in 0 .. To(b)
  <2>1. Word(b, 0) \in Nat
    BY <1>1, WordType
  <2>2. From(b) \in Nat /\ From(b) - 2 \in Int
    BY ONLY <2>1 DEF From, Gone
  <2>3. Word(b, From(b) - 2) \in Nat
    BY <1>1, <2>2, WordType
  <2> QED BY ONLY <2>2, <2>3 DEF To
<1> QED BY <1>1, <1>2, <1>3, Zenon DEF Accounted, WithdrawnKept, AttributesRead

\* The attribute at k is one more.
LEMMA ReachedNext ==
    ASSUME NEW s \in Seq(Byte), To(s) \in Nat, NEW k \in Nat, k < To(s), NEW n \in Nat, Reached(s, k, n),
           NextAt(s, k) <= To(s)
    PROVE  Reached(s, NextAt(s, k), n + 1)
<1> DEFINE next == NextAt(s, k)
           to == To(s)
<1>1. next \in 0 .. to
  BY NextLater
<1>2. k \in 0 .. to /\ k # to
  OBVIOUS
<1>3. Count(s, k, to) = IF Count(s, next, to) # -1 THEN Count(s, next, to) + 1 ELSE -1
  BY <1>1, <1>2, CountUnfolds
<1>4. Count(s, next, to) \in Nat \cup {-1}
  BY <1>1, CountType
<1>5. Count(s, From(s), to) = IF Count(s, k, to) = -1 THEN -1 ELSE n + Count(s, k, to)
  BY Zenon DEF Reached
<1> HIDE DEF next, to
<1>6. Count(s, From(s), to) = IF Count(s, next, to) = -1 THEN -1 ELSE n + 1 + Count(s, next, to)
  BY ONLY <1>3, <1>4, <1>5, n \in Nat
<1> QED BY <1>1, <1>6, Zenon DEF Reached, next, to

\* At the end all have been counted.
LEMMA ReachedEnd ==
    ASSUME NEW s \in Seq(Byte), To(s) \in Nat, NEW n \in Nat, Reached(s, To(s), n)
    PROVE  Counted(s, n)
<1>1. Count(s, To(s), To(s)) = 0
  BY CountUnfolds
<1>2. Count(s, From(s), To(s)) = IF Count(s, To(s), To(s)) = -1 THEN -1 ELSE n + Count(s, To(s), To(s))
  BY Zenon DEF Reached
<1> QED BY ONLY <1>1, <1>2, n \in Nat DEF Counted

\* At the beginning none has.
LEMMA ReachedStart ==
    ASSUME NEW s \in Seq(Byte), To(s) \in Nat, From(s) \in 0 .. To(s)
    PROVE  Reached(s, From(s), 0)
<1>1. Count(s, From(s), To(s)) \in Nat \cup {-1}
  BY CountType
<1> QED BY <1>1 DEF Reached

\* Every such step keeps the attributes accounted for: those counted so far and those to come.
LEMMA InAttributesAccounted ==
    ASSUME Inv, Accounted, InAttributes, AttributeStep PROVE Accounted'
<1>1. UNCHANGED <<b, attrsEnd, source>> /\ attr'.ret = attr.ret /\ (Leaves \/ Finishes \/ Enters \/ Goes \/ Adds)
  BY Zenon DEF AttributeStep
<1>2. attr.ret \in {"attributes", "entry", "tableDumpAttributes"}
  BY DEF Inv, IInv, AttributesInside
<1>3. CASE attr.ret # "attributes"
  <2>1. /\ pc' \in {"entry", "tableDumpAttributes", "attrs", "attr", "aspath", "reach", "unreach", "nlri"}
        /\ pc' = "nlri" => nlri'.ret \in {"reach", "unreach"}
    BY <1>1, <1>2, <1>3 DEF Leaves, Finishes, Enters, Goes, Adds
  <2>2. Elsewhere'
    BY <1>1, <1>3, <2>1 DEF Elsewhere, AtWithdrawn, OfUpdate, AtPrefixes, InNLRI
  <2>3. Elsewhere' => Accounted'
    BY ElsewhereAccounted, PTL
  <2> QED BY <2>2, <2>3
<1>4. CASE attr.ret = "attributes"
  <2>1. OfUpdate
    BY <1>4 DEF OfUpdate
  <2>2. /\ b \in Seq(Byte) /\ msg \in Updates /\ Len(msg.attrs) \in Nat /\ i \in Nat
        /\ To(b) \in Nat /\ From(b) \in 0 .. To(b)
        /\ LenNLRIs(msg.withdrawn, msg.addPath) = Gone(b) /\ attrsEnd = To(b) /\ msg.nlri = <<>>
        /\ IF pc = "attrs" THEN Reached(b, i, Len(msg.attrs)) ELSE Reached(b, attrEnd, Len(msg.attrs) + 1)
    BY <2>1, OfUpdateFacts
  <2>3. CASE Leaves
    <3>1. pc' = "attributes" /\ failed' = TRUE
      BY <1>4, <2>3 DEF Leaves
    <3>2. msg'.withdrawn = msg.withdrawn /\ msg'.nlri = msg.nlri /\ msg'.addPath = msg.addPath
      <4>1. msg' = msg \/ msg' = [msg EXCEPT !.attrs = <<>>]
        BY <2>3 DEF Leaves
      <4> QED BY ONLY <2>2, <4>1 DEF Updates
    <3>3. WithdrawnKept'
      BY <1>1, <2>2, <3>2, Zenon DEF WithdrawnKept
    <3> QED BY <3>1, <3>3 DEF Accounted, WithdrawnRead, AttributesRead, AttributesKept,
               PrefixesRead, ListsEnd,
                AllRead, AtWithdrawn, AtPrefixes, OfUpdate, InAttributes, InNLRI
  <2>4. CASE Finishes
    <3>1. pc' = "attributes" /\ msg' = msg /\ pc = "attrs" /\ i >= attrsEnd
      BY <1>4, <2>4 DEF Finishes
    <3>2. i = To(b)
      <4>1. i <= attrsEnd
        BY <3>1 DEF Inv, IInv, AttributesInside
      <4> QED BY ONLY <2>2, <3>1, <4>1
    <3>3. Counted(b, Len(msg.attrs))
      BY <2>2, <3>1, <3>2, ReachedEnd
    <3>4. WithdrawnKept' /\ AttributesKept'
      BY <1>1, <2>2, <3>1, <3>3, Zenon DEF WithdrawnKept, AttributesKept
    <3> QED BY <3>1, <3>4 DEF Accounted, WithdrawnRead, AttributesRead, PrefixesRead, ListsEnd,
                AllRead, AtWithdrawn, AtPrefixes, OfUpdate, InAttributes, InNLRI
  <2>5. ASSUME pc' # "attributes", InAttributes', msg'.withdrawn = msg.withdrawn, msg'.nlri = msg.nlri,
               msg'.addPath = msg.addPath,
               IF pc' = "attrs" THEN Reached(b, i', Len(msg'.attrs)) ELSE Reached(b, attrEnd', Len(msg'.attrs) + 1)
        PROVE Accounted'
    <3>1. WithdrawnKept' /\ AttributesRead'
      BY <1>1, <2>2, <2>5, Zenon DEF WithdrawnKept, AttributesRead
    <3>2. ~AtWithdrawn' /\ ~AtPrefixes' /\ pc' \notin {"withdrawn", "prefixes", "done", "partial"}
      BY <2>5 DEF AtWithdrawn, AtPrefixes, InAttributes, InNLRI
    <3> QED BY <2>5, <3>1, <3>2, Zenon DEF Accounted, WithdrawnRead, AttributesKept, PrefixesRead,
               ListsEnd, AllRead
  <2>6. CASE Enters
    <3>1. pc = "attrs" /\ pc' = "attr" /\ i < To(b) /\ attrEnd' = NextAt(b, i) /\ NextAt(b, i) <= To(b) /\ msg' = msg
      BY <2>2, <2>6 DEF Enters
    <3>2. Reached(b, attrEnd', Len(msg.attrs) + 1)
      BY <2>2, <3>1, ReachedNext
    <3>3. InAttributes' /\ pc' # "attributes" /\ pc' # "attrs"
      BY <3>1 DEF InAttributes
    <3> QED BY <2>5, <3>1, <3>2, <3>3
  <2>7. CASE Goes
    <3>1. InAttributes' /\ pc' # "attributes" /\ pc' # "attrs" /\ pc # "attrs" /\ UNCHANGED <<attrEnd, msg>>
      BY <2>7 DEF InAttributes, Goes
    <3> QED BY <2>2, <2>5, <3>1
  <2>8. CASE Adds
    <3>1. pc # "attrs" /\ pc' = "attrs" /\ i' = attrEnd /\ \E a : msg' = [msg EXCEPT !.attrs = Append(@, a)]
      BY <2>8 DEF Adds
    <3>2. PICK a : msg' = [msg EXCEPT !.attrs = Append(@, a)]
      BY <3>1
    <3>3. /\ msg'.withdrawn = msg.withdrawn /\ msg'.nlri = msg.nlri /\ msg'.addPath = msg.addPath
          /\ Len(msg'.attrs) = Len(msg.attrs) + 1
      BY ONLY <2>2, <3>2 DEF Updates
    <3>4. InAttributes' /\ pc' # "attributes"
      BY <3>1 DEF InAttributes
    <3> QED BY <2>2, <2>5, <3>1, <3>3, <3>4
  <2> QED BY <1>1, <2>3, <2>4, <2>6, <2>7, <2>8
<1> QED BY <1>3, <1>4

-----------------------------------------------------------------------------
(* The prefixes.                                                            *)

\* A prefix is written in as many bytes as it was read from.
LEMMA PrefixLen ==
    ASSUME nlri \in NLRIs, NEW k, NEW bits \in Nat, bits <= 8 * nlri.size
    PROVE  NLRILen(Prefix(k, bits), nlri.path) = (IF nlri.path THEN 4 ELSE 0) + 1 + (bits + 7) \div 8
<1>1. nlri.size \in {4, 16}
  BY DEF NLRIs
<1>2. bits \in 0 .. 8 * nlri.size
  BY <1>1
<1>3. Ones(Mask(nlri.size)[bits]) = bits
  BY <1>1, <1>2, OnesOfMask
<1>4. Prefix(k, bits).mask = Mask(nlri.size)[bits]
  BY DEF Prefix
<1> QED BY <1>3, <1>4, Zenon DEF NLRILen, GetSplitLen

\* What one more prefix adds to the length of a list.
LEMMA OneMore ==
    ASSUME Inv, pc = "nlri", NEW k, nlri' = [nlri EXCEPT !.list = Append(@, Prefix(k + 1, At(k)))],
           k = (IF nlri.path THEN i + 4 ELSE i), ~(At(k) > 8 * nlri.size),
           i' = k + 1 + (At(k) + 7) \div 8, NEW start \in Int,
           LenNLRIs(nlri.list, nlri.path) = i - start
    PROVE  LenNLRIs(nlri'.list, nlri.path) = i' - start
<1>1. b \in Seq(Byte) /\ i \in Nat /\ nlri \in NLRIs
  BY Facts, Zenon DEF Inv, IInv, Readable, TypeOK, Typed, SliceTyped
<1>2. /\ nlri.list \in Seq(Routes) /\ nlri.path \in BOOLEAN /\ nlri.size \in {4, 16}
      /\ nlri'.list = Append(nlri.list, Prefix(k + 1, At(k)))
  BY ONLY <1>1, nlri' = [nlri EXCEPT !.list = Append(@, Prefix(k + 1, At(k)))] DEF NLRIs
<1>3. k \in Nat /\ k + 1 \in Nat
  BY <1>1
<1>4. At(k) \in Nat
  BY <1>1, <1>3, AtType
<1>5. At(k) <= 8 * nlri.size
  BY <1>2, <1>4
<1>6. Prefix(k + 1, At(k)) \in Routes
  BY <1>1, <1>3, <1>4, <1>5, PrefixType
<1>7. LenNLRIs(nlri'.list, nlri.path) = LenNLRIs(nlri.list, nlri.path) + NLRILen(Prefix(k + 1, At(k)), nlri.path)
  BY <1>2, <1>6, LenNLRIsAppend
<1>8. NLRILen(Prefix(k + 1, At(k)), nlri.path) = (IF nlri.path THEN 4 ELSE 0) + 1 + (At(k) + 7) \div 8
  BY <1>1, <1>4, <1>5, PrefixLen
<1>9. (At(k) + 7) \div 8 \in Nat
  BY <1>4
<1> DEFINE size == (At(k) + 7) \div 8
           l == LenNLRIs(nlri.list, nlri.path)
           m == LenNLRIs(nlri'.list, nlri.path)
<1>10. /\ m = l + ((IF nlri.path THEN 4 ELSE 0) + 1 + size) /\ size \in Nat /\ i' = k + 1 + size
       /\ l = i - start
  BY <1>7, <1>8, <1>9, Zenon
<1> HIDE DEF size, l, m
<1>11. m = i' - start
  BY ONLY <1>1, <1>2, <1>10, k = (IF nlri.path THEN i + 4 ELSE i), start \in Int
<1> QED BY <1>11 DEF m

\* A round of ParseNLRI among the prefixes of an UPDATE.
LEMMA NLRIAccounted ==
    ASSUME Inv, Inv', Accounted, ParseNLRI, nlri.ret \in {"withdrawn", "prefixes", "prefix"}
    PROVE  Accounted'
<1> DEFINE k == IF nlri.path THEN i + 4 ELSE i
           size == (At(k) + 7) \div 8
<1>1. /\ pc = "nlri"
      /\ \/ i >= end /\ ReturnNLRI(nlri.list, FALSE)
         \/ \E list : ReturnNLRI(list, TRUE)
         \/ /\ ~(At(k) > 8 * nlri.size)
            /\ nlri' = [nlri EXCEPT !.list = Append(@, Prefix(k + 1, At(k)))] /\ i' = k + 1 + size
            /\ UNCHANGED <<b, session, pc, end, attrsEnd, attrEnd, attr, failed, msg, caller>>
         \/ pc' = "panic"
  BY Zenon DEF ParseNLRI, ParsePrefix, Reading
<1>2. nlri \in NLRIs /\ i \in Nat /\ end \in Nat /\ i <= end /\ "ret" \in DOMAIN nlri /\ b \in Seq(Byte)
  BY <1>1, Facts DEF Inv, IInv, Readable, TypeOK, Typed, SliceTyped, NLRIInside, Returns
<1>3. pc' # "panic"
  BY DEF Inv, IInv, NoPanic
<1>4. CASE nlri.ret = "prefix"
  <2>1. CASE \E list, err : ReturnNLRI(list, err)
    <3>1. pc' = "prefix"
      BY <1>4, <2>1 DEF ReturnNLRI
    <3>2. Elsewhere'
      BY <3>1 DEF Elsewhere, AtWithdrawn, AtPrefixes, InNLRI, OfUpdate, InAttributes
    <3>3. Elsewhere' => Accounted'
      BY ElsewhereAccounted, PTL
    <3> QED BY <3>2, <3>3
  <2>2. CASE pc' = pc /\ \E list : nlri' = [nlri EXCEPT !.list = list]
    <3>1. pc' = "nlri" /\ nlri'.ret = "prefix"
      BY <1>1, <1>2, <1>4, <2>2
    <3>2. Elsewhere'
      BY <3>1 DEF Elsewhere, AtWithdrawn, AtPrefixes, InNLRI, OfUpdate, InAttributes
    <3>3. Elsewhere' => Accounted'
      BY ElsewhereAccounted, PTL
    <3> QED BY <3>2, <3>3
  <2>3. UNCHANGED <<b, session, pc, end, attrsEnd, attrEnd, attr, failed, msg, caller>> => pc' = pc
    OBVIOUS
  <2> HIDE DEF k, size
  <2> QED BY <1>1, <1>3, <2>1, <2>2, <2>3, Zenon
<1>5. CASE nlri.ret = "withdrawn"
  <2>1. /\ end = Gone(b) + 2 /\ msg.attrs = <<>> /\ msg.nlri = <<>> /\ nlri.path = msg.addPath
        /\ LenNLRIs(nlri.list, msg.addPath) = i - 2
    BY <1>1, <1>5, Zenon DEF Accounted, WithdrawnRead, AtWithdrawn, InNLRI
  <2>2. ASSUME UNCHANGED <<b, end, msg>>, nlri'.path = nlri.path,
               \/ pc' = "withdrawn" /\ (~failed' => nlri'.list = nlri.list /\ i' = i /\ i = end)
               \/ pc' = "nlri" /\ nlri'.ret = "withdrawn" /\ LenNLRIs(nlri'.list, nlri.path) = i' - 2
        PROVE Accounted'
    <3>1. WithdrawnRead'
      BY <2>1, <2>2, Zenon DEF WithdrawnRead
    <3>2. ListsEnd'
      BY <2>1, <2>2 DEF ListsEnd
    <3>3. ~OfUpdate' /\ ~AtPrefixes' /\ pc' \notin {"attributes", "done", "partial"}
      BY <2>2 DEF AtPrefixes, OfUpdate, InAttributes, InNLRI
    <3> QED BY <3>1, <3>2, <3>3 DEF Accounted, WithdrawnKept, AttributesRead, AttributesKept,
               PrefixesRead, AllRead
  <2>3. CASE i >= end /\ ReturnNLRI(nlri.list, FALSE)
    <3>1. /\ pc' = "withdrawn" /\ UNCHANGED <<b, end, msg, i>> /\ nlri' = [nlri EXCEPT !.list = nlri.list]
          /\ i = end
      BY <1>2, <1>5, <2>3 DEF ReturnNLRI
    <3>2. nlri'.path = nlri.path /\ nlri'.list = nlri.list
      BY ONLY <1>2, <3>1 DEF NLRIs
    <3> QED BY <2>2, <3>1, <3>2
  <2>4. CASE \E list : ReturnNLRI(list, TRUE)
    <3>1. pc' = "withdrawn" /\ UNCHANGED <<b, end, msg>> /\ failed' /\ \E list : nlri' = [nlri EXCEPT !.list = list]
      BY <1>5, <2>4 DEF ReturnNLRI
    <3>2. nlri'.path = nlri.path
      BY ONLY <1>2, <3>1 DEF NLRIs
    <3> QED BY <2>2, <3>1, <3>2
  <2>5. CASE /\ ~(At(k) > 8 * nlri.size)
             /\ nlri' = [nlri EXCEPT !.list = Append(@, Prefix(k + 1, At(k)))] /\ i' = k + 1 + size
             /\ UNCHANGED <<b, session, pc, end, attrsEnd, attrEnd, attr, failed, msg, caller>>
    <3>1. LenNLRIs(nlri'.list, nlri.path) = i' - 2
      BY <1>1, <2>1, <2>5, OneMore
    <3>2. nlri'.path = nlri.path /\ nlri'.ret = nlri.ret
      <4>1. \E x : nlri' = [nlri EXCEPT !.list = x]
        BY <2>5, Zenon
      <4> QED BY ONLY <1>2, <4>1 DEF NLRIs
    <3>3. UNCHANGED <<b, end, msg, pc>>
      BY <2>5
    <3> QED BY <1>1, <1>5, <2>2, <3>1, <3>2, <3>3
  <2> HIDE DEF k, size
  <2> QED BY <1>1, <1>3, <2>3, <2>4, <2>5
<1>6. CASE nlri.ret = "prefixes"
  <2>1. /\ end = Size /\ nlri.path = msg.addPath /\ LenNLRIs(nlri.list, msg.addPath) = i - To(b)
        /\ LenNLRIs(msg.withdrawn, msg.addPath) = Gone(b) /\ attrsEnd = To(b) /\ msg.nlri = <<>>
        /\ Counted(b, Len(msg.attrs)) /\ To(b) \in Int
    <3>1. attrsEnd \in Nat
      BY Zenon DEF Inv, IInv, TypeOK
    <3> QED BY <3>1, <1>1, <1>6 DEF Accounted, WithdrawnKept, AttributesKept, PrefixesRead,
               AtPrefixes, InNLRI
  <2>2. ASSUME UNCHANGED <<b, end, msg, attrsEnd>>, nlri'.path = nlri.path,
               \/ pc' = "prefixes" /\ (~failed' => nlri'.list = nlri.list /\ i' = i /\ i = end)
               \/ pc' = "nlri" /\ nlri'.ret = "prefixes" /\ LenNLRIs(nlri'.list, nlri.path) = i' - To(b)
        PROVE Accounted'
    <3>1. PrefixesRead'
      BY <2>1, <2>2, Zenon DEF PrefixesRead, Size
    <3>2. ListsEnd'
      BY <2>1, <2>2 DEF ListsEnd
    <3>3. WithdrawnKept' /\ AttributesKept'
      BY <2>1, <2>2, Zenon DEF WithdrawnKept, AttributesKept
    <3>4. ~OfUpdate' /\ ~AtWithdrawn' /\ pc' \notin {"attributes", "done", "partial"}
      BY <2>2 DEF AtWithdrawn, OfUpdate, InAttributes, InNLRI
    <3> QED BY <3>1, <3>2, <3>3, <3>4 DEF Accounted, WithdrawnRead, AttributesRead, AllRead
  <2>3. CASE i >= end /\ ReturnNLRI(nlri.list, FALSE)
    <3>1. /\ pc' = "prefixes" /\ UNCHANGED <<b, end, msg, i, attrsEnd>> /\ nlri' = [nlri EXCEPT !.list = nlri.list]
          /\ i = end
      BY <1>2, <1>6, <2>3 DEF ReturnNLRI
    <3>2. nlri'.path = nlri.path /\ nlri'.list = nlri.list
      BY ONLY <1>2, <3>1 DEF NLRIs
    <3> QED BY <2>2, <3>1, <3>2
  <2>4. CASE \E list : ReturnNLRI(list, TRUE)
    <3>1. /\ pc' = "prefixes" /\ UNCHANGED <<b, end, msg, attrsEnd>> /\ failed'
          /\ \E list : nlri' = [nlri EXCEPT !.list = list]
      BY <1>6, <2>4 DEF ReturnNLRI
    <3>2. nlri'.path = nlri.path
      BY ONLY <1>2, <3>1 DEF NLRIs
    <3> QED BY <2>2, <3>1, <3>2
  <2>5. CASE /\ ~(At(k) > 8 * nlri.size)
             /\ nlri' = [nlri EXCEPT !.list = Append(@, Prefix(k + 1, At(k)))] /\ i' = k + 1 + size
             /\ UNCHANGED <<b, session, pc, end, attrsEnd, attrEnd, attr, failed, msg, caller>>
    <3>1. LenNLRIs(nlri'.list, nlri.path) = i' - To(b)
      BY <1>1, <2>1, <2>5, OneMore
    <3>2. nlri'.path = nlri.path /\ nlri'.ret = nlri.ret
      <4>1. \E x : nlri' = [nlri EXCEPT !.list = x]
        BY <2>5, Zenon
      <4> QED BY ONLY <1>2, <4>1 DEF NLRIs
    <3>3. UNCHANGED <<b, end, msg, pc, attrsEnd>>
      BY <2>5
    <3> QED BY <1>1, <1>6, <2>2, <3>1, <3>2, <3>3
  <2> HIDE DEF k, size
  <2> QED BY <1>1, <1>3, <2>3, <2>4, <2>5
<1> QED BY <1>4, <1>5, <1>6

-----------------------------------------------------------------------------
(* The parts of an UPDATE.                                                  *)

\* A part of an IPv4 message: ParseNLRI knows the family.
LEMMA CallIPv4 ==
    ASSUME NEW from, NEW to, NEW path, NEW ret, CallParseNLRI(from, to, AFI_IPV4, path, ret)
    PROVE  /\ i' = from /\ end' = to /\ pc' = "nlri"
           /\ nlri'.path = path /\ nlri'.list = <<>> /\ nlri'.ret = ret
BY DEF CallParseNLRI

\* Where the parts are.
LEMMA GoneType == ASSUME b \in Seq(Byte) PROVE Gone(b) \in Nat /\ Uint16(0) = Gone(b)
<1>1. 0 \in Int
  OBVIOUS
<1>2. Word(b, 0) \in Nat
  BY <1>1, WordType
<1> QED BY <1>2, ReadIs DEF Gone

\* The withdrawn routes begin.
LEMMA ParseUpdateAccounted == ASSUME Inv, Inv', ParseUpdate PROVE Accounted'
<1> DEFINE path == InAfiSafi(AFI_IPV4, SAFI_UNICAST)
<1>1. \/ Fail
      \/ /\ msg' = [type |-> "UPDATE", withdrawn |-> <<>>, attrs |-> <<>>, nlri |-> <<>>, addPath |-> path]
         /\ CallParseNLRI(2, 2 + Uint16(0), AFI_IPV4, path, "withdrawn") /\ UNCHANGED b
  <2>1. pc' # "panic"
    BY DEF Inv, IInv, NoPanic
  <2> QED BY <2>1, Zenon DEF ParseUpdate, Reading
<1>2. CASE Fail
  <2>1. Elsewhere'
    BY <1>2 DEF Fail, Elsewhere, AtWithdrawn, AtPrefixes, InNLRI, OfUpdate, InAttributes
  <2>2. Elsewhere' => Accounted'
    BY ElsewhereAccounted, PTL
  <2> QED BY <2>1, <2>2
<1>3. CASE /\ msg' = [type |-> "UPDATE", withdrawn |-> <<>>, attrs |-> <<>>, nlri |-> <<>>, addPath |-> path]
           /\ CallParseNLRI(2, 2 + Uint16(0), AFI_IPV4, path, "withdrawn") /\ UNCHANGED b
  <2>1. /\ i' = 2 /\ end' = 2 + Uint16(0) /\ pc' = "nlri" /\ nlri'.path = path /\ nlri'.list = <<>>
        /\ nlri'.ret = "withdrawn"
    BY <1>3, CallIPv4
  <2>2. msg'.attrs = <<>> /\ msg'.nlri = <<>> /\ msg'.addPath = path
    BY <1>3
  <2>3. end' = Gone(b) + 2
    <3>1. b \in Seq(Byte)
      BY Zenon DEF Inv, IInv, TypeOK
    <3> QED BY <2>1, <3>1, GoneType
  <2>4. LenNLRIs(nlri'.list, path) = i' - 2
    BY <2>1, LenNLRIsEmpty
  <2>5. WithdrawnRead'
    BY <1>3, <2>1, <2>2, <2>3, <2>4, Zenon DEF WithdrawnRead
  <2> QED BY <2>1, <2>5 DEF Accounted, WithdrawnKept, AttributesRead, AttributesKept, PrefixesRead,
             ListsEnd,
                AllRead, AtPrefixes, OfUpdate, InAttributes, InNLRI
<1> QED BY <1>1, <1>2, <1>3

\* They are complete, and the attributes begin.
LEMMA WithdrawnParsedAccounted == ASSUME Inv, Inv', Accounted, WithdrawnParsed PROVE Accounted'
<1>1. \/ Fail
      \/ /\ ~failed /\ msg' = [msg EXCEPT !.withdrawn = nlri.list]
         /\ CallParsePathAttribute(end + 2, end + 2 + Uint16(end), "attributes") /\ UNCHANGED b
  <2>1. pc' # "panic"
    BY DEF Inv, IInv, NoPanic
  <2> QED BY <2>1, Zenon DEF WithdrawnParsed, Reading
<1>2. CASE Fail
  <2>1. Elsewhere'
    BY <1>2 DEF Fail, Elsewhere, AtWithdrawn, AtPrefixes, InNLRI, OfUpdate, InAttributes
  <2>2. Elsewhere' => Accounted'
    BY ElsewhereAccounted, PTL
  <2> QED BY <2>1, <2>2
<1>3. CASE /\ ~failed /\ msg' = [msg EXCEPT !.withdrawn = nlri.list]
           /\ CallParsePathAttribute(end + 2, end + 2 + Uint16(end), "attributes") /\ UNCHANGED b
  <2>1. /\ i' = end + 2 /\ attrsEnd' = end + 2 + Uint16(end) /\ attr'.ret = "attributes" /\ pc' = "attrs"
    BY <1>3 DEF CallParsePathAttribute
  <2>2. pc = "withdrawn" /\ msg \in Updates /\ b \in Seq(Byte) /\ nlri \in NLRIs /\ ~failed
    BY <1>3, Zenon DEF WithdrawnParsed, Inv, IInv, TypeOK, Typed, MessageTyped, InUpdate, SliceTyped
  <2>3. /\ end = Gone(b) + 2 /\ msg.attrs = <<>> /\ msg.nlri = <<>>
        /\ LenNLRIs(nlri.list, msg.addPath) = i - 2 /\ i = end
    BY <2>2 DEF Accounted, WithdrawnRead, ListsEnd, AtWithdrawn
  <2>4. /\ msg'.withdrawn = nlri.list /\ msg'.attrs = <<>> /\ msg'.nlri = <<>> /\ msg'.addPath = msg.addPath
    BY ONLY <1>3, <2>2, <2>3 DEF Updates
  <2>5. Gone(b) \in Nat
    BY <2>2, GoneType
  <2>6. LenNLRIs(msg'.withdrawn, msg'.addPath) = Gone(b)
    BY ONLY <2>3, <2>4, <2>5
  <2>7. i' = From(b) /\ end = From(b) - 2
    BY ONLY <2>1, <2>3, <2>5 DEF From
  <2>8. attrsEnd' = To(b)
    <3>1. Uint16(end) = Word(b, From(b) - 2)
      BY <2>7, ReadIs
    <3>2. Word(b, From(b) - 2) \in Nat
      <4>1. From(b) - 2 \in Int
        BY ONLY <2>5 DEF From
      <4> QED BY <2>2, <4>1, WordType
    <3> QED BY ONLY <2>1, <2>3, <2>5, <3>1, <3>2 DEF To, From
  <2>9. To(b) \in Nat /\ From(b) \in 0 .. To(b)
    <3>1. From(b) - 2 \in Int
      BY ONLY <2>5 DEF From
    <3>2. Word(b, From(b) - 2) \in Nat
      BY <2>2, <3>1, WordType
    <3> QED BY ONLY <2>5, <3>2 DEF To, From
  <2>10. Reached(b, i', Len(msg'.attrs))
    <3>1. Len(msg'.attrs) = 0
      BY <2>4
    <3> QED BY <2>2, <2>7, <2>9, <3>1, ReachedStart
  <2>11. WithdrawnKept' /\ AttributesRead'
    BY <1>3, <2>1, <2>4, <2>6, <2>8, <2>10, Zenon DEF WithdrawnKept, AttributesRead
  <2> QED BY <2>1, <2>11 DEF Accounted, WithdrawnRead, AttributesKept, PrefixesRead, ListsEnd,
                AllRead, AtWithdrawn, AtPrefixes, InNLRI
<1> QED BY <1>1, <1>2, <1>3

\* These are complete or in error, and the prefixes begin.
LEMMA AttributesParsedAccounted == ASSUME Inv, Inv', Accounted, AttributesParsed PROVE Accounted'
<1>1. /\ pc = "attributes"
      /\ \/ failed /\ pc' = "partial" /\ UNCHANGED <<b, session, i, locals, msg, caller>>
         \/ /\ ~failed /\ CallParseNLRI(attrsEnd, Size, AFI_IPV4, msg.addPath, "prefixes")
            /\ UNCHANGED <<b, session, attrsEnd, attrEnd, attr, msg, caller>>
  <2>1. pc' # "panic"
    BY DEF Inv, IInv, NoPanic
  <2> QED BY <2>1, Zenon DEF AttributesParsed, Reading
<1>2. LenNLRIs(msg.withdrawn, msg.addPath) = Gone(b) /\ attrsEnd = To(b) /\ msg.nlri = <<>>
  BY <1>1 DEF Accounted, WithdrawnKept
<1>3. CASE pc' = "partial" /\ UNCHANGED <<b, session, i, locals, msg, caller>>
  <2>1. msg'.nlri = <<>>
    BY <1>2, <1>3
  <2> QED BY <1>3, <2>1 DEF Accounted, WithdrawnRead, WithdrawnKept, AttributesRead,
             AttributesKept, PrefixesRead,
                ListsEnd, AllRead, AtWithdrawn, AtPrefixes, InNLRI, OfUpdate, InAttributes
<1>4. CASE /\ ~failed /\ CallParseNLRI(attrsEnd, Size, AFI_IPV4, msg.addPath, "prefixes")
           /\ UNCHANGED <<b, session, attrsEnd, attrEnd, attr, msg, caller>>
  <2>1. /\ i' = attrsEnd /\ end' = Size /\ pc' = "nlri" /\ nlri'.path = msg.addPath /\ nlri'.list = <<>>
        /\ nlri'.ret = "prefixes"
    BY <1>4, CallIPv4
  <2>2. Counted(b, Len(msg.attrs)) /\ attrsEnd \in Nat
    BY <1>1, <1>4, Zenon DEF Accounted, AttributesKept, Inv, IInv, TypeOK
  <2>3. UNCHANGED <<b, attrsEnd, msg>> /\ Size' = Size
    BY <1>4 DEF Size
  <2>4. LenNLRIs(nlri'.list, msg.addPath) = i' - To(b)
    BY <1>2, <2>1, <2>2, LenNLRIsEmpty
  <2>5. WithdrawnKept' /\ AttributesKept' /\ PrefixesRead'
    BY <1>2, <2>1, <2>2, <2>3, <2>4, Zenon DEF WithdrawnKept, AttributesKept, PrefixesRead
  <2> QED BY <2>1, <2>5 DEF Accounted, WithdrawnRead, AttributesRead, ListsEnd,
                AllRead, AtWithdrawn, InNLRI, OfUpdate, InAttributes
<1> QED BY <1>1, <1>3, <1>4

\* The UPDATE is returned.
LEMMA UpdateParsedAccounted == ASSUME Inv, Inv', Accounted, UpdateParsed PROVE Accounted'
<1>1. /\ pc = "prefixes" /\ pc' = (IF failed THEN "partial" ELSE "done")
      /\ msg' = [msg EXCEPT !.nlri = nlri.list] /\ b' = b
  BY DEF UpdateParsed
<1>2. /\ LenNLRIs(msg.withdrawn, msg.addPath) = Gone(b) /\ Counted(b, Len(msg.attrs))
      /\ ~failed => LenNLRIs(nlri.list, msg.addPath) = Size - To(b)
  BY <1>1 DEF Accounted, WithdrawnKept, AttributesKept, PrefixesRead, ListsEnd, AtPrefixes
<1>3. msg \in Updates
  BY <1>1, Zenon DEF Inv, Typed, MessageTyped, InUpdate
<1>4. /\ msg'.withdrawn = msg.withdrawn /\ msg'.attrs = msg.attrs /\ msg'.addPath = msg.addPath
      /\ msg'.nlri = nlri.list
  BY ONLY <1>1, <1>3 DEF Updates
<1>5. Size' = Size
  BY <1>1 DEF Size
<1>6. AllRead'
  <2>1. pc' = "done" => ~failed
    BY <1>1
  <2> QED BY <1>1, <1>2, <1>4, <1>5, <2>1, Zenon DEF AllRead
<1> QED BY <1>1, <1>6 DEF Accounted, WithdrawnRead, WithdrawnKept, AttributesRead, AttributesKept,
           PrefixesRead,
                ListsEnd, AtWithdrawn, AtPrefixes, InNLRI, OfUpdate, InAttributes

\* All steps of the decoder of an UPDATE.
LEMMA UpdateNextAccounted == ASSUME Inv, Inv', Accounted, UpdateNext PROVE Accounted'
<1>1. CASE ParseUpdate \/ WithdrawnParsed \/ AttributesParsed \/ UpdateParsed
  BY <1>1, ParseUpdateAccounted, WithdrawnParsedAccounted, AttributesParsedAccounted,
     UpdateParsedAccounted
<1>2. CASE InAttributes
  <2>1. pc' # "panic"
    BY DEF Inv, IInv, NoPanic
  <2> QED BY <1>2, <2>1, AttributeStepIs, InAttributesAccounted
<1>3. CASE ParseNLRI /\ ~InAttributes
  <2>1. nlri.ret \in {"withdrawn", "prefixes", "prefix"}
    BY <1>3 DEF ParseNLRI, InAttributes, Inv, IInv, NLRIInside
  <2> QED BY <1>3, <2>1, NLRIAccounted
<1>4. CASE ~(ParseUpdate \/ WithdrawnParsed \/ AttributesParsed \/ UpdateParsed \/ ParseNLRI)
  <2>1. pc = "attrs" \/ pc = "attr" \/ pc = "aspath" \/ pc = "reach" \/ pc = "unreach"
    BY <1>4, Zenon DEF UpdateNext, ParseAttributeHeader, ParseOrigin, ParseMedLocPref,
       ParseAggregator,
         ParseAtomicAggregate, ParseNextHop, ParseCommunities, ParseUnknown, ParseASPath,
         ParseASPathSegment, ParseReach, ReachParsed, ParseUnreach, UnreachParsed, Case
  <2> QED BY <1>2, <2>1 DEF InAttributes
<1> QED BY <1>1, <1>2, <1>3, <1>4, Zenon

-----------------------------------------------------------------------------
(* The other steps, and the theorem.                                        *)

\* At places where no UPDATE is being decoded.
LEMMA OtherPlaces ==
    ASSUME pc' \in {"start", "open", "param", "capa", "update", "notification", "keepalive", "message",
                    "stateChange", "peerIndex", "peers", "rib", "generic", "prefix", "entries", "entry",
                    "tableDump", "tableDumpAttributes", "error", "nil"}
    PROVE  Accounted'
BY DEF Accounted, WithdrawnRead, WithdrawnKept, AttributesRead, AttributesKept, PrefixesRead,
   ListsEnd,
       AllRead, AtWithdrawn, AtPrefixes, InNLRI, OfUpdate, InAttributes

\* Results that are no UPDATE.
LEMMA OtherResults ==
    ASSUME pc' \in {"done", "partial"}, source' = "mrt" \/ msg'.type # "UPDATE"
    PROVE  Accounted'
BY DEF Accounted, WithdrawnRead, WithdrawnKept, AttributesRead, AttributesKept, PrefixesRead,
   ListsEnd,
       AllRead, AtWithdrawn, AtPrefixes, InNLRI, OfUpdate, InAttributes

\* Other messages are none of it.
LEMMA OtherPacketsAccounted ==
    ASSUME Inv, Receive \/ ParseSlice \/ ParseNotification \/ ParseKeepAlive \/ OpenNext, pc' # "panic"
    PROVE  Accounted'
<1>1. CASE Receive \/ ParseSlice
  <2>1. Fail \/ \E type, body, options : ParsePacket(type, body, options)
    BY <1>1, Zenon DEF Receive, ParseSlice
  <2>2. pc' \in {"open", "update", "notification", "keepalive", "error"}
    BY <2>1 DEF Fail, ParsePacket
  <2> QED BY <2>2, OtherPlaces
<1>2. CASE ParseNotification \/ ParseKeepAlive
  <2>1. Fail \/ (pc' = "done" /\ msg'.type # "UPDATE")
    BY <1>2 DEF ParseNotification, ParseKeepAlive, Reading
  <2>2. CASE Fail
    <3>1. pc' = "error"
      BY <2>2 DEF Fail
    <3> QED BY <3>1, OtherPlaces
  <2> QED BY <2>1, <2>2, OtherResults
<1>3. CASE ParseOpen
  <2>1. Fail \/ (pc' \in {"done", "param"} /\ msg'.type # "UPDATE")
    BY <1>3 DEF ParseOpen, Reading
  <2>2. CASE Fail
    <3>1. pc' = "error"
      BY <2>2 DEF Fail
    <3> QED BY <3>1, OtherPlaces
  <2> QED BY <2>1, <2>2, OtherResults, OtherPlaces
<1>4. CASE ParseParameter \/ ParseCapabilities
  <2>1. Fail \/ (pc' = "done" /\ msg' = msg) \/ pc' \in {"param", "capa"}
    BY <1>4, Zenon DEF ParseParameter, ParseCapabilities, Reading
  <2>2. msg.type # "UPDATE"
    <3>1. msg \in Opens
      BY <1>4 DEF ParseParameter, ParseCapabilities, Inv, Typed, MessageTyped
    <3> QED BY ONLY <3>1 DEF Opens
  <2>3. CASE Fail
    <3>1. pc' = "error"
      BY <2>3 DEF Fail
    <3> QED BY <3>1, OtherPlaces
  <2> QED BY <2>1, <2>2, <2>3, OtherResults, OtherPlaces
<1> QED BY <1>1, <1>2, <1>3, <1>4, Zenon DEF OpenNext

\* Among the records of MRT.
LEMMA MrtNextAccounted == ASSUME Inv, MrtNext PROVE Accounted'
<1>1. source = "mrt"
  <2>1. CASE DecodeSingle
    BY <2>1 DEF DecodeSingle
  <2>2. CASE ~DecodeSingle
    <3>1. \/ pc \in {"message", "stateChange", "peerIndex", "rib", "generic", "tableDump"}
          \/ pc = "peers" \/ pc = "prefix" \/ pc = "entries" \/ pc = "entry" \/ pc = "tableDumpAttributes"
      BY <2>2 DEF MrtNext, DecodeMessage, DecodeStateChange, DecodePeerIndex, DecodePeer,
         DecodeRibSpec,
           DecodeRibGeneric, PrefixDecoded, DecodeEntry, EntryDecoded, DecodeTableDump, TableDumpDecoded
    <3> QED BY <3>1, Zenon DEF Inv, Typed, RecordTyped, InPrefix, Waits
  <2> QED BY <2>1, <2>2
<1>2. /\ source' = source
      /\ \/ Fail
         \/ \E type, body, options : ParsePacket(type, body, options)
         \/ \E from, to, afi : CallParseNLRI(from, to, afi, FALSE, "prefix")
         \/ \E from, to : CallParsePathAttribute(from, to, "entry")
         \/ \E from, to : CallParsePathAttribute(from, to, "tableDumpAttributes")
         \/ pc' \in {"message", "stateChange", "nil", "peerIndex", "generic", "rib", "tableDump", "error",
                     "done", "partial", "peers", "entries"}
  <2>1. CASE DecodeSingle
    <3> DEFINE type == Uint16(4)
               subtype == Uint16(6)
               place == CASE type = TYPE_BGP4MP /\ subtype = MESSAGE_AS4 -> "message"
                       [] type = TYPE_BGP4MP /\ subtype = STATE_CHANGE_AS4 -> "stateChange"
                       [] type = TYPE_BGP4MP /\ subtype \notin {MESSAGE_AS4, STATE_CHANGE_AS4} -> "nil"
                       [] type = TYPE_TABLE_DUMPV2 /\ subtype = PEER_INDEX_TABLE -> "peerIndex"
                       [] type = TYPE_TABLE_DUMPV2 /\ subtype = RIB_GENERIC -> "generic"
                       [] type = TYPE_TABLE_DUMPV2 /\ subtype \in DOMAIN RibSubtype -> "rib"
                       [] type = TYPE_TABLE_DUMP -> "tableDump"
                       [] OTHER -> "error"
    <3>1. (Fail \/ pc' = place) /\ (Fail => UNCHANGED caller) /\ (~Fail => UNCHANGED source)
      BY <2>1, Zenon DEF DecodeSingle, Fail
    <3>2. place \in {"message", "stateChange", "nil", "peerIndex", "generic", "rib", "tableDump", "error"}
      <4> HIDE DEF type, subtype
      <4> QED OBVIOUS
    <3> HIDE DEF place
    <3> QED BY <3>1, <3>2 DEF caller
  <2>2. CASE DecodeMessage
    BY <2>2, Zenon DEF DecodeMessage, Fail, caller
  <2>3. CASE DecodeStateChange \/ DecodePeerIndex
    BY <2>3 DEF DecodeStateChange, DecodePeerIndex, Goto
  <2>4. CASE DecodePeer
    BY <2>4 DEF DecodePeer, caller
  <2>5. CASE DecodeRibSpec \/ DecodeRibGeneric
    BY <2>5, Zenon DEF DecodeRibSpec, DecodeRibGeneric, CallPrefix
  <2>6. CASE PrefixDecoded
    BY <2>6 DEF PrefixDecoded, Goto, caller
  <2>7. CASE DecodeEntry
    <3>1. \/ pc' \in {"partial", "done"} /\ UNCHANGED caller
          \/ \E o, n : CallAttributes(o, n, FALSE, "entry")
      BY <2>7 DEF DecodeEntry
    <3> QED BY <3>1, Zenon DEF CallAttributes, caller
  <2>8. CASE EntryDecoded \/ TableDumpDecoded
    BY <2>8 DEF EntryDecoded, TableDumpDecoded, Goto
  <2>9. CASE DecodeTableDump
    <3>1. \E o, n : CallAttributes(o, n, TRUE, "tableDumpAttributes")
      BY <2>9, Zenon DEF DecodeTableDump
    <3> QED BY <3>1, Zenon DEF CallAttributes
  <2> QED BY <2>1, <2>2, <2>3, <2>4, <2>5, <2>6, <2>7, <2>8, <2>9, Zenon DEF MrtNext
<1>3. CASE Fail \/ \E type, body, options : ParsePacket(type, body, options)
  <2>1. pc' \in {"open", "update", "notification", "keepalive", "error"}
    BY <1>3 DEF Fail, ParsePacket
  <2> QED BY <2>1, OtherPlaces
<1>4. CASE \E from, to, afi : CallParseNLRI(from, to, afi, FALSE, "prefix")
  <2>1. pc' = "prefix" \/ (pc' = "nlri" /\ nlri'.ret = "prefix")
    BY <1>4 DEF CallParseNLRI
  <2>2. Elsewhere'
    BY <2>1 DEF Elsewhere, AtWithdrawn, AtPrefixes, InNLRI, OfUpdate, InAttributes
  <2>3. Elsewhere' => Accounted'
    BY ElsewhereAccounted, PTL
  <2> QED BY <2>2, <2>3
<1>5. CASE \E from, to : \/ CallParsePathAttribute(from, to, "entry")
                          \/ CallParsePathAttribute(from, to, "tableDumpAttributes")
  <2>1. pc' = "attrs" /\ attr'.ret # "attributes"
    BY <1>5 DEF CallParsePathAttribute
  <2>2. Elsewhere'
    BY <2>1 DEF Elsewhere, AtWithdrawn, AtPrefixes, InNLRI, OfUpdate, InAttributes
  <2>3. Elsewhere' => Accounted'
    BY ElsewhereAccounted, PTL
  <2> QED BY <2>2, <2>3
<1>6. CASE pc' \in {"message", "stateChange", "nil", "peerIndex", "generic", "rib", "tableDump", "error",
                     "done", "partial", "peers", "entries"}
  <2>1. source' = "mrt"
    BY <1>1, <1>2
  <2> QED BY <1>6, <2>1, OtherPlaces, OtherResults
<1> QED BY <1>2, <1>3, <1>4, <1>5, <1>6

\* Every step keeps everything accounted for.
LEMMA NextAccounted == ASSUME Inv, Accounted, [Next]_vars PROVE Accounted'
<1>1. Inv'
  BY NextInv
<1>2. pc' # "panic"
  BY <1>1 DEF Inv, IInv, NoPanic
<1>3. CASE PacketNext
  BY <1>1, <1>2, <1>3, OtherPacketsAccounted, UpdateNextAccounted, Zenon DEF PacketNext
<1>4. CASE MrtNext
  BY <1>4, MrtNextAccounted
<1>5. CASE Rewrite \/ Convert
  <2>1. pc' = "start"
    BY <1>5, Zenon DEF Rewrite, Convert, DecodeAgain
  <2> QED BY <2>1, OtherPlaces
<1>6. CASE UNCHANGED vars
  <2>1. /\ UNCHANGED <<b, pc, i, msg, end, attrsEnd, attrEnd, nlri, attr, failed, source>>
    <3>1. UNCHANGED <<b, pc, i, msg, locals, caller>>
      BY <1>6, Zenon DEF vars
    <3> QED BY <3>1, Zenon DEF locals, caller
  <2> QED BY <2>1, Zenon DEF Accounted, WithdrawnRead, WithdrawnKept, AttributesRead,
             AttributesKept,
                PrefixesRead, ListsEnd, AllRead, AtWithdrawn, AtPrefixes, InNLRI, OfUpdate, InAttributes, Size
<1> QED BY <1>3, <1>4, <1>5, <1>6, Zenon DEF Next, Decode

\* At the end NothingSkipped says nothing else.
LEMMA AccountedNothingSkipped == Inv /\ Accounted => NothingSkipped
<1> SUFFICES ASSUME Inv, Accounted, pc \in {"done", "partial"}, source # "mrt", msg.type = "UPDATE"
             PROVE  NothingSkipped
  BY DEF NothingSkipped
<1> DEFINE attrs == Uint16(0) + 4
           to == attrs + Uint16(attrs - 2)
<1>1. b \in Seq(Byte) /\ Size \in Nat
  BY Facts, Zenon DEF Inv, IInv, TypeOK, Readable
<1>2. Uint16(0) = Gone(b) /\ Gone(b) \in Nat
  BY <1>1, GoneType
<1>3. attrs = From(b)
  BY <1>2 DEF From
<1>4. Uint16(attrs - 2) = Word(b, From(b) - 2)
  BY <1>3, ReadIs, Zenon
<1>5. to = To(b)
  BY <1>3, <1>4, Zenon DEF To
<1>6. Size - attrs - Uint16(attrs - 2) = Size - To(b)
  <2>1. From(b) \in Int /\ Word(b, From(b) - 2) \in Nat
    <3>1. From(b) \in Nat /\ From(b) - 2 \in Int
      BY ONLY <1>2 DEF From
    <3> QED BY <1>1, <3>1, WordType
  <2> QED BY ONLY <1>1, <1>3, <1>4, <2>1 DEF To
<1>7. AttributeCount(attrs, to) = Count(b, From(b), To(b))
  BY <1>3, <1>5, CountIs, Zenon
<1>8. /\ pc = "done" \/ msg.nlri # <<>> => Count(b, From(b), To(b)) = Len(msg.attrs)
      /\ pc = "done" => /\ LenNLRIs(msg.withdrawn, msg.addPath) = Gone(b)
                        /\ LenNLRIs(msg.nlri, msg.addPath) = Size - To(b)
  BY Zenon DEF Accounted, AllRead, Counted
<1> QED BY <1>2, <1>6, <1>7, <1>8, Zenon DEF NothingSkipped

\* For every input, an UPDATE that is returned accounts for all of its bytes: each of the two lists
\* of prefixes is as long as its slice, and every header of an attribute made an attribute.
THEOREM SkipsNothing == Spec => []NothingSkipped
<1>1. Init => Accounted
  <2> SUFFICES ASSUME Init PROVE Accounted
    OBVIOUS
  <2>1. pc = "start"
    BY Zenon DEF Init
  <2>2. Elsewhere
    BY <2>1 DEF Elsewhere, AtWithdrawn, AtPrefixes, InNLRI, OfUpdate, InAttributes
  <2> QED BY <2>2, ElsewhereAccounted
<1>2. Inv /\ Accounted /\ [Next]_vars => Accounted'
  BY NextAccounted
<1> QED BY <1>1, <1>2, AlwaysInv, AccountedNothingSkipped, PTL DEF Spec
===============================================================================
