------------------------------ MODULE OpenCodec -----------------------------
(***************************************************************************)
(* bgp_open.go: how an OPEN is written and decoded.  A parameter without   *)
(* Data is one without capabilities: both are written alike.               *)
(***************************************************************************)
EXTENDS Decoder

CAPA_MP == 1
CAPA_RR == 2
CAPA_ASN == 65
CAPA_ADDPATH == 69
PARAMETER_CAPA == 2
AS_TRANS == 23456

-----------------------------------------------------------------------------
(* Writing.                                                                 *)

CapaLen(c) ==
    CASE c.code \in {CAPA_MP, CAPA_ASN} -> 6
      [] c.code = CAPA_RR -> 2
      [] c.code = CAPA_ADDPATH -> 2 + 4 * Len(c.list)
      [] OTHER -> 2 + Len(c.data)

WriteCapa(c) ==
    CASE c.code = CAPA_MP  -> <<c.code, 4>> \o c.afi \o <<0, c.safi>>
      [] c.code = CAPA_ASN -> <<c.code, 4>> \o c.asn
      [] c.code = CAPA_RR  -> <<c.code, 0>>
      [] c.code = CAPA_ADDPATH ->
            <<c.code, (4 * Len(c.list)) % 256>> \o Flat(c.list, 4)
      [] OTHER -> <<c.code, Len(c.data) % 256>> \o c.data

ParamLen(p)   == 2 + Sum(CapaLen, p.capas)
WriteParam(p) == <<p.type, Sum(CapaLen, p.capas) % 256>> \o Concat(WriteCapa, p.capas)

LenParams(m)  == Sum(ParamLen, m.params)
WriteOpen(m) ==
    <<m.version>> \o m.asn \o m.hold \o m.id \o <<LenParams(m) % 256>>
        \o Concat(WriteParam, m.params)

\* The OPEN of CraftOpenMessage: asn and the entries of mp and addPath are lists of bytes.
CraftOpenMessage(asn, hold, id, mp, addPath, routeRefresh) ==
    [type |-> "OPEN", version |-> 4, hold |-> hold, id |-> id,
     asn |-> IF asn[1] = 0 /\ asn[2] = 0 THEN SubSeq(asn, 3, 4) ELSE U16(AS_TRANS),
     params |-> <<[type |-> PARAMETER_CAPA, capas |->
        <<[code |-> CAPA_ASN, asn |-> asn]>>
        \o [k \in DOMAIN mp |-> [code |-> CAPA_MP, afi |-> SubSeq(mp[k], 1, 2), safi |-> mp[k][3]]]
        \o (IF addPath = <<>> THEN <<>> ELSE <<[code |-> CAPA_ADDPATH, list |-> addPath]>>)
        \o (IF routeRefresh THEN <<[code |-> CAPA_RR]>> ELSE <<>>)]>>]

-----------------------------------------------------------------------------
(* Decoding.                                                                *)

\* ParseCapability: binary.Read leaves zeros for what the data is too short for.
ParseCapability(code, data) ==
    LET Read(from, to) == IF to <= Len(data) THEN SubSeq(data, from, to)
                          ELSE Zeros(to - from + 1) IN
    CASE code = CAPA_MP  -> [code |-> code, afi |-> Read(1, 2), safi |-> Read(4, 4)[1]]
      [] code = CAPA_ASN -> [code |-> code, asn |-> Read(1, 4)]
      [] code = CAPA_RR  -> [code |-> code]
      [] code = CAPA_ADDPATH ->
            [code |-> code,
             list |-> [k \in 1 .. Len(data) \div 4 |-> SubSeq(data, 4 * k - 3, 4 * k)]]
      [] OTHER -> [code |-> code, data |-> data]

\* ParseOpen up to the parameters.
ParseOpen ==
    /\ pc = "open"
    /\ IF Size < 10 THEN Fail
       ELSE Reading(10, Size,
              IF Size - 10 # At(9) THEN Fail
              ELSE /\ msg' = [type |-> "OPEN", version |-> At(0), asn |-> Bytes(1, 2),
                              hold |-> Bytes(3, 2), id |-> Bytes(5, 4), params |-> <<>>]
                   /\ pc' = (IF At(9) >= 2 THEN "param" ELSE "done")
                   /\ i' = 10
                   /\ UNCHANGED <<b, session, locals, caller>>)

\* One round of the loop over the parameters.  The value of a parameter of another type is
\* not skipped: the next round starts in it.
ParseParameter ==
    /\ pc = "param"
    /\ IF i >= Size - 1
       THEN pc' = "done" /\ UNCHANGED <<b, session, i, locals, msg, caller>>
       ELSE Reading(i + 2, Size,
              IF i + 1 + At(i + 1) > Size THEN Fail
              ELSE /\ msg' = [msg EXCEPT !.params = Append(@, [type |-> At(i), capas |-> <<>>])]
                   /\ pc' = (IF At(i) = PARAMETER_CAPA THEN "capa" ELSE "param")
                   /\ i' = i + 2
                   /\ end' = i + 2 + At(i + 1)
                   /\ UNCHANGED <<b, session, attrsEnd, attrEnd, nlri, attr, failed, caller>>)

\* Mutant: the header of a capability is not counted.
CapabilityHeaderStays ==
    /\ pc = "capa"
    /\ IF i >= Size - 1 \/ i >= end
       THEN pc' = "param" /\ UNCHANGED <<b, session, i, locals, msg, caller>>
       ELSE IF i + 2 + At(i + 1) > Size THEN Fail
       ELSE /\ msg' = [msg EXCEPT !.params[Len(msg.params)].capas =
                           Append(@, ParseCapability(At(i), Bytes(i + 2, At(i + 1))))]
            /\ i' = i + At(i + 1)
            /\ UNCHANGED <<b, session, pc, locals, caller>>

\* One round of the loop over the capabilities of a parameter.  A capability may go on after
\* the end of its parameter, as far as the buffer does.
ParseCapabilities ==
    /\ pc = "capa"
    /\ IF i >= Size - 1 \/ i >= end
       THEN pc' = "param" /\ UNCHANGED <<b, session, i, locals, msg, caller>>
       ELSE Reading(i + 2, Size,
              IF i + 2 + At(i + 1) > Size THEN Fail
              ELSE Reading(i + 2 + At(i + 1), Size,
                     /\ msg' = [msg EXCEPT !.params[Len(msg.params)].capas =
                                  Append(@, ParseCapability(At(i), Bytes(i + 2, At(i + 1))))]
                     /\ i' = i + 2 + At(i + 1)
                     /\ UNCHANGED <<b, session, pc, locals, caller>>))

OpenNext == ParseOpen \/ ParseParameter \/ ParseCapabilities
=============================================================================
