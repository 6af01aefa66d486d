------------------------------- MODULE Decoder ------------------------------
(***************************************************************************)
(* What the decoders of package messages have in common: the slice being   *)
(* decoded, the position in it, and what a read outside of a slice does.   *)
(* Positions count from 0, as in the code.  A number that is only carried  *)
(* from one side to the other is kept as its bytes, most significant       *)
(* first; a number that directs the decoding is an integer.                *)
(***************************************************************************)
EXTENDS Integers, SequencesExt

CONSTANTS Nil   \* a nil pointer

Byte  == 0 .. 255
MaxUint16 == 65535
U16(n) == <<(n \div 256) % 256, n % 256>>   \* uint16(n), big endian
Zeros(n)  == [k \in 1 .. n |-> 0]
Total(s) == FoldLeft(LAMBDA n, x : n + x, 0, s)
Sum(Op(_), s) == Total([k \in DOMAIN s |-> Op(s[k])])
Concat(Op(_), s) == FlattenSeq([k \in DOMAIN s |-> Op(s[k])])
Flat(s, n) == [k \in 1 .. n * Len(s) |-> s[1 + (k - 1) \div n][1 + ((k - 1) % n)]]

VARIABLES
    b,       \* the slice being decoded
    session, \* what the decoder is told of the session: add-path families, 2-byte AS numbers
    pc,      \* where the decoder is
    i,       \* position in b
    end,     \* ParseNLRI: end of its slice; ParseOpen: end of the parameter
    attrsEnd, attrEnd, \* ends of the slice of all attributes and of that of the current one
    nlri,    \* locals of ParseNLRI
    attr,    \* the attribute under construction
    failed,  \* the error result of the function that returned last
    msg,     \* the message decoded so far
    \* What the callers of the decoders keep meanwhile.
    source,  \* who called: the receive routine ("socket"), ParsePacket's user ("packet"), "mrt"
    content, \* the MRT record being read
    pos,     \* byteReader: position in content
    eof,     \* byteReader: a read did not fit
    rec,     \* the MRT record decoded so far
    left,    \* entries or peers of it still to decode
    first    \* what was decoded before it was written and decoded again, or Nil

locals == <<end, attrsEnd, attrEnd, nlri, attr, failed>>
caller == <<source, content, pos, eof, rec, left, first>>
vars   == <<b, session, pc, i, locals, msg, caller>>

Size      == Len(b)         \* len of the slice
RecSize   == Len(content)   \* len of the record
At(k)     == IF k \in 0 .. Size - 1 THEN b[k + 1] ELSE 0
Uint16(k) == 256 * At(k) + At(k + 1)
Bytes(k, n) == [j \in 1 .. n |-> At(k + j - 1)]

\* A step that reads up to position top, excluded, of a slice that ends at limit: Go panics
\* when the slice is shorter.
Reading(top, limit, Step) ==
    IF top <= limit THEN Step
    ELSE pc' = "panic" /\ UNCHANGED <<b, session, i, locals, msg, caller>>

\* The decoder returns an error and no message.
Fail == pc' = "error" /\ msg' = Nil /\ UNCHANGED <<b, session, i, locals, caller>>

Final == pc \in {"done", "partial", "error", "nil", "panic"}
=============================================================================
