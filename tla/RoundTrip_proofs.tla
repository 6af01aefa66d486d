---------------------------- MODULE RoundTrip_proofs ----------------------------
(***************************************************************************)
(* What is written is decoded again as it was: first what the decoders     *)
(* return is shown to be canonical, that is, to hold nothing that Write    *)
(* would not write; then a canonical message is followed through the       *)
(* decoders, from each place of what was written to the next.              *)
(***************************************************************************)
EXTENDS Content_proofs

-----------------------------------------------------------------------------
(* Places in a concatenation.                                               *)

\* Where the words after the k-th of t begin.
Upto(t, k) == Len(FlattenSeq(SubSeq(t, 1, k)))

\* One sequence after the other.
LEMMA JoinAt ==
    ASSUME NEW x \in Seq(Byte), NEW y \in Seq(Byte)
    PROVE  /\ Len(x \o y) = Len(x) + Len(y) /\ Len(x) \in Nat /\ Len(y) \in Nat
           /\ \A j \in 1 .. Len(x) : j \in 1 .. Len(x \o y) /\ (x \o y)[j] = x[j]
           /\ \A j \in 1 .. Len(y) : Len(x) + j \in 1 .. Len(x \o y) /\ (x \o y)[Len(x) + j] = y[j]
<1>1. Len(x \o y) = Len(x) + Len(y) /\ Len(x) \in Nat /\ Len(y) \in Nat
  OBVIOUS
<1>2. \A j \in 1 .. Len(x) : j \in 1 .. Len(x \o y) /\ (x \o y)[j] = x[j]
  BY <1>1
<1>3. \A j \in 1 .. Len(y) : Len(x) + j \in 1 .. Len(x \o y) /\ (x \o y)[Len(x) + j] = y[j]
  BY <1>1
<1> QED BY <1>1, <1>2, <1>3, Zenon

\* FlattenSeq joins word after word, and so it does up to every one of them.
LEMMA FlattenUpto ==
    ASSUME NEW t \in Seq(Seq(Byte))
    PROVE  \E f : /\ f[0] = <<>> /\ FlattenSeq(t) = f[Len(t)]
                  /\ \A k \in 1 .. Len(t) : f[k] = f[k - 1] \o t[k]
                  /\ \A k \in 0 .. Len(t) : f[k] \in Seq(Byte) /\ FlattenSeq(SubSeq(t, 1, k)) = f[k]
<1>1. PICK f : /\ f[0] = <<>>
               /\ \A k \in 1 .. Len(t) : f[k] = f[k - 1] \o t[k]
               /\ \A k \in 0 .. Len(t) : f[k] \in Seq(Byte)
               /\ FlattenSeq(t) = f[Len(t)]
  BY FlattenSteps, Zenon
<1>2. \A k \in 0 .. Len(t) : FlattenSeq(SubSeq(t, 1, k)) = f[k]
  <2> TAKE k \in 0 .. Len(t)
  <2> DEFINE u == SubSeq(t, 1, k)
  <2>1. u \in Seq(Seq(Byte)) /\ Len(u) = k /\ \A j \in 1 .. k : u[j] = t[j] /\ j \in 1 .. Len(t)
    OBVIOUS
  <2> HIDE DEF u
  <2>2. \A j \in 1 .. Len(u) : f[j] = f[j - 1] \o u[j]
    BY <1>1, <2>1, Zenon
  <2>3. FlattenSeq(u) = f[Len(u)]
    BY ONLY <1>1, <2>1, <2>2, FlattenIs, Zenon
  <2> QED BY <2>1, <2>3, Zenon DEF u
<1> QED BY <1>1, <1>2, Zenon

\* Every word begins where the one before ends.
LEMMA UptoSteps ==
    ASSUME NEW t \in Seq(Seq(Byte))
    PROVE  /\ Upto(t, 0) = 0 /\ Upto(t, Len(t)) = Len(FlattenSeq(t))
           /\ \A k \in 0 .. Len(t) : Upto(t, k) \in Nat
           /\ \A k \in 1 .. Len(t) : Upto(t, k) = Upto(t, k - 1) + Len(t[k])
<1>1. PICK f : /\ f[0] = <<>> /\ FlattenSeq(t) = f[Len(t)]
               /\ \A k \in 1 .. Len(t) : f[k] = f[k - 1] \o t[k]
               /\ \A k \in 0 .. Len(t) : f[k] \in Seq(Byte) /\ FlattenSeq(SubSeq(t, 1, k)) = f[k]
  BY FlattenUpto, Zenon
<1>2. 0 \in 0 .. Len(t) /\ Len(t) \in 0 .. Len(t)
  OBVIOUS
<1>3. \A k \in 0 .. Len(t) : Upto(t, k) = Len(f[k]) /\ Len(f[k]) \in Nat
  <2> TAKE k \in 0 .. Len(t)
  <2>1. f[k] \in Seq(Byte) /\ Upto(t, k) = Len(f[k])
    BY <1>1, Zenon DEF Upto
  <2> QED BY <2>1
<1>4. \A k \in 1 .. Len(t) : Upto(t, k) = Upto(t, k - 1) + Len(t[k])
  <2> TAKE k \in 1 .. Len(t)
  <2>1. k - 1 \in 0 .. Len(t) /\ k \in 0 .. Len(t) /\ t[k] \in Seq(Byte)
    OBVIOUS
  <2>2. f[k - 1] \in Seq(Byte) /\ f[k] = f[k - 1] \o t[k]
    BY <1>1, <2>1, Zenon
  <2>3. Len(f[k - 1] \o t[k]) = Len(f[k - 1]) + Len(t[k])
    BY <2>1, <2>2, JoinAt, Zenon
  <2>4. Len(f[k]) = Len(f[k - 1]) + Len(t[k])
    BY <2>2, <2>3, Zenon
  <2> QED BY <1>3, <2>1, <2>4, Zenon
<1>5. Len(<<>>) = 0
  OBVIOUS
<1> QED BY <1>1, <1>2, <1>3, <1>4, <1>5, Zenon

\* Later words begin later.
LEMMA UptoMonotone ==
    ASSUME NEW t \in Seq(Seq(Byte)), NEW j \in 0 .. Len(t), NEW k \in 0 .. Len(t), j <= k
    PROVE  Upto(t, j) <= Upto(t, k)
<1> DEFINE T == {n \in Nat : j + n <= Len(t) => Upto(t, j) <= Upto(t, j + n)}
<1>1. Len(t) \in Nat
  OBVIOUS
<1>2. \A n \in 0 .. Len(t) : Upto(t, n) \in Nat
  BY UptoSteps, Zenon
<1>3. 0 \in T
  BY <1>1, <1>2
<1>4. \A n \in Nat : n \in T => n + 1 \in T
  <2> SUFFICES ASSUME NEW n \in Nat, n \in T, j + (n + 1) <= Len(t)
               PROVE  Upto(t, j) <= Upto(t, j + (n + 1))
    OBVIOUS
  <2>1. Upto(t, j) <= Upto(t, j + n)
    BY <1>1
  <2>2. j + (n + 1) \in 1 .. Len(t) /\ j + (n + 1) - 1 = j + n /\ j + n \in 0 .. Len(t)
    BY <1>1
  <2>3. Upto(t, j + (n + 1)) = Upto(t, j + n) + Len(t[j + (n + 1)]) /\ t[j + (n + 1)] \in Seq(Byte)
    BY <2>2, UptoSteps
  <2>4. Len(t[j + (n + 1)]) \in Nat
    BY <2>3
  <2>5. Upto(t, j) \in Nat /\ Upto(t, j + n) \in Nat
    BY <1>2, <2>2
  <2> QED BY ONLY <2>1, <2>3, <2>4, <2>5
<1>5. k - j \in T
  <2>1. Nat \subseteq T
    <3> HIDE DEF T
    <3> QED BY <1>3, <1>4, Induction, Zenon
  <2> HIDE DEF T
  <2> QED BY <2>1
<1> QED BY <1>1, <1>5

\* A word is no longer than the whole.
LEMMA WordFits ==
    ASSUME NEW t \in Seq(Seq(Byte)), NEW k \in 1 .. Len(t)
    PROVE  /\ Upto(t, k - 1) \in Nat /\ Upto(t, k) \in Nat /\ Len(t[k]) \in Nat
           /\ Upto(t, k) = Upto(t, k - 1) + Len(t[k]) /\ Upto(t, k) <= Upto(t, Len(t))
           /\ Len(t[k]) <= Upto(t, Len(t)) /\ Upto(t, Len(t)) \in Nat
<1>1. k - 1 \in 0 .. Len(t) /\ k \in 0 .. Len(t) /\ Len(t) \in 0 .. Len(t) /\ k <= Len(t)
  OBVIOUS
<1>2. Upto(t, k - 1) \in Nat /\ Upto(t, k) \in Nat /\ Upto(t, Len(t)) \in Nat
      /\ Upto(t, k) = Upto(t, k - 1) + Len(t[k])
  BY <1>1, UptoSteps, Zenon
<1>3. Upto(t, k) <= Upto(t, Len(t))
  BY <1>1, UptoMonotone, Zenon
<1>4. Len(t[k]) \in Nat
  BY t[k] \in Seq(Byte)
<1> QED BY ONLY <1>2, <1>3, <1>4

\* The words are there.
LEMMA WordAt ==
    ASSUME NEW t \in Seq(Seq(Byte)), NEW k \in 1 .. Len(t), NEW j \in 1 .. Len(t[k])
    PROVE  FlattenSeq(t)[Upto(t, k - 1) + j] = t[k][j]
<1>1. PICK f : /\ f[0] = <<>> /\ FlattenSeq(t) = f[Len(t)]
               /\ \A n \in 1 .. Len(t) : f[n] = f[n - 1] \o t[n]
               /\ \A n \in 0 .. Len(t) : f[n] \in Seq(Byte) /\ FlattenSeq(SubSeq(t, 1, n)) = f[n]
  BY FlattenUpto, Zenon
<1>2. \A n \in 0 .. Len(t) : Upto(t, n) = Len(f[n])
  BY <1>1, Zenon DEF Upto
<1> DEFINE x == Upto(t, k - 1) + j
           T == {n \in Nat : k + n <= Len(t) => x \in 1 .. Len(f[k + n]) /\ f[k + n][x] = t[k][j]}
<1>3. x = Len(f[k - 1]) + j /\ f[k - 1] \in Seq(Byte) /\ t[k] \in Seq(Byte) /\ f[k] = f[k - 1] \o t[k]
  <2>1. k - 1 \in 0 .. Len(t)
    OBVIOUS
  <2>2. Upto(t, k - 1) = Len(f[k - 1]) /\ f[k - 1] \in Seq(Byte)
    BY <1>1, <1>2, <2>1, Zenon
  <2>3. f[k] = f[k - 1] \o t[k]
    BY <1>1, Zenon
  <2> QED BY <2>2, <2>3
<1>4. 0 \in T
  <2>1. x \in 1 .. Len(f[k]) /\ f[k][x] = t[k][j]
    <3>1. /\ Len(f[k - 1]) + j \in 1 .. Len(f[k - 1] \o t[k])
          /\ (f[k - 1] \o t[k])[Len(f[k - 1]) + j] = t[k][j]
      BY <1>3, JoinAt, Zenon
    <3> HIDE DEF x
    <3> QED BY <1>3, <3>1, Zenon
  <2>2. k + 0 = k
    OBVIOUS
  <2> HIDE DEF x
  <2> QED BY <2>1, <2>2
<1>5. \A n \in Nat : n \in T => n + 1 \in T
  <2> SUFFICES ASSUME NEW n \in Nat, n \in T, k + (n + 1) <= Len(t)
               PROVE  x \in 1 .. Len(f[k + (n + 1)]) /\ f[k + (n + 1)][x] = t[k][j]
    OBVIOUS
  <2> DEFINE m == k + (n + 1)
  <2>1. m \in 1 .. Len(t) /\ m - 1 = k + n /\ k + n \in 0 .. Len(t) /\ k + n <= Len(t)
    <3>1. Len(t) \in Nat /\ k \in Nat /\ k >= 1
      OBVIOUS
    <3> QED BY ONLY <3>1, n \in Nat, k + (n + 1) <= Len(t)
  <2>2. x \in 1 .. Len(f[k + n]) /\ f[k + n][x] = t[k][j]
    <3> HIDE DEF x
    <3> QED BY <2>1, Zenon
  <2> HIDE DEF x, m
  <2>3. f[k + n] \in Seq(Byte) /\ t[m] \in Seq(Byte) /\ f[m] = f[k + n] \o t[m]
    <3>1. f[m] = f[m - 1] \o t[m]
      BY <1>1, <2>1, Zenon
    <3>2. f[k + n] \in Seq(Byte)
      BY <1>1, <2>1, Zenon
    <3>3. t[m] \in Seq(Byte)
      BY <2>1
    <3> QED BY <2>1, <3>1, <3>2, <3>3, Zenon
  <2>4. x \in 1 .. Len(f[m]) /\ f[m][x] = f[k + n][x]
    <3>1. \A y \in 1 .. Len(f[k + n]) : y \in 1 .. Len(f[k + n] \o t[m]) /\ (f[k + n] \o t[m])[y] = f[k + n][y]
      BY ONLY <2>3, JoinAt, Zenon
    <3> QED BY ONLY <2>2, <2>3, <3>1, Zenon
  <2> QED BY <2>2, <2>4, Zenon DEF m
<1>6. Len(t) - k \in T
  <2>1. Nat \subseteq T
    <3> HIDE DEF T
    <3> QED BY <1>4, <1>5, Induction, Zenon
  <2>2. Len(t) - k \in Nat
    OBVIOUS
  <2> HIDE DEF T
  <2> QED BY <2>1, <2>2
<1>7. k + (Len(t) - k) = Len(t)
  OBVIOUS
<1>8. f[Len(t)][x] = t[k][j]
  <2> HIDE DEF x
  <2> QED BY <1>6, <1>7
<1> QED BY <1>1, <1>8, Zenon

-----------------------------------------------------------------------------
(* What the slice holds.                                                    *)

\* At position k of the slice is s.
Has(k, s) == k + Len(s) <= Size /\ \A j \in 1 .. Len(s) : At(k + j - 1) = s[j]

\* The slice is at its beginning.
LEMMA HasAll == ASSUME b \in Seq(Byte) PROVE Has(0, b)
<1>1. Len(b) \in Nat
  OBVIOUS
<1>2. \A j \in 1 .. Len(b) : At(0 + j - 1) = b[j]
  <2> TAKE j \in 1 .. Len(b)
  <2>1. 0 + j - 1 \in 0 .. Size - 1 /\ (0 + j - 1) + 1 = j
    BY <1>1 DEF Size
  <2> QED BY ONLY <2>1 DEF At
<1> QED BY <1>1, <1>2 DEF Has, Size

\* One after the other.
LEMMA HasBoth ==
    ASSUME b \in Seq(Byte), NEW k \in Nat, NEW x \in Seq(Byte), NEW y \in Seq(Byte)
    PROVE  Has(k, x \o y) <=> Has(k, x) /\ Has(k + Len(x), y)
<1> DEFINE z == x \o y
<1>1. /\ Len(x) \in Nat /\ Len(y) \in Nat /\ Len(z) = Len(x) + Len(y) /\ Size \in Nat
      /\ \A j \in 1 .. Len(x) : z[j] = x[j]
      /\ \A j \in 1 .. Len(y) : z[Len(x) + j] = y[j]
  BY DEF Size
<1> HIDE DEF z
<1>2. ASSUME Has(k, z) PROVE Has(k, x) /\ Has(k + Len(x), y)
  <2>1. \A j \in 1 .. Len(x) : At(k + j - 1) = x[j]
    BY ONLY <1>1, <1>2 DEF Has
  <2>2. \A j \in 1 .. Len(y) : At(k + Len(x) + j - 1) = y[j]
    <3> TAKE j \in 1 .. Len(y)
    <3>1. Len(x) + j \in 1 .. Len(z) /\ k + (Len(x) + j) - 1 = k + Len(x) + j - 1
      BY ONLY <1>1, j \in 1 .. Len(y), k \in Nat
    <3>2. At(k + (Len(x) + j) - 1) = z[Len(x) + j]
      BY ONLY <3>1, <1>2 DEF Has
    <3> QED BY ONLY <1>1, <3>1, <3>2, j \in 1 .. Len(y)
  <2>3. k + Len(x) <= Size /\ k + Len(x) + Len(y) <= Size
    BY ONLY <1>1, <1>2, k \in Nat DEF Has
  <2> QED BY <2>1, <2>2, <2>3, Zenon DEF Has
<1>3. ASSUME Has(k, x), Has(k + Len(x), y) PROVE Has(k, z)
  <2>1. k + Len(z) <= Size
    BY ONLY <1>1, <1>3, k \in Nat DEF Has
  <2>2. \A j \in 1 .. Len(z) : At(k + j - 1) = z[j]
    <3> TAKE j \in 1 .. Len(z)
    <3>1. CASE j <= Len(x)
      BY ONLY <3>1, <1>1, <1>3, j \in 1 .. Len(z) DEF Has
    <3>2. CASE j > Len(x)
      <4> DEFINE m == j - Len(x)
      <4>1. m \in 1 .. Len(y) /\ Len(x) + m = j /\ k + Len(x) + m - 1 = k + j - 1
        BY ONLY <3>2, <1>1, j \in 1 .. Len(z), k \in Nat
      <4> HIDE DEF m
      <4>2. At(k + Len(x) + m - 1) = y[m] /\ z[Len(x) + m] = y[m]
        BY ONLY <4>1, <1>1, <1>3 DEF Has
      <4> QED BY ONLY <4>1, <4>2
    <3>3. j \in Nat
      BY ONLY <1>1, j \in 1 .. Len(z)
    <3> QED BY ONLY <1>1, <3>1, <3>2, <3>3
  <2> QED BY <2>1, <2>2, Zenon DEF Has
<1> QED BY <1>2, <1>3, Zenon DEF z

\* A word of what is there.
LEMMA HasWord ==
    ASSUME b \in Seq(Byte), NEW base \in Nat, NEW t \in Seq(Seq(Byte)), Has(base, FlattenSeq(t)),
           NEW k \in 1 .. Len(t)
    PROVE  Has(base + Upto(t, k - 1), t[k])
<1>1. /\ Upto(t, k - 1) \in Nat /\ Upto(t, k) \in Nat /\ Len(t[k]) \in Nat
      /\ Upto(t, k) = Upto(t, k - 1) + Len(t[k]) /\ Upto(t, k) <= Upto(t, Len(t))
      /\ Upto(t, Len(t)) \in Nat
  BY WordFits, Zenon
<1>2. Upto(t, Len(t)) = Len(FlattenSeq(t))
  BY UptoSteps, Zenon
<1>3. \A j \in 1 .. Len(t[k]) : At(base + Upto(t, k - 1) + j - 1) = t[k][j]
  <2> TAKE j \in 1 .. Len(t[k])
  <2>1. FlattenSeq(t)[Upto(t, k - 1) + j] = t[k][j]
    BY WordAt
  <2>2. /\ Upto(t, k - 1) + j \in 1 .. Len(FlattenSeq(t))
        /\ base + (Upto(t, k - 1) + j) - 1 = base + Upto(t, k - 1) + j - 1
    <3>1. j \in Nat /\ j >= 1 /\ j <= Len(t[k])
      BY <1>1
    <3> DEFINE u == Upto(t, k - 1)  v == Upto(t, Len(t))  l == Len(t[k])
    <3>2. u \in Nat /\ l \in Nat /\ v \in Nat /\ u + l <= v /\ v = Len(FlattenSeq(t)) /\ j <= l
      BY <1>1, <1>2, <3>1
    <3> HIDE DEF u, v, l
    <3>3. u + j \in 1 .. v /\ base + (u + j) - 1 = base + u + j - 1
      BY ONLY <3>1, <3>2, base \in Nat
    <3> QED BY <3>2, <3>3, Zenon DEF u
  <2>3. At(base + (Upto(t, k - 1) + j) - 1) = FlattenSeq(t)[Upto(t, k - 1) + j]
    BY ONLY <2>2, Has(base, FlattenSeq(t)) DEF Has
  <2> QED BY ONLY <2>1, <2>2, <2>3
<1>4. Size \in Nat
  BY DEF Size
<1>5. base + Upto(t, k - 1) + Len(t[k]) <= Size
  <2>1. PICK u, v, l, z : u = Upto(t, k - 1) /\ v = Len(FlattenSeq(t)) /\ l = Len(t[k]) /\ z = Size
    OBVIOUS
  <2>2. u \in Nat /\ l \in Nat /\ v \in Nat /\ u + l <= v
    BY ONLY <1>1, <1>2, <2>1
  <2>3. base + v <= z
    BY <2>1, Zenon DEF Has
  <2>4. base + u + l <= z
    <3>1. z \in Nat
      BY <1>4, <2>1, Zenon
    <3> QED BY ONLY <2>2, <2>3, <3>1, base \in Nat
  <2> QED BY <2>1, <2>4, Zenon
<1> QED BY <1>3, <1>5, Zenon DEF Has

\* Reading it.
LEMMA HasBytes ==
    ASSUME NEW k \in Nat, NEW s \in Seq(Byte), Has(k, s)
    PROVE  Bytes(k, Len(s)) = s
<1>1. \A j \in 1 .. Len(s) : At(k + j - 1) = s[j]
  BY DEF Has
<1>2. Bytes(k, Len(s)) = [j \in 1 .. Len(s) |-> s[j]]
  BY <1>1, Zenon DEF Bytes
<1>3. s = [j \in 1 .. Len(s) |-> s[j]]
  OBVIOUS
<1> QED BY <1>2, <1>3, Zenon

\* Reading n bytes of it.
LEMMA HasBs ==
    ASSUME NEW k \in Nat, NEW n \in Nat, NEW s \in Bs(n), Has(k, s)
    PROVE  Bytes(k, n) = s
<1>1. s \in Seq(Byte) /\ Len(s) = n
  BY DEF Bs
<1> QED BY <1>1, HasBytes

\* Reading a byte, and two, and a number.
LEMMA HasByte == ASSUME NEW k \in Nat, NEW x, Has(k, <<x>>) PROVE At(k) = x /\ k + 1 <= Size
<1>1. Len(<<x>>) = 1 /\ <<x>>[1] = x /\ k + 1 - 1 = k
  OBVIOUS
<1> QED BY ONLY <1>1, Has(k, <<x>>) DEF Has

\* Two bytes.
LEMMA HasTwo ==
    ASSUME NEW k \in Nat, NEW x, NEW y, Has(k, <<x, y>>)
    PROVE  At(k) = x /\ At(k + 1) = y /\ k + 2 <= Size
<1>1. Len(<<x, y>>) = 2 /\ <<x, y>>[1] = x /\ <<x, y>>[2] = y /\ k + 1 - 1 = k /\ k + 2 - 1 = k + 1
  OBVIOUS
<1> QED BY ONLY <1>1, Has(k, <<x, y>>) DEF Has

\* A 16-bit number.
LEMMA HasU16 ==
    ASSUME NEW k \in Nat, NEW n \in Nat, n <= MaxUint16, Has(k, U16(n))
    PROVE  Uint16(k) = n /\ k + 2 <= Size
<1>1. At(k) = (n \div 256) % 256 /\ At(k + 1) = n % 256 /\ k + 2 <= Size
  BY HasTwo, Zenon DEF U16
<1>2. 256 * ((n \div 256) % 256) + (n % 256) = n
  BY ONLY n \in Nat, n <= MaxUint16 DEF MaxUint16
<1> QED BY ONLY <1>1, <1>2 DEF Uint16

\* Elements of a flat list.
LEMMA FlatAt ==
    ASSUME NEW n \in {2, 4, 12}, NEW s \in Seq(Bs(n)), NEW k \in 1 .. Len(s), NEW j \in 1 .. n
    PROVE  /\ n * (k - 1) + j \in 1 .. n * Len(s)
           /\ Flat(s, n)[n * (k - 1) + j] = s[k][j]
<1> DEFINE x == n * (k - 1) + j
<1>1. Len(s) \in Nat /\ k \in Nat /\ k >= 1 /\ k <= Len(s) /\ j \in Nat /\ j >= 1 /\ j <= n
  OBVIOUS
<1>2. x \in Nat /\ x >= 1 /\ x <= n * Len(s) /\ (x - 1) \div n = k - 1 /\ (x - 1) % n = j - 1
  <2>1. CASE n = 2
    BY ONLY <1>1, <2>1
  <2>2. CASE n = 4
    BY ONLY <1>1, <2>2
  <2>3. CASE n = 12
    BY ONLY <1>1, <2>3
  <2> QED BY <2>1, <2>2, <2>3
<1>3. x \in 1 .. n * Len(s)
  <2> HIDE DEF x
  <2>1. n * Len(s) \in Nat
    BY ONLY <1>1, n \in {2, 4, 12}
  <2> QED BY ONLY <1>2, <2>1
<1>4. Flat(s, n)[x] = s[1 + (x - 1) \div n][1 + ((x - 1) % n)]
  <2> HIDE DEF x
  <2> QED BY <1>3, Zenon DEF Flat
<1>5. 1 + (k - 1) = k /\ 1 + (j - 1) = j
  OBVIOUS
<1> HIDE DEF x
<1>6. Flat(s, n)[x] = s[k][j]
  BY ONLY <1>2, <1>4, <1>5
<1> QED BY <1>3, <1>6, Zenon DEF x

\* Reading a list of elements of n bytes.
LEMMA HasFlat ==
    ASSUME NEW n \in {2, 4, 12}, NEW s \in Seq(Bs(n)), NEW k \in Nat, Has(k, Flat(s, n))
    PROVE  [m \in 1 .. Len(s) |-> Bytes(k + n * (m - 1), n)] = s
<1>1. Len(Flat(s, n)) = n * Len(s)
  BY FlatType DEF Bs
<1>2. \A m \in 1 .. Len(s) : Bytes(k + n * (m - 1), n) = s[m]
  <2> TAKE m \in 1 .. Len(s)
  <2>1. s[m] \in Seq(Byte) /\ Len(s[m]) = n
    BY s[m] \in Bs(n) DEF Bs
  <2>2. \A j \in 1 .. n : At(k + n * (m - 1) + j - 1) = s[m][j]
    <3> TAKE j \in 1 .. n
    <3>1. n * (m - 1) + j \in 1 .. Len(Flat(s, n)) /\ Flat(s, n)[n * (m - 1) + j] = s[m][j]
      BY <1>1, FlatAt
    <3>2. At(k + (n * (m - 1) + j) - 1) = Flat(s, n)[n * (m - 1) + j]
      BY <3>1, Zenon DEF Has
    <3>3. k + (n * (m - 1) + j) - 1 = k + n * (m - 1) + j - 1
      <4>1. n * (m - 1) \in Int
        BY n \in Nat, m \in Nat
      <4> QED BY ONLY <4>1, k \in Nat, j \in 1 .. n, n \in {2, 4, 12}
    <3> QED BY ONLY <3>1, <3>2, <3>3
  <2>3. Bytes(k + n * (m - 1), n) = [j \in 1 .. n |-> s[m][j]]
    BY <2>2, Zenon DEF Bytes
  <2>4. s[m] = [j \in 1 .. Len(s[m]) |-> s[m][j]]
    BY <2>1
  <2> QED BY <2>1, <2>3, <2>4
<1>3. [m \in 1 .. Len(s) |-> Bytes(k + n * (m - 1), n)] = [m \in 1 .. Len(s) |-> s[m]]
  BY <1>2, Zenon
<1>4. s = [m \in 1 .. Len(s) |-> s[m]]
  OBVIOUS
<1> QED BY <1>3, <1>4, Zenon

\* The extended-length flag, cleared and set.
LEMMA FlagBits ==
    ASSUME NEW flag \in Byte, NEW plain, plain = flag - ATTRIBUTE_EXTENDED * Extended(flag)
    PROVE  /\ plain \in Byte /\ plain + ATTRIBUTE_EXTENDED \in Byte
           /\ Extended(plain) = 0 /\ Extended(plain + ATTRIBUTE_EXTENDED) = 1
           /\ Extended(flag) = 0 => plain = flag
           /\ Extended(flag) = 1 => plain + ATTRIBUTE_EXTENDED = flag
           /\ Extended(flag) \in {0, 1}
<1>1. flag \in Nat /\ flag <= 255
  BY DEF Byte
<1> DEFINE q == flag \div 32  r == flag % 16  e == (flag \div 16) % 2
<1>2. q \in Nat /\ r \in Nat /\ r <= 15 /\ e \in {0, 1} /\ flag = 32 * q + 16 * e + r /\ q <= 7
  BY ONLY <1>1
<1> HIDE DEF q, r, e
<1>3. Extended(flag) = e
  BY Zenon DEF e, Extended, ATTRIBUTE_EXTENDED
<1>4. plain = 32 * q + r
  BY ONLY <1>2, <1>3, plain = flag - ATTRIBUTE_EXTENDED * Extended(flag) DEF ATTRIBUTE_EXTENDED
<1>5. ((32 * q + r) \div 16) % 2 = 0 /\ ((32 * q + r + 16) \div 16) % 2 = 1
  BY ONLY <1>2
<1>6. Extended(plain) = 0 /\ Extended(plain + ATTRIBUTE_EXTENDED) = 1
  BY ONLY <1>4, <1>5 DEF Extended, ATTRIBUTE_EXTENDED
<1>7. plain \in Byte /\ plain + ATTRIBUTE_EXTENDED \in Byte
  BY ONLY <1>2, <1>4 DEF Byte, ATTRIBUTE_EXTENDED
<1>8. /\ Extended(flag) = 0 => plain = flag
      /\ Extended(flag) = 1 => plain + ATTRIBUTE_EXTENDED = flag
  BY ONLY <1>2, <1>3, <1>4 DEF ATTRIBUTE_EXTENDED
<1> QED BY <1>2, <1>3, <1>6, <1>7, <1>8

-----------------------------------------------------------------------------
(* What the decoders return is canonical: of everything that is written     *)
(* alike they return one form.                                              *)

SizeOf(afi) == IF afi = AFI_IPV6 THEN 16 ELSE 4

\* A prefix has zeros after the bytes that are written, and where no path identifier is.
CanonicalPrefixes(size, path) ==
    {r \in Route(size) : /\ \A j \in 1 .. size : j > GetSplitLen(r) => r.ip[j] = 0
                         /\ ~path => r.path = Zeros(4)}

\* An AS number that is read in two bytes has no others.
CanonicalSegments(enc2bytes) ==
    {s \in Segments : enc2bytes => \A k \in DOMAIN s.path : Short(s.path[k])}

\* The prefixes of an attribute are of its family.
Family(a, o) == <<a.afi, a.safi>> \in o.addPath
OfFamily(a, path) ==
    /\ a.afi <= MaxUint16 /\ a.nlri \in Seq(CanonicalPrefixes(SizeOf(a.afi), path))
    /\ a.afi \notin {AFI_IPV4, AFI_IPV6} => a.nlri = <<>>

\* An attribute is read with the options o of its session.
ReadWith(a, o) ==
    /\ a.code = ASPATH => /\ a.enc2bytes = o.enc2bytes
                          /\ a.segments \in Seq(CanonicalSegments(o.enc2bytes))
    /\ a.code = AGGREGATOR => a.enc2bytes = o.enc2bytes
    /\ a.code = REACH => a.addPath = Family(a, o) /\ OfFamily(a, a.addPath)
    /\ a.code = UNREACH => ~a.addPath /\ OfFamily(a, Family(a, o))
CanonicalAttributes(o) == {a \in Attributes : ReadWith(a, o)}

UpdateReadWith(m, o) ==
    /\ m.addPath = (<<AFI_IPV4, SAFI_UNICAST>> \in o.addPath)
    /\ m.withdrawn \in Seq(CanonicalPrefixes(4, m.addPath))
    /\ m.nlri \in Seq(CanonicalPrefixes(4, m.addPath))
CanonicalUpdates(o) ==
    {m \in Updates : UpdateReadWith(m, o) /\ m.attrs \in Seq(CanonicalAttributes(o))}
CanonicalParams == {p \in Params : p.type # PARAMETER_CAPA => p.capas = <<>>}
CanonicalOpens  == {m \in Opens : m.params \in Seq(CanonicalParams)}
CanonicalMessages(o) == CanonicalOpens \cup CanonicalUpdates(o) \cup Notifications \cup KeepAlives

\* The prefix of a RIB record is of its family when the subtype says which.
RibFamily(r, size) ==
    r.asAfiSafi => /\ r.afi \in {AFI_IPV4, AFI_IPV6} /\ r.safi \in {SAFI_UNICAST, SAFI_MULTICAST}
                   /\ size = SizeOf(r.afi)
CanonicalRib(r) == \E size \in {4, 16} : r.nlri \in CanonicalPrefixes(size, FALSE) /\ RibFamily(r, size)
CanonicalEntries == {e \in Entries : e.attrs \in Seq(CanonicalAttributes(NoOptions))}

-----------------------------------------------------------------------------
(* So is what is decoded so far.                                            *)

Listing(ret) == pc = ret \/ InNLRI(ret)
Options == IF source = "socket" THEN session ELSE NoOptions

ListCanonical == nlri.list \in Seq(CanonicalPrefixes(nlri.size, nlri.path))
ListingCanonical ==
    /\ Listing("reach") => attr.addPath = Family(attr, session) /\ nlri.path = attr.addPath
    /\ Listing("unreach") => nlri.path = Family(attr, session)
    /\ Listing("reach") \/ Listing("unreach") =>
          /\ attr.afi <= MaxUint16 /\ nlri.size = SizeOf(attr.afi)
          /\ attr.afi \notin {AFI_IPV4, AFI_IPV6} => pc # "nlri" /\ nlri.list = <<>>
    /\ Listing("withdrawn") \/ Listing("prefixes") => nlri.size = 4 /\ nlri.path = msg.addPath
    /\ InPrefix => ~nlri.path /\ RibFamily(rec, nlri.size)
SegmentsCanonical == pc = "aspath" => attr.segments \in Seq(CanonicalSegments(session.enc2bytes))
MessageCanonical ==
    /\ InMessage => session = Options
    /\ Waits("entry") => session = NoOptions
    /\ InAttributes \/ InUpdate \/ pc = "entry" => msg.attrs \in Seq(CanonicalAttributes(session))
    /\ InUpdate => UpdateReadWith(msg, session)
    /\ pc \in {"param", "capa"} => msg.params \in Seq(CanonicalParams)
    /\ pc = "capa" => msg.params[Len(msg.params)].type = PARAMETER_CAPA
RecordCanonical ==
    /\ pc = "peers" => left + Len(rec.peers) <= MaxUint16 /\ Len(rec.view) <= MaxUint16
    /\ pc = "entries" \/ Waits("entry") => CanonicalRib(rec) /\ left + Len(rec.entries) <= MaxUint16
    /\ pc = "entries" => rec.entries \in Seq(CanonicalEntries)
    /\ Waits("entry") => \A k \in 1 .. Len(rec.entries) - 1 : rec.entries[k] \in CanonicalEntries
RecordResult(r) ==
    /\ r.type = "PEER_INDEX" => Len(r.peers) <= MaxUint16 /\ Len(r.view) <= MaxUint16
    /\ r.type = "RIB" => /\ CanonicalRib(r) /\ Len(r.entries) <= MaxUint16
                         /\ r.entries \in Seq(CanonicalEntries)
ResultCanonical ==
    pc = "done" =>
        /\ source # "mrt" => session = Options
        /\ source # "mrt" \/ rec.type = "MESSAGE" => msg \in CanonicalMessages(Options)
        /\ source = "mrt" => RecordResult(rec)
Canonical == ListCanonical /\ ListingCanonical /\ SegmentsCanonical /\ MessageCanonical
             /\ RecordCanonical /\ ResultCanonical

-----------------------------------------------------------------------------
(* It stays so: within the attributes.                                      *)

\* The attributes decoded so far.
LEMMA AttrsType == Inv /\ InAttributes => msg.attrs \in Seq(Attributes)
<1> SUFFICES ASSUME Inv, InAttributes PROVE msg.attrs \in Seq(Attributes)
  BY Zenon
<1>1. <<>> \in Seq(Attributes)
  OBVIOUS
<1> QED BY <1>1, AttributesOf, Zenon

\* An error has no result.
LEMMA FailCanonical == ASSUME Canonical, Fail PROVE Canonical'
<1>1. pc' = "error" /\ session' = session /\ nlri' = nlri
  BY Zenon DEF Fail, locals
<1>2. ListCanonical'
  BY <1>1, Zenon DEF Canonical, ListCanonical
<1>3. ListingCanonical' /\ SegmentsCanonical'
  BY <1>1 DEF ListingCanonical, SegmentsCanonical, Listing, InNLRI, InPrefix
<1>4. MessageCanonical' /\ RecordCanonical' /\ ResultCanonical'
  BY <1>1 DEF MessageCanonical, RecordCanonical, ResultCanonical, InMessage, InUpdate, InAttributes, Waits
<1> QED BY <1>2, <1>3, <1>4, Zenon DEF Canonical

\* ParsePathAttribute goes on in place, or returns, with attributes.
LEMMA InAttributesCanonical ==
    ASSUME Inv, Canonical, InAttributes, UNCHANGED <<session, nlri, source, rec, left>>,
           pc' \in {"attrs", "attr", "aspath", attr.ret}, attr'.ret = attr.ret,
           \/ msg' = msg
           \/ \E s \in Seq(CanonicalAttributes(session)) : msg' = [msg EXCEPT !.attrs = s],
           pc' = "aspath" => attr'.segments \in Seq(CanonicalSegments(session.enc2bytes))
    PROVE  Canonical'
<1>1. attr.ret \in {"attributes", "entry", "tableDumpAttributes"}
  BY DEF Inv, IInv, AttributesInside
<1>2. ListCanonical' /\ SegmentsCanonical'
  BY DEF Canonical, ListCanonical, SegmentsCanonical
<1>3. (InUpdate' => InUpdate) /\ (InMessage' => InMessage) /\ (Waits("entry")' => Waits("entry"))
  BY <1>1 DEF InUpdate, InAttributes, InMessage, Waits
<1>4. ListingCanonical'
  BY <1>1 DEF ListingCanonical, Listing, InNLRI, InPrefix
<1>5. /\ msg'.attrs \in Seq(CanonicalAttributes(session))
      /\ InUpdate => UpdateReadWith(msg, session)'
  <2>1. msg.attrs \in Seq(CanonicalAttributes(session)) /\ (InUpdate => UpdateReadWith(msg, session))
    BY Zenon DEF Canonical, MessageCanonical
  <2>2. CASE msg' = msg
    BY <2>1, <2>2 DEF UpdateReadWith
  <2>3. CASE \E s \in Seq(CanonicalAttributes(session)) : msg' = [msg EXCEPT !.attrs = s]
    <3>1. PICK s \in Seq(CanonicalAttributes(session)) : msg' = [msg EXCEPT !.attrs = s]
      BY <2>3
    <3>2. InUpdate => msg \in Updates
      BY Zenon DEF Inv, Typed, MessageTyped
    <3>3. ~InUpdate => msg \in [attrs : Seq(Attributes)]
      BY <1>1, Zenon DEF Inv, Typed, MessageTyped, InUpdate, InEntry, Outside
    <3>4. msg'.attrs = s
      <4>1. CASE InUpdate
        BY ONLY <3>1, <3>2, <4>1 DEF Updates
      <4>2. CASE ~InUpdate
        BY ONLY <3>1, <3>3, <4>2
      <4> QED BY <4>1, <4>2, Zenon
    <3>5. InUpdate => /\ msg'.addPath = msg.addPath /\ msg'.withdrawn = msg.withdrawn
                      /\ msg'.nlri = msg.nlri
      BY ONLY <3>1, <3>2 DEF Updates
    <3> QED BY <2>1, <3>4, <3>5 DEF UpdateReadWith
  <2> QED BY <2>2, <2>3
<1>6. MessageCanonical'
  <2>1. (InMessage => session = Options) /\ (Waits("entry") => session = NoOptions)
    BY Zenon DEF Canonical, MessageCanonical
  <2>2. Options' = Options
    BY DEF Options
  <2>3. pc' \notin {"param", "capa"}
    BY <1>1
  <2> QED BY <1>3, <1>5, <2>1, <2>2, <2>3 DEF MessageCanonical
<1>7. RecordCanonical'
  <2>1. pc' \notin {"peers", "entries"}
    BY <1>1
  <2>2. Waits("entry") => /\ CanonicalRib(rec) /\ left + Len(rec.entries) <= MaxUint16
                          /\ \A k \in 1 .. Len(rec.entries) - 1 : rec.entries[k] \in CanonicalEntries
    BY Zenon DEF Canonical, RecordCanonical
  <2>3. CanonicalRib(rec)' = CanonicalRib(rec)
    BY DEF CanonicalRib, RibFamily
  <2> QED BY <1>3, <2>1, <2>2, <2>3 DEF RecordCanonical
<1>8. ResultCanonical'
  BY <1>1 DEF ResultCanonical
<1> QED BY <1>2, <1>4, <1>6, <1>7, <1>8, Zenon DEF Canonical

\* AppendAttribute adds one that is read with the options of the session.
LEMMA AppendAttributeCanonical ==
    ASSUME Inv, Inv', Canonical, pc \in {"attr", "aspath", "reach", "unreach"}, NEW a,
           AppendAttribute(a), ReadWith(a, session)
    PROVE  Canonical'
<1>1. InAttributes /\ pc' = "attrs" /\ UNCHANGED <<session, nlri, source, rec, left, attr>>
  BY DEF InAttributes, AppendAttribute, caller
<1>2. msg' = [msg EXCEPT !.attrs = Append(msg.attrs, a)]
  BY DEF AppendAttribute
<1>3. msg.attrs \in Seq(Attributes) /\ msg.attrs \in Seq(CanonicalAttributes(session))
  BY <1>1, AttrsType, Zenon DEF Canonical, MessageCanonical
<1>4. "attrs" \in DOMAIN msg
  <2>1. attr.ret \in {"attributes", "entry", "tableDumpAttributes"}
    BY <1>1 DEF Inv, IInv, AttributesInside
  <2>2. msg \in Updates \/ msg \in [attrs : Seq(Attributes)]
    BY <1>1, <2>1, Zenon DEF Inv, Typed, MessageTyped, InUpdate, InEntry, Outside
  <2> QED BY ONLY <2>2 DEF Updates
<1>5. a \in Attributes
  <2>1. InAttributes'
    BY <1>1 DEF InAttributes
  <2>2. (Inv /\ InAttributes => msg.attrs \in Seq(Attributes))'
    BY AttrsType, PTL
  <2>3. msg'.attrs \in Seq(Attributes)
    BY <2>1, <2>2, Zenon
  <2>4. msg'.attrs = Append(msg.attrs, a)
    BY <1>2, <1>4
  <2>5. Append(msg.attrs, a) \in Seq(Attributes)
    BY <2>3, <2>4, Zenon
  <2>6. Len(Append(msg.attrs, a)) = Len(msg.attrs) + 1 /\ Append(msg.attrs, a)[Len(msg.attrs) + 1] = a
        /\ Len(msg.attrs) \in Nat
    BY ONLY <1>3
  <2> QED BY ONLY <2>5, <2>6
<1>6. Append(msg.attrs, a) \in Seq(CanonicalAttributes(session))
  <2>1. a \in CanonicalAttributes(session)
    BY <1>5, Zenon DEF CanonicalAttributes
  <2> QED BY ONLY <1>3, <2>1
<1>7. \E s \in Seq(CanonicalAttributes(session)) : msg' = [msg EXCEPT !.attrs = s]
  BY <1>2, <1>6, Zenon
<1>8. pc' \in {"attrs", "attr", "aspath", attr.ret} /\ attr'.ret = attr.ret /\ pc' # "aspath"
  BY <1>1
<1> QED BY <1>1, <1>7, <1>8, InAttributesCanonical

\* ReturnAttributes leaves them as they are.
LEMMA ReturnAttributesCanonical ==
    ASSUME Inv, Canonical, pc \in {"attrs", "attr", "aspath"}, NEW err, ReturnAttributes(err)
    PROVE  Canonical'
<1>1. InAttributes /\ pc' = attr.ret /\ UNCHANGED <<session, nlri, source, rec, left, attr, msg>>
  BY DEF InAttributes, ReturnAttributes, caller
<1>2. attr.ret \in {"attributes", "entry", "tableDumpAttributes"}
  BY <1>1 DEF Inv, IInv, AttributesInside
<1>3. pc' # "aspath" /\ attr'.ret = attr.ret
  BY <1>1, <1>2
<1> QED BY <1>1, <1>3, InAttributesCanonical

-----------------------------------------------------------------------------
(* The attributes, one by one.                                              *)

\* The invariant rules out a panic.
LEMMA NoPanicNext == Inv' => pc' # "panic"
BY DEF Inv, IInv, NoPanic

\* Attributes whose content does not depend on the options.
LEMMA PlainCanonical ==
    ASSUME Inv, Inv', Canonical,
           ParseOrigin \/ ParseMedLocPref \/ ParseAtomicAggregate \/ ParseCommunities \/ ParseUnknown
    PROVE  Canonical'
<1>1. pc' # "panic"
  BY NoPanicNext
<1>2. pc = "attr" /\ \/ ReturnAttributes(TRUE)
                     \/ \E a : /\ a.code \notin {ASPATH, AGGREGATOR, REACH, UNREACH}
                               /\ AppendAttribute(a)
  <2>1. CASE ParseOrigin
    <3> DEFINE a == [code |-> ORIGIN, origin |-> At(i)]
    <3>1. a.code \notin {ASPATH, AGGREGATOR, REACH, UNREACH}
      BY DEF ORIGIN, ASPATH, AGGREGATOR, REACH, UNREACH
    <3>2. pc = "attr" /\ (ReturnAttributes(TRUE) \/ AppendAttribute(a))
      BY <1>1, <2>1, Zenon DEF ParseOrigin, Case, Reading
    <3> QED BY <3>1, <3>2, Zenon
  <2>2. CASE ParseMedLocPref
    <3> DEFINE a == [code |-> attr.code, value |-> Bytes(i, 4)]
    <3>1. pc = "attr" /\ attr.code \in {MED, LOCPREF} /\ (ReturnAttributes(TRUE) \/ AppendAttribute(a))
      BY <1>1, <2>2, Zenon DEF ParseMedLocPref, Case, Reading
    <3>2. a.code \notin {ASPATH, AGGREGATOR, REACH, UNREACH}
      BY <3>1 DEF MED, LOCPREF, ASPATH, AGGREGATOR, REACH, UNREACH
    <3> QED BY <3>1, <3>2, Zenon
  <2>3. CASE ParseAtomicAggregate
    <3> DEFINE a == [code |-> ATOMIC_AGGREGATE]
    <3>1. a.code \notin {ASPATH, AGGREGATOR, REACH, UNREACH}
      BY DEF ATOMIC_AGGREGATE, ASPATH, AGGREGATOR, REACH, UNREACH
    <3>2. pc = "attr" /\ AppendAttribute(a)
      BY <2>3, Zenon DEF ParseAtomicAggregate, Case
    <3> QED BY <3>1, <3>2, Zenon
  <2>4. CASE ParseCommunities
    <3> DEFINE size == IF attr.code = COMMUNITIES THEN 4 ELSE 12
               n    == Data \div size
               list == [k \in 1 .. n |-> Bytes(i + size * (k - 1), size)]
               a == [code |-> attr.code, list |-> list]
    <3>1. pc = "attr" /\ attr.code \in {COMMUNITIES, LARGECOMMUNITIES} /\ AppendAttribute(a)
      BY <1>1, <2>4, Zenon DEF ParseCommunities, Case, Reading
    <3>2. a.code = attr.code
      <4> HIDE DEF list
      <4> QED OBVIOUS
    <3>3. a.code \notin {ASPATH, AGGREGATOR, REACH, UNREACH}
      BY <3>1, <3>2 DEF COMMUNITIES, LARGECOMMUNITIES, ASPATH, AGGREGATOR, REACH, UNREACH
    <3> HIDE DEF a
    <3> QED BY <3>1, <3>3, Zenon
  <2>5. CASE ParseUnknown
    <3> DEFINE a == [code |-> attr.code, flag |-> attr.flag, data |-> Bytes(i, Data)]
    <3>1. pc = "attr" /\ attr.code \notin Decoded /\ AppendAttribute(a)
      BY <2>5, Zenon DEF ParseUnknown
    <3>2. a.code \notin {ASPATH, AGGREGATOR, REACH, UNREACH}
      BY <3>1 DEF Decoded
    <3> QED BY <3>1, <3>2, Zenon
  <2> QED BY <2>1, <2>2, <2>3, <2>4, <2>5, Zenon
<1>3. ASSUME NEW a, a.code \notin {ASPATH, AGGREGATOR, REACH, UNREACH} PROVE ReadWith(a, session)
  BY <1>3, Zenon DEF ReadWith
<1> QED BY <1>2, <1>3, AppendAttributeCanonical, ReturnAttributesCanonical, Zenon

\* NEXT_HOP.
LEMMA NextHopCanonical == ASSUME Inv, Inv', Canonical, ParseNextHop PROVE Canonical'
<1>1. pc = "attr" /\ \/ AppendAttribute([code |-> NEXTHOP, nextHop |-> Bytes(i, 4)])
                     \/ /\ pc' = attr.ret /\ msg' = [msg EXCEPT !.attrs = <<>>]
                        /\ UNCHANGED <<session, nlri, attr, caller>>
  BY NoPanicNext, Zenon DEF ParseNextHop, Case, Reading
<1>2. ReadWith([code |-> NEXTHOP, nextHop |-> Bytes(i, 4)], session)
  BY DEF ReadWith, NEXTHOP, ASPATH, AGGREGATOR, REACH, UNREACH
<1>3. CASE /\ pc' = attr.ret /\ msg' = [msg EXCEPT !.attrs = <<>>]
           /\ UNCHANGED <<session, nlri, attr, caller>>
  <2>1. InAttributes /\ UNCHANGED <<session, nlri, source, rec, left>>
    BY <1>1, <1>3 DEF InAttributes, caller
  <2>2. attr.ret \in {"attributes"} \cup Outside
    BY <1>1, InAttributeFacts, Zenon
  <2>3. pc' # "aspath" /\ attr'.ret = attr.ret
    BY <1>3, <2>2 DEF Outside
  <2>4. <<>> \in Seq(CanonicalAttributes(session))
    OBVIOUS
  <2>5. \E s \in Seq(CanonicalAttributes(session)) : msg' = [msg EXCEPT !.attrs = s]
    BY <1>3, <2>4, Zenon
  <2> QED BY <1>3, <2>1, <2>3, <2>5, InAttributesCanonical
<1> QED BY <1>1, <1>2, <1>3, AppendAttributeCanonical

\* AGGREGATOR.
LEMMA AggregatorCanonical == ASSUME Inv, Inv', Canonical, ParseAggregator PROVE Canonical'
<1> DEFINE A(asn, id) == [code |-> AGGREGATOR, asn |-> asn, id |-> id, enc2bytes |-> session.enc2bytes]
<1>1. pc = "attr" /\ \/ AppendAttribute(A(Bytes(i, 4), Bytes(i + 4, 4)))
                     \/ AppendAttribute(A(Zeros(2) \o Bytes(i, 2), Bytes(i + 2, 4)))
                     \/ AppendAttribute(A(Zeros(4), <<>>))
  BY NoPanicNext, Zenon DEF ParseAggregator, Case, Reading
<1>2. ASSUME NEW asn, NEW id PROVE ReadWith(A(asn, id), session)
  BY DEF ReadWith, ASPATH, AGGREGATOR, REACH, UNREACH
<1> HIDE DEF A
<1> QED BY <1>1, <1>2, AppendAttributeCanonical, Zenon

\* AS_PATH begins.
LEMMA ASPathCanonical == ASSUME Inv, Canonical, ParseASPath PROVE Canonical'
<1>1. /\ pc = "attr" /\ pc' = "aspath" /\ attr' = [ret |-> attr.ret, segments |-> <<>>]
      /\ UNCHANGED <<session, nlri, source, rec, left, msg>>
  BY DEF ParseASPath, Case, caller
<1>2. InAttributes
  BY <1>1 DEF InAttributes
<1>3. attr'.segments \in Seq(CanonicalSegments(session.enc2bytes))
  <2>1. <<>> \in Seq(CanonicalSegments(session.enc2bytes))
    OBVIOUS
  <2> QED BY <1>1, <2>1
<1>4. attr'.ret = attr.ret
  BY <1>1
<1> QED BY <1>1, <1>2, <1>3, <1>4, InAttributesCanonical

\* A number of 2 bytes is short.
LEMMA ShortWidened ==
    ASSUME NEW x \in Bs(2)
    PROVE  Short(Zeros(2) \o x) /\ Short(Zeros(4))
<1>1. Zeros(2) \in Seq(Byte) /\ Len(Zeros(2)) = 2 /\ x \in Seq(Byte)
  BY ZerosType DEF Bs
<1>2. Zeros(2)[1] = 0 /\ Zeros(2)[2] = 0 /\ Zeros(4)[1] = 0 /\ Zeros(4)[2] = 0
  BY DEF Zeros
<1>3. (Zeros(2) \o x)[1] = Zeros(2)[1] /\ (Zeros(2) \o x)[2] = Zeros(2)[2]
  <2> DEFINE z == Zeros(2)
  <2> HIDE DEF z
  <2> QED BY <1>1 DEF z
<1> QED BY <1>2, <1>3, Zenon DEF Short

\* A segment of it.
LEMMA ASPathSegmentCanonical ==
    ASSUME Inv, Inv', Canonical, ParseASPathSegment PROVE Canonical'
<1> DEFINE width == Width(session.enc2bytes)
           room  == (attrEnd - (i + 2)) \div width
           n     == IF At(i + 1) < room THEN At(i + 1) ELSE room
           path  == [k \in 1 .. At(i + 1) |->
                        IF k > n THEN Zeros(4)
                        ELSE Zeros(4 - width) \o Bytes(i + 2 + width * (k - 1), width)]
           segment == [stype |-> At(i), path |-> path]
           whole == [code |-> ASPATH, segments |-> attr.segments, enc2bytes |-> session.enc2bytes]
<1>1. /\ pc = "aspath"
      /\ \/ AppendAttribute(whole)
         \/ /\ attr' = [attr EXCEPT !.segments = Append(@, segment)]
            /\ UNCHANGED <<session, pc, nlri, msg, caller>>
  BY NoPanicNext, Zenon DEF ParseASPathSegment, Reading
<1>2. /\ attr \in [ret : {"attributes"} \cup Outside, segments : Seq(Segments)]
      /\ session.enc2bytes \in BOOLEAN /\ b \in Seq(Byte) /\ i \in Nat
  BY <1>1, InAttributeFacts DEF Inv, Typed, AttributeTyped
<1>3. attr.segments \in Seq(CanonicalSegments(session.enc2bytes))
  BY <1>1, Zenon DEF Canonical, SegmentsCanonical
<1>4. CASE AppendAttribute(whole)
  <2>1. ReadWith(whole, session)
    BY <1>3 DEF ReadWith, ASPATH, AGGREGATOR, REACH, UNREACH
  <2> HIDE DEF whole
  <2> QED BY <1>1, <1>4, <2>1, AppendAttributeCanonical
<1>5. CASE /\ attr' = [attr EXCEPT !.segments = Append(@, segment)]
           /\ UNCHANGED <<session, pc, nlri, msg, caller>>
  <2>1. InAttributes /\ UNCHANGED <<session, nlri, source, rec, left, msg>> /\ pc' = "aspath"
    BY <1>1, <1>5 DEF InAttributes, caller
  <2>2. attr'.segments = Append(attr.segments, segment) /\ attr'.ret = attr.ret
    <3> HIDE DEF segment
    <3> QED BY <1>2, <1>5
  <2>3. attr'.segments \in Seq(Segments)
    <3>1. attr' \in [ret : {"attributes"} \cup Outside, segments : Seq(Segments)]
      BY <2>1 DEF Inv, Typed, AttributeTyped
    <3> QED BY <3>1
  <2>4. segment \in Segments
    <3> HIDE DEF segment
    <3>1. Append(attr.segments, segment) \in Seq(Segments) /\ attr.segments \in Seq(Segments)
      BY <1>2, <2>2, <2>3
    <3>2. /\ Append(attr.segments, segment)[Len(attr.segments) + 1] = segment
          /\ Len(Append(attr.segments, segment)) = Len(attr.segments) + 1 /\ Len(attr.segments) \in Nat
      BY ONLY <3>1
    <3> QED BY ONLY <3>1, <3>2
  <2>5. session.enc2bytes => \A k \in DOMAIN segment.path : Short(segment.path[k])
    <3> SUFFICES ASSUME session.enc2bytes, NEW k \in 1 .. At(i + 1) PROVE Short(path[k])
      BY Zenon
    <3>1. width = 2
      BY DEF Width
    <3>2. i + 2 + width * (k - 1) \in Int
      <4> HIDE DEF width, path
      <4>1. k \in Int
        OBVIOUS
      <4> QED BY <1>2, <3>1, <4>1
    <3>3. Bytes(i + 2 + width * (k - 1), 2) \in Bs(2)
      BY <1>2, <3>2, BytesType
    <3>4. path[k] \in {Zeros(4), Zeros(2) \o Bytes(i + 2 + width * (k - 1), 2)}
      <4>1. path[k] \in {Zeros(4), Zeros(4 - width) \o Bytes(i + 2 + width * (k - 1), width)}
        <5> HIDE DEF n, width
        <5> QED BY Zenon
      <4> HIDE DEF path, width
      <4>2. 4 - width = 2
        BY <3>1
      <4> QED BY <3>1, <4>1, <4>2, Zenon
    <3> HIDE DEF path
    <3> QED BY <3>3, <3>4, ShortWidened, Zenon
  <2>6. segment \in CanonicalSegments(session.enc2bytes)
    BY <2>4, <2>5, Zenon DEF CanonicalSegments
  <2>7. Append(attr.segments, segment) \in Seq(CanonicalSegments(session.enc2bytes))
    <3> HIDE DEF segment
    <3> QED BY <1>3, <2>6
  <2> HIDE DEF segment
  <2> QED BY <2>1, <2>2, <2>7, InAttributesCanonical
<1> QED BY <1>1, <1>4, <1>5

\* The header of an attribute.
LEMMA AttributeHeaderCanonical ==
    ASSUME Inv, Inv', Canonical, ParseAttributeHeader PROVE Canonical'
<1>1. /\ pc = "attrs"
      /\ \/ \E err \in {FALSE, TRUE} : ReturnAttributes(err)
         \/ /\ attr' = [ret |-> attr.ret, flag |-> At(i), code |-> At(i + 1)] /\ pc' = "attr"
            /\ UNCHANGED <<session, nlri, msg, caller>>
  BY NoPanicNext, Zenon DEF ParseAttributeHeader, EnterAttribute, Reading
<1>2. CASE /\ attr' = [ret |-> attr.ret, flag |-> At(i), code |-> At(i + 1)] /\ pc' = "attr"
           /\ UNCHANGED <<session, nlri, msg, caller>>
  <2>1. attr'.ret = attr.ret
    BY <1>2
  <2>2. InAttributes /\ UNCHANGED <<session, nlri, source, rec, left, msg>>
    BY <1>1, <1>2 DEF InAttributes, caller
  <2> QED BY <1>2, <2>1, <2>2, InAttributesCanonical
<1> QED BY <1>1, <1>2, ReturnAttributesCanonical

-----------------------------------------------------------------------------
(* Prefixes and UPDATE.                                                     *)

\* A prefix is decoded with zeros after its bits' bytes.
LEMMA PrefixCanonical ==
    ASSUME b \in Seq(Byte), i \in Nat, nlri \in NLRIs, NEW k \in Nat, NEW bits \in Nat,
           bits <= 8 * nlri.size
    PROVE  Prefix(k, bits) \in CanonicalPrefixes(nlri.size, nlri.path)
<1> DEFINE size == nlri.size
           ip == [j \in 1 .. size |-> IF j <= (bits + 7) \div 8 THEN At(k + j - 1) ELSE 0]
           path == IF nlri.path THEN Bytes(i, 4) ELSE Zeros(4)
           r == Prefix(k, bits)
<1>1. size \in {4, 16} /\ bits \in 0 .. 8 * size
  BY DEF NLRIs
<1>2. r = [path |-> path, mask |-> Mask(size)[bits], ip |-> ip]
  BY Zenon DEF Prefix
<1>3. r.ip = ip /\ r.path = path /\ r.mask = Mask(size)[bits]
  <2> HIDE DEF ip, path, size, r
  <2> QED BY <1>2
<1>4. r \in Routes
  BY PrefixType
<1>5. r \in Route(size)
  <2>1. PICK z \in {4, 16} : r \in Route(z)
    BY <1>4 DEF Routes
  <2>2. r.ip \in Seq(Byte) /\ Len(r.ip) = z
    BY <2>1 DEF Route, Bs
  <2>3. DOMAIN ip = 1 .. size
    OBVIOUS
  <2>4. DOMAIN r.ip = 1 .. z
    BY <2>2
  <2>5. 1 .. z = 1 .. size
    BY <1>3, <2>3, <2>4, Zenon
  <2>6. z = size
    <3> HIDE DEF size
    <3> QED BY <1>1, <2>5
  <2> QED BY <2>1, <2>6, Zenon
<1>6. GetSplitLen(r) = (bits + 7) \div 8
  BY <1>1, <1>3, OnesOfMask, Zenon DEF GetSplitLen
<1>7. \A j \in 1 .. size : j > GetSplitLen(r) => r.ip[j] = 0
  <2> SUFFICES ASSUME NEW j \in 1 .. size, j > GetSplitLen(r) PROVE r.ip[j] = 0
    OBVIOUS
  <2>1. ~(j <= (bits + 7) \div 8)
    BY <1>1, <1>6
  <2>2. ip[j] = 0
    BY <2>1, Zenon
  <2> QED BY <1>3, <2>2, Zenon
<1>8. ~nlri.path => r.path = Zeros(4)
  BY <1>3, Zenon
<1> QED BY <1>5, <1>7, <1>8, Zenon DEF CanonicalPrefixes

\* ParseNLRI is called with the path identifiers and the size of its family.
LEMMA CallCanonical ==
    ASSUME NEW from, NEW to, NEW afi, NEW path, NEW ret, CallParseNLRI(from, to, afi, path, ret),
           ret \in {"withdrawn", "prefixes", "reach", "unreach", "prefix"},
           ret = "reach" => attr'.addPath = path,
           ret \in {"reach", "unreach"} =>
               path = Family(attr', session') /\ attr'.afi = afi /\ afi <= MaxUint16,
           ret \in {"withdrawn", "prefixes"} => afi = AFI_IPV4 /\ path = msg'.addPath,
           ret = "prefix" => ~path /\ RibFamily(rec', SizeOf(afi))
    PROVE  ListCanonical' /\ ListingCanonical' /\ SegmentsCanonical' /\ ResultCanonical'
           /\ (pc' = ret \/ InNLRI(ret)') /\ nlri'.ret = ret
<1>1. /\ nlri' = [size |-> SizeOf(afi), path |-> path, list |-> <<>>, ret |-> ret]
      /\ IF afi \in {AFI_IPV4, AFI_IPV6} THEN pc' = "nlri" ELSE pc' = ret
  BY DEF CallParseNLRI, SizeOf
<1>2. nlri'.size = SizeOf(afi) /\ nlri'.path = path /\ nlri'.list = <<>> /\ nlri'.ret = ret
  BY <1>1
<1>3. ListCanonical'
  <2>1. <<>> \in Seq(CanonicalPrefixes(nlri'.size, nlri'.path))
    OBVIOUS
  <2> QED BY <1>2, <2>1, Zenon DEF ListCanonical
<1>4. pc' \in {"nlri", ret}
  BY <1>1
<1>5. SegmentsCanonical' /\ ResultCanonical'
  BY <1>4 DEF SegmentsCanonical, ResultCanonical
<1>6. Listing("reach")' => ret = "reach"
  BY <1>2, <1>4 DEF Listing, InNLRI
<1>7. Listing("unreach")' => ret = "unreach"
  BY <1>2, <1>4 DEF Listing, InNLRI
<1>8. Listing("withdrawn")' \/ Listing("prefixes")' => ret \in {"withdrawn", "prefixes"}
  BY <1>2, <1>4 DEF Listing, InNLRI
<1>9. InPrefix' => ret = "prefix"
  BY <1>2, <1>4 DEF InPrefix
<1>10. ret \in {"reach", "unreach"} /\ attr'.afi \notin {AFI_IPV4, AFI_IPV6} => pc' # "nlri"
  BY <1>1
<1>11. SizeOf(AFI_IPV4) = 4
  BY DEF SizeOf, AFI_IPV4, AFI_IPV6
<1>12. ListingCanonical'
  BY <1>2, <1>6, <1>7, <1>8, <1>9, <1>10, <1>11 DEF ListingCanonical
<1> QED BY <1>1, <1>2, <1>3, <1>4, <1>5, <1>12 DEF InNLRI

\* Attributes and records that only their place in the decoder changes.
LEMMA MessageStays ==
    ASSUME Canonical, InUpdate' => InUpdate, InMessage' => InMessage, Waits("entry")' => Waits("entry"),
           InAttributes' => InAttributes, pc' \notin {"entry", "param", "capa", "peers", "entries"},
           UNCHANGED <<session, msg, source, rec, left>>
    PROVE  MessageCanonical' /\ RecordCanonical'
<1>1. (InMessage => session = Options) /\ (Waits("entry") => session = NoOptions)
  BY Zenon DEF Canonical, MessageCanonical
<1>2. Options' = Options
  BY DEF Options
<1>3. (InAttributes \/ InUpdate => msg.attrs \in Seq(CanonicalAttributes(session)))
      /\ (InUpdate => UpdateReadWith(msg, session))
  BY Zenon DEF Canonical, MessageCanonical
<1>4. MessageCanonical'
  BY <1>1, <1>2, <1>3 DEF MessageCanonical, UpdateReadWith
<1>5. Waits("entry") => /\ CanonicalRib(rec) /\ left + Len(rec.entries) <= MaxUint16
                        /\ \A k \in 1 .. Len(rec.entries) - 1 : rec.entries[k] \in CanonicalEntries
  BY Zenon DEF Canonical, RecordCanonical
<1>6. CanonicalRib(rec)' = CanonicalRib(rec)
  BY DEF CanonicalRib, RibFamily
<1>7. RecordCanonical'
  BY <1>5, <1>6 DEF RecordCanonical
<1> QED BY <1>4, <1>7

\* From within an attribute.
LEMMA CallFromAttributeCanonical ==
    ASSUME Inv, Canonical, pc = "attr", NEW from, NEW to, NEW afi, NEW path,
           NEW ret \in {"reach", "unreach"}, CallParseNLRI(from, to, afi, path, ret),
           UNCHANGED <<session, msg, source, rec, left>>, attr'.ret = attr.ret,
           attr'.afi = afi, afi <= MaxUint16, path = Family(attr', session),
           ret = "reach" => attr'.addPath = path
    PROVE  Canonical'
<1>1. ret # "prefix" /\ ret \notin {"withdrawn", "prefixes"}
  OBVIOUS
<1>2. /\ ListCanonical' /\ ListingCanonical' /\ SegmentsCanonical' /\ ResultCanonical'
      /\ pc' \in {"nlri", ret} /\ nlri'.ret = ret
  <2>1. session' = session
    OBVIOUS
  <2>2. /\ ListCanonical' /\ ListingCanonical' /\ SegmentsCanonical' /\ ResultCanonical'
        /\ (pc' = ret \/ InNLRI(ret)') /\ nlri'.ret = ret
    BY <1>1, <2>1, CallCanonical
  <2> QED BY <2>2 DEF InNLRI
<1>3. InAttributes /\ attr.ret \in {"attributes", "entry", "tableDumpAttributes"}
  BY DEF Inv, IInv, AttributesInside, InAttributes
<1>4. /\ InUpdate' => InUpdate
      /\ InMessage' => InMessage
      /\ Waits("entry")' => Waits("entry")
  BY <1>2, <1>3 DEF InUpdate, InMessage, Waits, InAttributes
<1>5. MessageCanonical' /\ RecordCanonical'
  BY <1>2, <1>3, <1>4, MessageStays
<1> QED BY <1>2, <1>5, Zenon DEF Canonical

\* A number of two bytes.
LEMMA TwoByteBound == ASSUME NEW x \in Byte, NEW y \in Byte PROVE 256 * x + y <= MaxUint16
BY DEF Byte, MaxUint16

\* The AFI has two.
LEMMA AfiBound == ASSUME b \in Seq(Byte), i \in Nat PROVE Uint16(i) <= MaxUint16
<1>1. At(i) \in Byte /\ At(i + 1) \in Byte
  BY BytesHere, BytesAfter
<1>2. 256 * At(i) + At(i + 1) <= MaxUint16
  BY <1>1, TwoByteBound, Zenon
<1> QED BY <1>2, Zenon DEF Uint16

\* MP_REACH, up to its prefixes.
LEMMA ReachCanonical == ASSUME Inv, Inv', Canonical, ParseReach PROVE Canonical'
<1> DEFINE nh   == At(i + 3)
           path == InAfiSafi(Uint16(i), At(i + 2))
<1>1. /\ pc = "attr"
      /\ \/ ReturnAttributes(TRUE)
         \/ /\ attr' = [ret |-> attr.ret, afi |-> Uint16(i), safi |-> At(i + 2),
                        nextHop |-> Bytes(i + 4, nh), addPath |-> path]
            /\ CallParseNLRI(i + 5 + nh, attrEnd, Uint16(i), path, "reach")
            /\ UNCHANGED <<b, session, attrsEnd, attrEnd, msg, caller>>
  BY NoPanicNext, Zenon DEF ParseReach, Case, Reading
<1>2. CASE /\ attr' = [ret |-> attr.ret, afi |-> Uint16(i), safi |-> At(i + 2),
                       nextHop |-> Bytes(i + 4, nh), addPath |-> path]
           /\ CallParseNLRI(i + 5 + nh, attrEnd, Uint16(i), path, "reach")
           /\ UNCHANGED <<b, session, attrsEnd, attrEnd, msg, caller>>
  <2>1. Uint16(i) <= MaxUint16
    BY <1>1, InAttributeFacts, AfiBound, Zenon
  <2>2. path = (<<Uint16(i), At(i + 2)>> \in session.addPath)
    BY DEF InAfiSafi
  <2> HIDE DEF nh, path
  <2>3. /\ attr'.ret = attr.ret /\ attr'.afi = Uint16(i) /\ attr'.safi = At(i + 2) /\ attr'.addPath = path
    BY <1>2
  <2>4. path = Family(attr', session)
    BY <2>2, <2>3, Zenon DEF Family
  <2>5. UNCHANGED <<session, msg, source, rec, left>>
    BY <1>2 DEF caller
  <2> QED BY <1>1, <1>2, <2>1, <2>3, <2>4, <2>5, CallFromAttributeCanonical
<1> QED BY <1>1, <1>2, ReturnAttributesCanonical

\* MP_UNREACH, up to its prefixes.
LEMMA UnreachCanonical == ASSUME Inv, Inv', Canonical, ParseUnreach PROVE Canonical'
<1> DEFINE path == InAfiSafi(Uint16(i), At(i + 2))
<1>1. /\ pc = "attr"
      /\ \/ ReturnAttributes(TRUE)
         \/ /\ attr' = [ret |-> attr.ret, afi |-> Uint16(i), safi |-> At(i + 2)]
            /\ CallParseNLRI(i + 3, attrEnd, Uint16(i), path, "unreach")
            /\ UNCHANGED <<b, session, attrsEnd, attrEnd, msg, caller>>
  BY NoPanicNext, Zenon DEF ParseUnreach, Case, Reading
<1>2. CASE /\ attr' = [ret |-> attr.ret, afi |-> Uint16(i), safi |-> At(i + 2)]
           /\ CallParseNLRI(i + 3, attrEnd, Uint16(i), path, "unreach")
           /\ UNCHANGED <<b, session, attrsEnd, attrEnd, msg, caller>>
  <2>1. Uint16(i) <= MaxUint16
    BY <1>1, InAttributeFacts, AfiBound, Zenon
  <2>2. path = (<<Uint16(i), At(i + 2)>> \in session.addPath)
    BY DEF InAfiSafi
  <2> HIDE DEF path
  <2>3. attr'.ret = attr.ret /\ attr'.afi = Uint16(i) /\ attr'.safi = At(i + 2)
    BY <1>2
  <2>4. path = Family(attr', session)
    BY <2>2, <2>3, Zenon DEF Family
  <2>5. UNCHANGED <<session, msg, source, rec, left>>
    BY <1>2 DEF caller
  <2> QED BY <1>1, <1>2, <2>1, <2>3, <2>4, <2>5, CallFromAttributeCanonical
<1> QED BY <1>1, <1>2, ReturnAttributesCanonical

\* Both, with their prefixes.
LEMMA PrefixesParsedCanonical ==
    ASSUME Inv, Inv', Canonical, ReachParsed \/ UnreachParsed PROVE Canonical'
<1>1. nlri.list \in Seq(CanonicalPrefixes(nlri.size, nlri.path))
  BY Zenon DEF Canonical, ListCanonical
<1>2. CASE ReachParsed
  <2> DEFINE a == [code |-> REACH, afi |-> attr.afi, safi |-> attr.safi,
                   nextHop |-> attr.nextHop, nlri |-> nlri.list, addPath |-> attr.addPath]
  <2>1. pc = "reach" /\ AppendAttribute(a)
    BY <1>2 DEF ReachParsed
  <2>2. /\ attr.addPath = Family(attr, session) /\ nlri.path = attr.addPath
        /\ attr.afi <= MaxUint16 /\ nlri.size = SizeOf(attr.afi)
        /\ attr.afi \notin {AFI_IPV4, AFI_IPV6} => nlri.list = <<>>
    BY <2>1, Zenon DEF Canonical, ListingCanonical, Listing
  <2>3. /\ a.code = REACH /\ a.afi = attr.afi /\ a.safi = attr.safi /\ a.nlri = nlri.list
        /\ a.addPath = attr.addPath
    OBVIOUS
  <2> HIDE DEF a
  <2>4. Family(a, session) = Family(attr, session)
    BY <2>3, Zenon DEF Family
  <2>5. OfFamily(a, a.addPath)
    BY <1>1, <2>2, <2>3, Zenon DEF OfFamily
  <2>6. ReadWith(a, session)
    <3>1. a.code \notin {ASPATH, AGGREGATOR, UNREACH}
      BY <2>3 DEF REACH, ASPATH, AGGREGATOR, UNREACH
    <3> QED BY <2>2, <2>3, <2>4, <2>5, <3>1, Zenon DEF ReadWith
  <2> QED BY <2>1, <2>6, AppendAttributeCanonical
<1>3. CASE UnreachParsed
  <2> DEFINE a == [code |-> UNREACH, afi |-> attr.afi, safi |-> attr.safi,
                   nlri |-> nlri.list, addPath |-> FALSE]
  <2>1. pc = "unreach" /\ AppendAttribute(a)
    BY <1>3 DEF UnreachParsed
  <2>2. /\ nlri.path = Family(attr, session)
        /\ attr.afi <= MaxUint16 /\ nlri.size = SizeOf(attr.afi)
        /\ attr.afi \notin {AFI_IPV4, AFI_IPV6} => nlri.list = <<>>
    BY <2>1, Zenon DEF Canonical, ListingCanonical, Listing
  <2>3. /\ a.code = UNREACH /\ a.afi = attr.afi /\ a.safi = attr.safi /\ a.nlri = nlri.list
        /\ ~a.addPath
    OBVIOUS
  <2> HIDE DEF a
  <2>4. Family(a, session) = Family(attr, session)
    BY <2>3, Zenon DEF Family
  <2>5. OfFamily(a, Family(a, session))
    BY <1>1, <2>2, <2>3, <2>4, Zenon DEF OfFamily
  <2>6. ReadWith(a, session)
    <3>1. a.code \notin {ASPATH, AGGREGATOR, REACH}
      BY <2>3 DEF REACH, ASPATH, AGGREGATOR, UNREACH
    <3> QED BY <2>3, <2>5, <3>1, Zenon DEF ReadWith
  <2> QED BY <2>1, <2>6, AppendAttributeCanonical
<1> QED BY <1>2, <1>3

\* ParseNLRI returns to a place that its caller has prepared.
LEMMA ReturnNLRICanonical ==
    ASSUME Inv, Canonical, pc = "nlri", NEW list \in {nlri.list, <<>>}, NEW err, ReturnNLRI(list, err)
    PROVE  Canonical'
<1>1. nlri \in NLRIs /\ nlri.ret \in {"withdrawn", "prefixes", "reach", "unreach", "prefix"}
  BY DEF Inv, IInv, Typed, SliceTyped, NLRIInside
<1>2. /\ pc' = nlri.ret /\ nlri' = [nlri EXCEPT !.list = list]
      /\ UNCHANGED <<session, attr, msg, source, rec, left>>
  BY Zenon DEF ReturnNLRI, caller
<1>3. nlri'.list = list /\ nlri'.size = nlri.size /\ nlri'.path = nlri.path /\ nlri'.ret = nlri.ret
  BY <1>1, <1>2 DEF NLRIs
<1>4. ListCanonical'
  <2>1. nlri.list \in Seq(CanonicalPrefixes(nlri.size, nlri.path))
    BY Zenon DEF Canonical, ListCanonical
  <2>2. <<>> \in Seq(CanonicalPrefixes(nlri.size, nlri.path))
    OBVIOUS
  <2> QED BY <1>3, <2>1, <2>2, Zenon DEF ListCanonical
<1>5. \A ret \in {"withdrawn", "prefixes", "reach", "unreach"} : Listing(ret)' => Listing(ret)
  BY <1>1, <1>2, <1>3 DEF Listing, InNLRI
<1>6. InPrefix' => InPrefix
  BY <1>1, <1>2, <1>3 DEF InPrefix
<1>7. ListingCanonical'
  <2>1. Listing("reach") => attr.addPath = Family(attr, session) /\ nlri.path = attr.addPath
    BY Zenon DEF Canonical, ListingCanonical
  <2>2. Listing("unreach") => nlri.path = Family(attr, session)
    BY Zenon DEF Canonical, ListingCanonical
  <2>3. Listing("reach") \/ Listing("unreach") =>
           attr.afi <= MaxUint16 /\ nlri.size = SizeOf(attr.afi) /\ attr.afi \in {AFI_IPV4, AFI_IPV6}
    BY Zenon DEF Canonical, ListingCanonical
  <2>4. /\ Listing("withdrawn") \/ Listing("prefixes") => nlri.size = 4 /\ nlri.path = msg.addPath
        /\ InPrefix => ~nlri.path /\ RibFamily(rec, nlri.size)
    BY Zenon DEF Canonical, ListingCanonical
  <2>5. Family(attr, session)' = Family(attr, session)
    BY <1>2, Zenon DEF Family
  <2>6. RibFamily(rec, nlri.size)' = RibFamily(rec, nlri.size)
    BY <1>2, <1>3, Zenon DEF RibFamily
  <2>7. Listing("reach")' => attr'.addPath = Family(attr, session)' /\ nlri'.path = attr'.addPath
    BY <1>2, <1>3, <1>5, <2>1, <2>5, Zenon
  <2>8. Listing("unreach")' => nlri'.path = Family(attr, session)'
    BY <1>2, <1>3, <1>5, <2>2, <2>5, Zenon
  <2>9. Listing("reach")' \/ Listing("unreach")' =>
           attr'.afi <= MaxUint16 /\ nlri'.size = SizeOf(attr.afi)' /\ attr'.afi \in {AFI_IPV4, AFI_IPV6}
    BY <1>2, <1>3, <1>5, <2>3, Zenon DEF SizeOf
  <2>10. /\ Listing("withdrawn")' \/ Listing("prefixes")' => nlri'.size = 4 /\ nlri'.path = msg'.addPath
         /\ InPrefix' => ~nlri'.path /\ RibFamily(rec, nlri.size)'
    BY <1>2, <1>3, <1>5, <1>6, <2>4, <2>6, Zenon
  <2> QED BY <2>7, <2>8, <2>9, <2>10, Zenon DEF ListingCanonical
<1>8. MessageCanonical' /\ RecordCanonical'
  <2>1. (InUpdate' => InUpdate) /\ (InMessage' => InMessage) /\ (InAttributes' => InAttributes)
        /\ (Waits("entry")' => Waits("entry"))
    BY <1>1, <1>2, <1>3 DEF InUpdate, InMessage, Waits, InAttributes
  <2>2. pc' \notin {"entry", "param", "capa", "peers", "entries"}
    BY <1>1, <1>2
  <2> QED BY <1>2, <2>1, <2>2, MessageStays
<1>9. SegmentsCanonical' /\ ResultCanonical'
  BY <1>1, <1>2 DEF SegmentsCanonical, ResultCanonical
<1> QED BY <1>4, <1>7, <1>8, <1>9, Zenon DEF Canonical

\* A round of ParseNLRI.
LEMMA NLRICanonical == ASSUME Inv, Inv', Canonical, ParseNLRI PROVE Canonical'
<1> DEFINE k == IF nlri.path THEN i + 4 ELSE i
<1>1. /\ pc = "nlri" /\ nlri \in NLRIs /\ nlri.list \in Seq(Routes) /\ b \in Seq(Byte) /\ i \in Nat
  <2>1. pc = "nlri" /\ nlri \in NLRIs /\ b \in Seq(Byte) /\ Readable
    BY Facts, Zenon DEF Inv, IInv, TypeOK, Typed, SliceTyped, ParseNLRI
  <2> QED BY <2>1 DEF NLRIs, Readable
<1>2. \/ \E list \in {nlri.list, <<>>}, err \in {FALSE, TRUE} : ReturnNLRI(list, err)
      \/ /\ ~(At(k) > 8 * nlri.size)
         /\ nlri' = [nlri EXCEPT !.list = Append(@, Prefix(k + 1, At(k)))]
         /\ UNCHANGED <<session, pc, attr, msg, caller>>
  BY NoPanicNext, Zenon DEF ParseNLRI, ParsePrefix, Reading
<1>3. CASE \E list \in {nlri.list, <<>>}, err \in {FALSE, TRUE} : ReturnNLRI(list, err)
  BY <1>1, <1>3, ReturnNLRICanonical
<1>4. CASE /\ ~(At(k) > 8 * nlri.size)
           /\ nlri' = [nlri EXCEPT !.list = Append(@, Prefix(k + 1, At(k)))]
           /\ UNCHANGED <<session, pc, attr, msg, caller>>
  <2>1. k \in Int /\ k + 1 \in Nat
    BY <1>1
  <2>2. At(k) \in Nat /\ At(k) <= 8 * nlri.size
    <3> HIDE DEF k
    <3>1. At(k) \in Nat
      BY <1>1, <2>1, AtType, Zenon
    <3>2. nlri.size \in {4, 16}
      BY <1>1 DEF NLRIs
    <3> QED BY <1>4, <3>1, <3>2
  <2> HIDE DEF k
  <2>3. Prefix(k + 1, At(k)) \in CanonicalPrefixes(nlri.size, nlri.path)
    BY <1>1, <2>1, <2>2, PrefixCanonical
  <2>4. /\ nlri'.list = Append(nlri.list, Prefix(k + 1, At(k)))
        /\ nlri'.size = nlri.size /\ nlri'.path = nlri.path /\ nlri'.ret = nlri.ret
    BY <1>1, <1>4 DEF NLRIs
  <2>5. UNCHANGED <<session, pc, attr, msg, source, rec, left>>
    BY <1>4 DEF caller
  <2>6. ListCanonical'
    <3>1. nlri.list \in Seq(CanonicalPrefixes(nlri.size, nlri.path))
      BY Zenon DEF Canonical, ListCanonical
    <3>2. Append(nlri.list, Prefix(k + 1, At(k))) \in Seq(CanonicalPrefixes(nlri.size, nlri.path))
      BY <2>3, <3>1
    <3> QED BY <2>4, <3>2, Zenon DEF ListCanonical
  <2>7. ListingCanonical'
    BY <1>1, <2>4, <2>5, Zenon DEF Canonical, ListingCanonical, Listing, InNLRI, InPrefix, Family, SizeOf, RibFamily
  <2>8. MessageCanonical' /\ RecordCanonical'
    <3>1. (InUpdate' => InUpdate) /\ (InMessage' => InMessage) /\ (InAttributes' => InAttributes)
          /\ (Waits("entry")' => Waits("entry"))
      BY <2>4, <2>5, Zenon DEF InUpdate, InMessage, Waits, InAttributes
    <3>2. pc' \notin {"entry", "param", "capa", "peers", "entries"}
      BY <1>1, <2>5
    <3> QED BY <2>5, <3>1, <3>2, MessageStays
  <2>9. SegmentsCanonical' /\ ResultCanonical'
    BY <1>1, <2>5 DEF SegmentsCanonical, ResultCanonical
  <2> QED BY <2>6, <2>7, <2>8, <2>9, Zenon DEF Canonical
<1> QED BY <1>2, <1>3, <1>4, Zenon

\* An UPDATE begins.
LEMMA UpdateCanonical == ASSUME Inv, Inv', Canonical, ParseUpdate PROVE Canonical'
<1> DEFINE path == InAfiSafi(AFI_IPV4, SAFI_UNICAST)
           m == [type |-> "UPDATE", withdrawn |-> <<>>, attrs |-> <<>>, nlri |-> <<>>, addPath |-> path]
<1>1. /\ pc = "update"
      /\ \/ Fail
         \/ /\ msg' = m /\ CallParseNLRI(2, 2 + Uint16(0), AFI_IPV4, path, "withdrawn")
            /\ UNCHANGED <<session, caller>>
  BY NoPanicNext, Zenon DEF ParseUpdate, Reading
<1>2. CASE /\ msg' = m /\ CallParseNLRI(2, 2 + Uint16(0), AFI_IPV4, path, "withdrawn")
           /\ UNCHANGED <<session, caller>>
  <2>1. UNCHANGED <<session, source, rec, left>>
    BY <1>2 DEF caller
  <2>2. /\ m.addPath = path /\ m.withdrawn = <<>> /\ m.nlri = <<>> /\ m.attrs = <<>>
        /\ path = (<<AFI_IPV4, SAFI_UNICAST>> \in session.addPath)
    BY DEF InAfiSafi
  <2> HIDE DEF path, m
  <2>3. /\ ListCanonical' /\ ListingCanonical' /\ SegmentsCanonical' /\ ResultCanonical'
        /\ pc' \in {"nlri", "withdrawn"} /\ nlri'.ret = "withdrawn"
    <3>1. path = msg'.addPath
      BY <1>2, <2>2
    <3>2. /\ ListCanonical' /\ ListingCanonical' /\ SegmentsCanonical' /\ ResultCanonical'
          /\ (pc' = "withdrawn" \/ InNLRI("withdrawn")') /\ nlri'.ret = "withdrawn"
      BY <1>2, <3>1, CallCanonical
    <3> QED BY <3>2 DEF InNLRI
  <2>4. msg'.attrs \in Seq(CanonicalAttributes(session)) /\ UpdateReadWith(msg, session)'
    <3>1. <<>> \in Seq(CanonicalAttributes(session)) /\ <<>> \in Seq(CanonicalPrefixes(4, path))
      OBVIOUS
    <3> QED BY <1>2, <2>1, <2>2, <3>1, Zenon DEF UpdateReadWith
  <2>5. InMessage /\ session = Options
    BY <1>1, Zenon DEF InMessage, Canonical, MessageCanonical
  <2>6. MessageCanonical'
    <3>1. Options' = Options
      BY <2>1 DEF Options
    <3>2. ~Waits("entry")' /\ pc' \notin {"param", "capa", "entry"}
      BY <2>3 DEF Waits, InAttributes
    <3> QED BY <2>1, <2>4, <2>5, <3>1, <3>2 DEF MessageCanonical
  <2>7. RecordCanonical'
    BY <2>3 DEF RecordCanonical, Waits, InAttributes
  <2> QED BY <2>3, <2>6, <2>7, Zenon DEF Canonical
<1> QED BY <1>1, <1>2, FailCanonical

\* Its withdrawn routes become part of it.
LEMMA WithdrawnCanonical == ASSUME Inv, Inv', Canonical, WithdrawnParsed PROVE Canonical'
<1>1. /\ pc = "withdrawn"
      /\ \/ Fail
         \/ /\ msg' = [msg EXCEPT !.withdrawn = nlri.list]
            /\ attr' = [ret |-> "attributes"] /\ pc' = "attrs"
            /\ UNCHANGED <<session, nlri, caller>>
  BY NoPanicNext, Zenon DEF WithdrawnParsed, Reading, CallParsePathAttribute
<1>2. CASE /\ msg' = [msg EXCEPT !.withdrawn = nlri.list]
           /\ attr' = [ret |-> "attributes"] /\ pc' = "attrs"
           /\ UNCHANGED <<session, nlri, caller>>
  <2>1. msg \in Updates /\ InUpdate /\ InMessage
    BY <1>1, Zenon DEF Inv, Typed, MessageTyped, InUpdate, InMessage
  <2>2. /\ msg'.withdrawn = nlri.list /\ msg'.nlri = msg.nlri /\ msg'.attrs = msg.attrs
        /\ msg'.addPath = msg.addPath
    BY <1>2, <2>1 DEF Updates
  <2>3. /\ nlri.list \in Seq(CanonicalPrefixes(4, msg.addPath))
        /\ UpdateReadWith(msg, session) /\ msg.attrs \in Seq(CanonicalAttributes(session))
        /\ session = Options
    BY <1>1, <2>1, Zenon DEF Canonical, ListCanonical, ListingCanonical, Listing, MessageCanonical
  <2>4. UpdateReadWith(msg, session)'
    BY <1>2, <2>2, <2>3, Zenon DEF UpdateReadWith
  <2>5. attr'.ret = "attributes" /\ UNCHANGED <<source, rec, left>>
    BY <1>2 DEF caller
  <2>6. MessageCanonical'
    <3>1. Options' = Options
      BY <1>2, <2>5 DEF Options
    <3>2. ~Waits("entry")'
      BY <1>2, <2>5 DEF Waits
    <3> QED BY <1>2, <2>2, <2>3, <2>4, <3>1, <3>2 DEF MessageCanonical
  <2>7. RecordCanonical' /\ SegmentsCanonical' /\ ResultCanonical'
    BY <1>2, <2>5 DEF RecordCanonical, Waits, SegmentsCanonical, ResultCanonical
  <2>8. ListCanonical' /\ ListingCanonical'
    BY <1>2 DEF Canonical, ListCanonical, ListingCanonical, Listing, InNLRI, InPrefix
  <2> QED BY <2>6, <2>7, <2>8, Zenon DEF Canonical
<1> QED BY <1>1, <1>2, FailCanonical

\* Its attributes have been decoded.
LEMMA AttributesParsedCanonical == ASSUME Inv, Inv', Canonical, AttributesParsed PROVE Canonical'
<1>1. /\ pc = "attributes"
      /\ \/ pc' = "partial" /\ UNCHANGED <<session, locals, msg, caller>>
         \/ /\ CallParseNLRI(attrsEnd, Size, AFI_IPV4, msg.addPath, "prefixes")
            /\ UNCHANGED <<session, msg, caller>>
  BY NoPanicNext, Zenon DEF AttributesParsed, Reading
<1>2. InUpdate /\ InMessage
  BY <1>1, Zenon DEF InMessage, InUpdate
<1>3. CASE pc' = "partial" /\ UNCHANGED <<session, locals, msg, caller>>
  <2>1. UNCHANGED <<session, nlri, source, rec, left>>
    BY <1>3 DEF locals, caller
  <2>2. ListCanonical'
    BY <2>1, Zenon DEF Canonical, ListCanonical
  <2>3. ListingCanonical' /\ SegmentsCanonical' /\ ResultCanonical'
    BY <1>3 DEF ListingCanonical, SegmentsCanonical, ResultCanonical, Listing, InNLRI, InPrefix
  <2>4. MessageCanonical' /\ RecordCanonical'
    BY <1>3 DEF MessageCanonical, RecordCanonical, InMessage, InUpdate, InAttributes, Waits
  <2> QED BY <2>2, <2>3, <2>4, Zenon DEF Canonical
<1>4. CASE /\ CallParseNLRI(attrsEnd, Size, AFI_IPV4, msg.addPath, "prefixes")
           /\ UNCHANGED <<session, msg, caller>>
  <2>1. UNCHANGED <<session, msg, source, rec, left>>
    BY <1>4 DEF caller
  <2>2. /\ ListCanonical' /\ ListingCanonical' /\ SegmentsCanonical' /\ ResultCanonical'
        /\ pc' \in {"nlri", "prefixes"} /\ nlri'.ret = "prefixes"
    <3>1. msg.addPath = msg'.addPath
      BY <2>1
    <3>2. /\ ListCanonical' /\ ListingCanonical' /\ SegmentsCanonical' /\ ResultCanonical'
          /\ (pc' = "prefixes" \/ InNLRI("prefixes")') /\ nlri'.ret = "prefixes"
      BY <1>4, <3>1, CallCanonical
    <3> QED BY <3>2 DEF InNLRI
  <2>3. MessageCanonical' /\ RecordCanonical'
    <3>1. ~Waits("entry")' /\ ~InAttributes' /\ pc' \notin {"entry", "param", "capa", "peers", "entries"}
      BY <2>2 DEF Waits, InAttributes
    <3> QED BY <1>2, <2>1, <3>1, MessageStays
  <2> QED BY <2>2, <2>3, Zenon DEF Canonical
<1> QED BY <1>1, <1>3, <1>4

\* A message is returned.
LEMMA MessageReturnedCanonical ==
    ASSUME Canonical, InMessage, pc' \in {"done", "partial"},
           pc' = "done" => msg' \in CanonicalMessages(session),
           UNCHANGED <<session, nlri, source, rec>>, source = "mrt" => rec.type = "MESSAGE"
    PROVE  Canonical'
<1>1. session = Options /\ Options' = Options
  BY Zenon DEF Canonical, MessageCanonical, Options
<1>2. source = "mrt" => RecordResult(rec)'
  BY DEF RecordResult
<1>3. ResultCanonical'
  BY <1>1, <1>2, Zenon DEF ResultCanonical
<1>4. ListCanonical'
  BY Zenon DEF Canonical, ListCanonical
<1>5. ListingCanonical' /\ SegmentsCanonical'
  BY DEF ListingCanonical, SegmentsCanonical, Listing, InNLRI, InPrefix
<1>6. MessageCanonical' /\ RecordCanonical'
  BY DEF MessageCanonical, RecordCanonical, InMessage, InUpdate, InAttributes, Waits
<1> QED BY <1>3, <1>4, <1>5, <1>6, Zenon DEF Canonical

\* The record of a message.
LEMMA RecordOfMessage == Inv /\ InMessage => (source = "mrt" => rec.type = "MESSAGE")
BY DEF Inv, Typed, RecordTyped, MessageRecords

\* An UPDATE is returned.
LEMMA UpdateParsedCanonical == ASSUME Inv, Inv', Canonical, UpdateParsed PROVE Canonical'
<1>1. /\ pc = "prefixes" /\ pc' \in {"partial", "done"} /\ msg' = [msg EXCEPT !.nlri = nlri.list]
      /\ UNCHANGED <<session, nlri, source, rec>>
  BY DEF UpdateParsed, locals, caller
<1>2. msg \in Updates /\ InUpdate /\ InMessage /\ nlri \in NLRIs
  BY <1>1, Zenon DEF Inv, Typed, MessageTyped, SliceTyped, InMessage, InUpdate
<1>3. /\ msg'.nlri = nlri.list /\ msg'.withdrawn = msg.withdrawn /\ msg'.attrs = msg.attrs
      /\ msg'.addPath = msg.addPath
  BY <1>1, <1>2 DEF Updates
<1>4. /\ nlri.list \in Seq(CanonicalPrefixes(4, msg.addPath))
      /\ UpdateReadWith(msg, session) /\ msg.attrs \in Seq(CanonicalAttributes(session))
  BY <1>1, <1>2, Zenon DEF Canonical, ListCanonical, ListingCanonical, Listing, MessageCanonical
<1>5. msg' \in Updates
  <2>1. nlri.list \in Seq(Routes)
    BY <1>2 DEF NLRIs
  <2> QED BY <1>1, <1>2, <2>1 DEF Updates
<1>6. msg' \in CanonicalUpdates(session)
  BY <1>1, <1>3, <1>4, <1>5, Zenon DEF CanonicalUpdates, UpdateReadWith
<1>7. msg' \in CanonicalMessages(session)
  BY <1>6, Zenon DEF CanonicalMessages
<1> QED BY <1>1, <1>2, <1>7, RecordOfMessage, MessageReturnedCanonical

-----------------------------------------------------------------------------
(* The other messages.                                                      *)

\* Where nothing is listed.
LEMMA OutsideCanonical ==
    ASSUME Canonical, UNCHANGED nlri, MessageCanonical', RecordCanonical', ResultCanonical',
           pc' \notin {"nlri", "reach", "unreach", "withdrawn", "prefixes", "prefix", "aspath"}
    PROVE  Canonical'
<1>1. ListCanonical'
  BY Zenon DEF Canonical, ListCanonical
<1>2. ListingCanonical' /\ SegmentsCanonical'
  BY DEF ListingCanonical, SegmentsCanonical, Listing, InNLRI, InPrefix
<1> QED BY <1>1, <1>2, Zenon DEF Canonical

\* Between the parameters of an OPEN, and after them.
LEMMA InOpenCanonical ==
    ASSUME Inv, Inv', Canonical, pc \in {"open", "param", "capa"}, pc' \in {"param", "capa", "done"},
           msg' \in CanonicalOpens, pc' = "capa" => msg'.params[Len(msg'.params)].type = PARAMETER_CAPA,
           UNCHANGED <<session, nlri, source, rec>>
    PROVE  Canonical'
<1>1. InMessage
  BY DEF InMessage
<1>2. CASE pc' = "done"
  <2>1. msg' \in CanonicalMessages(session)
    BY Zenon DEF CanonicalMessages
  <2> QED BY <1>1, <1>2, <2>1, RecordOfMessage, MessageReturnedCanonical
<1>3. CASE pc' \in {"param", "capa"}
  <2>1. msg'.params \in Seq(CanonicalParams)
    BY Zenon DEF CanonicalOpens
  <2>2. session = Options /\ Options' = Options
    BY <1>1, Zenon DEF Canonical, MessageCanonical, Options
  <2>3. ~InUpdate' /\ ~Waits("entry")' /\ ~InAttributes'
    BY <1>3 DEF InUpdate, Waits, InAttributes
  <2>4. MessageCanonical'
    BY <1>3, <2>1, <2>2, <2>3 DEF MessageCanonical
  <2>5. RecordCanonical' /\ ResultCanonical'
    BY <1>3, <2>3 DEF RecordCanonical, ResultCanonical
  <2> QED BY <1>3, <2>4, <2>5, OutsideCanonical
<1> QED BY <1>2, <1>3

\* The parameters of an OPEN that has been decoded up to here.
LEMMA OpenFacts ==
    ASSUME Inv, Canonical, pc \in {"param", "capa"}
    PROVE  /\ msg \in Opens /\ msg.params \in Seq(CanonicalParams) /\ msg \in CanonicalOpens
           /\ pc = "capa" => msg.params # <<>> /\ msg.params[Len(msg.params)].type = PARAMETER_CAPA
<1>1. msg \in Opens /\ msg.params \in Seq(CanonicalParams)
  BY Zenon DEF Inv, Typed, MessageTyped, Canonical, MessageCanonical
<1>2. pc = "capa" => msg.params # <<>> /\ msg.params[Len(msg.params)].type = PARAMETER_CAPA
  BY Zenon DEF Inv, Typed, MessageTyped, Canonical, MessageCanonical
<1> QED BY <1>1, <1>2, Zenon DEF CanonicalOpens

\* An OPEN begins.
LEMMA OpenCanonical == ASSUME Inv, Inv', Canonical, ParseOpen PROVE Canonical'
<1> DEFINE m == [type |-> "OPEN", version |-> At(0), asn |-> Bytes(1, 2),
                 hold |-> Bytes(3, 2), id |-> Bytes(5, 4), params |-> <<>>]
<1>1. /\ pc = "open"
      /\ \/ Fail
         \/ pc' = "panic"
         \/ msg' = m /\ pc' \in {"param", "capa", "done"} /\ pc' # "capa" /\ UNCHANGED <<session, locals, caller>>
  BY DEF ParseOpen, Reading
<1>2. pc' # "panic"
  BY NoPanicNext
<1>3. CASE /\ msg' = m /\ pc' \in {"param", "capa", "done"} /\ pc' # "capa"
           /\ UNCHANGED <<session, locals, caller>>
  <2>1. m \in Opens /\ m.params = <<>>
    <3>1. b \in Seq(Byte)
      BY Zenon DEF Inv, IInv, TypeOK
    <3>2. At(0) \in Byte /\ Bytes(1, 2) \in Bs(2) /\ Bytes(3, 2) \in Bs(2) /\ Bytes(5, 4) \in Bs(4)
      <4>1. 0 \in Int /\ 1 \in Int /\ 3 \in Int /\ 5 \in Int /\ 2 \in Nat /\ 4 \in Nat
        OBVIOUS
      <4> QED BY <3>1, <4>1, AtByte, BytesType, Zenon
    <3>3. <<>> \in Seq(Params)
      OBVIOUS
    <3> QED BY ONLY <3>2, <3>3 DEF Opens
  <2> HIDE DEF m
  <2>2. m \in CanonicalOpens
    <3>1. <<>> \in Seq(CanonicalParams)
      OBVIOUS
    <3> QED BY <2>1, <3>1, Zenon DEF CanonicalOpens
  <2>3. UNCHANGED <<session, nlri, source, rec>>
    BY <1>3, Zenon DEF locals, caller
  <2> QED BY <1>1, <1>3, <2>2, <2>3, InOpenCanonical
<1> QED BY <1>1, <1>2, <1>3, FailCanonical

\* A parameter of it.
LEMMA ParameterCanonical == ASSUME Inv, Inv', Canonical, ParseParameter PROVE Canonical'
<1> DEFINE p == [type |-> At(i), capas |-> <<>>]
<1>1. /\ pc = "param"
      /\ \/ Fail
         \/ pc' = "panic"
         \/ pc' = "done" /\ UNCHANGED <<session, locals, msg, caller>>
         \/ /\ msg' = [msg EXCEPT !.params = Append(@, p)]
            /\ pc' = IF At(i) = PARAMETER_CAPA THEN "capa" ELSE "param"
            /\ UNCHANGED <<session, nlri, caller>>
  BY DEF ParseParameter, Reading
<1>2. pc' # "panic"
  BY NoPanicNext
<1>3. msg \in Opens /\ msg.params \in Seq(CanonicalParams) /\ msg \in CanonicalOpens
  BY <1>1, OpenFacts
<1>4. CASE pc' = "done" /\ UNCHANGED <<session, locals, msg, caller>>
  <2>1. UNCHANGED <<session, nlri, source, rec>>
    BY <1>4, Zenon DEF locals, caller
  <2>2. msg' \in CanonicalOpens
    BY <1>3, <1>4
  <2> QED BY <1>1, <1>4, <2>1, <2>2, InOpenCanonical
<1>5. CASE /\ msg' = [msg EXCEPT !.params = Append(@, p)]
           /\ pc' = IF At(i) = PARAMETER_CAPA THEN "capa" ELSE "param"
           /\ UNCHANGED <<session, nlri, caller>>
  <2>1. b \in Seq(Byte) /\ i \in Nat
    BY Facts, Zenon DEF Inv, IInv, TypeOK, Readable
  <2>2. p \in CanonicalParams /\ p.type = At(i)
    <3>1. At(i) \in Byte
      BY <2>1, BytesHere
    <3>2. <<>> \in Seq(Capas)
      OBVIOUS
    <3> QED BY ONLY <3>1, <3>2 DEF CanonicalParams, Params
  <2> HIDE DEF p
  <2>3. /\ Append(msg.params, p) \in Seq(CanonicalParams)
        /\ Append(msg.params, p)[Len(Append(msg.params, p))] = p
    BY ONLY <1>3, <2>2
  <2>4. msg'.params = Append(msg.params, p) /\ msg' \in Opens
    <3>1. Append(msg.params, p) \in Seq(Params)
      <4>1. p \in Params
        BY <2>2 DEF CanonicalParams
      <4>2. msg.params \in Seq(Params)
        BY ONLY <1>3 DEF Opens
      <4> QED BY ONLY <4>1, <4>2
    <3> QED BY ONLY <1>3, <1>5, <3>1 DEF Opens
  <2>5. msg' \in CanonicalOpens
    BY <2>3, <2>4, Zenon DEF CanonicalOpens
  <2>6. UNCHANGED <<session, nlri, source, rec>>
    BY <1>5, Zenon DEF caller
  <2>7. pc' = "capa" => msg'.params[Len(msg'.params)].type = PARAMETER_CAPA
    <3>1. pc' = "capa" => p.type = PARAMETER_CAPA
      BY <1>5, <2>2
    <3> QED BY <2>3, <2>4, <3>1, Zenon
  <2>8. pc' \in {"param", "capa", "done"}
    BY <1>5
  <2> QED BY <1>1, <2>5, <2>6, <2>7, <2>8, InOpenCanonical
<1> QED BY <1>1, <1>2, <1>4, <1>5, FailCanonical

\* A capability of the last parameter.
LEMMA CapabilitiesCanonical == ASSUME Inv, Inv', Canonical, ParseCapabilities PROVE Canonical'
<1> DEFINE c == ParseCapability(At(i), Bytes(i + 2, At(i + 1)))
           n == Len(msg.params)
           q == [msg.params[n] EXCEPT !.capas = Append(@, c)]
<1>1. /\ pc = "capa"
      /\ \/ Fail
         \/ pc' = "param" /\ UNCHANGED <<session, locals, msg, caller>>
         \/ /\ msg' = [msg EXCEPT !.params[n].capas = Append(@, c)]
            /\ UNCHANGED <<session, pc, locals, caller>>
  BY NoPanicNext, Zenon DEF ParseCapabilities, Reading
<1>2. /\ msg \in Opens /\ msg.params \in Seq(CanonicalParams) /\ msg \in CanonicalOpens
      /\ msg.params # <<>> /\ msg.params[n].type = PARAMETER_CAPA
  BY <1>1, OpenFacts
<1>3. CASE pc' = "param" /\ UNCHANGED <<session, locals, msg, caller>>
  <2>1. UNCHANGED <<session, nlri, source, rec>>
    BY <1>3, Zenon DEF locals, caller
  <2>2. msg' \in CanonicalOpens
    BY <1>2, <1>3
  <2> QED BY <1>1, <1>3, <2>1, <2>2, InOpenCanonical
<1>4. CASE /\ msg' = [msg EXCEPT !.params[n].capas = Append(@, c)]
           /\ UNCHANGED <<session, pc, locals, caller>>
  <2>1. msg' \in Opens
    <3>1. pc' = "capa"
      BY <1>1, <1>4
    <3> QED BY <3>1 DEF Inv, Typed, MessageTyped
  <2> HIDE DEF c
  <2>2. n \in Nat /\ n \in DOMAIN msg.params
    BY ONLY <1>2
  <2>3. msg.params[n] \in CanonicalParams
    <3>1. \A j \in DOMAIN msg.params : msg.params[j] \in CanonicalParams
      BY ONLY <1>2
    <3> QED BY <2>2, <3>1, Zenon
  <2>4. msg' = [msg EXCEPT !.params = [msg.params EXCEPT ![n] = q]]
    BY <1>4, <1>2, <2>2, <2>3 DEF Opens, CanonicalParams, Params
  <2>5. q.type = PARAMETER_CAPA
    BY <1>2, <2>3 DEF CanonicalParams, Params
  <2> HIDE DEF q, n
  <2>6. msg'.params = [msg.params EXCEPT ![n] = q]
    BY ONLY <1>2, <2>4 DEF Opens
  <2>7. /\ DOMAIN msg'.params = DOMAIN msg.params /\ msg'.params[n] = q
        /\ Len(msg'.params) = Len(msg.params)
    BY ONLY <1>2, <2>2, <2>6
  <2>8. msg'.params \in Seq(Params)
    BY ONLY <2>1 DEF Opens
  <2>9. q \in CanonicalParams
    <3>1. \A j \in DOMAIN msg'.params : msg'.params[j] \in Params
      BY ONLY <2>8
    <3>2. q \in Params
      BY <2>2, <2>7, <3>1, Zenon
    <3> QED BY <2>5, <3>2, Zenon DEF CanonicalParams
  <2>10. msg'.params \in Seq(CanonicalParams)
    <3>1. msg.params \in Seq(CanonicalParams)
      BY <1>2
    <3> QED BY ONLY <2>2, <2>6, <2>9, <3>1
  <2>11. msg' \in CanonicalOpens
    BY <2>1, <2>10, Zenon DEF CanonicalOpens
  <2>12. msg'.params[Len(msg'.params)].type = PARAMETER_CAPA
    BY <2>5, <2>7, Zenon DEF n
  <2>13. UNCHANGED <<session, nlri, source, rec>> /\ pc' = "capa"
    BY <1>1, <1>4, Zenon DEF locals, caller
  <2> QED BY <1>1, <2>11, <2>12, <2>13, InOpenCanonical
<1> QED BY <1>1, <1>3, <1>4, FailCanonical

\* NOTIFICATION and KEEPALIVE.
LEMMA ShortMessagesCanonical ==
    ASSUME Inv, Inv', Canonical, ParseNotification \/ ParseKeepAlive PROVE Canonical'
<1>1. CASE ParseKeepAlive
  <2>1. /\ InMessage /\ pc' = "done" /\ msg' \in KeepAlives
        /\ UNCHANGED <<session, nlri, source, rec>>
    BY <1>1 DEF ParseKeepAlive, InMessage, KeepAlives, locals, caller
  <2>2. msg' \in CanonicalMessages(session)
    BY <2>1, Zenon DEF CanonicalMessages
  <2> QED BY <2>1, <2>2, RecordOfMessage, MessageReturnedCanonical
<1>2. CASE ParseNotification
  <2> DEFINE m == [type |-> "NOTIFICATION", error |-> Bytes(0, 2), data |-> SubSeq(b, 3, Size)]
  <2>1. /\ pc = "notification"
        /\ \/ Fail
           \/ 2 <= Size /\ msg' = m /\ pc' = "done" /\ UNCHANGED <<session, locals, caller>>
    BY <1>2, NoPanicNext, Zenon DEF ParseNotification, Reading
  <2>2. CASE 2 <= Size /\ msg' = m /\ pc' = "done" /\ UNCHANGED <<session, locals, caller>>
    <3>1. b \in Seq(Byte)
      BY Zenon DEF Inv, IInv, TypeOK
    <3>2. Bytes(0, 2) \in Bs(2)
      <4>1. 0 \in Int /\ 2 \in Nat
        OBVIOUS
      <4> QED BY <3>1, <4>1, BytesType, Zenon
    <3>3. SubSeq(b, 3, Size) \in Seq(Byte)
      <4>1. Size \in Int /\ Size <= Len(b) /\ 3 \in Int /\ 1 <= 3 /\ 3 <= Size + 1
        BY <3>1, <2>2 DEF Size
      <4> QED BY <3>1, <4>1, SubSlice, Zenon
    <3>4. m \in Notifications
      BY ONLY <3>2, <3>3 DEF Notifications
    <3> HIDE DEF m
    <3>5. InMessage /\ UNCHANGED <<session, nlri, source, rec>>
      BY <2>1, <2>2 DEF InMessage, locals, caller
    <3>6. msg' \in CanonicalMessages(session)
      BY <2>2, <3>4, Zenon DEF CanonicalMessages
    <3> QED BY <2>2, <3>5, <3>6, RecordOfMessage, MessageReturnedCanonical
  <2> QED BY <2>1, <2>2, FailCanonical
<1> QED BY <1>1, <1>2

\* The decoder of a body is chosen.
LEMMA ParsePacketCanonical ==
    ASSUME Canonical, NEW type, NEW body, NEW options, ParsePacket(type, body, options),
           source' = source, options = Options'
    PROVE  Canonical'
<1>1. pc' \in {"open", "update", "notification", "keepalive", "error"} /\ session' = options /\ nlri' = nlri
  <2>1. UNCHANGED locals /\ session' = options
    BY Zenon DEF ParsePacket
  <2>2. pc' \in {"open", "update", "notification", "keepalive", "error"}
    BY DEF ParsePacket
  <2> QED BY <2>1, <2>2 DEF locals
<1>2. MessageCanonical' /\ RecordCanonical' /\ ResultCanonical'
  BY <1>1 DEF MessageCanonical, RecordCanonical, ResultCanonical, InUpdate, Waits, InAttributes
<1> QED BY <1>1, <1>2, OutsideCanonical

\* A message of the socket, or of a slice.
LEMMA ReceiveCanonical == ASSUME Inv, Canonical, Receive \/ ParseSlice PROVE Canonical'
<1>1. \/ Fail
      \/ \E type, body : source = "socket" /\ UNCHANGED caller /\ ParsePacket(type, body, session)
      \/ \E type, body : source = "packet" /\ UNCHANGED caller /\ ParsePacket(type, body, NoOptions)
  BY Zenon DEF Receive, ParseSlice
<1>2. CASE \E type, body : source = "socket" /\ UNCHANGED caller /\ ParsePacket(type, body, session)
  <2>1. PICK type, body : source = "socket" /\ UNCHANGED caller /\ ParsePacket(type, body, session)
    BY <1>2
  <2>2. source' = source
    BY <2>1 DEF caller
  <2>3. session' = session
    BY <2>1, Zenon DEF ParsePacket
  <2>4. session = Options'
    BY <2>1, <2>2, <2>3 DEF Options
  <2> QED BY <2>1, <2>2, <2>4, ParsePacketCanonical
<1>3. CASE \E type, body : source = "packet" /\ UNCHANGED caller /\ ParsePacket(type, body, NoOptions)
  <2>1. PICK type, body : source = "packet" /\ UNCHANGED caller /\ ParsePacket(type, body, NoOptions)
    BY <1>3
  <2>2. source' = source
    BY <2>1 DEF caller
  <2>3. NoOptions = Options'
    BY <2>1, <2>2 DEF Options
  <2> QED BY <2>1, <2>2, <2>3, ParsePacketCanonical
<1> QED BY <1>1, <1>2, <1>3, FailCanonical

-----------------------------------------------------------------------------
(* MRT records.                                                             *)

\* A record is read: nothing of a message is being decoded.
LEMMA InRecordCanonical ==
    ASSUME Canonical, UNCHANGED <<nlri, source>>, source = "mrt",
           pc' \in {"message", "stateChange", "peerIndex", "peers", "rib", "generic", "tableDump",
                    "entries", "partial", "done", "error", "nil"},
           pc' = "peers" => left' + Len(rec'.peers) <= MaxUint16 /\ Len(rec'.view) <= MaxUint16,
           pc' = "entries" => /\ CanonicalRib(rec') /\ left' + Len(rec'.entries) <= MaxUint16
                              /\ rec'.entries \in Seq(CanonicalEntries),
           pc' = "done" => RecordResult(rec') /\ rec'.type # "MESSAGE"
    PROVE  Canonical'
<1>1. ~InMessage' /\ ~InUpdate' /\ ~Waits("entry")' /\ ~InAttributes'
      /\ pc' \notin {"entry", "param", "capa"}
  BY DEF InMessage, InUpdate, Waits, InAttributes
<1>2. MessageCanonical'
  BY <1>1 DEF MessageCanonical
<1>3. RecordCanonical'
  <2>1. CanonicalRib(rec') = CanonicalRib(rec)' /\ CanonicalEntries' = CanonicalEntries
    BY DEF CanonicalRib, CanonicalEntries, RibFamily
  <2> QED BY <1>1, <2>1, Zenon DEF RecordCanonical
<1>4. ResultCanonical'
  <2>1. RecordResult(rec') = RecordResult(rec)'
    BY DEF RecordResult, CanonicalRib, CanonicalEntries, RibFamily
  <2> QED BY <2>1, Zenon DEF ResultCanonical
<1> QED BY <1>2, <1>3, <1>4, OutsideCanonical

\* A record begins.
LEMMA SingleCanonical == ASSUME Inv, Canonical, DecodeSingle PROVE Canonical'
<1>1. \/ Fail
      \/ /\ source = "mrt" /\ UNCHANGED <<nested, source>>
         /\ pc' \in {"message", "stateChange", "nil", "peerIndex", "generic", "rib", "tableDump", "error"}
  <2> DEFINE place == CASE Uint16(4) = TYPE_BGP4MP /\ Uint16(6) = MESSAGE_AS4 -> "message"
                       [] Uint16(4) = TYPE_BGP4MP /\ Uint16(6) = STATE_CHANGE_AS4 -> "stateChange"
                       [] Uint16(4) = TYPE_BGP4MP /\ Uint16(6) \notin {MESSAGE_AS4, STATE_CHANGE_AS4} -> "nil"
                       [] Uint16(4) = TYPE_TABLE_DUMPV2 /\ Uint16(6) = PEER_INDEX_TABLE -> "peerIndex"
                       [] Uint16(4) = TYPE_TABLE_DUMPV2 /\ Uint16(6) = RIB_GENERIC -> "generic"
                       [] Uint16(4) = TYPE_TABLE_DUMPV2 /\ Uint16(6) \in DOMAIN RibSubtype -> "rib"
                       [] Uint16(4) = TYPE_TABLE_DUMP -> "tableDump"
                       [] OTHER -> "error"
  <2>1. Fail \/ (source = "mrt" /\ pc' = place /\ UNCHANGED <<nested, source, left, first>>)
    BY Zenon DEF DecodeSingle
  <2>2. place \in {"message", "stateChange", "nil", "peerIndex", "generic", "rib", "tableDump", "error"}
    BY ONLY DEF TYPE_BGP4MP, TYPE_TABLE_DUMPV2, TYPE_TABLE_DUMP
  <2> HIDE DEF place
  <2> QED BY <2>1, <2>2
<1>2. CASE /\ source = "mrt" /\ UNCHANGED <<nested, source>>
           /\ pc' \in {"message", "stateChange", "nil", "peerIndex", "generic", "rib", "tableDump", "error"}
  <2>1. UNCHANGED <<nlri, source>>
    BY <1>2, Zenon DEF nested, locals
  <2> QED BY <1>2, <2>1, InRecordCanonical
<1> QED BY <1>1, <1>2, FailCanonical

\* A message in a record.
LEMMA DecodeMessageCanonical == ASSUME Inv, Canonical, DecodeMessage PROVE Canonical'
<1>1. \/ Fail
      \/ pc' = "error" /\ UNCHANGED <<session, locals, source>>
      \/ \E type, body : ParsePacket(type, body, NoOptions) /\ source' = source
  BY Zenon DEF DecodeMessage
<1>2. source = "mrt"
  BY DEF DecodeMessage, Inv, Typed, RecordTyped
<1>3. CASE pc' = "error" /\ UNCHANGED <<session, locals, source>>
  <2>1. UNCHANGED <<nlri, source>>
    BY <1>3, Zenon DEF locals
  <2> QED BY <1>2, <1>3, <2>1, InRecordCanonical
<1>4. CASE \E type, body : ParsePacket(type, body, NoOptions) /\ source' = source
  <2>1. source' = source
    BY <1>4
  <2>2. NoOptions = Options'
    BY <1>2, <2>1 DEF Options
  <2> QED BY <1>4, <2>1, <2>2, ParsePacketCanonical
<1> QED BY <1>1, <1>3, <1>4, FailCanonical

\* A state change.
LEMMA StateChangeCanonical == ASSUME Inv, Canonical, DecodeStateChange PROVE Canonical'
<1>1. /\ pc = "stateChange" /\ pc' = "done"
      /\ rec' = With(Peers("STATE_CHANGE"), "states", Field(12 + 2 * SizeIP, 2) \o Field(14 + 2 * SizeIP, 2))
      /\ UNCHANGED <<nlri, source>>
  <2>1. UNCHANGED <<nested, source>>
    BY Zenon DEF DecodeStateChange
  <2>2. UNCHANGED <<nlri, source>>
    BY <2>1, Zenon DEF nested, locals
  <2> QED BY <2>2, Zenon DEF DecodeStateChange
<1>2. source = "mrt"
  BY <1>1 DEF Inv, Typed, RecordTyped
<1>3. rec'.type = "STATE_CHANGE"
  <2> DEFINE states == Field(12 + 2 * SizeIP, 2) \o Field(14 + 2 * SizeIP, 2)
  <2>1. rec' = With(Peers("STATE_CHANGE"), "states", states)
    BY <1>1
  <2> HIDE DEF states
  <2> QED BY ONLY <2>1 DEF Peers, With
<1>4. RecordResult(rec')
  BY <1>3 DEF RecordResult
<1> QED BY <1>1, <1>2, <1>3, <1>4, InRecordCanonical

\* A number of two bytes of a record.
LEMMA ReadBound == ASSUME Inv, NEW o \in Nat PROVE ReadUint16(o) <= MaxUint16
<1>1. Field(o, 2) \in Bs(2)
  BY FieldBytes
<1>2. Field(o, 2)[1] \in Byte /\ Field(o, 2)[2] \in Byte
  <2>1. 1 \in 1 .. 2 /\ 2 \in 1 .. 2 /\ 2 \in Nat
    OBVIOUS
  <2> QED BY <1>1, <2>1, BsElement, Zenon
<1>3. 256 * Field(o, 2)[1] + Field(o, 2)[2] <= MaxUint16
  BY <1>2, TwoByteBound, Zenon
<1> QED BY <1>3, Zenon DEF ReadUint16

\* A peer index table.
LEMMA PeerIndexCanonical == ASSUME Inv, Inv', Canonical, DecodePeerIndex PROVE Canonical'
<1> DEFINE n == ReadUint16(4)
           r == [type |-> "PEER_INDEX", time |-> rec.time, collector |-> Field(0, 4),
                 view |-> Field(6, n), peers |-> <<>>]
<1>1. pc = "peerIndex" /\ pc' = "peers" /\ rec' = r /\ UNCHANGED <<nlri, source>>
  <2>1. pc = "peerIndex" /\ pc' = "peers" /\ rec' = r /\ UNCHANGED <<nested, source>>
    BY Zenon DEF DecodePeerIndex, Goto
  <2> QED BY <2>1, Zenon DEF nested, locals
<1>2. source = "mrt"
  BY <1>1 DEF Inv, Typed, RecordTyped
<1>3. Len(rec'.view) <= MaxUint16
  <2>1. n \in Nat /\ n <= MaxUint16
    BY ReadNumbers, ReadBound
  <2> HIDE DEF n
  <2>2. Field(6, n) \in Bs(n)
    BY <2>1, FieldBytes
  <2>3. rec'.view = Field(6, n)
    BY <1>1
  <2> QED BY <2>1, <2>2, <2>3, Zenon DEF Bs
<1>4. left' + Len(rec'.peers) <= MaxUint16
  <2>1. left' \in Nat /\ left' <= MaxUint16
    BY Zenon DEF Inv, IInv, TypeOK
  <2>2. rec'.peers = <<>>
    <3> HIDE DEF n
    <3> QED BY <1>1
  <2> QED BY <2>1, <2>2
<1> QED BY <1>1, <1>2, <1>3, <1>4, InRecordCanonical

\* A peer of it.
LEMMA DecodePeerCanonical == ASSUME Inv, Inv', Canonical, DecodePeer PROVE Canonical'
<1> DEFINE sizeIP  == IF ReadUint8(0) % 2 = 1 THEN 16 ELSE 4
           sizeASN == IF (ReadUint8(0) \div 2) % 2 = 1 THEN 4 ELSE 2
           p == [id |-> Field(1, 4), ip |-> Field(5, sizeIP),
                 asn |-> Zeros(4 - sizeASN) \o Field(5 + sizeIP, sizeASN)]
<1>1. /\ pc = "peers"
      /\ \/ pc' = "done" /\ rec' = rec
         \/ /\ pc' = "peers" /\ rec' = [rec EXCEPT !.peers = Append(@, p)] /\ left' = left - 1
            /\ left # 0
  BY Zenon DEF DecodePeer, caller
<1>2. UNCHANGED <<nlri, source>>
  <2>1. UNCHANGED <<nested, source>>
    BY Zenon DEF DecodePeer, caller
  <2> QED BY <2>1, Zenon DEF nested, locals
<1>3. rec \in PeerIndexes /\ source = "mrt"
  BY <1>1 DEF Inv, Typed, RecordTyped
<1>4. left + Len(rec.peers) <= MaxUint16 /\ Len(rec.view) <= MaxUint16
  BY <1>1, Zenon DEF Canonical, RecordCanonical
<1>5. left \in Nat /\ rec.peers \in Seq(PeerEntries) /\ rec.type = "PEER_INDEX"
  <2>1. left \in Nat
    BY Zenon DEF Inv, IInv, TypeOK
  <2> QED BY <1>3, <2>1 DEF PeerIndexes
<1>6. CASE pc' = "done" /\ rec' = rec
  <2>1. RecordResult(rec')
    BY <1>4, <1>5, <1>6 DEF RecordResult, MaxUint16
  <2> QED BY <1>2, <1>3, <1>5, <1>6, <2>1, InRecordCanonical
<1>7. CASE /\ pc' = "peers" /\ rec' = [rec EXCEPT !.peers = Append(@, p)] /\ left' = left - 1
           /\ left # 0
  <2> HIDE DEF p
  <2>1. rec'.peers = Append(rec.peers, p) /\ rec'.view = rec.view
    BY <1>3, <1>7 DEF PeerIndexes
  <2>2. Len(Append(rec.peers, p)) = Len(rec.peers) + 1 /\ Len(rec.peers) \in Nat
    BY ONLY <1>5
  <2>3. left' + Len(rec'.peers) <= MaxUint16
    BY <1>4, <1>5, <1>7, <2>1, <2>2 DEF MaxUint16
  <2> QED BY <1>2, <1>3, <1>4, <1>7, <2>1, <2>3, InRecordCanonical
<1> QED BY <1>1, <1>6, <1>7

\* The prefix of a RIB record is decoded next.
LEMMA CallPrefixCanonical ==
    ASSUME Inv, NEW o, NEW afi, CallPrefix(o, afi), RibFamily(rec', SizeOf(afi))
    PROVE  Canonical'
<1> DEFINE to == 1 + ((ReadUint8(o) + 7) \div 8)
<1>1. CallParseNLRI(0, to, afi, FALSE, "prefix")
  BY Zenon DEF CallPrefix
<1> HIDE DEF to
<1>2. /\ ListCanonical' /\ ListingCanonical' /\ SegmentsCanonical' /\ ResultCanonical'
      /\ (pc' = "prefix" \/ InNLRI("prefix")') /\ nlri'.ret = "prefix"
  <2>1. /\ "prefix" # "reach" /\ "prefix" # "unreach" /\ "prefix" \notin {"withdrawn", "prefixes"}
        /\ "prefix" \notin {"reach", "unreach"}
        /\ "prefix" \in {"withdrawn", "prefixes", "reach", "unreach", "prefix"}
    OBVIOUS
  <2> QED BY <1>1, <2>1, CallCanonical, Zenon
<1>3. pc' \in {"prefix", "nlri"}
  BY <1>2 DEF InNLRI
<1>4. MessageCanonical' /\ RecordCanonical'
  BY <1>2, <1>3 DEF MessageCanonical, RecordCanonical, InMessage, InUpdate, Waits, InAttributes
<1> QED BY <1>2, <1>4, Zenon DEF Canonical

\* A RIB record, up to its prefix.
LEMMA DecodeRibCanonical == ASSUME Inv, Canonical, DecodeRibSpec \/ DecodeRibGeneric PROVE Canonical'
<1>1. rec \in Starts /\ source = "mrt"
  BY DEF DecodeRibSpec, DecodeRibGeneric, Inv, Typed, RecordTyped
<1>2. CASE DecodeRibSpec
  <2> DEFINE t == RibSubtype[rec.subtype]
  <2>1. pc = "rib" /\ rec' = Rib(t.afi, t.safi, TRUE, t.addPath) /\ CallPrefix(4, t.afi)
    BY <1>2, Zenon DEF DecodeRibSpec
  <2>2. t.afi \in {AFI_IPV4, AFI_IPV6} /\ t.safi \in {SAFI_UNICAST, SAFI_MULTICAST}
    BY <2>1, RibSubtypeIs, Zenon DEF Inv, Typed, RecordTyped
  <2> HIDE DEF t
  <2>3. rec'.afi = t.afi /\ rec'.safi = t.safi
    BY ONLY <2>1 DEF Rib
  <2>4. RibFamily(rec', SizeOf(t.afi))
    BY <2>2, <2>3, Zenon DEF RibFamily
  <2> QED BY <2>1, <2>4, CallPrefixCanonical
<1>3. CASE DecodeRibGeneric
  <2>1. /\ rec' = Rib(ReadUint16(4), ReadUint8(6), FALSE, FALSE)
        /\ \/ CallPrefix(7, ReadUint16(4))
           \/ pc' = "error" /\ UNCHANGED <<nested, source>>
    BY <1>3, Zenon DEF DecodeRibGeneric
  <2>2. rec'.asAfiSafi = FALSE
    BY ONLY <2>1 DEF Rib
  <2>3. RibFamily(rec', SizeOf(ReadUint16(4)))
    BY <2>2, Zenon DEF RibFamily
  <2>4. CASE pc' = "error" /\ UNCHANGED <<nested, source>>
    <3>1. UNCHANGED <<nlri, source>>
      BY <2>4, Zenon DEF nested, locals
    <3> QED BY <1>1, <2>4, <3>1, InRecordCanonical
  <2> QED BY <2>1, <2>3, <2>4, CallPrefixCanonical
<1> QED BY <1>2, <1>3

\* Its prefix.
LEMMA PrefixDecodedCanonical == ASSUME Inv, Inv', Canonical, PrefixDecoded PROVE Canonical'
<1>1. /\ pc = "prefix"
      /\ \/ pc' = "error" /\ UNCHANGED <<nested, source>>
         \/ /\ Len(nlri.list) = 1 /\ pc' = "entries" /\ rec' = [rec EXCEPT !.nlri = nlri.list[1]]
            /\ UNCHANGED <<nlri, source>>
  BY Zenon DEF PrefixDecoded, Goto, caller
<1>2. rec \in RibHeads /\ source = "mrt" /\ nlri \in NLRIs
  BY <1>1, Zenon DEF Inv, Typed, RecordTyped, SliceTyped, InPrefix
<1>3. CASE pc' = "error" /\ UNCHANGED <<nested, source>>
  <2>1. UNCHANGED <<nlri, source>>
    BY <1>3, Zenon DEF nested, locals
  <2> QED BY <1>2, <1>3, <2>1, InRecordCanonical
<1>4. CASE /\ Len(nlri.list) = 1 /\ pc' = "entries" /\ rec' = [rec EXCEPT !.nlri = nlri.list[1]]
           /\ UNCHANGED <<nlri, source>>
  <2>1. /\ ~nlri.path /\ RibFamily(rec, nlri.size)
        /\ nlri.list \in Seq(CanonicalPrefixes(nlri.size, nlri.path))
    BY <1>1, Zenon DEF Canonical, ListingCanonical, ListCanonical, InPrefix
  <2>2. nlri.path = FALSE /\ nlri.size \in {4, 16}
    BY <1>2, <2>1 DEF NLRIs
  <2>3. nlri.list[1] \in CanonicalPrefixes(nlri.size, FALSE)
    <3>1. nlri.list \in Seq(CanonicalPrefixes(nlri.size, FALSE))
      BY <2>1, <2>2
    <3>2. Len(nlri.list) = 1
      BY <1>4
    <3> DEFINE S == CanonicalPrefixes(nlri.size, FALSE)  l == nlri.list
    <3>3. l \in Seq(S) /\ Len(l) = 1
      BY <3>1, <3>2
    <3> HIDE DEF S, l
    <3>4. l[1] \in S
      BY ONLY <3>3
    <3> QED BY <3>4 DEF S, l
  <2>4. /\ rec'.nlri = nlri.list[1] /\ rec'.entries = <<>> /\ rec'.asAfiSafi = rec.asAfiSafi
        /\ rec'.afi = rec.afi /\ rec'.safi = rec.safi
    BY ONLY <1>2, <1>4 DEF RibHeads, RibsWith
  <2>5. RibFamily(rec', nlri.size)
    BY <2>1, <2>4, Zenon DEF RibFamily
  <2>6. CanonicalRib(rec')
    BY <2>2, <2>3, <2>4, <2>5, Zenon DEF CanonicalRib
  <2>7. left' + Len(rec'.entries) <= MaxUint16 /\ rec'.entries \in Seq(CanonicalEntries)
    <3>1. left' \in Nat /\ left' <= MaxUint16
      BY Zenon DEF Inv, IInv, TypeOK
    <3>2. <<>> \in Seq(CanonicalEntries)
      OBVIOUS
    <3> QED BY <2>4, <3>1, <3>2
  <2> QED BY <1>2, <1>4, <2>6, <2>7, InRecordCanonical
<1> QED BY <1>1, <1>3, <1>4

\* The attributes of an entry are decoded next.
LEMMA CallAttributesCanonical ==
    ASSUME Canonical, NEW o, NEW n, NEW enc2bytes \in BOOLEAN, NEW ret, CallAttributes(o, n, enc2bytes, ret),
           \/ /\ ret = "entry" /\ ~enc2bytes /\ CanonicalRib(rec')
              /\ left' + Len(rec'.entries) <= MaxUint16
              /\ \A k \in 1 .. Len(rec'.entries) - 1 : rec'.entries[k] \in CanonicalEntries
           \/ ret = "tableDumpAttributes"
    PROVE  Canonical'
<1>1. /\ session' = [NoOptions EXCEPT !.enc2bytes = enc2bytes] /\ msg' = [attrs |-> <<>>]
      /\ attr' = [ret |-> ret] /\ pc' = "attrs" /\ UNCHANGED <<nlri, source>>
  BY Zenon DEF CallAttributes, CallParsePathAttribute
<1>2. attr'.ret = ret /\ msg'.attrs = <<>>
  BY <1>1
<1>3. ret = "entry" => session' = NoOptions
  <2>1. ret = "entry" => enc2bytes = FALSE
    OBVIOUS
  <2> QED BY <1>1, <2>1 DEF NoOptions
<1>4. ~InMessage' /\ ~InUpdate' /\ (Waits("entry")' => ret = "entry")
  BY <1>1, <1>2 DEF InMessage, InUpdate, Waits, InAttributes
<1>5. MessageCanonical'
  <2>1. <<>> \in Seq(CanonicalAttributes(session'))
    OBVIOUS
  <2> QED BY <1>1, <1>2, <1>3, <1>4, <2>1 DEF MessageCanonical, CanonicalAttributes, ReadWith
<1>6. RecordCanonical'
  <2>1. CanonicalRib(rec') = CanonicalRib(rec)' /\ CanonicalEntries' = CanonicalEntries
    BY DEF CanonicalRib, CanonicalEntries, RibFamily
  <2> QED BY <1>1, <1>2, <1>4, <2>1 DEF RecordCanonical
<1>7. ListCanonical'
  BY <1>1, Zenon DEF Canonical, ListCanonical
<1>8. ListingCanonical' /\ SegmentsCanonical' /\ ResultCanonical'
  BY <1>1 DEF ListingCanonical, SegmentsCanonical, ResultCanonical, Listing, InNLRI, InPrefix
<1> QED BY <1>5, <1>6, <1>7, <1>8, Zenon DEF Canonical

\* An entry of it, up to its attributes.
LEMMA DecodeEntryCanonical == ASSUME Inv, Inv', Canonical, DecodeEntry PROVE Canonical'
<1> DEFINE skip == IF rec.addPath THEN 4 ELSE 0
           e == [peer |-> Field(0, 2), time |-> Field(2, 4)]
<1>1. /\ pc = "entries"
      /\ \/ pc' \in {"partial", "done"} /\ UNCHANGED <<nested, caller>>
         \/ /\ rec' = [rec EXCEPT !.entries = Append(@, e)] /\ left' = left - 1
            /\ CallAttributes(8 + skip, ReadUint16(6 + skip), FALSE, "entry")
  BY DEF DecodeEntry
<1>2. rec \in Ribs /\ source = "mrt"
  BY <1>1 DEF Inv, Typed, RecordTyped
<1>3. /\ CanonicalRib(rec) /\ left + Len(rec.entries) <= MaxUint16
      /\ rec.entries \in Seq(CanonicalEntries)
  BY <1>1, Zenon DEF Canonical, RecordCanonical
<1>4. left \in Nat /\ Len(rec.entries) \in Nat /\ rec.type = "RIB"
  <2>1. left \in Nat
    BY Zenon DEF Inv, IInv, TypeOK
  <2>2. Len(rec.entries) \in Nat
    BY ONLY <1>3
  <2> QED BY ONLY <1>2, <2>1, <2>2 DEF Ribs, RibsWith
<1>5. CASE pc' \in {"partial", "done"} /\ UNCHANGED <<nested, caller>>
  <2>1. UNCHANGED <<nlri, source, rec>>
    BY <1>5, Zenon DEF nested, locals, caller
  <2>2. Len(rec.entries) <= MaxUint16
    BY <1>3, <1>4 DEF MaxUint16
  <2>3. rec.type # "PEER_INDEX" /\ rec.type # "MESSAGE"
    BY <1>4
  <2>4. RecordResult(rec)
    BY <1>3, <2>2, <2>3, Zenon DEF RecordResult
  <2>5. RecordResult(rec')
    BY <2>1, <2>4
  <2> QED BY <1>2, <1>5, <2>1, <2>3, <2>5, InRecordCanonical
<1>6. CASE /\ rec' = [rec EXCEPT !.entries = Append(@, e)] /\ left' = left - 1
           /\ CallAttributes(8 + skip, ReadUint16(6 + skip), FALSE, "entry")
  <2> HIDE DEF e, skip
  <2>1. /\ rec'.entries = Append(rec.entries, e) /\ rec'.nlri = rec.nlri
        /\ rec'.asAfiSafi = rec.asAfiSafi /\ rec'.afi = rec.afi /\ rec'.safi = rec.safi
    BY ONLY <1>2, <1>6 DEF Ribs, RibsWith
  <2>2. CanonicalRib(rec')
    BY <1>3, <2>1, Zenon DEF CanonicalRib, RibFamily
  <2>3. /\ Len(rec'.entries) = Len(rec.entries) + 1
        /\ \A k \in 1 .. Len(rec'.entries) - 1 : rec'.entries[k] \in CanonicalEntries
    BY ONLY <1>3, <2>1
  <2>4. left' + Len(rec'.entries) <= MaxUint16
    BY <1>3, <1>4, <1>6, <2>3 DEF MaxUint16
  <2>5. FALSE \in BOOLEAN
    OBVIOUS
  <2> QED BY <1>6, <2>2, <2>3, <2>4, <2>5, CallAttributesCanonical
<1> QED BY <1>1, <1>5, <1>6

\* The attributes of an entry.
LEMMA EntryDecodedCanonical == ASSUME Inv, Inv', Canonical, EntryDecoded PROVE Canonical'
<1> DEFINE n == Len(rec.entries)
           e == [peer |-> rec.entries[n].peer, time |-> rec.entries[n].time, attrs |-> msg.attrs]
<1>1. /\ pc = "entry" /\ pc' = "entries" /\ UNCHANGED <<nlri, source, left>>
      /\ rec' = [rec EXCEPT !.entries[n] = [peer |-> @.peer, time |-> @.time, attrs |-> msg.attrs]]
  <2>1. UNCHANGED <<nested, source, left>> /\ pc = "entry"
    BY Zenon DEF EntryDecoded
  <2>2. UNCHANGED <<nlri, source, left>>
    BY <2>1, Zenon DEF nested, locals
  <2>3. /\ pc' = "entries"
        /\ rec' = [rec EXCEPT !.entries[n] = [peer |-> @.peer, time |-> @.time, attrs |-> msg.attrs]]
    BY Zenon DEF EntryDecoded, Goto
  <2> QED BY <2>1, <2>2, <2>3
<1>2. OpenRib(rec) /\ source = "mrt"
  BY <1>1, Zenon DEF Inv, Typed, RecordTyped, Waits
<1>3. /\ CanonicalRib(rec) /\ left + n <= MaxUint16 /\ session = NoOptions
      /\ \A k \in 1 .. n - 1 : rec.entries[k] \in CanonicalEntries
      /\ msg.attrs \in Seq(CanonicalAttributes(session))
  BY <1>1, Zenon DEF Canonical, RecordCanonical, MessageCanonical, Waits
<1> DEFINE Open == Entries \cup [peer : Bs(2), time : Bs(4)]
           all == [rec.entries EXCEPT ![n] = e]
<1> HIDE DEF e
<1>4. rec.entries \in Seq(Open) /\ n \in Nat /\ n \in DOMAIN rec.entries /\ rec \in RibsWith(Routes, Seq(Open))
  <2>1. rec \in RibsWith(Routes, Seq(Open)) /\ rec.entries # <<>>
    BY <1>2 DEF OpenRib
  <2> HIDE DEF Open
  <2> QED BY ONLY <2>1 DEF RibsWith
<1>5. rec' = [rec EXCEPT !.entries = all]
  <2> HIDE DEF Open
  <2> QED BY <1>1, <1>4 DEF e, RibsWith
<1>6. /\ rec'.entries = all /\ rec'.nlri = rec.nlri
      /\ rec'.asAfiSafi = rec.asAfiSafi /\ rec'.afi = rec.afi /\ rec'.safi = rec.safi
  <2> HIDE DEF Open, all
  <2> QED BY ONLY <1>4, <1>5 DEF RibsWith
<1>7. Len(all) = n /\ all[n] = e /\ DOMAIN all = 1 .. n
  <2> HIDE DEF Open
  <2> QED BY ONLY <1>4
<1>8. e \in Entries
  <2>1. rec' \in Ribs
    BY <1>1 DEF Inv, Typed, RecordTyped
  <2>2. all \in Seq(Entries)
    <3> HIDE DEF all
    <3> QED BY ONLY <1>6, <2>1 DEF Ribs, RibsWith
  <2>3. \A k \in DOMAIN all : all[k] \in Entries
    <3> HIDE DEF all
    <3> QED BY ONLY <2>2
  <2>4. n \in DOMAIN all
    <3> HIDE DEF all, Open
    <3> QED BY <1>4, <1>7
  <2> QED BY <1>7, <2>3, <2>4, Zenon
<1>9. e \in CanonicalEntries
  <2>1. e.attrs \in Seq(CanonicalAttributes(NoOptions))
    BY <1>3 DEF e
  <2> QED BY <1>8, <2>1, Zenon DEF CanonicalEntries
<1>10. all \in Seq(CanonicalEntries)
  <2>1. \A k \in 1 .. n : all[k] \in CanonicalEntries
    <3> HIDE DEF Open
    <3> QED BY ONLY <1>3, <1>4, <1>9
  <2>2. all = [k \in DOMAIN all |-> all[k]]
    OBVIOUS
  <2> HIDE DEF all, Open
  <2>3. all \in [1 .. n -> CanonicalEntries]
    BY <1>7, <2>1, <2>2
  <2> QED BY ONLY <1>4, <2>3
<1> HIDE DEF all
<1>11. CanonicalRib(rec')
  BY <1>3, <1>6, Zenon DEF CanonicalRib, RibFamily
<1>12. left' + Len(rec'.entries) <= MaxUint16
  BY <1>1, <1>3, <1>6, <1>7
<1> QED BY <1>1, <1>2, <1>6, <1>10, <1>11, <1>12, InRecordCanonical

\* A TABLE_DUMP record.
LEMMA TableDumpCanonical ==
    ASSUME Inv, Canonical, DecodeTableDump \/ TableDumpDecoded PROVE Canonical'
<1>1. CASE DecodeTableDump
  <2>1. \E o, n : CallAttributes(o, n, TRUE, "tableDumpAttributes")
    BY <1>1, Zenon DEF DecodeTableDump
  <2> QED BY <2>1, CallAttributesCanonical
<1>2. CASE TableDumpDecoded
  <2>1. /\ pc = "tableDumpAttributes"
        /\ \/ pc' = "error"
           \/ pc' = "done" /\ rec' = [rec EXCEPT !.attrs = msg.attrs]
        /\ UNCHANGED <<nested, source>>
    BY <1>2, Zenon DEF TableDumpDecoded, Goto
  <2>2. UNCHANGED <<nlri, source>>
    BY <2>1, Zenon DEF nested, locals
  <2>3. source = "mrt" /\ rec.type = "TABLE_DUMP" /\ "attrs" \in DOMAIN rec
    BY <2>1 DEF Inv, Typed, RecordTyped, Waits
  <2>4. CASE pc' = "done" /\ rec' = [rec EXCEPT !.attrs = msg.attrs]
    <3>1. rec'.type = "TABLE_DUMP"
      <4>1. \A x : [rec EXCEPT !.attrs = x].type = rec.type
        OBVIOUS
      <4> QED BY <2>3, <2>4, <4>1
    <3>2. RecordResult(rec') /\ rec'.type # "MESSAGE"
      BY <3>1 DEF RecordResult
    <3> QED BY <2>2, <2>3, <2>4, <3>2, InRecordCanonical
  <2> QED BY <2>1, <2>2, <2>3, <2>4, InRecordCanonical
<1> QED BY <1>1, <1>2

\* Everything that is decoded in place stays canonical.
LEMMA UpdateNextCanonical == ASSUME Inv, Inv', Canonical, UpdateNext PROVE Canonical'
<1>1. CASE ParseUpdate \/ WithdrawnParsed \/ AttributesParsed \/ UpdateParsed
  BY <1>1, UpdateCanonical, WithdrawnCanonical, AttributesParsedCanonical, UpdateParsedCanonical
<1>2. CASE ParseNLRI \/ ParseAttributeHeader
  BY <1>2, NLRICanonical, AttributeHeaderCanonical
<1>3. CASE ParseOrigin \/ ParseMedLocPref \/ ParseAtomicAggregate \/ ParseCommunities \/ ParseUnknown
  BY <1>3, PlainCanonical
<1>4. CASE ParseNextHop \/ ParseAggregator
  BY <1>4, NextHopCanonical, AggregatorCanonical
<1>5. CASE ParseASPath \/ ParseASPathSegment
  BY <1>5, ASPathCanonical, ASPathSegmentCanonical
<1>6. CASE ParseReach \/ ReachParsed \/ ParseUnreach \/ UnreachParsed
  BY <1>6, ReachCanonical, UnreachCanonical, PrefixesParsedCanonical
<1> QED BY <1>1, <1>2, <1>3, <1>4, <1>5, <1>6, Zenon DEF UpdateNext

\* And everything else that is decoded.
LEMMA DecodeCanonical == ASSUME Inv, Inv', Canonical, Decode PROVE Canonical'
<1>1. CASE Receive \/ ParseSlice \/ ParseNotification \/ ParseKeepAlive
  BY <1>1, ReceiveCanonical, ShortMessagesCanonical
<1>2. CASE OpenNext
  BY <1>2, OpenCanonical, ParameterCanonical, CapabilitiesCanonical DEF OpenNext
<1>3. CASE UpdateNext
  BY <1>3, UpdateNextCanonical
<1>4. CASE DecodeSingle \/ DecodeMessage \/ DecodeStateChange \/ DecodePeerIndex \/ DecodePeer
  BY <1>4, SingleCanonical, DecodeMessageCanonical, StateChangeCanonical, PeerIndexCanonical,
     DecodePeerCanonical
<1>5. CASE DecodeRibSpec \/ DecodeRibGeneric \/ PrefixDecoded \/ DecodeEntry \/ EntryDecoded
  BY <1>5, DecodeRibCanonical, PrefixDecodedCanonical, DecodeEntryCanonical, EntryDecodedCanonical
<1>6. CASE DecodeTableDump \/ TableDumpDecoded
  BY <1>6, TableDumpCanonical
<1> QED BY <1>1, <1>2, <1>3, <1>4, <1>5, <1>6, Zenon DEF Decode, PacketNext, MrtNext

\* Before anything has been read, what the prefixes were last is all that matters.
LEMMA StartsCanonical == ASSUME pc = "start", ListCanonical PROVE Canonical
<1>1. ListingCanonical /\ SegmentsCanonical
  BY DEF ListingCanonical, SegmentsCanonical, Listing, InNLRI, InPrefix
<1>2. MessageCanonical /\ RecordCanonical /\ ResultCanonical
  BY DEF MessageCanonical, RecordCanonical, ResultCanonical, InMessage, InUpdate, InAttributes, Waits
<1> QED BY <1>1, <1>2, Zenon DEF Canonical

\* Nothing changes.
LEMMA StaysCanonical == ASSUME Canonical, UNCHANGED vars PROVE Canonical'
<1>1. UNCHANGED <<session, pc, msg, nlri, attr, source, rec, left>>
  <2>1. UNCHANGED <<session, pc, msg, locals, caller>>
    BY Zenon DEF vars
  <2> QED BY <2>1, Zenon DEF locals, caller
<1>2. /\ InUpdate' = InUpdate /\ InMessage' = InMessage /\ InPrefix' = InPrefix
      /\ InAttributes' = InAttributes /\ Waits("entry")' = Waits("entry")
      /\ \A ret : Listing(ret)' = Listing(ret)
  BY <1>1, Zenon DEF InUpdate, InMessage, InAttributes, InPrefix, Waits, Listing, InNLRI
<1>3. ListCanonical' /\ SegmentsCanonical'
  BY <1>1, Zenon DEF Canonical, ListCanonical, SegmentsCanonical
<1>4. ListingCanonical'
  <2>1. /\ Listing("reach")' = Listing("reach") /\ Listing("unreach")' = Listing("unreach")
        /\ Listing("withdrawn")' = Listing("withdrawn") /\ Listing("prefixes")' = Listing("prefixes")
    BY <1>1, Zenon DEF Listing, InNLRI
  <2>2. RibFamily(rec, nlri.size)' = RibFamily(rec, nlri.size)
    BY <1>1, Zenon DEF RibFamily
  <2> QED BY <1>1, <1>2, <2>1, <2>2, Zenon DEF Canonical, ListingCanonical, Family
<1>5. MessageCanonical'
  <2>1. Options' = Options
    BY <1>1, Zenon DEF Options
  <2> QED BY <1>1, <1>2, <2>1, Zenon DEF Canonical, MessageCanonical, UpdateReadWith
<1>6. RecordCanonical' /\ ResultCanonical'
  <2>1. Options' = Options
    BY <1>1, Zenon DEF Options
  <2>2. CanonicalRib(rec)' = CanonicalRib(rec) /\ RecordResult(rec)' = RecordResult(rec)
    BY <1>1, Zenon DEF CanonicalRib, RibFamily, RecordResult
  <2>3. RecordCanonical'
    BY <1>1, <1>2, <2>1, <2>2, Zenon DEF Canonical, RecordCanonical
  <2>4. ResultCanonical'
    BY <1>1, <1>2, <2>1, <2>2, Zenon DEF Canonical, ResultCanonical
  <2> QED BY <2>3, <2>4
<1> QED BY <1>3, <1>4, <1>5, <1>6, Zenon DEF Canonical

-----------------------------------------------------------------------------
(* Where the decoders are, and what they leave alone.                       *)

\* The decoders of an OPEN and of the shorter messages.
LEMMA OpenKeeps ==
    ASSUME OpenNext \/ ParseNotification \/ ParseKeepAlive
    PROVE  UNCHANGED <<b, session, caller>> /\ pc' # "start"
<1>1. CASE ParseOpen
  BY <1>1 DEF ParseOpen, Reading, Fail
<1>2. CASE ParseParameter
  BY <1>2 DEF ParseParameter, Reading, Fail
<1>3. CASE ParseCapabilities
  BY <1>3 DEF ParseCapabilities, Reading, Fail
<1>4. CASE ParseNotification \/ ParseKeepAlive
  BY <1>4 DEF ParseNotification, ParseKeepAlive, Reading, Fail
<1> QED BY <1>1, <1>2, <1>3, <1>4, Zenon DEF OpenNext

\* ParsePathAttribute and ParseNLRI.
LEMMA UpdateKeeps ==
    ASSUME Inv, UpdateNext
    PROVE  UNCHANGED <<b, session, caller>> /\ pc' # "start"
<1>0. /\ InAttributes => attr.ret # "start"
      /\ nlri.ret # "start" /\ "reach" # "start" /\ "unreach" # "start" /\ "withdrawn" # "start"
      /\ "prefixes" # "start" /\ "nlri" # "start" /\ "attrs" # "start" /\ "attr" # "start"
      /\ "panic" # "start" /\ "error" # "start" /\ "aspath" # "start" /\ "done" # "start"
      /\ "partial" # "start"
  <2>1. nlri \in NLRIs
    BY Zenon DEF Inv, Typed, SliceTyped
  <2> QED BY <2>1 DEF Inv, IInv, AttributesInside, NLRIs
<1>1. CASE ParseUpdate
  BY <1>0, <1>1, Zenon DEF ParseUpdate, Reading, Fail, CallParseNLRI
<1>2. CASE WithdrawnParsed
  BY <1>0, <1>2, Zenon DEF WithdrawnParsed, Reading, Fail, CallParsePathAttribute
<1>3. CASE AttributesParsed \/ UpdateParsed
  BY <1>0, <1>3, Zenon DEF AttributesParsed, UpdateParsed, Reading, CallParseNLRI
<1>4. CASE ParseNLRI
  <2>1. UNCHANGED <<b, session, caller>> /\ pc' \in {pc, nlri.ret, "panic"} /\ pc = "nlri"
    BY <1>4 DEF ParseNLRI, ParsePrefix, ReturnNLRI, Reading
  <2> QED BY <1>0, <2>1
<1>5. CASE ParseAttributeHeader
  <2>1. pc = "attrs" /\ InAttributes
    BY <1>5 DEF ParseAttributeHeader, InAttributes
  <2> QED BY <1>0, <1>5, <2>1, Zenon DEF ParseAttributeHeader, EnterAttribute, ReturnAttributes, Reading
<1>6. CASE pc \in {"attr", "aspath", "reach", "unreach"}
  <2>0. InAttributes /\ pc \notin {"update", "withdrawn", "attributes", "prefixes", "nlri", "attrs"}
    BY <1>6 DEF InAttributes
  <2>1. CASE ParseOrigin \/ ParseMedLocPref \/ ParseAggregator \/ ParseAtomicAggregate
    BY <1>0, <2>0, <2>1, Zenon DEF ParseOrigin, ParseMedLocPref, ParseAggregator, ParseAtomicAggregate,
       AppendAttribute, ReturnAttributes, Reading
  <2>2. CASE ParseNextHop \/ ParseCommunities \/ ParseUnknown
    BY <1>0, <2>0, <2>2, Zenon DEF ParseNextHop, ParseCommunities, ParseUnknown, AppendAttribute,
       ReturnAttributes, Reading
  <2>3. CASE ParseASPath \/ ParseASPathSegment
    <3>1. CASE ParseASPath
      BY <1>0, <3>1, Zenon DEF ParseASPath
    <3>2. CASE ParseASPathSegment
      <4>1. UNCHANGED <<b, session, caller>> /\ pc' \in {pc, "attrs", "panic"} /\ pc = "aspath"
        BY <3>2 DEF ParseASPathSegment, AppendAttribute, Reading
      <4> QED BY <4>1
    <3> QED BY <2>3, <3>1, <3>2
  <2>4. CASE ParseReach \/ ParseUnreach
    BY <1>0, <2>0, <2>4, Zenon DEF ParseReach, ParseUnreach, CallParseNLRI, ReturnAttributes, Reading
  <2>5. CASE ReachParsed \/ UnreachParsed
    BY <1>0, <2>5, Zenon DEF ReachParsed, UnreachParsed, AppendAttribute
  <2>6. CASE ParseUpdate \/ WithdrawnParsed \/ AttributesParsed \/ UpdateParsed \/ ParseNLRI \/ ParseAttributeHeader
    BY <2>0, <2>6 DEF ParseUpdate, WithdrawnParsed, AttributesParsed, UpdateParsed, ParseNLRI,
       ParseAttributeHeader
  <2> QED BY <2>1, <2>2, <2>3, <2>4, <2>5, <2>6, Zenon DEF UpdateNext
<1>7. \/ ParseUpdate \/ WithdrawnParsed \/ AttributesParsed \/ UpdateParsed \/ ParseNLRI \/ ParseAttributeHeader
      \/ pc \in {"attr", "aspath", "reach", "unreach"}
  <2>1. \/ ParseUpdate \/ WithdrawnParsed \/ AttributesParsed \/ UpdateParsed \/ ParseNLRI \/ ParseAttributeHeader
        \/ pc = "attr" \/ pc = "aspath" \/ pc = "reach" \/ pc = "unreach"
    BY Zenon DEF UpdateNext, ParseOrigin, ParseMedLocPref, ParseAggregator, ParseAtomicAggregate,
       ParseNextHop, ParseCommunities, ParseUnknown, ParseASPath, ParseASPathSegment,
       ParseReach, ReachParsed, ParseUnreach, UnreachParsed, Case
  <2> QED BY <2>1
<1> QED BY <1>1, <1>2, <1>3, <1>4, <1>5, <1>6, <1>7, Zenon

\* The decoders of records.
LEMMA MrtKeeps ==
    ASSUME Inv, MrtNext
    PROVE  UNCHANGED <<source, first>> /\ pc' # "start" /\ source = "mrt"
<1>1. CASE DecodeSingle
  <2>1. UNCHANGED <<source, first>> /\ source = "mrt"
    BY <1>1, Zenon DEF DecodeSingle, Fail, caller
  <2>2. pc' # "start"
    BY <1>1 DEF DecodeSingle, Fail
  <2> QED BY <2>1, <2>2
<1>2. CASE DecodeMessage \/ DecodeStateChange
  <2>1. UNCHANGED <<source, first>> /\ source = "mrt"
    BY <1>2, Zenon DEF DecodeMessage, DecodeStateChange, Fail, caller, Inv, Typed, RecordTyped
  <2>2. pc' # "start"
    BY <1>2 DEF DecodeMessage, DecodeStateChange, ParsePacket, Fail
  <2> QED BY <2>1, <2>2
<1>3. CASE DecodePeerIndex \/ DecodePeer
  <2>1. UNCHANGED <<source, first>> /\ source = "mrt" /\ pc' \in {"peers", "done", pc}
    BY <1>3, Zenon DEF DecodePeerIndex, DecodePeer, Goto, caller, Inv, Typed, RecordTyped
  <2>2. pc # "start"
    BY <1>3 DEF DecodePeerIndex, DecodePeer
  <2> QED BY <2>1, <2>2
<1>4. CASE DecodeRibSpec \/ DecodeRibGeneric
  <2>1. UNCHANGED <<source, first>> /\ source = "mrt" /\ pc' \in {"nlri", "prefix", "error"}
    BY <1>4, Zenon DEF DecodeRibSpec, DecodeRibGeneric, CallPrefix, CallParseNLRI, Inv, Typed, RecordTyped
  <2> QED BY <2>1
<1>5. CASE PrefixDecoded \/ EntryDecoded
  <2>1. pc \in {"prefix", "entry"}
    BY <1>5, Zenon DEF PrefixDecoded, EntryDecoded
  <2>2. InPrefix \/ Waits("entry")
    BY <2>1 DEF InPrefix, Waits
  <2>3. UNCHANGED <<source, first>> /\ source = "mrt" /\ pc' \in {"entries", "error"}
    BY <1>5, <2>2, Zenon DEF PrefixDecoded, EntryDecoded, Goto, caller, Inv, Typed, RecordTyped
  <2> QED BY <2>3
<1>6. CASE DecodeEntry \/ DecodeTableDump
  <2>1. UNCHANGED <<source, first>> /\ source = "mrt" /\ pc' \in {"attrs", "partial", "done"}
    BY <1>6, Zenon DEF DecodeEntry, DecodeTableDump, CallAttributes, CallParsePathAttribute, caller,
       Inv, Typed, RecordTyped
  <2> QED BY <2>1
<1>7. CASE TableDumpDecoded
  <2>1. Waits("tableDumpAttributes")
    BY <1>7, Zenon DEF TableDumpDecoded, Waits
  <2>2. UNCHANGED <<source, first>> /\ source = "mrt" /\ pc' \in {"error", "done"}
    BY <1>7, <2>1, Zenon DEF TableDumpDecoded, Goto, Inv, Typed, RecordTyped
  <2> QED BY <2>2
<1> QED BY <1>1, <1>2, <1>3, <1>4, <1>5, <1>6, <1>7, Zenon DEF MrtNext

\* No decoder begins again by itself or touches what was returned before; what arrived on a socket is
\* decoded with the options of the session.
LEMMA DecodeKeeps ==
    ASSUME Inv, Decode
    PROVE  /\ UNCHANGED <<source, first>> /\ pc' # "start"
           /\ source = "socket" => session' = session
<1>1. CASE Receive \/ ParseSlice
  <2>1. UNCHANGED caller /\ (source = "socket" => session' = session)
    BY <1>1, Zenon DEF Receive, ParseSlice, Fail, ParsePacket
  <2>2. pc' # "start"
    BY <1>1 DEF Receive, ParseSlice, Fail, ParsePacket
  <2> QED BY <2>1, <2>2, Zenon DEF caller
<1>2. CASE OpenNext \/ UpdateNext \/ ParseNotification \/ ParseKeepAlive
  BY <1>2, OpenKeeps, UpdateKeeps, Zenon DEF caller
<1>3. CASE MrtNext
  <2>1. source = "mrt" /\ UNCHANGED <<source, first>> /\ pc' # "start"
    BY <1>3, MrtKeeps
  <2> QED BY <2>1
<1> QED BY <1>1, <1>2, <1>3, Zenon DEF Decode, PacketNext

-----------------------------------------------------------------------------
(* What is written.                                                         *)

\* The UPDATE that announces one prefix.
Announcing(r, attrs) ==
    [type |-> "UPDATE", withdrawn |-> <<>>, addPath |-> FALSE, nlri |-> <<r>>, attrs |-> attrs]

\* What was returned before it was written.
FirstCanonical ==
    first # Nil =>
        /\ source # "mrt" /\ first.type # "CONVERTED" => first \in CanonicalMessages(Options)
        /\ source # "mrt" /\ first.type = "CONVERTED" /\ Len(first.nlri.ip) = 4 =>
              /\ first.message = Announcing(first.nlri, first.attrs)
              /\ first.message \in CanonicalUpdates(NoOptions)
              /\ source = "packet"
        /\ source = "mrt" =>
              \/ first \in MessageResults /\ first.message \in CanonicalMessages(NoOptions)
              \/ first \in StateChanges
              \/ first \in PeerIndexes \cup RibResults /\ RecordResult(first)

\* The message that is decoded again.
Target == IF first.type \in {"CONVERTED", "MESSAGE"} THEN first.message ELSE first
Rewritten == IF source = "mrt" THEN WriteRecord(first) ELSE WritePacket(Target)
AtRewritten == first # Nil /\ pc = "start" => b = Rewritten

\* The same record without the mark of its entries.
LEMMA RibResultCanonical ==
    ASSUME rec \in Ribs, RecordResult(rec), rec.type = "RIB",
           Result = [f \in DOMAIN rec \ {"addPath"} |-> rec[f]]
    PROVE  RecordResult(Result) /\ Result \in RibResults
<1>1. /\ Result.type = "RIB" /\ Result.nlri = rec.nlri /\ Result.entries = rec.entries
      /\ Result.asAfiSafi = rec.asAfiSafi /\ Result.afi = rec.afi /\ Result.safi = rec.safi
      /\ Result \in RibResults
  BY DEF Ribs, RibsWith, RibResults
<1>2. CanonicalRib(Result)
  <2>1. CanonicalRib(rec)
    BY Zenon DEF RecordResult
  <2>2. PICK size \in {4, 16} : rec.nlri \in CanonicalPrefixes(size, FALSE) /\ RibFamily(rec, size)
    BY <2>1, Zenon DEF CanonicalRib
  <2>3. RibFamily(Result, size)
    BY <1>1, <2>2, Zenon DEF RibFamily
  <2> QED BY <1>1, <2>2, <2>3, Zenon DEF CanonicalRib
<1>3. Len(Result.entries) <= MaxUint16 /\ Result.entries \in Seq(CanonicalEntries)
  BY <1>1, Zenon DEF RecordResult
<1>4. Result.type # "PEER_INDEX"
  BY <1>1
<1> QED BY <1>1, <1>2, <1>3, <1>4, Zenon DEF RecordResult

\* What is returned is canonical.
LEMMA RewriteCanonical == ASSUME Inv, Canonical, Rewrite PROVE FirstCanonical' /\ AtRewritten'
<1> DEFINE s == IF source = "mrt" THEN WriteRecord(Result) ELSE WritePacket(Result)
<1>1. pc = "done" /\ Result.type # "TABLE_DUMP" /\ b' = s /\ source' = source /\ session' = session
      /\ first' = Result
  BY Zenon DEF Rewrite, DecodeAgain
<1>2. CASE source # "mrt"
  <2>1. msg \in CanonicalMessages(Options) /\ Result = msg /\ msg \in Messages
    BY <1>1, <1>2, ResultType, Zenon DEF Canonical, ResultCanonical
  <2>2. msg.type \in {"OPEN", "UPDATE", "NOTIFICATION", "KEEPALIVE"}
    BY <2>1 DEF Messages, Opens, Updates, Notifications, KeepAlives
  <2>3. Options' = Options
    BY <1>1, Zenon DEF Options
  <2>4. first' \in CanonicalMessages(Options)'
    BY <1>1, <2>1, <2>3, Zenon DEF CanonicalMessages, CanonicalUpdates, CanonicalAttributes, UpdateReadWith, ReadWith
  <2>5. FirstCanonical'
    <3>1. first'.type # "CONVERTED"
      BY <1>1, <2>1, <2>2
    <3> QED BY <1>1, <1>2, <2>4, <3>1, Zenon DEF FirstCanonical
  <2>6. AtRewritten'
    <3>1. first'.type \notin {"CONVERTED", "MESSAGE"}
      BY <1>1, <2>1, <2>2
    <3> QED BY <1>1, <1>2, <3>1, Zenon DEF AtRewritten, Rewritten, Target
  <2> QED BY <2>5, <2>6
<1>3. CASE source = "mrt"
  <2>0. RecordResult(rec) /\ (rec.type = "MESSAGE" => msg \in CanonicalMessages(NoOptions))
    <3>1. Options = NoOptions
      BY <1>3, Zenon DEF Options
    <3> QED BY <1>1, <1>3, <3>1, Zenon DEF Canonical, ResultCanonical
  <2>1. AtRewritten'
    BY <1>1, <1>3, Zenon DEF AtRewritten, Rewritten
  <2>2. \/ rec.type = "MESSAGE" /\ Result \in MessageResults /\ Result.message = msg
        \/ rec \in StateChanges \cup PeerIndexes /\ Result = rec
        \/ rec \in Ribs /\ rec.type = "RIB"
        \/ rec.type = "TABLE_DUMP" /\ Result = rec
    BY <1>1, <1>3, ResultType, Zenon
  <2>3. CASE rec.type = "MESSAGE" /\ Result \in MessageResults /\ Result.message = msg
    <3>1. first' \in MessageResults /\ first'.message \in CanonicalMessages(NoOptions)
      BY <1>1, <2>0, <2>3, Zenon
    <3> QED BY <1>1, <1>3, <2>1, <3>1, Zenon DEF FirstCanonical, CanonicalMessages, CanonicalUpdates,
               CanonicalAttributes, UpdateReadWith, ReadWith, Family
  <2>4. CASE rec \in StateChanges \cup PeerIndexes /\ Result = rec
    BY <1>1, <1>3, <2>0, <2>1, <2>4, Zenon DEF FirstCanonical, RecordResult
  <2>5. CASE rec \in Ribs /\ rec.type = "RIB"
    <3>1. Result = [f \in DOMAIN rec \ {"addPath"} |-> rec[f]]
      BY <1>3, <2>5, SMT DEF Result
    <3>2. RecordResult(Result) /\ Result \in RibResults
      BY <2>0, <2>5, <3>1, RibResultCanonical
    <3>3. first' \in PeerIndexes \cup RibResults /\ RecordResult(first')
      BY <1>1, <3>2, Zenon
    <3> QED BY <1>1, <1>3, <2>1, <3>3, Zenon DEF FirstCanonical, RecordResult, CanonicalRib, RibFamily
  <2>6. CASE rec.type = "TABLE_DUMP" /\ Result = rec
    BY <1>1, <2>6
  <2> QED BY <2>2, <2>3, <2>4, <2>5, <2>6
<1> QED BY <1>2, <1>3

\* So is what is converted from an entry of a record of IPv4.
LEMMA ConvertCanonical == ASSUME Inv, Canonical, Convert PROVE FirstCanonical' /\ AtRewritten'
<1>1. /\ pc = "done" /\ source = "mrt" /\ rec.type = "RIB" /\ source' = "packet"
      /\ \E k \in DOMAIN rec.entries :
            /\ first' = [type |-> "CONVERTED", nlri |-> rec.nlri, attrs |-> rec.entries[k].attrs,
                         message |-> ConvertToUpdateIndex(rec, k)]
            /\ b' = WritePacket(ConvertToUpdateIndex(rec, k))
  BY Zenon DEF Convert, DecodeAgain
<1>2. PICK k \in DOMAIN rec.entries :
            /\ first' = [type |-> "CONVERTED", nlri |-> rec.nlri, attrs |-> rec.entries[k].attrs,
                         message |-> ConvertToUpdateIndex(rec, k)]
            /\ b' = WritePacket(ConvertToUpdateIndex(rec, k))
  BY <1>1
<1>3. /\ first'.type = "CONVERTED" /\ first'.nlri = rec.nlri /\ first'.attrs = rec.entries[k].attrs
      /\ first'.message = ConvertToUpdateIndex(rec, k)
  BY <1>2
<1>4. AtRewritten'
  BY <1>1, <1>2, <1>3, Zenon DEF AtRewritten, Rewritten, Target
<1>5. CanonicalRib(rec) /\ rec.entries \in Seq(CanonicalEntries)
  BY <1>1, Zenon DEF Canonical, ResultCanonical, RecordResult
<1>6. rec.entries[k].attrs \in Seq(CanonicalAttributes(NoOptions))
  <2>1. rec.entries[k] \in CanonicalEntries
    BY <1>5, ElementsOf, Zenon
  <2> QED BY <2>1, Zenon DEF CanonicalEntries
<1>7. ASSUME Len(rec.nlri.ip) = 4
      PROVE  /\ ConvertToUpdateIndex(rec, k) = Announcing(rec.nlri, rec.entries[k].attrs)
             /\ ConvertToUpdateIndex(rec, k) \in CanonicalUpdates(NoOptions)
  <2>1. GetAfi(rec.nlri) = AFI_IPV4 /\ AFI_IPV4 # AFI_IPV6
    <3>1. IsIPv4(rec.nlri.ip)
      BY <1>7 DEF IsIPv4
    <3> QED BY <3>1 DEF GetAfi, AFI_IPV4, AFI_IPV6
  <2>2. ConvertToUpdateIndex(rec, k) = Announcing(rec.nlri, rec.entries[k].attrs)
    BY <2>1, SMT DEF ConvertToUpdateIndex, Announcing
  <2>3. rec.nlri \in CanonicalPrefixes(4, FALSE)
    <3>1. PICK size \in {4, 16} : rec.nlri \in CanonicalPrefixes(size, FALSE)
      BY <1>5, Zenon DEF CanonicalRib
    <3>2. Len(rec.nlri.ip) = size
      BY <3>1 DEF CanonicalPrefixes, Route, Bs
    <3>3. size = 4
      BY <1>7, <3>2, Zenon
    <3> QED BY <3>1, <3>3, Zenon
  <2> DEFINE r == rec.nlri  s == rec.entries[k].attrs
  <2> HIDE DEF r, s
  <2>4. r \in CanonicalPrefixes(4, FALSE) /\ s \in Seq(CanonicalAttributes(NoOptions))
    BY <1>6, <2>3, Zenon DEF r, s
  <2>5. Announcing(r, s) \in CanonicalUpdates(NoOptions)
    <3>1. /\ Announcing(r, s).withdrawn = <<>> /\ Announcing(r, s).nlri = <<r>> /\ Announcing(r, s).attrs = s
          /\ Announcing(r, s).addPath = FALSE
      BY DEF Announcing
    <3>2. r \in Routes /\ s \in Seq(Attributes)
      <4> DEFINE C == CanonicalAttributes(NoOptions)  A == Attributes
      <4>1. \A a \in C : a \in A
        BY Zenon DEF CanonicalAttributes
      <4>2. CanonicalPrefixes(4, FALSE) \subseteq Routes
        BY Zenon DEF CanonicalPrefixes, Routes
      <4>3. s \in Seq(C)
        BY <2>4
      <4> HIDE DEF C, A
      <4>4. s \in Seq(A)
        BY ONLY <4>1, <4>3
      <4>5. r \in Routes
        BY <2>4, <4>2, Zenon
      <4> QED BY <4>4, <4>5 DEF A
    <3>3. Announcing(r, s) \in Updates
      BY <3>2 DEF Announcing, Updates
    <3>4. UpdateReadWith(Announcing(r, s), NoOptions)
      <4> DEFINE P == CanonicalPrefixes(4, FALSE)
      <4>0. r \in P
        BY <2>4
      <4> HIDE DEF P
      <4>3. <<>> \in Seq(P) /\ <<r>> \in Seq(P)
        BY ONLY <4>0
      <4>1. <<>> \in Seq(CanonicalPrefixes(4, FALSE)) /\ <<r>> \in Seq(CanonicalPrefixes(4, FALSE))
        BY <4>3 DEF P
      <4>2. (<<AFI_IPV4, SAFI_UNICAST>> \in NoOptions.addPath) = FALSE
        BY DEF NoOptions
      <4> QED BY <3>1, <4>1, <4>2, Zenon DEF UpdateReadWith
    <3> QED BY <2>4, <3>1, <3>3, <3>4, Zenon DEF CanonicalUpdates
  <2> QED BY <2>2, <2>5, Zenon DEF r, s
<1>8. FirstCanonical'
  <2>1. CanonicalUpdates(NoOptions)' = CanonicalUpdates(NoOptions)
    BY Zenon
  <2> QED BY <1>1, <1>3, <1>7, Zenon DEF FirstCanonical
<1> QED BY <1>4, <1>8

\* Also after a step.
LEMMA StartsCanonicalNext == (pc = "start" /\ ListCanonical => Canonical)'
<1>1. pc = "start" /\ ListCanonical => Canonical
  BY StartsCanonical
<1> QED BY <1>1, PTL

\* All that the decoders return and that is decoded again.
Clean == Inv /\ Canonical /\ FirstCanonical /\ AtRewritten

\* Every step keeps it.
LEMMA NextClean == ASSUME Clean, [Next]_vars PROVE Clean'
<1>0. Inv /\ Canonical /\ FirstCanonical /\ AtRewritten
  BY Zenon DEF Clean
<1>1. Inv'
  BY <1>0, NextInv, Zenon
<1>2. CASE Decode
  <2>1. Canonical'
    BY <1>0, <1>1, <1>2, DecodeCanonical
  <2>2. UNCHANGED <<source, first>> /\ pc' # "start" /\ (source = "socket" => session' = session)
    BY <1>0, <1>2, DecodeKeeps
  <2>3. AtRewritten'
    BY <2>2, Zenon DEF AtRewritten
  <2>4. Options' = Options
    BY <2>2, Zenon DEF Options
  <2>5. FirstCanonical'
    BY <1>0, <2>2, <2>4, Zenon DEF FirstCanonical, RecordResult, CanonicalRib, RibFamily
  <2> QED BY <1>1, <2>1, <2>3, <2>5, Zenon DEF Clean
<1>3. CASE Rewrite \/ Convert
  <2>1. FirstCanonical' /\ AtRewritten'
    BY <1>0, <1>3, RewriteCanonical, ConvertCanonical
  <2>2. pc' = "start" /\ UNCHANGED locals
    BY <1>3, Zenon DEF Rewrite, Convert, DecodeAgain
  <2>3. ListCanonical'
    <3>1. nlri' = nlri
      BY <2>2, Zenon DEF locals
    <3> QED BY <1>0, <3>1, Zenon DEF Canonical, ListCanonical
  <2>4. Canonical'
    <3>1. pc' = "start" /\ ListCanonical' => Canonical'
      BY StartsCanonicalNext, Zenon
    <3> QED BY <2>2, <2>3, <3>1
  <2> QED BY <1>1, <2>1, <2>4, Zenon DEF Clean
<1>4. CASE UNCHANGED vars
  <2>1. UNCHANGED <<b, session, pc, source, first>>
    BY <1>4, Zenon DEF vars, caller
  <2>2. FirstCanonical'
    <3>1. Options' = Options
      BY <2>1, Zenon DEF Options
    <3> QED BY <1>0, <2>1, <3>1, Zenon DEF FirstCanonical, RecordResult, CanonicalRib, RibFamily
  <2>3. AtRewritten'
    BY <1>0, <2>1, Zenon DEF AtRewritten, Rewritten, Target
  <2> QED BY <1>0, <1>1, <1>4, <2>2, <2>3, StaysCanonical, Zenon DEF Clean
<1> QED BY <1>2, <1>3, <1>4, Zenon DEF Next

\* It holds of every input.
LEMMA InitClean == Init => Clean
<1> SUFFICES ASSUME Init PROVE Clean
  OBVIOUS
<1>1. Inv
  BY InitInv
<1>2. pc = "start" /\ first = Nil /\ nlri.list = <<>>
  <2>1. nlri = [size |-> 4, path |-> FALSE, list |-> <<>>, ret |-> "none"]
    BY Zenon DEF Init
  <2> QED BY <2>1, Zenon DEF Init
<1>3. ListCanonical
  <2>1. <<>> \in Seq(CanonicalPrefixes(nlri.size, nlri.path))
    OBVIOUS
  <2> QED BY <1>2, <2>1, Zenon DEF ListCanonical
<1>4. Canonical
  BY <1>2, <1>3, StartsCanonical
<1>5. FirstCanonical /\ AtRewritten
  BY <1>2, Zenon DEF FirstCanonical, AtRewritten
<1> QED BY <1>1, <1>4, <1>5, Zenon DEF Clean

-----------------------------------------------------------------------------
(* What is written is decoded again.  First its prefixes.                   *)

\* A prefix.
LEMMA PrefixBack ==
    ASSUME b \in Seq(Byte), i \in Nat, nlri \in NLRIs, NEW r \in CanonicalPrefixes(nlri.size, nlri.path),
           Has(i, WriteNLRI(r, nlri.path)), NEW k, k = (IF nlri.path THEN i + 4 ELSE i)
    PROVE  /\ k \in Nat /\ At(k) \in Nat /\ At(k) <= 8 * nlri.size /\ Prefix(k + 1, At(k)) = r
           /\ k + 1 + ((At(k) + 7) \div 8) = i + NLRILen(r, nlri.path)
           /\ NLRILen(r, nlri.path) \in Nat /\ NLRILen(r, nlri.path) > 0
           /\ nlri.path => NLRILen(r, nlri.path) >= 5
<1> DEFINE size == nlri.size
           l    == GetSplitLen(r)
           head == IF nlri.path THEN r.path ELSE <<>>
           tail == SubSeq(r.ip, 1, l)
<1>1. size \in {4, 16} /\ nlri.path \in BOOLEAN
  BY DEF NLRIs
<1>2. /\ r \in Route(size) /\ (~nlri.path => r.path = Zeros(4))
      /\ \A j \in 1 .. size : j > l => r.ip[j] = 0
  BY DEF CanonicalPrefixes
<1>3. /\ r.path \in Bs(4) /\ r.ip \in Bs(size) /\ r = [path |-> r.path, mask |-> r.mask, ip |-> r.ip]
      /\ \E m \in 0 .. 8 * size : r.mask = Mask(size)[m]
  BY <1>2 DEF Route
<1>4. PICK n \in 0 .. 8 * size : r.mask = Mask(size)[n]
  BY <1>3
<1>5. Ones(r.mask) = n /\ n \in Nat /\ n <= 8 * size /\ n \in Byte
  <2>1. Ones(r.mask) = n
    BY <1>1, <1>4, OnesOfMask, Zenon
  <2> QED BY <1>1, <2>1 DEF Byte
<1>6. l = (n + 7) \div 8 /\ l \in Nat /\ l <= size
  <2>1. l = (n + 7) \div 8
    BY <1>5, Zenon DEF GetSplitLen
  <2> QED BY ONLY <1>1, <1>5, <2>1
<1>7. tail \in Seq(Byte) /\ Len(tail) = l /\ \A j \in 1 .. l : tail[j] = r.ip[j]
  <2>1. r.ip \in Seq(Byte) /\ Len(r.ip) = size
    BY <1>3 DEF Bs
  <2> HIDE DEF size, l
  <2> QED BY ONLY <1>1, <1>6, <2>1
<1>8. head \in Seq(Byte) /\ Len(head) = (IF nlri.path THEN 4 ELSE 0)
  <2>1. r.path \in Seq(Byte) /\ Len(r.path) = 4
    BY <1>3 DEF Bs
  <2>2. <<>> \in Seq(Byte) /\ Len(<<>>) = 0
    OBVIOUS
  <2>3. CASE nlri.path
    BY <2>1, <2>3
  <2>4. CASE ~nlri.path
    BY <2>2, <2>4
  <2> QED BY <2>3, <2>4
<1>9. k \in Nat /\ k = i + Len(head)
  BY <1>8
<1>10. <<n>> \in Seq(Byte) /\ Len(<<n>>) = 1
  BY <1>5
<1>11. Has(i, head) /\ Has(k, <<n>>) /\ Has(k + 1, tail)
  <2>1. WriteNLRI(r, nlri.path) = (head \o <<n>>) \o tail
    BY <1>5, Zenon DEF WriteNLRI
  <2>2. head \o <<n>> \in Seq(Byte) /\ Len(head \o <<n>>) = Len(head) + 1 /\ Len(head) \in Nat
    <3> HIDE DEF head
    <3> QED BY <1>8, <1>10, Appended
  <2> HIDE DEF head, tail
  <2>3. Has(i, head \o <<n>>) /\ Has(i + Len(head \o <<n>>), tail)
    BY <1>7, <2>1, <2>2, HasBoth, Zenon
  <2>4. Has(i, head) /\ Has(i + Len(head), <<n>>)
    BY <1>8, <1>10, <2>3, HasBoth, Zenon
  <2>5. i + Len(head \o <<n>>) = k + 1
    BY <1>9, <2>2
  <2> QED BY <1>9, <2>3, <2>4, <2>5, Zenon
<1>12. At(k) = n
  BY <1>9, <1>11, HasByte, Zenon
<1>13. (IF nlri.path THEN Bytes(i, 4) ELSE Zeros(4)) = r.path
  <2>1. CASE nlri.path
    <3>1. Has(i, r.path)
      BY <1>11, <2>1
    <3> QED BY <1>3, <2>1, <3>1, HasBs
  <2>2. CASE ~nlri.path
    BY <1>2, <2>2
  <2> QED BY <2>1, <2>2
<1>14. [j \in 1 .. size |-> IF j <= (n + 7) \div 8 THEN At(k + 1 + j - 1) ELSE 0] = r.ip
  <2>1. \A j \in 1 .. size : (IF j <= l THEN At(k + 1 + j - 1) ELSE 0) = r.ip[j]
    <3> TAKE j \in 1 .. size
    <3>1. CASE j <= l
      <4>1. j \in 1 .. Len(tail)
        BY <1>1, <1>6, <1>7, <3>1
      <4>2. At(k + 1 + j - 1) = tail[j]
        BY <1>11, <4>1, Zenon DEF Has
      <4> QED BY <1>7, <3>1, <4>1, <4>2
    <3>2. CASE ~(j <= l)
      <4>1. j > l
        BY <1>1, <1>6, <3>2
      <4> QED BY <1>2, <3>2, <4>1
    <3> QED BY <3>1, <3>2
  <2>2. r.ip = [j \in 1 .. size |-> r.ip[j]]
    <3>1. r.ip \in Seq(Byte) /\ Len(r.ip) = size
      BY <1>3 DEF Bs
    <3> HIDE DEF size
    <3> QED BY ONLY <3>1, <1>1
  <2> HIDE DEF l
  <2> QED BY <1>6, <2>1, <2>2
<1>15. Prefix(k + 1, At(k)) = r
  <2>1. Prefix(k + 1, n) = [path |-> r.path, mask |-> r.mask, ip |-> r.ip]
    BY <1>4, <1>13, <1>14, Zenon DEF Prefix
  <2> QED BY <1>3, <1>12, <2>1
<1>16. NLRILen(r, nlri.path) = Len(head) + 1 + l
  BY <1>8, Zenon DEF NLRILen
<1>17. /\ k + 1 + ((n + 7) \div 8) = i + NLRILen(r, nlri.path)
       /\ NLRILen(r, nlri.path) \in Nat /\ NLRILen(r, nlri.path) > 0
       /\ nlri.path => NLRILen(r, nlri.path) >= 5
  <2> HIDE DEF head, l
  <2> QED BY <1>1, <1>6, <1>8, <1>9, <1>16
<1> QED BY <1>5, <1>9, <1>12, <1>15, <1>17

\* The first elements of a list.
LEMMA OneFurther ==
    ASSUME NEW B, NEW s \in Seq(B)
    PROVE  /\ SubSeq(s, 1, 0) = <<>> /\ SubSeq(s, 1, Len(s)) = s
           /\ \A n \in 0 .. Len(s) : SubSeq(s, 1, n) \in Seq(B) /\ Len(SubSeq(s, 1, n)) = n
           /\ \A n \in 0 .. Len(s) - 1 : /\ SubSeq(s, 1, n + 1) = Append(SubSeq(s, 1, n), s[n + 1])
                                         /\ n + 1 \in 1 .. Len(s)
<1>1. Len(s) \in Nat
  OBVIOUS
<1>2. SubSeq(s, 1, 0) = <<>>
  OBVIOUS
<1>3. SubSeq(s, 1, Len(s)) = s
  OBVIOUS
<1>4. \A n \in 0 .. Len(s) : SubSeq(s, 1, n) \in Seq(B) /\ Len(SubSeq(s, 1, n)) = n
  OBVIOUS
<1>5. ASSUME NEW n \in 0 .. Len(s) - 1
      PROVE  SubSeq(s, 1, n + 1) = Append(SubSeq(s, 1, n), s[n + 1]) /\ n + 1 \in 1 .. Len(s)
  <2>1. /\ n \in Nat /\ n + 1 \in 1 .. Len(s) /\ n \in 0 .. Len(s) /\ n + 1 \in 0 .. Len(s)
    BY <1>1
  <2>2. SubSeq(s, 1, n) \in Seq(B) /\ Len(SubSeq(s, 1, n)) = n
    BY <1>4, <2>1, Zenon
  <2>3. SubSeq(s, 1, n + 1) \in Seq(B) /\ Len(SubSeq(s, 1, n + 1)) = n + 1
    BY <1>4, <2>1, Zenon
  <2>4. s[n + 1] \in B
    BY <2>1
  <2>5. /\ \A k \in 1 .. n : SubSeq(s, 1, n)[k] = s[k]
        /\ \A k \in 1 .. n + 1 : SubSeq(s, 1, n + 1)[k] = s[k]
    BY <2>1
  <2> DEFINE l == SubSeq(s, 1, n)  u == SubSeq(s, 1, n + 1)  x == s[n + 1]
  <2>6. /\ l \in Seq(B) /\ Len(l) = n /\ x \in B /\ u \in Seq(B) /\ Len(u) = n + 1
        /\ u[n + 1] = x /\ \A k \in 1 .. n : u[k] = l[k]
    BY <2>1, <2>2, <2>3, <2>4, <2>5
  <2> HIDE DEF l, u, x
  <2>7. u \in [1 .. Len(l) + 1 -> B] /\ u[Len(l) + 1] = x /\ \A k \in 1 .. Len(l) : u[k] = l[k]
    BY ONLY <2>1, <2>6
  <2>8. u = Append(l, x)
    BY <2>6, <2>7, IsAppend, Zenon
  <2> QED BY <2>1, <2>8 DEF l, u, x
<1> QED BY <1>2, <1>3, <1>4, <1>5

\* The bytes of a list of prefixes, one prefix after the other.
NLRIWords(s, path) == [k \in DOMAIN s |-> WriteNLRI(s[k], path)]
\* Each is as long as Len says.
LEMMA NLRIWordsType ==
    ASSUME NEW s \in Seq(Routes), NEW path \in BOOLEAN
    PROVE  /\ NLRIWords(s, path) \in Seq(Seq(Byte)) /\ Len(NLRIWords(s, path)) = Len(s)
           /\ WriteNLRIs(s, path) = FlattenSeq(NLRIWords(s, path))
           /\ LenNLRIs(s, path) = Upto(NLRIWords(s, path), Len(s)) /\ LenNLRIs(s, path) \in Nat
           /\ \A k \in 1 .. Len(s) : /\ NLRIWords(s, path)[k] = WriteNLRI(s[k], path)
                                     /\ Len(NLRIWords(s, path)[k]) = NLRILen(s[k], path)
<1> DEFINE t == NLRIWords(s, path)
<1>1. DOMAIN s = 1 .. Len(s) /\ Len(s) \in Nat /\ \A k \in 1 .. Len(s) : s[k] \in Routes
  BY ElementsOf, Zenon
<1>2. \A k \in 1 .. Len(s) : /\ t[k] = WriteNLRI(s[k], path) /\ t[k] \in Seq(Byte)
                             /\ Len(t[k]) = NLRILen(s[k], path)
  BY <1>1, WriteNLRILen, Zenon DEF NLRIWords
<1>3. t = [k \in 1 .. Len(s) |-> t[k]]
  BY <1>1, Zenon DEF NLRIWords
<1>4. t \in Seq(Seq(Byte)) /\ Len(t) = Len(s)
  <2> HIDE DEF t
  <2> QED BY ONLY <1>1, <1>2, <1>3
<1>5. WriteNLRIs(s, path) = FlattenSeq(t)
  BY Zenon DEF WriteNLRIs, Concat, NLRIWords
<1>6. Upto(t, Len(s)) = Len(FlattenSeq(t))
  BY <1>4, UptoSteps, Zenon
<1>7. LenNLRIs(s, path) = Upto(t, Len(s)) /\ LenNLRIs(s, path) \in Nat
  BY <1>5, <1>6, WriteNLRIsLen, Zenon
<1> QED BY <1>2, <1>4, <1>5, <1>7

\* The prefixes s are decoded from where they are written, and no others.
PrefixesReplay(s, path, start) ==
    /\ s \in Seq(CanonicalPrefixes(nlri.size, path)) /\ nlri.path = path
    /\ Has(start, WriteNLRIs(s, path)) /\ end = start + LenNLRIs(s, path)
    /\ pc = "nlri" => /\ Len(nlri.list) <= Len(s) /\ nlri.list = SubSeq(s, 1, Len(nlri.list))
                      /\ i = start + Upto(NLRIWords(s, path), Len(nlri.list))
    /\ pc # "nlri" => nlri.list = s /\ ~failed

\* What ParseNLRI leaves alone.
OnlyNLRI == /\ UNCHANGED <<b, session, end, attrsEnd, attrEnd, attr, msg, caller>>
            /\ nlri'.ret = nlri.ret /\ nlri'.size = nlri.size /\ nlri'.path = nlri.path

\* The slice stays.
LEMMA HasStays == ASSUME b' = b, NEW k, NEW s PROVE Has(k, s)' <=> Has(k, s)
<1>1. Size' = Size /\ \A j : At(j)' = At(j)
  BY Zenon DEF Size, At
<1> QED BY <1>1, Zenon DEF Has

\* Sequences of more.
LEMMA SeqInto == ASSUME NEW A, NEW B, A \subseteq B, NEW s \in Seq(A) PROVE s \in Seq(B)
OBVIOUS

\* Canonical prefixes are prefixes.
LEMMA PrefixesAreRoutes ==
    ASSUME NEW size \in {4, 16}, NEW path, NEW s \in Seq(CanonicalPrefixes(size, path))
    PROVE  s \in Seq(Routes)
<1>1. CanonicalPrefixes(size, path) \subseteq Routes
  BY Zenon DEF CanonicalPrefixes, Routes
<1> QED BY <1>1, SeqInto, Zenon

\* The next word.
LEMMA NextWord ==
    ASSUME NEW t \in Seq(Seq(Byte)), NEW n \in 0 .. Len(t) - 1
    PROVE  /\ Upto(t, n) \in Nat /\ Upto(t, n + 1) \in Nat /\ Upto(t, Len(t)) \in Nat
           /\ Len(t[n + 1]) \in Nat /\ Upto(t, n + 1) = Upto(t, n) + Len(t[n + 1])
           /\ Upto(t, n + 1) <= Upto(t, Len(t)) /\ t[n + 1] \in Seq(Byte)
           /\ \A base \in Nat : b \in Seq(Byte) /\ Has(base, FlattenSeq(t)) => Has(base + Upto(t, n), t[n + 1])
<1> DEFINE k == n + 1
<1>1. k \in 1 .. Len(t) /\ k - 1 = n
  <2>1. Len(t) \in Nat
    OBVIOUS
  <2> QED BY <2>1
<1>2. t[k] \in Seq(Byte)
  <2> HIDE DEF k
  <2> QED BY <1>1
<1> HIDE DEF k
<1>3. /\ Upto(t, k - 1) \in Nat /\ Upto(t, k) \in Nat /\ Len(t[k]) \in Nat
      /\ Upto(t, k) = Upto(t, k - 1) + Len(t[k]) /\ Upto(t, k) <= Upto(t, Len(t))
      /\ Upto(t, Len(t)) \in Nat
  BY <1>1, WordFits, Zenon
<1>4. ASSUME NEW base \in Nat, b \in Seq(Byte), Has(base, FlattenSeq(t))
      PROVE  Has(base + Upto(t, k - 1), t[k])
  BY <1>1, <1>4, HasWord, Zenon
<1>5. /\ Upto(t, n) \in Nat /\ Upto(t, k) \in Nat /\ Len(t[k]) \in Nat
      /\ Upto(t, k) = Upto(t, n) + Len(t[k]) /\ Upto(t, k) <= Upto(t, Len(t)) /\ Upto(t, Len(t)) \in Nat
      /\ \A base \in Nat : b \in Seq(Byte) /\ Has(base, FlattenSeq(t)) => Has(base + Upto(t, n), t[k])
  BY <1>1, <1>3, <1>4, Zenon
<1> QED BY <1>2, <1>5 DEF k

\* One round of ParseNLRI.
LEMMA PrefixesStep ==
    ASSUME Inv, ParseNLRI, NEW s, NEW path, NEW start \in Nat, PrefixesReplay(s, path, start)
    PROVE  /\ OnlyNLRI /\ PrefixesReplay(s, path, start)'
           /\ (pc' = "nlri" \/ (pc' = nlri.ret /\ pc' # "nlri"))
<1> DEFINE n == Len(nlri.list)
           t == NLRIWords(s, path)
           k == IF nlri.path THEN i + 4 ELSE i
<1>1. /\ pc = "nlri" /\ nlri \in NLRIs /\ b \in Seq(Byte) /\ i \in Nat /\ end \in Nat
      /\ nlri.ret \in {"withdrawn", "prefixes", "reach", "unreach", "prefix"}
  <2>1. pc = "nlri"
    BY Zenon DEF ParseNLRI
  <2>2. i \in Nat /\ b \in Seq(Byte) /\ end \in Nat
    BY DEF Inv, IInv, TypeOK
  <2> QED BY <2>1, <2>2, Zenon DEF Inv, IInv, NLRIInside, Typed, SliceTyped
<1>2. /\ s \in Seq(CanonicalPrefixes(nlri.size, path)) /\ nlri.path = path
      /\ Has(start, WriteNLRIs(s, path)) /\ end = start + LenNLRIs(s, path)
      /\ n <= Len(s) /\ nlri.list = SubSeq(s, 1, n) /\ i = start + Upto(t, n)
  BY <1>1, Zenon DEF PrefixesReplay
<1>3. nlri.size \in {4, 16} /\ path \in BOOLEAN /\ nlri.list \in Seq(Routes)
  BY <1>1, <1>2 DEF NLRIs
<1>4. s \in Seq(Routes) /\ Len(s) \in Nat /\ n \in Nat
  <2>1. s \in Seq(Routes)
    BY <1>2, <1>3, PrefixesAreRoutes, Zenon
  <2> QED BY <1>3, <2>1
<1>5. /\ t \in Seq(Seq(Byte)) /\ Len(t) = Len(s) /\ WriteNLRIs(s, path) = FlattenSeq(t)
      /\ LenNLRIs(s, path) = Upto(t, Len(s)) /\ LenNLRIs(s, path) \in Nat
      /\ \A j \in 1 .. Len(s) : t[j] = WriteNLRI(s[j], path) /\ Len(t[j]) = NLRILen(s[j], path)
  BY <1>3, <1>4, NLRIWordsType, Zenon
<1>6. /\ OnlyNLRI
      /\ (/\ s \in Seq(CanonicalPrefixes(nlri.size, path)) /\ nlri.path = path
          /\ Has(start, WriteNLRIs(s, path)) /\ end = start + LenNLRIs(s, path))'
  <2>1. UNCHANGED <<b, session, end, attrsEnd, attrEnd, attr, msg, caller>>
    BY Zenon DEF ParseNLRI, ReturnNLRI, ParsePrefix, Reading, locals
  <2>2. \/ nlri' = nlri
        \/ \E l : nlri' = [nlri EXCEPT !.list = l]
    BY Zenon DEF ParseNLRI, ReturnNLRI, ParsePrefix, Reading, locals
  <2>3. nlri'.path = nlri.path /\ nlri'.size = nlri.size /\ nlri'.ret = nlri.ret
    BY <1>1, <2>2 DEF NLRIs
  <2>4. Has(start, WriteNLRIs(s, path))'
    BY <1>2, <2>1, HasStays, Zenon
  <2>5. OnlyNLRI
    BY <2>1, <2>3, Zenon DEF OnlyNLRI
  <2>6. end' = end
    BY <2>1, Zenon
  <2> QED BY <1>2, <2>3, <2>4, <2>5, <2>6, Zenon
<1>7. CASE n = Len(s)
  <2>1. i = end
    BY <1>2, <1>5, <1>7
  <2>2. nlri.list = s
    BY <1>2, <1>4, <1>7, OneFurther, Zenon
  <2>3. i >= end /\ ~(i < end)
    BY <1>1, <2>1
  <2>4. ReturnNLRI(nlri.list, FALSE)
    BY <2>3, Zenon DEF ParseNLRI
  <2>5. pc' = nlri.ret /\ failed' = FALSE /\ nlri'.list = s
    BY <1>1, <2>2, <2>4 DEF ReturnNLRI, NLRIs
  <2>6. pc' # "nlri"
    BY <1>1, <2>5
  <2>7. PrefixesReplay(s, path, start)'
    BY <1>6, <2>5, <2>6, Zenon DEF PrefixesReplay
  <2> QED BY <1>6, <2>5, <2>6, <2>7, Zenon
<1>8. CASE n < Len(s)
  <2> DEFINE r == s[n + 1]
  <2>0. n + 1 \in 1 .. Len(s) /\ n + 1 \in 1 .. Len(t) /\ n + 1 - 1 = n /\ n \in 0 .. Len(s) - 1
    BY <1>4, <1>5, <1>8
  <2>1. /\ Upto(t, n) \in Nat /\ Upto(t, n + 1) = Upto(t, n) + NLRILen(r, path)
        /\ Upto(t, n + 1) <= Upto(t, Len(s)) /\ Upto(t, Len(s)) \in Nat /\ Upto(t, n + 1) \in Nat
    <3>1. n \in 0 .. Len(t) - 1 /\ Len(t[n + 1]) = NLRILen(s[n + 1], path)
      BY <1>5, <2>0
    <3> QED BY <1>5, <3>1, NextWord, Zenon
  <2>2. r \in CanonicalPrefixes(nlri.size, nlri.path)
    <3> DEFINE P == CanonicalPrefixes(nlri.size, path)
    <3>1. s \in Seq(P)
      BY <1>2
    <3> HIDE DEF P
    <3>2. r \in P
      BY <2>0, <3>1
    <3> QED BY <1>2, <3>2 DEF P
  <2>3. Has(i, WriteNLRI(r, nlri.path))
    <3>1. Has(start, FlattenSeq(t))
      BY <1>2, <1>5, Zenon
    <3>2. Has(start + Upto(t, n), t[n + 1])
      <4>1. n \in 0 .. Len(t) - 1
        BY <1>5, <2>0
      <4> QED BY <1>1, <1>5, <3>1, <4>1, NextWord, Zenon
    <3> QED BY <1>2, <1>5, <2>0, <3>2, Zenon
  <2>4. /\ k \in Nat /\ At(k) \in Nat /\ At(k) <= 8 * nlri.size /\ Prefix(k + 1, At(k)) = r
        /\ k + 1 + ((At(k) + 7) \div 8) = i + NLRILen(r, nlri.path)
        /\ NLRILen(r, nlri.path) \in Nat /\ NLRILen(r, nlri.path) > 0
        /\ nlri.path => NLRILen(r, nlri.path) >= 5
    <3> HIDE DEF r, k
    <3>1. k = (IF nlri.path THEN i + 4 ELSE i)
      BY DEF k
    <3> QED BY <1>1, <2>2, <2>3, <3>1, PrefixBack, Zenon
  <2> DEFINE bits == At(k)  size == (bits + 7) \div 8  l == NLRILen(r, nlri.path)
  <2>5. /\ k \in Nat /\ bits \in Nat /\ bits <= 8 * nlri.size /\ k + 1 + size = i + l
        /\ l \in Nat /\ l > 0 /\ (nlri.path => l >= 5) /\ i + l <= end /\ size \in Nat
        /\ i + l = start + Upto(t, n + 1)
    <3>1. i + l <= end /\ i + l = start + Upto(t, n + 1)
      <4>1. l = NLRILen(r, path)
        BY <1>2, Zenon
      <4> HIDE DEF r, t, n, l
      <4>2. /\ Upto(t, n) \in Nat /\ Upto(t, n + 1) = Upto(t, n) + l /\ Upto(t, n + 1) <= Upto(t, Len(s))
            /\ Upto(t, Len(s)) \in Nat /\ Upto(t, n + 1) \in Nat
        BY <2>1, <4>1, Zenon DEF r
      <4>3. l \in Nat /\ i = start + Upto(t, n) /\ end = start + Upto(t, Len(s))
        BY <1>2, <1>5, <2>4, Zenon DEF l, n
      <4> QED BY ONLY <4>2, <4>3, start \in Nat
    <3>2. size \in Nat
      BY <2>4
    <3> HIDE DEF k, r
    <3> QED BY <2>4, <3>1, <3>2
  <2>6. i < end /\ ~(i >= end) /\ ~(nlri.path /\ end - i < 5) /\ k + 1 <= end /\ k + 1 + size <= end
        /\ ~(bits > 8 * nlri.size) /\ ~(k + 1 + size > end)
    <3> HIDE DEF k, bits, size, l
    <3> QED BY <1>1, <1>3, <2>5
  <2>7. ParsePrefix(k, size)
    BY <2>6, Zenon DEF ParseNLRI
  <2>8. /\ nlri' = [nlri EXCEPT !.list = Append(@, Prefix(k + 1, bits))]
        /\ i' = k + 1 + size /\ pc' = pc
    <3>1. ~(bits > 8 * nlri.size \/ k + 1 + size > end)
      BY <2>6, Zenon
    <3> QED BY <2>6, <2>7, <3>1, Zenon DEF ParsePrefix, Reading
  <2>9. nlri'.list = Append(nlri.list, r)
    <3>1. Prefix(k + 1, bits) = r
      BY <2>4
    <3> HIDE DEF r, bits, k
    <3> QED BY <1>1, <2>8, <3>1 DEF NLRIs
  <2>10. nlri'.list = SubSeq(s, 1, n + 1) /\ Len(nlri'.list) = n + 1 /\ n + 1 <= Len(s)
    <3>1. SubSeq(s, 1, n + 1) = Append(SubSeq(s, 1, n), s[n + 1])
      BY <1>4, <2>0, OneFurther, Zenon
    <3>2. nlri'.list = SubSeq(s, 1, n + 1)
      BY <1>2, <2>9, <3>1
    <3>3. Len(nlri'.list) = n + 1
      <4>1. n + 1 \in 0 .. Len(s)
        BY <1>4, <2>0
      <4> QED BY <1>4, <3>2, <4>1, OneFurther, Zenon
    <3> QED BY <3>2, <3>3, <2>0
  <2>11. i' = start + Upto(t, Len(nlri'.list))
    <3> HIDE DEF k, bits, size, l, t
    <3> QED BY <2>5, <2>8, <2>10
  <2>12. pc' = "nlri"
    BY <1>1, <2>8
  <2>13. t' = t
    BY Zenon DEF NLRIWords
  <2>14. (/\ Len(nlri.list) <= Len(s) /\ nlri.list = SubSeq(s, 1, Len(nlri.list))
          /\ i = start + Upto(NLRIWords(s, path), Len(nlri.list)))'
    <3>1. Len(nlri'.list) <= Len(s) /\ nlri'.list = SubSeq(s, 1, Len(nlri'.list))
      BY <2>10, Zenon
    <3> QED BY <2>11, <2>13, <3>1, Zenon
  <2>15. PrefixesReplay(s, path, start)'
    BY <1>6, <2>12, <2>14, Zenon DEF PrefixesReplay
  <2> QED BY <1>6, <2>12, <2>15, Zenon
<1> QED BY <1>2, <1>4, <1>7, <1>8

-----------------------------------------------------------------------------
(* Its attributes.                                                          *)

\* An attribute that the writer and Len agree on, within what a length can say.
Writable(a) == /\ a.code = AGGREGATOR => Len(a.id) = 4
               /\ ContentLen(a) <= MaxUint16
WrittenFlag(a) == Flag(a) - ATTRIBUTE_EXTENDED * Extended(Flag(a))
                    + (IF ContentLen(a) > 255 THEN ATTRIBUTE_EXTENDED ELSE 0)

\* Its header.
LEMMA HeaderBack ==
    ASSUME b \in Seq(Byte), NEW k \in Nat, NEW a \in Attributes, Writable(a), Has(k, WriteAttribute(a)),
           NEW ext, ext = Extended(At(k))
    PROVE  /\ At(k) = WrittenFlag(a) /\ At(k + 1) = a.code
           /\ ext = (IF ContentLen(a) > 255 THEN 1 ELSE 0)
           /\ (IF ext = 1 THEN Uint16(k + 2) ELSE At(k + 2)) = ContentLen(a)
           /\ Has(k + 3 + ext, Content(a))
           /\ 3 + ext + ContentLen(a) = AttributeLen(a) /\ Len(Content(a)) = ContentLen(a)
           /\ ContentLen(a) \in Nat
<1> DEFINE size  == ContentLen(a)
           flag  == Flag(a)
           plain == flag - ATTRIBUTE_EXTENDED * Extended(flag)
           head  == WriteAttributeHeader(size, flag, a.code)
<1>1. /\ Content(a) \in Seq(Byte) /\ size \in Nat /\ flag \in Byte /\ a.code \in Byte
      /\ Len(Content(a)) = size
  <2>1. a \in Attributes \cup Pointers
    OBVIOUS
  <2> QED BY <2>1, ContentType, Zenon DEF Writable
<1>2. /\ plain \in Byte /\ plain + ATTRIBUTE_EXTENDED \in Byte
      /\ Extended(plain) = 0 /\ Extended(plain + ATTRIBUTE_EXTENDED) = 1
  BY <1>1, FlagBits
<1>3. head \in Seq(Byte) /\ Len(head) = AttributeHeaderLen(size) /\ AttributeHeaderLen(size) \in Nat
  BY <1>1, AttributeHeaderType
<1>4. WriteAttribute(a) = head \o Content(a) /\ AttributeLen(a) = AttributeHeaderLen(size) + size
  BY Zenon DEF WriteAttribute, AttributeLen
<1>5. Has(k, head) /\ Has(k + Len(head), Content(a))
  <2> HIDE DEF head
  <2> QED BY <1>1, <1>3, <1>4, HasBoth, Zenon
<1>6. CASE size > 255
  <2>1. head = <<plain + ATTRIBUTE_EXTENDED, a.code>> \o U16(size) /\ AttributeHeaderLen(size) = 4
    BY <1>6, Zenon DEF WriteAttributeHeader, AttributeHeaderLen
  <2>2. WrittenFlag(a) = plain + ATTRIBUTE_EXTENDED
    BY <1>6, Zenon DEF WrittenFlag
  <2> DEFINE h == <<plain + ATTRIBUTE_EXTENDED, a.code>>
  <2>3. h \in Seq(Byte) /\ Len(h) = 2
    BY <1>1, <1>2, TwoBytesOf
  <2>4. U16(size) \in Seq(Byte)
    BY <1>1, U16Type
  <2>5. Has(k, h) /\ Has(k + 2, U16(size))
    <3>1. Has(k, h \o U16(size))
      BY <1>5, <2>1, Zenon
    <3> HIDE DEF h
    <3>2. Has(k, h) /\ Has(k + Len(h), U16(size))
      BY <2>3, <2>4, <3>1, HasBoth, Zenon
    <3> QED BY <2>3, <3>2, Zenon
  <2>6. At(k) = plain + ATTRIBUTE_EXTENDED /\ At(k + 1) = a.code
    BY <2>5, HasTwo, Zenon
  <2>7. Uint16(k + 2) = size
    <3>1. k + 2 \in Nat /\ size <= MaxUint16
      BY Zenon, SMT DEF Writable
    <3> QED BY <1>1, <2>5, <3>1, HasU16, Zenon
  <2>8. ext = 1
    BY <1>2, <2>6, Zenon
  <2>9. k + 3 + ext = k + Len(head) /\ 3 + ext + size = AttributeLen(a)
    <3> HIDE DEF head, size
    <3> QED BY <1>1, <1>3, <1>4, <2>1, <2>8
  <2>10. ext = (IF size > 255 THEN 1 ELSE 0) /\ (IF ext = 1 THEN Uint16(k + 2) ELSE At(k + 2)) = size
    BY <1>6, <2>7, <2>8, Zenon
  <2> QED BY <1>1, <1>5, <2>2, <2>6, <2>9, <2>10, Zenon
<1>7. CASE ~(size > 255)
  <2>1. head = <<plain, a.code, size>> /\ AttributeHeaderLen(size) = 3
    BY <1>7, Zenon DEF WriteAttributeHeader, AttributeHeaderLen
  <2>2. WrittenFlag(a) = plain
    <3>1. WrittenFlag(a) = plain + 0
      BY <1>7, Zenon DEF WrittenFlag
    <3>2. \A x \in Byte : x \in Int
      BY DEF Byte
    <3>3. plain \in Int
      BY <1>2, <3>2, Zenon
    <3> HIDE DEF plain
    <3> QED BY <3>1, <3>3
  <2>3. At(k) = plain /\ At(k + 1) = a.code /\ At(k + 2) = size
    <3> HIDE DEF plain, size
    <3>1. Has(k, <<plain, a.code, size>>)
      BY <1>5, <2>1, Zenon
    <3>2. /\ Len(<<plain, a.code, size>>) = 3 /\ <<plain, a.code, size>>[1] = plain
          /\ <<plain, a.code, size>>[2] = a.code /\ <<plain, a.code, size>>[3] = size
          /\ k + 1 - 1 = k /\ k + 2 - 1 = k + 1 /\ k + 3 - 1 = k + 2
      OBVIOUS
    <3> QED BY ONLY <3>1, <3>2 DEF Has
  <2>4. ext = 0
    BY <1>2, <2>3, Zenon
  <2>5. k + 3 + ext = k + Len(head) /\ 3 + ext + size = AttributeLen(a)
    <3> HIDE DEF head, size
    <3> QED BY <1>1, <1>3, <1>4, <2>1, <2>4
  <2>6. ext = (IF size > 255 THEN 1 ELSE 0)
    BY <1>7, <2>4, Zenon
  <2>7. (IF ext = 1 THEN Uint16(k + 2) ELSE At(k + 2)) = size
    <3>1. ext # 1
      BY <2>4
    <3> QED BY <2>3, <3>1, Zenon
  <2> QED BY <1>1, <1>5, <2>2, <2>3, <2>5, <2>6, <2>7, Zenon
<1> QED BY <1>6, <1>7

\* The bytes of a list of attributes, one attribute after the other.
AttributeWords(s) == [k \in DOMAIN s |-> WriteAttribute(s[k])]
\* Each is as long as Len says.
LEMMA AttributeWordsType ==
    ASSUME NEW s \in Seq(Attributes), Sound(s)
    PROVE  /\ AttributeWords(s) \in Seq(Seq(Byte)) /\ Len(AttributeWords(s)) = Len(s)
           /\ Concat(WriteAttribute, s) = FlattenSeq(AttributeWords(s))
           /\ Sum(AttributeLen, s) = Upto(AttributeWords(s), Len(s)) /\ Sum(AttributeLen, s) \in Nat
           /\ \A k \in 1 .. Len(s) : /\ AttributeWords(s)[k] = WriteAttribute(s[k])
                                     /\ Len(AttributeWords(s)[k]) = AttributeLen(s[k])
<1> DEFINE t == AttributeWords(s)
<1>1. DOMAIN s = 1 .. Len(s) /\ Len(s) \in Nat /\ \A k \in 1 .. Len(s) : s[k] \in Attributes \cup Pointers
  <2>1. DOMAIN s = 1 .. Len(s) /\ Len(s) \in Nat /\ \A k \in 1 .. Len(s) : s[k] \in Attributes
    BY ElementsOf, Zenon
  <2> QED BY <2>1, Zenon
<1>2. \A k \in 1 .. Len(s) : /\ t[k] = WriteAttribute(s[k]) /\ t[k] \in Seq(Byte)
                             /\ Len(t[k]) = AttributeLen(s[k])
  BY <1>1, WriteAttributeLen, Zenon DEF AttributeWords, Sound
<1>3. t = [k \in 1 .. Len(s) |-> t[k]]
  BY <1>1, Zenon DEF AttributeWords
<1>4. t \in Seq(Seq(Byte)) /\ Len(t) = Len(s)
  <2> HIDE DEF t
  <2> QED BY ONLY <1>1, <1>2, <1>3
<1>5. Concat(WriteAttribute, s) = FlattenSeq(t)
  BY Zenon DEF Concat, AttributeWords
<1>6. Upto(t, Len(s)) = Len(FlattenSeq(t))
  BY <1>4, UptoSteps, Zenon
<1>7. Sum(AttributeLen, s) = Upto(t, Len(s)) /\ Sum(AttributeLen, s) \in Nat
  <2>1. s \in Seq(Attributes \cup Pointers)
    <3>1. Attributes \subseteq Attributes \cup Pointers
      OBVIOUS
    <3> QED BY <3>1, SeqInto, Zenon
  <2> QED BY <1>5, <1>6, <2>1, WriteAttributesLen, Zenon DEF Sound
<1> QED BY <1>2, <1>4, <1>5, <1>7

\* An attribute that is decoded as it was.
FaithfulOne(a, o) ==
    CASE a.code = ASPATH     -> \A j \in DOMAIN a.segments : Len(a.segments[j].path) \in 1 .. 254
      [] a.code = AGGREGATOR -> Len(a.id) = 4 /\ ~o.enc2bytes
      [] a.code = REACH      -> Len(a.nextHop) \in {0, 4, 16} /\ ~Mapped(a.nextHop)
      [] a.code = UNREACH    -> <<a.afi, a.safi>> \notin o.addPath
      [] a.code \notin Decoded -> (Extended(a.flag) = 1) = (Len(a.data) > 255)
      [] OTHER -> TRUE
\* A list is faithful when each of its attributes is.
LEMMA FaithfulAll ==
    ASSUME NEW s, NEW o
    PROVE  Faithful(s, o) <=> \A k \in DOMAIN s : FaithfulOne(s[k], o)
BY Zenon DEF Faithful, FaithfulOne

\* The codes differ.
LEMMA Codes ==
    /\ ORIGIN = 1 /\ ASPATH = 2 /\ NEXTHOP = 3 /\ MED = 4 /\ LOCPREF = 5 /\ ATOMIC_AGGREGATE = 6
    /\ AGGREGATOR = 7 /\ COMMUNITIES = 8 /\ REACH = 14 /\ UNREACH = 15 /\ LARGECOMMUNITIES = 32
    /\ Decoded = {1, 2, 3, 4, 5, 6, 7, 8, 14, 15, 32}
BY DEF Decoded, ORIGIN, ASPATH, NEXTHOP, MED, LOCPREF, ATOMIC_AGGREGATE, AGGREGATOR, COMMUNITIES,
   REACH, UNREACH, LARGECOMMUNITIES

\* An attribute is of the kind its code says.
LEMMA ByCode ==
    ASSUME NEW a \in Attributes
    PROVE  /\ a.code = ORIGIN => a \in Origins
           /\ a.code \in {MED, LOCPREF} => a \in Numbers
           /\ a.code = ATOMIC_AGGREGATE => a \in Atomics
           /\ a.code = AGGREGATOR => a \in Aggregators
           /\ a.code = ASPATH => a \in Paths
           /\ a.code = NEXTHOP => a \in NextHops
           /\ a.code = COMMUNITIES => a \in CommunityLists
           /\ a.code = LARGECOMMUNITIES => a \in LargeLists
           /\ a.code = REACH => a \in Reaches
           /\ a.code = UNREACH => a \in Unreaches
           /\ a.code \notin Decoded => a \in Unknowns
<1>1. \/ a \in Origins /\ a.code = ORIGIN
      \/ a \in Numbers /\ a.code \in {MED, LOCPREF}
      \/ a \in Atomics /\ a.code = ATOMIC_AGGREGATE
      \/ a \in Aggregators /\ a.code = AGGREGATOR
      \/ a \in Paths /\ a.code = ASPATH
      \/ a \in NextHops /\ a.code = NEXTHOP
      \/ a \in CommunityLists /\ a.code = COMMUNITIES
      \/ a \in LargeLists /\ a.code = LARGECOMMUNITIES
      \/ a \in Reaches /\ a.code = REACH
      \/ a \in Unreaches /\ a.code = UNREACH
      \/ a \in Unknowns /\ a.code \notin Decoded
  <2>1. /\ \A x \in Origins : x.code = ORIGIN
        /\ \A x \in Numbers : x.code \in {MED, LOCPREF}
        /\ \A x \in Atomics : x.code = ATOMIC_AGGREGATE
        /\ \A x \in Aggregators : x.code = AGGREGATOR
        /\ \A x \in Paths : x.code = ASPATH
        /\ \A x \in NextHops : x.code = NEXTHOP
    BY DEF Origins, Numbers, Atomics, Aggregators, Paths, NextHops
  <2>2. /\ \A x \in CommunityLists : x.code = COMMUNITIES
        /\ \A x \in LargeLists : x.code = LARGECOMMUNITIES
        /\ \A x \in Reaches : x.code = REACH
        /\ \A x \in Unreaches : x.code = UNREACH
        /\ \A x \in Unknowns : x.code \notin Decoded
    BY DEF CommunityLists, LargeLists, Reaches, Unreaches, Unknowns
  <2> QED BY <2>1, <2>2, Zenon DEF Attributes
<1> QED BY ONLY <1>1, Codes

\* The content of each.
LEMMA ContentOf ==
    ASSUME NEW a
    PROVE  /\ a.code = ORIGIN => Content(a) = <<a.origin>> /\ ContentLen(a) = 1
           /\ a.code \in {MED, LOCPREF} => Content(a) = a.value /\ ContentLen(a) = 4
           /\ a.code = ATOMIC_AGGREGATE => Content(a) = <<>> /\ ContentLen(a) = 0
           /\ a.code = AGGREGATOR => Content(a) = a.asn \o a.id /\ ContentLen(a) = 8
           /\ a.code = NEXTHOP => Content(a) = IPtoBytes(a.nextHop) /\ ContentLen(a) = Len(IPtoBytes(a.nextHop))
           /\ a.code = COMMUNITIES => Content(a) = Flat(a.list, 4) /\ ContentLen(a) = 4 * Len(a.list)
           /\ a.code = LARGECOMMUNITIES => Content(a) = Flat(a.list, 12) /\ ContentLen(a) = 12 * Len(a.list)
           /\ a.code \notin Decoded => /\ Content(a) = a.data /\ ContentLen(a) = Len(a.data)
                                       /\ Flag(a) = a.flag
<1>1. /\ \A c \in {ORIGIN, ATOMIC_AGGREGATE, AGGREGATOR, NEXTHOP, COMMUNITIES, LARGECOMMUNITIES,
                   ASPATH, REACH, UNREACH} : c \notin {MED, LOCPREF}
      /\ MED # LOCPREF
      /\ ORIGIN \notin {ATOMIC_AGGREGATE, AGGREGATOR, NEXTHOP, COMMUNITIES, LARGECOMMUNITIES, ASPATH, REACH, UNREACH}
      /\ ATOMIC_AGGREGATE \notin {AGGREGATOR, NEXTHOP, COMMUNITIES, LARGECOMMUNITIES, ASPATH, REACH, UNREACH}
      /\ AGGREGATOR \notin {NEXTHOP, COMMUNITIES, LARGECOMMUNITIES, ASPATH, REACH, UNREACH}
      /\ NEXTHOP \notin {COMMUNITIES, LARGECOMMUNITIES, ASPATH, REACH, UNREACH}
      /\ COMMUNITIES \notin {LARGECOMMUNITIES, ASPATH, REACH, UNREACH}
      /\ LARGECOMMUNITIES \notin {ASPATH, REACH, UNREACH}
  BY Codes
<1>2. a.code = ORIGIN => Content(a) = <<a.origin>> /\ ContentLen(a) = 1
  BY <1>1, Zenon DEF Content, ContentLen
<1>3. a.code \in {MED, LOCPREF} => Content(a) = a.value /\ ContentLen(a) = 4
  BY <1>1, Zenon DEF Content, ContentLen
<1>4. a.code = ATOMIC_AGGREGATE => Content(a) = <<>> /\ ContentLen(a) = 0
  BY <1>1, Zenon DEF Content, ContentLen
<1>5. a.code = AGGREGATOR => Content(a) = a.asn \o a.id /\ ContentLen(a) = 8
  BY <1>1, Zenon DEF Content, ContentLen
<1>6. a.code = NEXTHOP => Content(a) = IPtoBytes(a.nextHop) /\ ContentLen(a) = Len(IPtoBytes(a.nextHop))
  BY <1>1, Zenon DEF Content, ContentLen
<1>7. a.code = COMMUNITIES => Content(a) = Flat(a.list, 4) /\ ContentLen(a) = 4 * Len(a.list)
  BY <1>1, Zenon DEF Content, ContentLen
<1>8. a.code = LARGECOMMUNITIES => Content(a) = Flat(a.list, 12) /\ ContentLen(a) = 12 * Len(a.list)
  BY <1>1, Zenon DEF Content, ContentLen
<1>9. a.code \notin Decoded => Content(a) = a.data /\ ContentLen(a) = Len(a.data) /\ Flag(a) = a.flag
  BY Zenon DEF Content, ContentLen, Flag, Decoded
<1> QED BY <1>2, <1>3, <1>4, <1>5, <1>6, <1>7, <1>8, <1>9, Zenon

\* The decoder is at the content of a, and what it makes of it.
AtContent(a) == /\ Has(i, Content(a)) /\ attrEnd = i + ContentLen(a)
                /\ attr.code = a.code /\ attr.flag = WrittenFlag(a)
Added(a) == \E x : AppendAttribute(x) /\ (FaithfulOne(a, session) => x = a)

\* What there is to read.
LEMMA AtContentFacts ==
    ASSUME Inv, pc = "attr", NEW a \in CanonicalAttributes(session), Writable(a), AtContent(a)
    PROVE  /\ a \in Attributes /\ ReadWith(a, session) /\ i \in Nat /\ b \in Seq(Byte)
           /\ Data = ContentLen(a) /\ ContentLen(a) \in Nat /\ attrEnd \in Nat
           /\ Content(a) \in Seq(Byte) /\ Len(Content(a)) = ContentLen(a) /\ attr.code = a.code
           /\ session.enc2bytes \in BOOLEAN
<1>1. a \in Attributes /\ ReadWith(a, session)
  BY Zenon DEF CanonicalAttributes
<1>2. /\ Content(a) \in Seq(Byte) /\ ContentLen(a) \in Nat /\ Len(Content(a)) = ContentLen(a)
  <2>1. a \in Attributes \cup Pointers
    BY <1>1
  <2> QED BY <2>1, ContentType, Zenon DEF Writable
<1>3. i \in Nat /\ attrEnd \in Nat /\ b \in Seq(Byte) /\ session.enc2bytes \in BOOLEAN
  BY InAttributeFacts, Zenon
<1>4. attrEnd = i + ContentLen(a) /\ attr.code = a.code
  BY Zenon DEF AtContent
<1>5. Data = ContentLen(a)
  BY <1>2, <1>3, <1>4 DEF Data
<1> QED BY <1>1, <1>2, <1>3, <1>4, <1>5

\* ORIGIN.
LEMMA OriginBack ==
    ASSUME Inv, ParseOrigin, NEW a \in CanonicalAttributes(session), Writable(a), AtContent(a)
    PROVE  Added(a)
<1>1. pc = "attr" /\ attr.code = ORIGIN
  BY Zenon DEF ParseOrigin, Case
<1>2. /\ a \in Attributes /\ i \in Nat /\ attrEnd = i + ContentLen(a) /\ a.code = ORIGIN /\ Data = ContentLen(a)
  BY <1>1, AtContentFacts, Zenon DEF AtContent
<1>3. Content(a) = <<a.origin>> /\ ContentLen(a) = 1 /\ a \in Origins
  BY <1>2, ContentOf, ByCode, Zenon
<1>4. At(i) = a.origin
  BY <1>2, <1>3, HasByte, Zenon DEF AtContent
<1>5. Data # 0 /\ i + 1 <= attrEnd
  BY <1>2, <1>3
<1>6. AppendAttribute([code |-> ORIGIN, origin |-> At(i)])
  BY <1>5, Zenon DEF ParseOrigin, Reading
<1>7. [code |-> ORIGIN, origin |-> At(i)] = a
  BY <1>3, <1>4 DEF Origins
<1> QED BY <1>6, <1>7, Zenon DEF Added

\* MULTI_EXIT_DISC and LOCAL_PREF.
LEMMA MedLocPrefBack ==
    ASSUME Inv, ParseMedLocPref, NEW a \in CanonicalAttributes(session), Writable(a), AtContent(a)
    PROVE  Added(a)
<1>1. pc = "attr" /\ attr.code \in {MED, LOCPREF}
  BY Zenon DEF ParseMedLocPref, Case
<1>2. /\ a \in Attributes /\ i \in Nat /\ attrEnd = i + ContentLen(a) /\ a.code \in {MED, LOCPREF}
      /\ Data = ContentLen(a) /\ a.code = attr.code
  BY <1>1, AtContentFacts, Zenon DEF AtContent
<1>3. Content(a) = a.value /\ ContentLen(a) = 4 /\ a \in Numbers
  BY <1>2, ContentOf, ByCode, Zenon
<1>4. a.value \in Bs(4)
  BY <1>3 DEF Numbers
<1>5. Bytes(i, 4) = a.value
  <2>1. Has(i, a.value)
    BY <1>3, Zenon DEF AtContent
  <2>2. 4 \in Nat
    OBVIOUS
  <2> QED BY <1>2, <1>4, <2>1, <2>2, HasBs, Zenon
<1>6. ~(Data < 4) /\ i + 4 <= attrEnd
  BY <1>2, <1>3
<1>7. AppendAttribute([code |-> attr.code, value |-> Bytes(i, 4)])
  BY <1>6, Zenon DEF ParseMedLocPref, Reading
<1>8. [code |-> attr.code, value |-> Bytes(i, 4)] = a
  BY <1>2, <1>3, <1>5 DEF Numbers
<1> QED BY <1>7, <1>8, Zenon DEF Added

\* ATOMIC_AGGREGATE.
LEMMA AtomicAggregateBack ==
    ASSUME Inv, ParseAtomicAggregate, NEW a \in CanonicalAttributes(session), Writable(a), AtContent(a)
    PROVE  Added(a)
<1>1. pc = "attr" /\ attr.code = ATOMIC_AGGREGATE /\ AppendAttribute([code |-> ATOMIC_AGGREGATE])
  BY Zenon DEF ParseAtomicAggregate, Case
<1>2. a \in Attributes /\ a.code = ATOMIC_AGGREGATE
  BY <1>1, AtContentFacts, Zenon
<1>3. a \in Atomics
  BY <1>2, ByCode, Zenon
<1>4. [code |-> ATOMIC_AGGREGATE] = a
  BY <1>3 DEF Atomics
<1> QED BY <1>1, <1>4, Zenon DEF Added

\* AGGREGATOR: the one of 8 bytes.
LEMMA AggregatorBack ==
    ASSUME Inv, ParseAggregator, NEW a \in CanonicalAttributes(session), Writable(a), AtContent(a)
    PROVE  Added(a)
<1> DEFINE A(asn, id) == [code |-> AGGREGATOR, asn |-> asn, id |-> id, enc2bytes |-> session.enc2bytes]
<1>1. pc = "attr" /\ attr.code = AGGREGATOR
  BY Zenon DEF ParseAggregator, Case
<1>2. /\ a \in Attributes /\ i \in Nat /\ attrEnd = i + ContentLen(a) /\ a.code = AGGREGATOR
      /\ Data = ContentLen(a) /\ ReadWith(a, session) /\ b \in Seq(Byte) /\ session.enc2bytes \in BOOLEAN
  BY <1>1, AtContentFacts, Zenon DEF AtContent
<1>3. Content(a) = a.asn \o a.id /\ ContentLen(a) = 8 /\ a \in Aggregators /\ a.enc2bytes = session.enc2bytes
  BY <1>2, ContentOf, ByCode, Zenon DEF ReadWith
<1>4. a.asn \in Bs(4) /\ a.id \in Bs(4)
  <2>1. Len(a.id) = 4
    BY <1>2, Zenon DEF Writable
  <2>2. a.asn \in Bs(4) /\ a.id \in Bs(4) \cup {<<>>} /\ <<>> \notin Bs(4)
    BY <1>3 DEF Aggregators, Bs
  <2>3. Len(<<>>) # 4
    OBVIOUS
  <2> QED BY <2>1, <2>2, <2>3, Zenon
<1>5. i + 8 <= attrEnd /\ Data = 8 /\ Data # 6
  BY <1>2, <1>3
<1>6. \E asn, id : AppendAttribute(A(asn, id))
  BY <1>1, <1>2, <1>5, Zenon DEF ParseAggregator, Reading
<1>7. CASE session.enc2bytes
  <2>1. AGGREGATOR # ASPATH /\ AGGREGATOR # REACH /\ AGGREGATOR # UNREACH /\ AGGREGATOR \in Decoded
    BY Codes
  <2>2. ~FaithfulOne(a, session)
    BY <1>2, <1>7, <2>1, Zenon DEF FaithfulOne
  <2> QED BY <1>6, <2>2, Zenon DEF Added
<1>8. CASE ~session.enc2bytes
  <2>1. AppendAttribute(A(Bytes(i, 4), Bytes(i + 4, 4)))
    BY <1>1, <1>2, <1>5, <1>8, Zenon DEF ParseAggregator, Reading
  <2>2. a.asn \in Seq(Byte) /\ a.id \in Seq(Byte) /\ Len(a.asn) = 4
    BY <1>4 DEF Bs
  <2>3. Has(i, a.asn) /\ Has(i + 4, a.id)
    <3>1. Has(i, a.asn \o a.id)
      BY <1>3, Zenon DEF AtContent
    <3> QED BY <1>2, <2>2, <3>1, HasBoth, Zenon
  <2>4. Bytes(i, 4) = a.asn /\ Bytes(i + 4, 4) = a.id
    <3>1. i + 4 \in Nat /\ 4 \in Nat
      BY <1>2
    <3> QED BY <1>2, <1>4, <2>3, <3>1, HasBs, Zenon
  <2>5. A(a.asn, a.id) = a
    BY <1>3 DEF Aggregators
  <2> QED BY <2>1, <2>4, <2>5, Zenon DEF Added
<1> QED BY <1>2, <1>7, <1>8

\* NEXT_HOP.
LEMMA NextHopBack ==
    ASSUME Inv, ParseNextHop, NEW a \in CanonicalAttributes(session), Writable(a), AtContent(a)
    PROVE  Added(a)
<1>1. pc = "attr" /\ attr.code = NEXTHOP
  BY Zenon DEF ParseNextHop, Case
<1>2. /\ a \in Attributes /\ i \in Nat /\ attrEnd = i + ContentLen(a) /\ a.code = NEXTHOP /\ Data = ContentLen(a)
  BY <1>1, AtContentFacts, Zenon DEF AtContent
<1>3. Content(a) = IPtoBytes(a.nextHop) /\ ContentLen(a) = Len(IPtoBytes(a.nextHop)) /\ a \in NextHops
  BY <1>2, ContentOf, ByCode, Zenon
<1>4. a.nextHop \in Bs(4) /\ Len(a.nextHop) = 4
  BY <1>3 DEF NextHops, Bs
<1>5. IPtoBytes(a.nextHop) = a.nextHop
  <2>1. Len(a.nextHop) # 16
    BY <1>4
  <2>2. ~Mapped(a.nextHop)
    BY <2>1, Zenon DEF Mapped
  <2> QED BY <1>4, <2>1, <2>2, Zenon DEF IPtoBytes
<1>6. Bytes(i, 4) = a.nextHop
  <2>1. Has(i, a.nextHop)
    BY <1>3, <1>5, Zenon DEF AtContent
  <2>2. 4 \in Nat
    OBVIOUS
  <2> QED BY <1>2, <1>4, <2>1, <2>2, HasBs, Zenon
<1>7. ~(Data < 4) /\ i + 4 <= attrEnd
  <2>1. ContentLen(a) = 4
    BY <1>3, <1>4, <1>5, Zenon
  <2> QED BY <1>2, <2>1
<1>8. AppendAttribute([code |-> NEXTHOP, nextHop |-> Bytes(i, 4)])
  BY <1>7, Zenon DEF ParseNextHop, Reading
<1>9. [code |-> NEXTHOP, nextHop |-> Bytes(i, 4)] = a
  BY <1>3, <1>6 DEF NextHops
<1> QED BY <1>8, <1>9, Zenon DEF Added

\* COMMUNITIES and LARGE_COMMUNITIES.
LEMMA CommunitiesBack ==
    ASSUME Inv, ParseCommunities, NEW a \in CanonicalAttributes(session), Writable(a), AtContent(a)
    PROVE  Added(a)
<1> DEFINE size == IF attr.code = COMMUNITIES THEN 4 ELSE 12
           n    == Data \div size
           list == [k \in 1 .. n |-> Bytes(i + size * (k - 1), size)]
<1>1. pc = "attr" /\ attr.code \in {COMMUNITIES, LARGECOMMUNITIES}
  BY Zenon DEF ParseCommunities, Case
<1>2. /\ a \in Attributes /\ i \in Nat /\ attrEnd = i + ContentLen(a) /\ Data = ContentLen(a)
      /\ a.code = attr.code
  BY <1>1, AtContentFacts, Zenon DEF AtContent
<1>3. /\ Content(a) = Flat(a.list, size) /\ ContentLen(a) = size * Len(a.list) /\ size \in {4, 12}
      /\ a.list \in Seq(Bs(size)) /\ a = [code |-> attr.code, list |-> a.list]
  <2>1. CASE attr.code = COMMUNITIES
    <3>1. size = 4
      BY <2>1
    <3>2. Content(a) = Flat(a.list, 4) /\ ContentLen(a) = 4 * Len(a.list) /\ a \in CommunityLists
      BY <1>2, <2>1, ContentOf, ByCode, Zenon
    <3>3. a.list \in Seq(Bs(4)) /\ a = [code |-> a.code, list |-> a.list]
      BY <3>2 DEF CommunityLists
    <3> QED BY <1>2, <3>1, <3>2, <3>3
  <2>2. CASE attr.code = LARGECOMMUNITIES
    <3>1. size = 12
      BY <2>2, Codes
    <3>2. Content(a) = Flat(a.list, 12) /\ ContentLen(a) = 12 * Len(a.list) /\ a \in LargeLists
      BY <1>2, <2>2, ContentOf, ByCode, Zenon
    <3>3. a.list \in Seq(Bs(12)) /\ a = [code |-> a.code, list |-> a.list]
      BY <3>2 DEF LargeLists
    <3> QED BY <1>2, <3>1, <3>2, <3>3
  <2> QED BY <1>1, <2>1, <2>2
<1>4. n = Len(a.list) /\ i + size * n <= attrEnd /\ Len(a.list) \in Nat
  <2> HIDE DEF size
  <2>1. Len(a.list) \in Nat
    <3> DEFINE B == Bs(size)
    <3>1. a.list \in Seq(B)
      BY <1>3
    <3> HIDE DEF B
    <3> QED BY <3>1
  <2>2. CASE size = 4
    BY <1>2, <1>3, <2>1, <2>2
  <2>3. CASE size = 12
    BY <1>2, <1>3, <2>1, <2>3
  <2> QED BY <1>3, <2>1, <2>2, <2>3
<1>5. list = a.list
  <2>1. Has(i, Flat(a.list, size)) /\ size \in {2, 4, 12}
    BY <1>3, Zenon DEF AtContent
  <2> HIDE DEF size
  <2>2. [m \in 1 .. Len(a.list) |-> Bytes(i + size * (m - 1), size)] = a.list
    BY <1>2, <1>3, <2>1, HasFlat, Zenon
  <2> QED BY <1>4, <2>2, Zenon
<1>6. AppendAttribute([code |-> attr.code, list |-> list])
  BY <1>4, Zenon DEF ParseCommunities, Reading
<1> QED BY <1>3, <1>5, <1>6, Zenon DEF Added

\* An attribute without a decoder: its extended-length flag is that of its length.
LEMMA UnknownBack ==
    ASSUME Inv, ParseUnknown, NEW a \in CanonicalAttributes(session), Writable(a), AtContent(a)
    PROVE  Added(a)
<1>1. /\ pc = "attr" /\ attr.code \notin Decoded
      /\ AppendAttribute([code |-> attr.code, flag |-> attr.flag, data |-> Bytes(i, Data)])
  BY Zenon DEF ParseUnknown
<1>2. /\ a \in Attributes /\ i \in Nat /\ Data = ContentLen(a) /\ a.code = attr.code
      /\ Len(Content(a)) = ContentLen(a) /\ Content(a) \in Seq(Byte)
  BY <1>1, AtContentFacts, Zenon
<1>3. /\ Content(a) = a.data /\ ContentLen(a) = Len(a.data) /\ a \in Unknowns /\ Flag(a) = a.flag
  BY <1>1, <1>2, ContentOf, ByCode, Zenon
<1>4. Bytes(i, Data) = a.data
  <2>1. Has(i, a.data)
    BY <1>3, Zenon DEF AtContent
  <2> QED BY <1>2, <1>3, <2>1, HasBytes, Zenon
<1>5. ASSUME FaithfulOne(a, session) PROVE attr.flag = a.flag
  <2> DEFINE plain == a.flag - ATTRIBUTE_EXTENDED * Extended(a.flag)
  <2>1. (Extended(a.flag) = 1) = (Len(a.data) > 255)
    <3>1. a.code \notin {ASPATH, AGGREGATOR, REACH, UNREACH}
      BY <1>1, <1>2, Zenon DEF Decoded
    <3> QED BY <1>1, <1>2, <1>5, <3>1, Zenon DEF FaithfulOne
  <2>2. attr.flag = plain + (IF Len(a.data) > 255 THEN ATTRIBUTE_EXTENDED ELSE 0)
    BY <1>3, Zenon DEF AtContent, WrittenFlag
  <2>3. a.flag \in Byte
    BY <1>3 DEF Unknowns
  <2>4. /\ plain \in Byte /\ Extended(a.flag) \in {0, 1} /\ (Extended(a.flag) = 0 => plain = a.flag)
        /\ (Extended(a.flag) = 1 => plain + ATTRIBUTE_EXTENDED = a.flag)
    BY <2>3, FlagBits, Zenon
  <2>5. plain \in Int
    <3>1. \A x \in Byte : x \in Int
      BY DEF Byte
    <3> QED BY <2>4, <3>1, Zenon
  <2> HIDE DEF plain
  <2>6. CASE Len(a.data) > 255
    <3>1. Extended(a.flag) = 1
      BY <2>1, <2>6, Zenon
    <3> QED BY <2>2, <2>4, <2>6, <3>1, Zenon
  <2>7. CASE ~(Len(a.data) > 255)
    <3>1. Extended(a.flag) # 1
      BY <2>1, <2>7, Zenon
    <3>2. plain = a.flag /\ attr.flag = plain + 0
      BY <2>2, <2>4, <2>7, <3>1, Zenon
    <3> QED BY <2>5, <3>2
  <2> QED BY <2>6, <2>7
<1>6. ASSUME FaithfulOne(a, session)
      PROVE  [code |-> attr.code, flag |-> attr.flag, data |-> Bytes(i, Data)] = a
  BY <1>2, <1>3, <1>4, <1>5, <1>6 DEF Unknowns
<1> QED BY <1>1, <1>6, Zenon DEF Added

\* The content of MP_REACH, MP_UNREACH and AS_PATH.
LEMMA ReachContentOf ==
    ASSUME NEW a, a.code = REACH
    PROVE  /\ Content(a) = U16(a.afi) \o <<a.safi, Len(IPtoBytes(a.nextHop))>> \o IPtoBytes(a.nextHop)
                                \o <<0>> \o WriteNLRIs(a.nlri, a.addPath)
           /\ ContentLen(a) = 5 + Len(IPtoBytes(a.nextHop)) + LenNLRIs(a.nlri, a.addPath)
<1>1. REACH \notin {ORIGIN, MED, LOCPREF, ATOMIC_AGGREGATE, AGGREGATOR, ASPATH, NEXTHOP, COMMUNITIES,
                    LARGECOMMUNITIES, UNREACH} /\ REACH \in Decoded
  BY Codes
<1>2. Content(a) = U16(a.afi) \o <<a.safi, Len(IPtoBytes(a.nextHop))>> \o IPtoBytes(a.nextHop)
                                \o <<0>> \o WriteNLRIs(a.nlri, a.addPath)
  BY <1>1, SMT DEF Content
<1>3. ContentLen(a) = 5 + Len(IPtoBytes(a.nextHop)) + LenNLRIs(a.nlri, a.addPath)
  BY <1>1, SMT DEF ContentLen
<1> QED BY <1>2, <1>3, Zenon

\* The parts of an MP_REACH and of an MP_UNREACH.
LEMMA ReachContent ==
    ASSUME b \in Seq(Byte), NEW k \in Nat, NEW a \in Reaches, Has(k, Content(a)), a.afi <= MaxUint16,
           NEW ip, ip = IPtoBytes(a.nextHop)
    PROVE  /\ Uint16(k) = a.afi /\ At(k + 2) = a.safi /\ At(k + 3) = Len(ip)
           /\ ip \in Seq(Byte) /\ Len(ip) \in {0, 4, 16} /\ Has(k + 4, ip)
           /\ Has(k + 5 + Len(ip), WriteNLRIs(a.nlri, a.addPath))
           /\ ContentLen(a) = 5 + Len(ip) + LenNLRIs(a.nlri, a.addPath)
           /\ LenNLRIs(a.nlri, a.addPath) \in Nat
<1> DEFINE two == <<a.safi, Len(ip)>>  n == WriteNLRIs(a.nlri, a.addPath)  f == U16(a.afi)
<1>1. /\ a.code = REACH /\ a.afi \in Nat /\ a.safi \in Byte /\ a.nextHop \in Seq(Byte)
      /\ a.nlri \in Seq(Routes) /\ a.addPath \in BOOLEAN
  BY DEF Reaches
<1>2. ip \in Seq(Byte) /\ Len(ip) \in {0, 4, 16}
  BY <1>1, IPtoBytesType, Zenon
<1>3. Content(a) = f \o two \o ip \o <<0>> \o n /\ ContentLen(a) = 5 + Len(ip) + LenNLRIs(a.nlri, a.addPath)
  <2>1. /\ Content(a) = U16(a.afi) \o <<a.safi, Len(IPtoBytes(a.nextHop))>> \o IPtoBytes(a.nextHop)
                             \o <<0>> \o WriteNLRIs(a.nlri, a.addPath)
        /\ ContentLen(a) = 5 + Len(IPtoBytes(a.nextHop)) + LenNLRIs(a.nlri, a.addPath)
    BY <1>1, ReachContentOf, Zenon
  <2> QED BY <2>1
<1>4. n \in Seq(Byte) /\ LenNLRIs(a.nlri, a.addPath) \in Nat
  BY <1>1, WriteNLRIsLen, Zenon
<1>5. f \in Seq(Byte) /\ Len(f) = 2
  BY <1>1, U16Type, Zenon
<1>6. two \in Seq(Byte) /\ Len(two) = 2
  <2>1. Len(ip) \in Byte
    BY <1>2 DEF Byte
  <2> QED BY <1>1, <2>1, TwoBytesOf, Zenon
<1>7. <<0>> \in Seq(Byte) /\ Len(<<0>>) = 1
  <2>1. 0 \in Byte
    BY DEF Byte
  <2> QED BY <2>1, OneByte, Zenon
<1>8. Has(k, f) /\ Has(k + 2, two) /\ Has(k + 4, ip) /\ Has(k + 5 + Len(ip), n)
  <2> HIDE DEF f, two, n
  <2>1. /\ f \o two \in Seq(Byte) /\ Len(f \o two) = 4
        /\ f \o two \o ip \in Seq(Byte) /\ Len(f \o two \o ip) = 4 + Len(ip)
        /\ f \o two \o ip \o <<0>> \in Seq(Byte) /\ Len(f \o two \o ip \o <<0>>) = 5 + Len(ip)
    <3>1. f \o two \in Seq(Byte) /\ Len(f \o two) = 2 + 2
      BY <1>5, <1>6, Appended, Zenon
    <3>2. f \o two \o ip \in Seq(Byte) /\ Len(f \o two \o ip) = 2 + 2 + Len(ip)
      BY <1>2, <3>1, Appended, Zenon
    <3>3. f \o two \o ip \o <<0>> \in Seq(Byte) /\ Len(f \o two \o ip \o <<0>>) = 2 + 2 + Len(ip) + 1
      BY <1>7, <3>2, Appended, Zenon
    <3> DEFINE l == Len(ip)
    <3>4. l \in Nat
      BY <1>2
    <3> HIDE DEF l
    <3>5. 2 + 2 = 4 /\ 2 + 2 + l = 4 + l /\ 2 + 2 + l + 1 = 5 + l
      BY <3>4
    <3> QED BY <3>1, <3>2, <3>3, <3>5, Zenon DEF l
  <2>2. Has(k, f \o two \o ip \o <<0>>) /\ Has(k + (5 + Len(ip)), n)
    <3> DEFINE u == f \o two \o ip \o <<0>>
    <3>1. Has(k, u \o n)
      BY <1>3
    <3>2. u \in Seq(Byte) /\ Len(u) = 5 + Len(ip)
      BY <2>1
    <3> HIDE DEF u
    <3>3. Has(k, u) /\ Has(k + (5 + Len(ip)), n)
      BY <1>4, <3>1, <3>2, HasBoth, Zenon
    <3> QED BY <3>3 DEF u
  <2>3. Has(k, f \o two \o ip)
    BY <1>7, <2>1, <2>2, HasBoth, Zenon
  <2>4. Has(k, f \o two) /\ Has(k + 4, ip)
    BY <1>2, <2>1, <2>3, HasBoth, Zenon
  <2>5. Has(k, f) /\ Has(k + 2, two)
    BY <1>5, <1>6, <2>4, HasBoth, Zenon
  <2>6. k + (5 + Len(ip)) = k + 5 + Len(ip)
    BY <1>2
  <2> QED BY <2>2, <2>4, <2>5, <2>6, Zenon
<1>9. Uint16(k) = a.afi
  BY <1>1, <1>8, HasU16, Zenon
<1>10. At(k + 2) = a.safi /\ At(k + 3) = Len(ip)
  <2>1. k + 2 \in Nat /\ k + 2 + 1 = k + 3
    OBVIOUS
  <2> QED BY <1>8, <2>1, HasTwo, Zenon
<1> QED BY <1>2, <1>3, <1>4, <1>8, <1>9, <1>10, Zenon

\* The content of an MP_UNREACH_NLRI.
LEMMA UnreachContent ==
    ASSUME b \in Seq(Byte), NEW k \in Nat, NEW a \in Unreaches, Has(k, Content(a)), a.afi <= MaxUint16
    PROVE  /\ Uint16(k) = a.afi /\ At(k + 2) = a.safi
           /\ Has(k + 3, WriteNLRIs(a.nlri, a.addPath))
           /\ ContentLen(a) = 3 + LenNLRIs(a.nlri, a.addPath) /\ LenNLRIs(a.nlri, a.addPath) \in Nat
<1> DEFINE n == WriteNLRIs(a.nlri, a.addPath)  f == U16(a.afi)
<1>1. /\ a.code = UNREACH /\ a.afi \in Nat /\ a.safi \in Byte
      /\ a.nlri \in Seq(Routes) /\ a.addPath \in BOOLEAN
  BY DEF Unreaches
<1>2. Content(a) = f \o <<a.safi>> \o n /\ ContentLen(a) = 3 + LenNLRIs(a.nlri, a.addPath)
  <2>1. UNREACH \notin {ORIGIN, MED, LOCPREF, ATOMIC_AGGREGATE, AGGREGATOR, ASPATH, NEXTHOP, COMMUNITIES,
                        LARGECOMMUNITIES, REACH}
    BY Codes
  <2> QED BY <1>1, <2>1, Zenon DEF Content, ContentLen
<1>3. n \in Seq(Byte) /\ LenNLRIs(a.nlri, a.addPath) \in Nat
  BY <1>1, WriteNLRIsLen, Zenon
<1>4. f \in Seq(Byte) /\ Len(f) = 2
  BY <1>1, U16Type, Zenon
<1>5. <<a.safi>> \in Seq(Byte) /\ Len(<<a.safi>>) = 1
  BY <1>1, OneByte, Zenon
<1>6. Has(k, f) /\ Has(k + 2, <<a.safi>>) /\ Has(k + 3, n)
  <2> HIDE DEF f, n
  <2> DEFINE one == <<a.safi>>
  <2>0. one \in Seq(Byte) /\ Len(one) = 1
    BY <1>5
  <2> HIDE DEF one
  <2>1. f \o one \in Seq(Byte) /\ Len(f \o one) = 3
    <3>1. f \o one \in Seq(Byte) /\ Len(f \o one) = 2 + 1
      BY <1>4, <2>0, Appended, Zenon
    <3> QED BY <3>1
  <2>2. Has(k, f \o one) /\ Has(k + 3, n)
    <3>1. Has(k, (f \o one) \o n)
      BY <1>2, Zenon DEF one
    <3> QED BY <1>3, <2>1, <3>1, HasBoth, Zenon
  <2>3. Has(k, f) /\ Has(k + 2, one)
    BY <1>4, <2>0, <2>2, HasBoth, Zenon
  <2> QED BY <2>2, <2>3, Zenon DEF one
<1>7. Uint16(k) = a.afi
  BY <1>1, <1>6, HasU16, Zenon
<1>8. At(k + 2) = a.safi
  <2>1. k + 2 \in Nat
    OBVIOUS
  <2> QED BY <1>6, <2>1, HasByte, Zenon
<1> QED BY <1>2, <1>3, <1>6, <1>7, <1>8, Zenon

\* The prefixes of an attribute, its last bytes.
ListReplay(a, path) ==
    LET start == attrEnd - LenNLRIs(a.nlri, path) IN
    IF a.afi \in {AFI_IPV4, AFI_IPV6} THEN start \in Nat /\ PrefixesReplay(a.nlri, path, start)
    ELSE pc # "nlri" /\ nlri.list = <<>>
ReachReplay(a) == /\ attr.afi = a.afi /\ attr.safi = a.safi /\ attr.nextHop = a.nextHop
                  /\ attr.addPath = a.addPath /\ ListReplay(a, a.addPath)
UnreachReplay(a) == attr.afi = a.afi /\ attr.safi = a.safi /\ ListReplay(a, FALSE)

\* They begin where ParseNLRI is called.
LEMMA ListBegins ==
    ASSUME b \in Seq(Byte), b' = b, NEW a, NEW path \in BOOLEAN, OfFamily(a, path), NEW from \in Nat,
           NEW ret \in {"reach", "unreach"}, CallParseNLRI(from, attrEnd, a.afi, path, ret), attrEnd' = attrEnd,
           Has(from, WriteNLRIs(a.nlri, path)), attrEnd = from + LenNLRIs(a.nlri, path),
           LenNLRIs(a.nlri, path) \in Nat
    PROVE  ListReplay(a, path)'
<1>1. /\ i' = from /\ end' = attrEnd
      /\ nlri' = [size |-> SizeOf(a.afi), path |-> path, list |-> <<>>, ret |-> ret]
      /\ IF a.afi \in {AFI_IPV4, AFI_IPV6} THEN pc' = "nlri" /\ failed' = FALSE ELSE pc' = ret
  BY Zenon DEF CallParseNLRI, SizeOf
<1>2. nlri'.size = SizeOf(a.afi) /\ nlri'.path = path /\ nlri'.list = <<>>
  BY <1>1
<1>3. CASE a.afi \in {AFI_IPV4, AFI_IPV6}
  <2> DEFINE P == CanonicalPrefixes(SizeOf(a.afi), path)  s == a.nlri  start == attrEnd - LenNLRIs(s, path)
  <2>1. s \in Seq(P)
    BY Zenon DEF OfFamily
  <2>2. start = from
    BY DEF start
  <2>3. Len(nlri'.list) = 0 /\ Len(nlri'.list) <= Len(s) /\ nlri'.list = SubSeq(s, 1, Len(nlri'.list))
    <3> HIDE DEF P, s
    <3>1. Len(nlri'.list) = 0
      BY <1>2
    <3>2. SubSeq(s, 1, 0) = <<>> /\ Len(s) \in Nat
      BY <2>1, OneFurther
    <3> QED BY <1>2, <3>1, <3>2
  <2>4. i' = from + Upto(NLRIWords(s, path), 0)
    <3>1. s \in Seq(Routes)
      <4>1. SizeOf(a.afi) \in {4, 16}
        BY DEF SizeOf
      <4> QED BY <2>1, <4>1, PrefixesAreRoutes, Zenon
    <3>2. NLRIWords(s, path) \in Seq(Seq(Byte))
      BY <3>1, NLRIWordsType, Zenon
    <3>3. Upto(NLRIWords(s, path), 0) = 0
      BY <3>2, UptoSteps, Zenon
    <3> QED BY <1>1, <3>3
  <2>5. Has(from, WriteNLRIs(s, path))'
    BY HasStays, Zenon
  <2>6. PrefixesReplay(s, path, from)'
    <3>1. pc' = "nlri"
      BY <1>1, <1>3, Zenon
    <3>2. end' = from + LenNLRIs(s, path)
      BY <1>1, Zenon
    <3> HIDE DEF s
    <3>3. (pc = "nlri" => /\ Len(nlri.list) <= Len(s) /\ nlri.list = SubSeq(s, 1, Len(nlri.list))
                          /\ i = from + Upto(NLRIWords(s, path), Len(nlri.list)))'
      BY <2>3, <2>4, Zenon DEF NLRIWords
    <3>4. (s \in Seq(CanonicalPrefixes(nlri.size, path)))'
      BY <1>2, <2>1, Zenon
    <3> QED BY <1>2, <2>5, <3>1, <3>2, <3>3, <3>4, Zenon DEF PrefixesReplay
  <2>7. start' = from
    BY <2>2, Zenon
  <2> QED BY <1>3, <2>6, <2>7, Zenon DEF ListReplay
<1>4. CASE a.afi \notin {AFI_IPV4, AFI_IPV6}
  <2>1. pc' # "nlri"
    BY <1>1, <1>4
  <2> QED BY <1>2, <1>4, <2>1, Zenon DEF ListReplay
<1> QED BY <1>3, <1>4

\* The words of an AS_PATH, and how far it is decoded.
SegmentWords(a) == [k \in DOMAIN a.segments |-> WriteSegment(a.segments[k], Width(a.enc2bytes))]
PathReplay(a) ==
    LET n == Len(attr.segments) IN
    /\ Has(attrEnd - ContentLen(a), Content(a)) /\ attrEnd - ContentLen(a) \in Nat
    /\ n <= Len(a.segments) /\ attr.segments = SubSeq(a.segments, 1, n)
    /\ i = attrEnd - ContentLen(a) + Upto(SegmentWords(a), n)

\* The attribute a is decoded.  What is not faithful is not followed to the end: it has no error.
AttributeReplay(a) ==
    /\ pc = "attr" => AtContent(a)
    /\ pc = "aspath" => a.code = ASPATH /\ (FaithfulOne(a, session) => PathReplay(a))
    /\ Listing("reach") => a.code = REACH /\ (FaithfulOne(a, session) => ReachReplay(a))
    /\ Listing("unreach") => a.code = UNREACH /\ (FaithfulOne(a, session) => UnreachReplay(a))
Continues(a) ==
    /\ UNCHANGED <<b, session, attrsEnd, attrEnd, msg, caller>> /\ attr'.ret = attr.ret
    /\ pc' \in {"aspath", "reach", "unreach", "nlri"}
    /\ pc' = "nlri" => nlri'.ret \in {"reach", "unreach"}
    /\ AttributeReplay(a)'

\* The next hop of a faithful MP_REACH is written as it is.
LEMMA FaithfulNextHop ==
    ASSUME NEW a \in Reaches, NEW o, FaithfulOne(a, o)
    PROVE  IPtoBytes(a.nextHop) = a.nextHop
<1>1. a.code = REACH /\ a.nextHop \in Seq(Byte)
  BY DEF Reaches
<1>2. Len(a.nextHop) \in {0, 4, 16} /\ ~Mapped(a.nextHop)
  <2>1. REACH \notin {ASPATH, AGGREGATOR, UNREACH} /\ REACH \in Decoded
    BY Codes
  <2> QED BY <1>1, <2>1, Zenon DEF FaithfulOne
<1>3. CASE Len(a.nextHop) = 0
  <2>1. Len(a.nextHop) # 4 /\ Len(a.nextHop) # 16 /\ a.nextHop = <<>>
    BY <1>1, <1>3
  <2> QED BY <1>2, <2>1, Zenon DEF IPtoBytes
<1>4. CASE Len(a.nextHop) = 4
  <2>1. Len(a.nextHop) # 16
    BY <1>4
  <2> QED BY <1>2, <1>4, <2>1, Zenon DEF IPtoBytes
<1>5. CASE Len(a.nextHop) = 16
  <2>1. Len(a.nextHop) # 4
    BY <1>5
  <2> QED BY <1>2, <1>5, <2>1, Zenon DEF IPtoBytes
<1> QED BY <1>2, <1>3, <1>4, <1>5

\* MP_REACH begins.
LEMMA ReachBegins ==
    ASSUME Inv, ParseReach, NEW a \in CanonicalAttributes(session), Writable(a), AtContent(a)
    PROVE  Continues(a)
<1> DEFINE ip == IPtoBytes(a.nextHop)  path == InAfiSafi(a.afi, a.safi)  from == i + 5 + Len(ip)
<1>1. pc = "attr" /\ attr.code = REACH
  BY Zenon DEF ParseReach, Case
<1>2. /\ a \in Attributes /\ ReadWith(a, session) /\ i \in Nat /\ b \in Seq(Byte) /\ attrEnd \in Nat
      /\ a.code = REACH /\ Data = ContentLen(a) /\ attrEnd = i + ContentLen(a) /\ Has(i, Content(a))
  BY <1>1, AtContentFacts, Zenon DEF AtContent
<1>3. /\ a \in Reaches /\ a.addPath = Family(a, session) /\ OfFamily(a, a.addPath) /\ a.afi <= MaxUint16
  BY <1>2, ByCode, Zenon DEF ReadWith, OfFamily
<1>4. path = a.addPath /\ a.addPath \in BOOLEAN
  <2>1. a.addPath \in BOOLEAN
    BY <1>3 DEF Reaches
  <2>2. path = Family(a, session)
    BY Zenon DEF InAfiSafi, Family
  <2> QED BY <1>3, <2>1, <2>2, Zenon
<1>5. /\ Uint16(i) = a.afi /\ At(i + 2) = a.safi /\ At(i + 3) = Len(ip)
      /\ ip \in Seq(Byte) /\ Len(ip) \in {0, 4, 16} /\ Has(i + 4, ip)
      /\ Has(from, WriteNLRIs(a.nlri, a.addPath))
      /\ ContentLen(a) = 5 + Len(ip) + LenNLRIs(a.nlri, a.addPath)
      /\ LenNLRIs(a.nlri, a.addPath) \in Nat
  BY <1>2, <1>3, ReachContent, Zenon
<1>6. /\ ~(Data < 4) /\ i + 4 <= attrEnd /\ NextHopFits(Len(ip)) /\ i + 5 + Len(ip) <= attrEnd
      /\ from \in Nat /\ attrEnd = from + LenNLRIs(a.nlri, a.addPath)
  <2> DEFINE l == Len(ip)  n == LenNLRIs(a.nlri, a.addPath)
  <2>1. l \in Nat /\ n \in Nat /\ ContentLen(a) = 5 + l + n
    BY <1>5
  <2> HIDE DEF l, n
  <2>2. /\ ~(Data < 4) /\ i + 4 <= attrEnd /\ i + 4 + l <= attrEnd /\ i + 5 + l <= attrEnd /\ i + 5 + l \in Nat
        /\ attrEnd = i + 5 + l + n
    BY <1>2, <2>1
  <2> QED BY <2>2, Zenon DEF l, n, NextHopFits
<1>7. /\ attr' = [ret |-> attr.ret, afi |-> a.afi, safi |-> a.safi, nextHop |-> Bytes(i + 4, Len(ip)),
                  addPath |-> path]
      /\ CallParseNLRI(from, attrEnd, a.afi, path, "reach")
      /\ UNCHANGED <<b, session, attrsEnd, attrEnd, msg, caller>>
  <2> DEFINE l == Len(ip)
  <2> HIDE DEF l
  <2>1. l = At(i + 3) /\ NextHopFits(l) /\ i + 5 + l <= attrEnd
    BY <1>5, <1>6, Zenon DEF l
  <2>2. /\ attr' = [ret |-> attr.ret, afi |-> Uint16(i), safi |-> At(i + 2), nextHop |-> Bytes(i + 4, At(i + 3)),
                    addPath |-> InAfiSafi(Uint16(i), At(i + 2))]
        /\ CallParseNLRI(i + 5 + At(i + 3), attrEnd, Uint16(i), InAfiSafi(Uint16(i), At(i + 2)), "reach")
        /\ UNCHANGED <<b, session, attrsEnd, attrEnd, msg, caller>>
    BY <1>6, <2>1, Zenon DEF ParseReach, Reading
  <2> QED BY <1>5, <2>1, <2>2, Zenon DEF l
<1>8. /\ attr'.ret = attr.ret /\ attr'.afi = a.afi /\ attr'.safi = a.safi /\ attr'.addPath = a.addPath
      /\ attr'.nextHop = Bytes(i + 4, Len(ip))
  BY <1>4, <1>7
<1>9. pc' \in {"nlri", "reach"} /\ nlri'.ret = "reach"
  BY <1>7 DEF CallParseNLRI
<1>10. ListReplay(a, a.addPath)'
  <2>1. CallParseNLRI(from, attrEnd, a.afi, a.addPath, "reach")
    BY <1>4, <1>7, Zenon
  <2> HIDE DEF from
  <2> QED BY <1>2, <1>3, <1>4, <1>5, <1>6, <1>7, <2>1, ListBegins, Zenon
<1>11. ASSUME FaithfulOne(a, session) PROVE ReachReplay(a)'
  <2>1. ip = a.nextHop
    BY <1>3, <1>11, FaithfulNextHop, Zenon
  <2>2. Bytes(i + 4, Len(ip)) = ip
    <3>1. i + 4 \in Nat
      BY <1>2
    <3> QED BY <1>5, <3>1, HasBytes, Zenon
  <2> QED BY <1>8, <1>10, <2>1, <2>2, Zenon DEF ReachReplay
<1>12. AttributeReplay(a)'
  <2>1. pc' # "attr" /\ pc' # "aspath" /\ ~Listing("unreach")'
    BY <1>9 DEF Listing, InNLRI
  <2>2. session' = session
    BY <1>7
  <2> QED BY <1>2, <1>11, <2>1, <2>2, Zenon DEF AttributeReplay
<1> QED BY <1>7, <1>8, <1>9, <1>12, Zenon DEF Continues

\* MP_UNREACH begins.
LEMMA UnreachBegins ==
    ASSUME Inv, ParseUnreach, NEW a \in CanonicalAttributes(session), Writable(a), AtContent(a)
    PROVE  Continues(a)
<1> DEFINE path == InAfiSafi(a.afi, a.safi)  from == i + 3
<1>1. pc = "attr" /\ attr.code = UNREACH
  BY Zenon DEF ParseUnreach, Case
<1>2. /\ a \in Attributes /\ ReadWith(a, session) /\ i \in Nat /\ b \in Seq(Byte) /\ attrEnd \in Nat
      /\ a.code = UNREACH /\ Data = ContentLen(a) /\ attrEnd = i + ContentLen(a) /\ Has(i, Content(a))
  BY <1>1, AtContentFacts, Zenon DEF AtContent
<1>3. /\ a \in Unreaches /\ ~a.addPath /\ OfFamily(a, path) /\ a.afi <= MaxUint16
  BY <1>2, ByCode, Zenon DEF ReadWith, OfFamily, Family, InAfiSafi
<1>4. a.addPath = FALSE /\ path \in BOOLEAN
  <2>1. a.addPath \in BOOLEAN
    BY <1>3 DEF Unreaches
  <2>2. path \in BOOLEAN
    BY DEF InAfiSafi
  <2> QED BY <1>3, <2>1, <2>2
<1>5. /\ Uint16(i) = a.afi /\ At(i + 2) = a.safi
      /\ Has(from, WriteNLRIs(a.nlri, FALSE))
      /\ ContentLen(a) = 3 + LenNLRIs(a.nlri, FALSE) /\ LenNLRIs(a.nlri, FALSE) \in Nat
  BY <1>2, <1>3, <1>4, UnreachContent, Zenon
<1>6. ~(Data < 3) /\ i + 3 <= attrEnd /\ from \in Nat /\ attrEnd = from + LenNLRIs(a.nlri, FALSE)
  <2> DEFINE n == LenNLRIs(a.nlri, FALSE)
  <2>1. n \in Nat /\ ContentLen(a) = 3 + n
    BY <1>5
  <2> HIDE DEF n
  <2>2. ~(Data < 3) /\ i + 3 <= attrEnd /\ i + 3 \in Nat /\ attrEnd = i + 3 + n
    BY <1>2, <2>1
  <2> QED BY <2>2, Zenon DEF n
<1>7. /\ attr' = [ret |-> attr.ret, afi |-> a.afi, safi |-> a.safi]
      /\ CallParseNLRI(from, attrEnd, a.afi, path, "unreach")
      /\ UNCHANGED <<b, session, attrsEnd, attrEnd, msg, caller>>
  BY <1>5, <1>6, Zenon DEF ParseUnreach, Reading
<1>8. attr'.ret = attr.ret /\ attr'.afi = a.afi /\ attr'.safi = a.safi
  BY <1>7
<1>9. pc' \in {"nlri", "unreach"} /\ nlri'.ret = "unreach"
  BY <1>7 DEF CallParseNLRI
<1>10. ASSUME FaithfulOne(a, session) PROVE UnreachReplay(a)'
  <2>1. path = FALSE
    <3>1. UNREACH \notin {ASPATH, AGGREGATOR, REACH} /\ UNREACH \in Decoded
      BY Codes
    <3>2. <<a.afi, a.safi>> \notin session.addPath
      BY <1>2, <1>10, <3>1, Zenon DEF FaithfulOne
    <3> QED BY <3>2 DEF InAfiSafi
  <2>2. ListReplay(a, FALSE)'
    <3>1. CallParseNLRI(from, attrEnd, a.afi, FALSE, "unreach") /\ OfFamily(a, FALSE)
      BY <1>3, <1>7, <2>1, Zenon
    <3> HIDE DEF from
    <3> QED BY <1>2, <1>5, <1>6, <1>7, <3>1, ListBegins, Zenon
  <2> QED BY <1>8, <2>2, Zenon DEF UnreachReplay
<1>11. AttributeReplay(a)'
  <2>1. pc' # "attr" /\ pc' # "aspath" /\ ~Listing("reach")'
    BY <1>9 DEF Listing, InNLRI
  <2>2. session' = session
    BY <1>7
  <2> QED BY <1>2, <1>10, <2>1, <2>2, Zenon DEF AttributeReplay
<1> QED BY <1>7, <1>8, <1>9, <1>11, Zenon DEF Continues

\* ParseNLRI leaves everything else alone, whatever it is called for.
LEMMA OnlyNLRIChanges == ASSUME Inv, ParseNLRI PROVE OnlyNLRI /\ pc' \in {"nlri", nlri.ret}
<1>1. pc = "nlri" /\ nlri \in NLRIs
  <2>1. pc = "nlri"
    BY Zenon DEF ParseNLRI
  <2> QED BY <2>1, Zenon DEF Inv, Typed, SliceTyped
<1>2. UNCHANGED <<b, session, end, attrsEnd, attrEnd, attr, msg, caller>>
  BY Zenon DEF ParseNLRI, ReturnNLRI, ParsePrefix, Reading, locals
<1>3. \/ nlri' = nlri
      \/ \E l : nlri' = [nlri EXCEPT !.list = l]
  BY Zenon DEF ParseNLRI, ReturnNLRI, ParsePrefix, Reading, locals
<1>4. nlri'.path = nlri.path /\ nlri'.size = nlri.size /\ nlri'.ret = nlri.ret
  BY <1>1, <1>3 DEF NLRIs
<1>5. pc' # "panic"
  BY ParseNLRIStep DEF Inv, IInv, NoPanic
<1>6. pc' \in {pc, nlri.ret, "panic"}
  BY Zenon DEF ParseNLRI, ReturnNLRI, ParsePrefix, Reading
<1> QED BY <1>1, <1>2, <1>4, <1>5, <1>6, Zenon DEF OnlyNLRI

\* A round of ParseNLRI for an attribute.
LEMMA ListGoes ==
    ASSUME Inv, ParseNLRI, nlri.ret \in {"reach", "unreach"}, NEW a, NEW path, ListReplay(a, path)
    PROVE  ListReplay(a, path)'
<1> DEFINE start == attrEnd - LenNLRIs(a.nlri, path)
<1>1. pc = "nlri"
  BY Zenon DEF ParseNLRI
<1>2. a.afi \in {AFI_IPV4, AFI_IPV6} /\ start \in Nat /\ PrefixesReplay(a.nlri, path, start)
  BY <1>1, Zenon DEF ListReplay
<1>3. attrEnd' = attrEnd
  BY OnlyNLRIChanges, Zenon DEF OnlyNLRI
<1>4. PrefixesReplay(a.nlri, path, start)'
  <2> HIDE DEF start
  <2>1. \A k \in Nat : PrefixesReplay(a.nlri, path, k) => PrefixesReplay(a.nlri, path, k)'
    BY PrefixesStep, Zenon
  <2>2. start' = start
    BY <1>3, Zenon DEF start
  <2>3. \A k : k = start => PrefixesReplay(a.nlri, path, k)'
    BY <1>2, <2>1, Zenon
  <2> QED BY <2>2, <2>3, Zenon DEF PrefixesReplay
<1> QED BY <1>2, <1>3, <1>4, Zenon DEF ListReplay

\* A round of ParseNLRI in the prefixes s keeps them on their way.
LEMMA PrefixesGo ==
    ASSUME Inv, ParseNLRI, nlri.ret \in {"reach", "unreach"}, NEW a, AttributeReplay(a)
    PROVE  Continues(a)
<1>1. /\ pc = "nlri" /\ OnlyNLRI /\ pc' \in {"nlri", nlri.ret}
      /\ UNCHANGED <<b, session, attrsEnd, attrEnd, attr, msg, caller>> /\ nlri'.ret = nlri.ret
  BY OnlyNLRIChanges, Zenon DEF OnlyNLRI, ParseNLRI
<1>2. pc' # "attr" /\ pc' # "aspath" /\ pc' \in {"reach", "unreach", "nlri"}
  BY <1>1
<1>3. (Listing("reach")' => nlri.ret = "reach") /\ (Listing("unreach")' => nlri.ret = "unreach")
  BY <1>1 DEF Listing, InNLRI
<1>4. nlri.ret = "reach" => a.code = REACH /\ (FaithfulOne(a, session) => ReachReplay(a)')
  <2> SUFFICES ASSUME nlri.ret = "reach"
               PROVE  a.code = REACH /\ (FaithfulOne(a, session) => ReachReplay(a)')
    OBVIOUS
  <2>1. a.code = REACH /\ (FaithfulOne(a, session) => ReachReplay(a))
    BY <1>1, Zenon DEF AttributeReplay, Listing, InNLRI
  <2>2. ASSUME ReachReplay(a) PROVE ReachReplay(a)'
    <3>1. ListReplay(a, a.addPath)'
      BY <2>2, ListGoes, Zenon DEF ReachReplay
    <3> QED BY <1>1, <2>2, <3>1, Zenon DEF ReachReplay
  <2> QED BY <2>1, <2>2
<1>5. nlri.ret = "unreach" => a.code = UNREACH /\ (FaithfulOne(a, session) => UnreachReplay(a)')
  <2> SUFFICES ASSUME nlri.ret = "unreach"
               PROVE  a.code = UNREACH /\ (FaithfulOne(a, session) => UnreachReplay(a)')
    OBVIOUS
  <2>1. a.code = UNREACH /\ (FaithfulOne(a, session) => UnreachReplay(a))
    BY <1>1, Zenon DEF AttributeReplay, Listing, InNLRI
  <2>2. ASSUME UnreachReplay(a) PROVE UnreachReplay(a)'
    <3>1. ListReplay(a, FALSE)'
      BY <2>2, ListGoes, Zenon DEF UnreachReplay
    <3> QED BY <1>1, <2>2, <3>1, Zenon DEF UnreachReplay
  <2> QED BY <2>1, <2>2
<1>6. AttributeReplay(a)'
  BY <1>1, <1>2, <1>3, <1>4, <1>5, Zenon DEF AttributeReplay
<1> QED BY <1>1, <1>2, <1>6, Zenon DEF Continues

\* The list is whole when it ends.
LEMMA ListEnds ==
    ASSUME NEW a, NEW path, OfFamily(a, path), ListReplay(a, path), pc # "nlri"
    PROVE  nlri.list = a.nlri
BY Zenon DEF ListReplay, PrefixesReplay, OfFamily

\* MP_REACH ends.
LEMMA ReachEnds ==
    ASSUME Inv, ReachParsed, NEW a \in CanonicalAttributes(session), AttributeReplay(a)
    PROVE  Added(a)
<1> DEFINE x == [code |-> REACH, afi |-> attr.afi, safi |-> attr.safi,
                 nextHop |-> attr.nextHop, nlri |-> nlri.list, addPath |-> attr.addPath]
<1>1. pc = "reach" /\ AppendAttribute(x)
  BY Zenon DEF ReachParsed
<1>2. a.code = REACH /\ a \in Attributes /\ ReadWith(a, session)
      /\ (FaithfulOne(a, session) => ReachReplay(a))
  BY <1>1, Zenon DEF AttributeReplay, Listing, CanonicalAttributes
<1>3. a \in Reaches /\ OfFamily(a, a.addPath)
  BY <1>2, ByCode, Zenon DEF ReadWith
<1>4. ASSUME FaithfulOne(a, session) PROVE x = a
  <2>1. /\ attr.afi = a.afi /\ attr.safi = a.safi /\ attr.nextHop = a.nextHop
        /\ attr.addPath = a.addPath /\ ListReplay(a, a.addPath)
    BY <1>2, <1>4, Zenon DEF ReachReplay
  <2>2. pc # "nlri"
    BY <1>1
  <2>3. nlri.list = a.nlri
    BY <1>3, <2>1, <2>2, ListEnds, Zenon
  <2> QED BY <1>3, <2>1, <2>3 DEF Reaches
<1> QED BY <1>1, <1>4, Zenon DEF Added

\* MP_UNREACH ends.
LEMMA UnreachEnds ==
    ASSUME Inv, UnreachParsed, NEW a \in CanonicalAttributes(session), AttributeReplay(a)
    PROVE  Added(a)
<1> DEFINE x == [code |-> UNREACH, afi |-> attr.afi, safi |-> attr.safi,
                 nlri |-> nlri.list, addPath |-> FALSE]
<1>1. pc = "unreach" /\ AppendAttribute(x)
  BY Zenon DEF UnreachParsed
<1>2. a.code = UNREACH /\ a \in Attributes /\ ReadWith(a, session)
      /\ (FaithfulOne(a, session) => UnreachReplay(a))
  BY <1>1, Zenon DEF AttributeReplay, Listing, CanonicalAttributes
<1>3. a \in Unreaches /\ OfFamily(a, Family(a, session)) /\ ~a.addPath
  BY <1>2, ByCode, Zenon DEF ReadWith
<1>4. ASSUME FaithfulOne(a, session) PROVE x = a
  <2>1. attr.afi = a.afi /\ attr.safi = a.safi /\ ListReplay(a, FALSE)
    BY <1>2, <1>4, Zenon DEF UnreachReplay
  <2>2. pc # "nlri"
    BY <1>1
  <2>3. OfFamily(a, FALSE)
    <3>1. UNREACH \notin {ASPATH, AGGREGATOR, REACH} /\ UNREACH \in Decoded
      BY Codes
    <3>2. ~Family(a, session)
      BY <1>2, <1>4, <3>1, Zenon DEF FaithfulOne, Family
    <3>3. Family(a, session) = FALSE
      BY <3>2 DEF Family
    <3> QED BY <1>3, <3>3, Zenon
  <2>4. nlri.list = a.nlri
    BY <2>1, <2>2, <2>3, ListEnds, Zenon
  <2> QED BY <1>3, <2>1, <2>4 DEF Unreaches
<1> QED BY <1>1, <1>4, Zenon DEF Added

\* One word alone.
LEMMA OneWord == ASSUME NEW x \in Seq(Byte) PROVE FlattenSeq(<<x>>) = x
<1>1. <<>> \in Seq(Seq(Byte)) /\ Append(<<>>, x) = <<x>> /\ <<>> \o x = x
  OBVIOUS
<1>2. FlattenSeq(Append(<<>>, x)) = FlattenSeq(<<>>) \o x
  BY <1>1, FlattenAppend, Zenon
<1> QED BY <1>1, <1>2, FlattenEmpty, Zenon

\* A segment of 1 to 254 AS numbers is written as one set, with their number.
LEMMA FaithfulSegment ==
    ASSUME NEW s \in Segments, NEW width \in {2, 4}, Len(s.path) \in 1 .. 254
    PROVE  /\ WriteSegment(s, width) = <<s.stype, Len(s.path)>> \o Written(s.path, width)
           /\ <<s.stype, Len(s.path)>> \in Seq(Byte) /\ Len(<<s.stype, Len(s.path)>>) = 2
           /\ Written(s.path, width) \in Seq(Byte) /\ Len(Written(s.path, width)) = width * Len(s.path)
<1> DEFINE n == Len(s.path)
           id == [k \in 1 .. LenSets(n) |-> k]
           w == [k \in DOMAIN id |-> <<s.stype, SetLen(n, id[k])>> \o Written(Set(s, id[k]), width)]
           x == <<s.stype, n>> \o Written(s.path, width)
<1>1. s.path \in Seq(Bs(4)) /\ s.stype \in Byte
  BY DEF Segments
<1>2. LenSets(n) = 1 /\ SetLen(n, 1) = n /\ n \in Byte /\ ~(255 * 1 < n)
  <2>1. n \in 1 .. 254
    OBVIOUS
  <2> HIDE DEF n
  <2>2. LenSets(n) = 1
    BY <2>1 DEF LenSets
  <2>3. SetLen(n, 1) = n
    BY <2>1, <2>2 DEF SetLen
  <2> QED BY <2>1, <2>2, <2>3 DEF Byte
<1>3. Set(s, 1) = s.path
  <2>1. Set(s, 1) = SubSeq(s.path, 255 * (1 - 1) + 1, n)
    BY <1>2, Zenon DEF Set
  <2>2. 255 * (1 - 1) + 1 = 1
    OBVIOUS
  <2>3. SubSeq(s.path, 1, n) = s.path
    BY <1>1, OneFurther, Zenon
  <2> QED BY <2>1, <2>2, <2>3, Zenon
<1>4. WriteSegment(s, width) = FlattenSeq(w)
  BY Zenon DEF WriteSegment, Concat, Written, Set
<1>5. DOMAIN id = {1} /\ id[1] = 1
  <2> HIDE DEF n
  <2> QED BY <1>2
<1>6. Written(s.path, width) \in Seq(Byte) /\ Len(Written(s.path, width)) = width * n
  BY <1>1, WrittenType, Zenon
<1>7. <<s.stype, n>> \in Seq(Byte) /\ Len(<<s.stype, n>>) = 2
  BY <1>1, <1>2, TwoBytesOf, Zenon
<1>8. x \in Seq(Byte)
  BY <1>6, <1>7, Appended, Zenon
<1>9. w = <<x>>
  <2>1. w[1] = x /\ DOMAIN w = {1}
    <3> HIDE DEF id, n
    <3> QED BY <1>2, <1>3, <1>5, Zenon
  <2>2. w = [k \in {1} |-> w[k]]
    <3> HIDE DEF id, n
    <3> QED BY <1>5, Zenon
  <2> HIDE DEF w, x
  <2>3. {1} = 1 .. 1
    OBVIOUS
  <2>4. <<x>> = [k \in 1 .. 1 |-> x]
    OBVIOUS
  <2>5. w = [k \in 1 .. 1 |-> w[k]] /\ \A k \in 1 .. 1 : w[k] = x
    <3>1. \A k \in {1} : w[k] = x
      BY <2>1, Zenon
    <3> QED BY <2>2, <2>3, <3>1, Zenon
  <2> QED BY <2>4, <2>5
<1>10. FlattenSeq(<<x>>) = x
  BY <1>8, OneWord, Zenon
<1> QED BY <1>4, <1>6, <1>7, <1>9, <1>10, Zenon

\* Two zeros before two bytes.
LEMMA ZerosThenTwo ==
    ASSUME NEW f \in Seq(Byte), Len(f) = 2, NEW x \in Seq(Byte), Len(x) = 4,
           x[1] = 0, x[2] = 0, f[1] = x[3], f[2] = x[4]
    PROVE  Zeros(2) \o f = x
<1> DEFINE z == Zeros(2)  c == z \o f
<1>1. z \in Seq(Byte) /\ Len(z) = 2 /\ z[1] = 0 /\ z[2] = 0
  BY DEF Zeros, Byte
<1> HIDE DEF z
<1>2. /\ Len(c) = 4 /\ c \in Seq(Byte)
      /\ \A j \in 1 .. 2 : c[j] = z[j] /\ c[2 + j] = f[j]
  <2>1. /\ Len(c) = Len(z) + Len(f) /\ c \in Seq(Byte)
    BY <1>1, Appended, Zenon
  <2>2. /\ \A j \in 1 .. Len(z) : c[j] = z[j]
        /\ \A j \in 1 .. Len(f) : c[Len(z) + j] = f[j]
    BY <1>1, JoinAt, Zenon
  <2> HIDE DEF c
  <2> QED BY <1>1, <2>1, <2>2
<1> HIDE DEF c
<1>3. 2 + 1 = 3 /\ 2 + 2 = 4 /\ 1 \in 1 .. 2 /\ 2 \in 1 .. 2
  OBVIOUS
<1>4. c[1] = x[1] /\ c[2] = x[2] /\ c[3] = x[3] /\ c[4] = x[4]
  BY <1>1, <1>2, <1>3, Zenon
<1>5. c = x
  BY <1>2, <1>4
<1> QED BY <1>5, Zenon DEF c, z

\* Reading an AS number, with zeros before one of two bytes.
LEMMA NumberBack ==
    ASSUME b \in Seq(Byte), NEW k \in Nat, NEW width \in {2, 4}, NEW path \in Seq(Bs(4)),
           Has(k, Written(path, width)), NEW m \in 1 .. Len(path), width = 2 => Short(path[m])
    PROVE  Zeros(4 - width) \o Bytes(k + width * (m - 1), width) = path[m]
<1> DEFINE x == path[m]  w == Written(path, width)  l == Len(path)
<1>1. x \in Seq(Byte) /\ Len(x) = 4 /\ l \in Nat /\ m \in 1 .. l
  <2>1. x \in Bs(4) /\ l \in Nat
    OBVIOUS
  <2>2. x \in Seq(Byte) /\ Len(x) = 4
    BY <2>1 DEF Bs
  <2> QED BY <2>1, <2>2
<1>2. w = [j \in 1 .. width * l |-> path[1 + (j - 1) \div width][5 - width + ((j - 1) % width)]]
      /\ Len(w) = width * l
  BY WrittenType, Zenon DEF Written
<1>3. ASSUME NEW j \in 1 .. width PROVE At(k + width * (m - 1) + j - 1) = x[4 - width + j]
  <2> DEFINE q == width * (m - 1) + j
  <2>1. q \in 1 .. width * l /\ 1 + (q - 1) \div width = m /\ 5 - width + ((q - 1) % width) = 4 - width + j
    <3> HIDE DEF l
    <3>1. CASE width = 2
      <4>1. q = 2 * (m - 1) + j /\ j \in 1 .. 2 /\ m \in 1 .. l /\ l \in Nat
        BY <1>1, <3>1
      <4> HIDE DEF q
      <4>2. q \in 1 .. 2 * l /\ 1 + (q - 1) \div 2 = m /\ 5 - 2 + ((q - 1) % 2) = 4 - 2 + j
        BY ONLY <4>1
      <4> QED BY <3>1, <4>2, Zenon
    <3>2. CASE width = 4
      <4>1. q = 4 * (m - 1) + j /\ j \in 1 .. 4 /\ m \in 1 .. l /\ l \in Nat
        BY <1>1, <3>2
      <4> HIDE DEF q
      <4>2. q \in 1 .. 4 * l /\ 1 + (q - 1) \div 4 = m /\ 5 - 4 + ((q - 1) % 4) = 4 - 4 + j
        BY ONLY <4>1
      <4> QED BY <3>2, <4>2, Zenon
    <3> QED BY <3>1, <3>2
  <2> HIDE DEF q, w, l
  <2>2. w[q] = path[1 + (q - 1) \div width][5 - width + ((q - 1) % width)]
    BY <1>2, <2>1, Zenon
  <2>3. w[q] = x[4 - width + j]
    BY <2>1, <2>2, Zenon
  <2>4. At(k + q - 1) = w[q]
    <3>1. q \in 1 .. Len(w) /\ Has(k, w)
      BY <1>2, <2>1, Zenon DEF w
    <3> QED BY <3>1, Zenon DEF Has
  <2>5. k + q - 1 = k + width * (m - 1) + j - 1
    <3>1. CASE width = 2
      BY <1>1, <3>1 DEF q
    <3>2. CASE width = 4
      BY <1>1, <3>2 DEF q
    <3> QED BY <3>1, <3>2
  <2> QED BY <2>3, <2>4, <2>5, Zenon DEF x
<1> DEFINE f == Bytes(k + width * (m - 1), width)
<1>4. f = [j \in 1 .. width |-> x[4 - width + j]]
  <2> DEFINE base == k + width * (m - 1)
  <2>1. f = [j \in 1 .. width |-> At(base + j - 1)]
    BY Zenon DEF Bytes
  <2>2. \A j \in 1 .. width : At(base + j - 1) = x[4 - width + j]
    BY <1>3, Zenon
  <2> HIDE DEF base, f, x
  <2> QED BY <2>1, <2>2, Zenon
<1> HIDE DEF f, x
<1>5. CASE width = 4
  <2>1. f = [j \in 1 .. 4 |-> x[4 - 4 + j]]
    BY <1>4, <1>5
  <2>2. Zeros(0) = <<>>
    BY DEF Zeros
  <2>3. x = [j \in 1 .. 4 |-> x[j]]
    BY <1>1
  <2>4. \A j \in 1 .. 4 : 4 - 4 + j = j
    OBVIOUS
  <2>5. f = x
    BY <2>1, <2>3, <2>4
  <2>6. <<>> \o x = x
    BY <1>1
  <2>7. 4 - width = 0
    BY <1>5
  <2>8. Zeros(4 - width) = <<>>
    BY <2>2, <2>7, Zenon
  <2> QED BY <2>5, <2>6, <2>8, Zenon DEF f, x
<1>6. CASE width = 2
  <2>1. f = [j \in 1 .. 2 |-> x[2 + j]]
    <3>1. 4 - width = 2
      BY <1>6
    <3> QED BY <1>4, <1>6, <3>1, Zenon
  <2>2. x[1] = 0 /\ x[2] = 0
    BY <1>6, Zenon DEF Short, x
  <2>3. Zeros(4 - width) = Zeros(2)
    BY <1>6
  <2>4. f \in Seq(Byte) /\ Len(f) = 2 /\ f[1] = x[3] /\ f[2] = x[4]
    <3>1. x[3] \in Byte /\ x[4] \in Byte
      <4>1. 3 \in 1 .. Len(x) /\ 4 \in 1 .. Len(x)
        BY <1>1
      <4> QED BY <1>1, <4>1, ElementsOf, Zenon
    <3>2. \A j \in 1 .. 2 : x[2 + j] \in Byte
      BY <3>1
    <3> QED BY <2>1, <3>2
  <2>5. Zeros(2) \o f = x
    BY <1>1, <2>2, <2>4, ZerosThenTwo, Zenon
  <2> QED BY <2>3, <2>5, Zenon DEF f, x
<1> QED BY <1>5, <1>6

\* The content of a path.
LEMMA PathContent ==
    ASSUME NEW a, a.code = ASPATH
    PROVE  /\ Content(a) = Concat(LAMBDA s : WriteSegment(s, Width(a.enc2bytes)), a.segments)
           /\ ContentLen(a) = Sum(LAMBDA s : SegmentLen(s, Width(a.enc2bytes)), a.segments)
<1>1. a.code \notin {ORIGIN, NEXTHOP, MED, LOCPREF, ATOMIC_AGGREGATE, AGGREGATOR,
                     COMMUNITIES, REACH, UNREACH, LARGECOMMUNITIES}
  BY DEF ORIGIN, ASPATH, NEXTHOP, MED, LOCPREF, ATOMIC_AGGREGATE, AGGREGATOR, COMMUNITIES,
     REACH, UNREACH, LARGECOMMUNITIES
<1> QED BY <1>1, Zenon DEF Content, ContentLen, Flag, Decoded

\* The bytes of a path, one segment after the other.
LEMMA SegmentWordsType ==
    ASSUME NEW a \in Paths
    PROVE  /\ SegmentWords(a) \in Seq(Seq(Byte)) /\ Len(SegmentWords(a)) = Len(a.segments)
           /\ Content(a) = FlattenSeq(SegmentWords(a))
           /\ ContentLen(a) = Upto(SegmentWords(a), Len(a.segments)) /\ ContentLen(a) \in Nat
           /\ \A k \in 1 .. Len(a.segments) : /\ a.segments[k] \in Segments
                 /\ SegmentWords(a)[k] = WriteSegment(a.segments[k], Width(a.enc2bytes))
<1> DEFINE t == SegmentWords(a)  s == a.segments  width == Width(a.enc2bytes)
<1>1. s \in Seq(Segments) /\ a.code = ASPATH /\ width \in {2, 4}
  BY DEF Paths, Width
<1>2. DOMAIN s = 1 .. Len(s) /\ Len(s) \in Nat /\ \A k \in 1 .. Len(s) : s[k] \in Segments
  BY <1>1, ElementsOf, Zenon
<1>3. \A k \in 1 .. Len(s) : t[k] = WriteSegment(s[k], width) /\ t[k] \in Seq(Byte)
  BY <1>1, <1>2, WriteSegmentLen, Zenon DEF SegmentWords
<1>4. t = [k \in 1 .. Len(s) |-> t[k]]
  BY <1>2, Zenon DEF SegmentWords
<1>5. t \in Seq(Seq(Byte)) /\ Len(t) = Len(s)
  <2> HIDE DEF t, s
  <2> QED BY ONLY <1>2, <1>3, <1>4
<1>7. Content(a) = Concat(LAMBDA r : WriteSegment(r, Width(a.enc2bytes)), a.segments)
  BY <1>1, PathContent, Zenon
<1>8. ContentLen(a) = Sum(LAMBDA r : SegmentLen(r, Width(a.enc2bytes)), a.segments)
  BY <1>1, PathContent, Zenon
<1>9. Content(a) = FlattenSeq(t)
  BY <1>7, Zenon DEF Concat, SegmentWords
<1>10. Len(Content(a)) = ContentLen(a) /\ ContentLen(a) \in Nat
  BY <1>1, <1>7, <1>8, WriteSegmentsLen, Zenon
<1>11. Upto(t, Len(t)) = Len(FlattenSeq(t))
  BY <1>5, UptoSteps, Zenon
<1>12. ContentLen(a) = Upto(t, Len(s))
  BY <1>5, <1>9, <1>10, <1>11, Zenon
<1> QED BY <1>2, <1>3, <1>5, <1>9, <1>10, <1>12, Zenon

\* A segment as it is read: n of its numbers are there.
SegmentAt(k, n, width) ==
    [stype |-> At(k),
     path  |-> [m \in 1 .. At(k + 1) |->
                   IF m > n THEN Zeros(4)
                   ELSE Zeros(4 - width) \o Bytes(k + 2 + width * (m - 1), width)]]

\* Reading a segment of 1 to 254 AS numbers.
LEMMA SegmentBack ==
    ASSUME b \in Seq(Byte), NEW k \in Nat, NEW width \in {2, 4}, NEW s \in Segments,
           Len(s.path) \in 1 .. 254, width = 2 => \A m \in DOMAIN s.path : Short(s.path[m]),
           Has(k, WriteSegment(s, width)), NEW n, n = Len(s.path)
    PROVE  /\ At(k) = s.stype /\ At(k + 1) = Len(s.path)
           /\ Len(WriteSegment(s, width)) = 2 + width * Len(s.path) /\ width * Len(s.path) \in Nat
           /\ SegmentAt(k, n, width) = s
<1> DEFINE x == <<s.stype, n>>  y == Written(s.path, width)
<1>1. /\ WriteSegment(s, width) = x \o y /\ x \in Seq(Byte) /\ Len(x) = 2
      /\ y \in Seq(Byte) /\ Len(y) = width * n
  BY FaithfulSegment, Zenon
<1>2. s.path \in Seq(Bs(4)) /\ n \in 1 .. 254 /\ DOMAIN s.path = 1 .. n /\ s = [stype |-> s.stype, path |-> s.path]
  BY DEF Segments
<1>3. Has(k, x) /\ Has(k + 2, y)
  <2>1. Has(k, x \o y)
    BY <1>1, Zenon
  <2> HIDE DEF x, y
  <2>2. Has(k, x) /\ Has(k + Len(x), y)
    BY <1>1, <2>1, HasBoth, Zenon
  <2> QED BY <1>1, <2>2
<1>4. At(k) = s.stype /\ At(k + 1) = n
  BY <1>3, HasTwo, Zenon
<1>5. \A m \in 1 .. n : Zeros(4 - width) \o Bytes(k + 2 + width * (m - 1), width) = s.path[m]
  <2> TAKE m \in 1 .. n
  <2>1. k + 2 \in Nat
    OBVIOUS
  <2>2. m \in 1 .. Len(s.path) /\ (width = 2 => Short(s.path[m]))
    BY <1>2, Zenon
  <2> QED BY <1>2, <1>3, <2>1, <2>2, NumberBack, Zenon
<1> DEFINE f == [m \in 1 .. n |-> IF m > n THEN Zeros(4)
                                  ELSE Zeros(4 - width) \o Bytes(k + 2 + width * (m - 1), width)]
<1>6. f = s.path
  <2>1. \A m \in 1 .. n : ~(m > n)
    BY <1>2
  <2>2. \A m \in 1 .. n : f[m] = s.path[m]
    BY <1>5, <2>1, Zenon
  <2>3. f = [m \in 1 .. n |-> f[m]]
    BY Zenon
  <2> HIDE DEF f
  <2>4. s.path = [m \in 1 .. n |-> s.path[m]]
    BY <1>2
  <2>5. f = [m \in 1 .. n |-> s.path[m]]
    BY <2>2, <2>3, Zenon
  <2> QED BY <2>4, <2>5, Zenon
<1>7. Len(x \o y) = 2 + width * n /\ width * n \in Nat
  <2> HIDE DEF x, y
  <2>1. Len(x \o y) = Len(x) + Len(y)
    BY <1>1, Appended, Zenon
  <2> QED BY <1>1, <2>1
<1> QED BY <1>1, <1>2, <1>4, <1>6, <1>7, Zenon DEF SegmentAt

\* AS_PATH begins.
LEMMA PathBegins ==
    ASSUME Inv, ParseASPath, NEW a \in CanonicalAttributes(session), Writable(a), AtContent(a)
    PROVE  Continues(a)
<1>1. /\ pc = "attr" /\ attr.code = ASPATH /\ attr' = [ret |-> attr.ret, segments |-> <<>>] /\ pc' = "aspath"
      /\ UNCHANGED <<b, session, i, attrsEnd, attrEnd, msg, caller>>
  BY Zenon DEF ParseASPath, Case
<1>2. /\ a \in Attributes /\ i \in Nat /\ a.code = ASPATH /\ ContentLen(a) \in Nat
      /\ attrEnd = i + ContentLen(a) /\ Has(i, Content(a))
  BY <1>1, AtContentFacts, Zenon DEF AtContent
<1>3. a \in Paths
  BY <1>2, ByCode, Zenon
<1>4. SegmentWords(a) \in Seq(Seq(Byte)) /\ a.segments \in Seq(Segments) /\ Len(a.segments) \in Nat
  <2>1. a.segments \in Seq(Segments)
    BY <1>3 DEF Paths
  <2> QED BY <1>3, <2>1, SegmentWordsType, Zenon, ElementsOf
<1>5. attrEnd - ContentLen(a) = i
  BY <1>2
<1>6. attr'.segments = <<>> /\ Len(attr'.segments) = 0 /\ attr'.ret = attr.ret
  BY <1>1
<1>7. Upto(SegmentWords(a), 0) = 0
  <2>1. FlattenSeq(<<>>) = <<>> /\ Len(<<>>) = 0
    BY FlattenEmpty
  <2>2. SubSeq(SegmentWords(a), 1, 0) = <<>>
    BY <1>4, OneFurther, Zenon
  <2> QED BY <2>1, <2>2, Zenon DEF Upto
<1>8. SubSeq(a.segments, 1, 0) = <<>>
  BY <1>4, OneFurther, Zenon
<1>9. PathReplay(a)'
  <2>1. Has(i, Content(a))'
    BY <1>1, <1>2, HasStays, Zenon
  <2>2. (attrEnd - ContentLen(a))' = i
    BY <1>1, <1>5, Zenon
  <2>3. i' = i + 0
    BY <1>1, <1>2
  <2>4. 0 <= Len(a.segments)
    BY <1>4
  <2> QED BY <1>1, <1>2, <1>6, <1>7, <1>8, <2>1, <2>2, <2>3, <2>4, Zenon DEF PathReplay, SegmentWords
<1>10. AttributeReplay(a)'
  BY <1>1, <1>2, <1>9 DEF AttributeReplay, Listing, InNLRI
<1> QED BY <1>1, <1>6, <1>10 DEF Continues

\* A faithful path has segments of 1 to 254 numbers.
LEMMA FaithfulPath ==
    ASSUME NEW a, NEW o, a.code = ASPATH, FaithfulOne(a, o)
    PROVE  \A j \in DOMAIN a.segments : Len(a.segments[j].path) \in 1 .. 254
<1>1. ASPATH \notin {AGGREGATOR, REACH, UNREACH} /\ ASPATH \in Decoded
  BY Codes
<1> QED BY <1>1, Zenon DEF FaithfulOne

\* There is room for what is there.
LEMMA Room ==
    ASSUME NEW width \in {2, 4}, NEW k \in Nat, NEW top \in Nat, width * k <= top
    PROVE  ~(k < top \div width) => top \div width = k
<1>1. CASE width = 2
  <2>1. 2 * k <= top
    BY <1>1
  <2>2. ~(k < top \div 2) => top \div 2 = k
    BY ONLY <2>1, k \in Nat, top \in Nat
  <2> QED BY <1>1, <2>2
<1>2. CASE width = 4
  <2>1. 4 * k <= top
    BY <1>2
  <2>2. ~(k < top \div 4) => top \div 4 = k
    BY ONLY <2>1, k \in Nat, top \in Nat
  <2> QED BY <1>2, <2>2
<1> QED BY <1>1, <1>2

\* A faithful AS_PATH goes on where its next segment begins, and ends after the last.
LEMMA FaithfulPathGoes ==
    ASSUME Inv, ParseASPathSegment, NEW a \in CanonicalAttributes(session), a.code = ASPATH,
           FaithfulOne(a, session), PathReplay(a)
    PROVE  \/ AppendAttribute(a)
           \/ /\ attr'.ret = attr.ret /\ pc' = "aspath"
              /\ UNCHANGED <<b, session, attrsEnd, attrEnd, msg, caller>> /\ PathReplay(a)'
<1> DEFINE l == ContentLen(a)
           start == attrEnd - l
           t == SegmentWords(a)
           width == Width(session.enc2bytes)
           room  == (attrEnd - (i + 2)) \div width
           n     == Len(attr.segments)
           N     == IF At(i + 1) < room THEN At(i + 1) ELSE room
           path  == [k \in 1 .. At(i + 1) |->
                        IF k > N THEN Zeros(4)
                        ELSE Zeros(4 - width) \o Bytes(i + 2 + width * (k - 1), width)]
           segment == [stype |-> At(i), path |-> path]
           whole == [code |-> ASPATH, segments |-> attr.segments, enc2bytes |-> session.enc2bytes]
<1>1. pc = "aspath"
  BY Zenon DEF ParseASPathSegment
<1>2. /\ a \in Paths /\ a.enc2bytes = session.enc2bytes
      /\ a.segments \in Seq(CanonicalSegments(session.enc2bytes))
      /\ \A j \in DOMAIN a.segments : Len(a.segments[j].path) \in 1 .. 254
  <2>1. a \in Attributes /\ ReadWith(a, session)
    BY Zenon DEF CanonicalAttributes
  <2>2. \A j \in DOMAIN a.segments : Len(a.segments[j].path) \in 1 .. 254
    BY Zenon, FaithfulPath
  <2> QED BY <2>1, <2>2, ByCode, Zenon DEF ReadWith
<1>3. /\ b \in Seq(Byte) /\ i \in Nat /\ attrEnd \in Nat /\ width \in {2, 4}
      /\ attr \in [ret : {"attributes"} \cup Outside, segments : Seq(Segments)]
  <2>1. width \in {2, 4}
    BY DEF Width
  <2> QED BY <1>1, <2>1, InAttributeFacts DEF Inv, Typed, AttributeTyped
<1>4. /\ t \in Seq(Seq(Byte)) /\ Len(t) = Len(a.segments) /\ Content(a) = FlattenSeq(t)
      /\ l = Upto(t, Len(t)) /\ l \in Nat
      /\ \A k \in 1 .. Len(t) : a.segments[k] \in Segments /\ t[k] = WriteSegment(a.segments[k], width)
  <2>1. Width(a.enc2bytes) = width
    BY <1>2, Zenon
  <2> QED BY <1>2, <2>1, SegmentWordsType, Zenon
<1>5. /\ Has(start, FlattenSeq(t)) /\ start \in Nat /\ n <= Len(t) /\ n \in Nat
      /\ attr.segments = SubSeq(a.segments, 1, n) /\ i = start + Upto(t, n) /\ Len(t) \in Nat
  <2>1. n \in Nat /\ Len(t) \in Nat
    BY <1>3, <1>4, ElementsOf
  <2> QED BY <1>4, <2>1, Zenon DEF PathReplay
<1>6. attrEnd = start + Upto(t, Len(t))
  BY <1>3, <1>4
<1>7. CASE n = Len(t)
  <2>1. i >= attrEnd
    BY <1>3, <1>5, <1>6, <1>7
  <2>2. AppendAttribute(whole)
    BY <2>1, Zenon DEF ParseASPathSegment
  <2>3. attr.segments = a.segments
    BY <1>2, <1>4, <1>5, <1>7, OneFurther, Zenon
  <2>4. whole = a
    BY <1>2, <2>3 DEF Paths
  <2> QED BY <2>2, <2>4, Zenon
<1>8. CASE n < Len(t)
  <2> DEFINE s == a.segments[n + 1]  w == width * Len(s.path)
  <2>1. n + 1 \in 1 .. Len(t) /\ n \in 0 .. Len(t) - 1
    BY <1>5, <1>8
  <2>2. /\ s \in Segments /\ t[n + 1] = WriteSegment(s, width) /\ Len(s.path) \in 1 .. 254
        /\ width = 2 => \A m \in DOMAIN s.path : Short(s.path[m])
    <3>1. DOMAIN a.segments = 1 .. Len(t) /\ s \in CanonicalSegments(session.enc2bytes)
      BY <1>2, <1>4, <2>1, ElementsOf, Zenon
    <3>2. width = 2 => session.enc2bytes
      BY DEF Width
    <3> QED BY <1>2, <1>4, <2>1, <3>1, <3>2, Zenon DEF CanonicalSegments
  <2>3. Has(i, WriteSegment(s, width))
    <3>1. Has(start + Upto(t, n), t[n + 1])
      BY <1>3, <1>4, <1>5, <2>1, NextWord, Zenon
    <3> QED BY <1>5, <2>2, <3>1, Zenon
  <2>4. /\ At(i) = s.stype /\ At(i + 1) = Len(s.path)
        /\ Len(WriteSegment(s, width)) = 2 + w /\ w \in Nat
    <3> HIDE DEF s, width
    <3> QED BY <1>3, <2>2, <2>3, SegmentBack, Zenon DEF w
  <2>5. /\ Upto(t, n) \in Nat /\ Upto(t, n + 1) = Upto(t, n) + (2 + w)
        /\ Upto(t, n + 1) <= Upto(t, Len(t)) /\ Upto(t, Len(t)) \in Nat
    <3> HIDE DEF w
    <3> QED BY <1>4, <2>1, <2>2, <2>4, NextWord, Zenon
  <2>6. i + 2 + w <= attrEnd /\ i + (2 + w) = start + Upto(t, n + 1)
    <3> DEFINE u == Upto(t, n)  v == Upto(t, n + 1)  z == Upto(t, Len(t))
    <3>1. /\ u \in Nat /\ v = u + (2 + w) /\ v <= z /\ z \in Nat /\ w \in Nat
          /\ start \in Nat /\ i = start + u /\ attrEnd = start + z
      BY <1>5, <1>6, <2>4, <2>5, Zenon
    <3> HIDE DEF w, start, u, v, z
    <3>2. i + 2 + w <= attrEnd /\ i + (2 + w) = start + v
      BY ONLY <3>1
    <3> QED BY <3>2, Zenon DEF v
  <2>7. N = Len(s.path) /\ w = width * N
    <3>1. ~(Len(s.path) < room) => room = Len(s.path)
      <4> DEFINE k == Len(s.path)  top == attrEnd - (i + 2)
      <4>0. k \in 1 .. 254 /\ w = width * k
        BY <2>2, Zenon
      <4>1. k \in Nat /\ w = width * k
        <5> HIDE DEF k, w, width
        <5> QED BY <4>0
      <4> HIDE DEF k, w, width
      <4>2. top \in Nat /\ width * k <= top
        BY <1>3, <2>4, <2>6, <4>1
      <4> HIDE DEF top
      <4>3. ~(k < top \div width) => top \div width = k
        BY <1>3, <4>1, <4>2, Room, Zenon
      <4> QED BY <4>3, Zenon DEF k, top
    <3>2. N = Len(s.path)
      <4> HIDE DEF room, s
      <4> QED BY <2>4, <3>1, Zenon
    <3> HIDE DEF N, s, width
    <3> QED BY <3>2, Zenon
  <2>8. segment = s
    <3>1. segment = SegmentAt(i, N, width)
      BY Zenon DEF SegmentAt
    <3> HIDE DEF s, width, N, segment
    <3>2. SegmentAt(i, N, width) = s
      BY <1>3, <2>2, <2>3, <2>7, SegmentBack, Zenon
    <3> QED BY <3>1, <3>2, Zenon
  <2>9. ~(i >= attrEnd \/ i + 1 >= attrEnd) /\ i + 2 + width * N <= attrEnd
    <3>1. ~(i >= attrEnd \/ i + 1 >= attrEnd)
      <4> HIDE DEF w
      <4> QED BY <1>3, <2>4, <2>6
    <3> HIDE DEF w, N, width
    <3> QED BY <2>6, <2>7, <3>1, Zenon
  <2>10. /\ attr' = [attr EXCEPT !.segments = Append(@, segment)]
         /\ i' = i + 2 + width * N /\ UNCHANGED <<b, session, pc, attrsEnd, attrEnd, msg, caller>>
    BY <2>9, Zenon DEF ParseASPathSegment, Reading
  <2>11. attr'.segments = Append(attr.segments, s) /\ attr'.ret = attr.ret
    <3> HIDE DEF segment, s
    <3> QED BY <1>3, <2>8, <2>10
  <2>12. /\ attr'.segments = SubSeq(a.segments, 1, n + 1) /\ Len(attr'.segments) = n + 1 /\ n + 1 <= Len(a.segments)
    <3>1. SubSeq(a.segments, 1, n + 1) = Append(SubSeq(a.segments, 1, n), a.segments[n + 1])
      BY <1>2, <1>4, <2>1, OneFurther, Zenon
    <3>2. attr'.segments = SubSeq(a.segments, 1, n + 1)
      BY <1>5, <2>11, <3>1, Zenon
    <3>3. n + 1 \in 0 .. Len(a.segments)
      BY <1>4, <2>1
    <3>4. Len(attr'.segments) = n + 1
      <4> DEFINE k == n + 1  u == attr'.segments
      <4>1. k \in 0 .. Len(a.segments) /\ u = SubSeq(a.segments, 1, k)
        BY <3>2, <3>3
      <4> HIDE DEF k, u
      <4>2. Len(u) = k
        BY <1>2, <4>1, OneFurther, Zenon
      <4> QED BY <4>2 DEF k, u
    <3> QED BY <3>2, <3>3, <3>4
  <2>13. i' = start + Upto(t, n + 1)
    <3>1. i' = i + 2 + w
      <4> HIDE DEF w, width, N
      <4> QED BY <2>7, <2>10, Zenon
    <3> HIDE DEF w, t, start, n
    <3> QED BY <1>3, <2>4, <2>6, <3>1
  <2>14. t' = t /\ start' = start /\ l' = l
    BY <2>10, Zenon DEF SegmentWords
  <2>15. Has(start, Content(a))'
    <3>1. Has(start, Content(a))
      BY <1>4, <1>5, Zenon
    <3> HIDE DEF start
    <3> QED BY <2>10, <2>14, <3>1, HasStays, Zenon DEF Has
  <2>16. PathReplay(a)'
    <3> HIDE DEF t
    <3>1. start' = start /\ start \in Nat
      BY <1>5, <2>14
    <3>2. attr'.segments = SubSeq(a.segments, 1, Len(attr'.segments)) /\ Len(attr'.segments) <= Len(a.segments)
          /\ i' = start' + Upto(t, Len(attr'.segments))
      BY <2>12, <2>13, <3>1, Zenon
    <3> QED BY <2>15, <3>1, <3>2, Zenon DEF PathReplay, t
  <2> QED BY <1>1, <2>10, <2>11, <2>16, Zenon
<1> QED BY <1>5, <1>7, <1>8

\* The next segment of an AS_PATH, or its end.
LEMMA PathGoes ==
    ASSUME Inv, ParseASPathSegment, NEW a \in CanonicalAttributes(session), AttributeReplay(a)
    PROVE  Continues(a) \/ Added(a)
<1>1. pc = "aspath" /\ pc' # "panic"
  BY ParseASPathSegmentStep, Zenon DEF Inv, IInv, NoPanic, ParseASPathSegment
<1>2. a.code = ASPATH /\ (FaithfulOne(a, session) => PathReplay(a))
  BY <1>1, Zenon DEF AttributeReplay
<1>3. attr \in [ret : {"attributes"} \cup Outside, segments : Seq(Segments)]
  BY <1>1, InAttributeFacts DEF Inv, Typed, AttributeTyped
<1>4. CASE FaithfulOne(a, session)
  <2>1. ASSUME AppendAttribute(a) PROVE Added(a)
    BY <2>1, Zenon DEF Added
  <2>2. ASSUME attr'.ret = attr.ret, pc' = "aspath",
               UNCHANGED <<b, session, attrsEnd, attrEnd, msg, caller>>, PathReplay(a)'
        PROVE  Continues(a)
    <3>1. AttributeReplay(a)'
      BY <1>2, <2>2 DEF AttributeReplay, Listing, InNLRI
    <3> QED BY <2>2, <3>1 DEF Continues
  <2> QED BY <1>2, <1>4, <2>1, <2>2, FaithfulPathGoes, Zenon
<1>5. CASE ~FaithfulOne(a, session)
  <2>1. \/ \E x : AppendAttribute(x)
        \/ /\ \E x : attr' = [attr EXCEPT !.segments = x]
           /\ UNCHANGED <<b, session, pc, attrsEnd, attrEnd, msg, caller>>
    BY <1>1, Zenon DEF ParseASPathSegment, Reading
  <2>2. ASSUME \E x : AppendAttribute(x) PROVE Added(a)
    BY <1>5, <2>2, Zenon DEF Added
  <2>3. ASSUME \E x : attr' = [attr EXCEPT !.segments = x],
               UNCHANGED <<b, session, pc, attrsEnd, attrEnd, msg, caller>>
        PROVE  Continues(a)
    <3>1. attr'.ret = attr.ret
      BY <1>3, <2>3
    <3>2. session' = session /\ ~FaithfulOne(a, session)'
      BY <1>5, <2>3, Zenon DEF FaithfulOne
    <3>3. AttributeReplay(a)'
      BY <1>1, <1>2, <2>3, <3>2 DEF AttributeReplay, Listing, InNLRI
    <3> QED BY <1>1, <2>3, <3>1, <3>3 DEF Continues
  <2> QED BY <2>1, <2>2, <2>3
<1> QED BY <1>4, <1>5

-----------------------------------------------------------------------------
(* A list of attributes.                                                    *)

\* The attributes s are decoded from where they are written, and no others.
AttributesReplay(s, base) ==
    LET n == Len(msg.attrs) IN
    /\ s \in Seq(CanonicalAttributes(session)) /\ Sound(s) /\ \A k \in DOMAIN s : Writable(s[k])
    /\ Has(base, Concat(WriteAttribute, s)) /\ attrsEnd = base + Sum(AttributeLen, s)
    /\ Faithful(s, session) => msg.attrs = SubSeq(s, 1, n)
    /\ pc = "attrs" => n <= Len(s) /\ i = base + Upto(AttributeWords(s), n)
    /\ pc # "attrs" => /\ n < Len(s) /\ attrEnd = base + Upto(AttributeWords(s), n + 1)
                       /\ AttributeReplay(s[n + 1])

\* Decoding within an attribute.
LEMMA AttributeGoes ==
    ASSUME Inv, UpdateNext, InAttributes, pc # "attrs",
           NEW a \in CanonicalAttributes(session), Writable(a), AttributeReplay(a)
    PROVE  Continues(a) \/ Added(a)
<1>1. pc = "attr" => AtContent(a)
  BY Zenon DEF AttributeReplay
<1>2. pc \in {"attr", "aspath", "reach", "unreach"} \/ (pc = "nlri" /\ nlri.ret \in {"reach", "unreach"})
  BY DEF InAttributes
<1>3. CASE ParseOrigin \/ ParseMedLocPref \/ ParseAggregator \/ ParseAtomicAggregate
  <2>1. pc = "attr"
    BY <1>3, Zenon DEF ParseOrigin, ParseMedLocPref, ParseAggregator, ParseAtomicAggregate, Case
  <2> QED BY <1>1, <1>3, <2>1, OriginBack, MedLocPrefBack, AggregatorBack, AtomicAggregateBack, Zenon
<1>4. CASE ParseNextHop \/ ParseCommunities \/ ParseUnknown
  <2>1. pc = "attr"
    BY <1>4, Zenon DEF ParseNextHop, ParseCommunities, ParseUnknown, Case
  <2> QED BY <1>1, <1>4, <2>1, NextHopBack, CommunitiesBack, UnknownBack, Zenon
<1>5. CASE ParseASPath \/ ParseReach \/ ParseUnreach
  <2>1. pc = "attr"
    BY <1>5, Zenon DEF ParseASPath, ParseReach, ParseUnreach, Case
  <2> QED BY <1>1, <1>5, <2>1, PathBegins, ReachBegins, UnreachBegins, Zenon
<1>6. CASE ParseASPathSegment \/ ReachParsed \/ UnreachParsed
  BY <1>6, PathGoes, ReachEnds, UnreachEnds, Zenon
<1>7. CASE ParseNLRI
  <2>1. pc = "nlri"
    BY <1>7, Zenon DEF ParseNLRI
  <2>2. nlri.ret \in {"reach", "unreach"}
    BY <1>2, <2>1
  <2> QED BY <1>7, <2>2, PrefixesGo, Zenon
<1>8. CASE ParseUpdate \/ WithdrawnParsed \/ AttributesParsed \/ UpdateParsed \/ ParseAttributeHeader
  <2>1. pc \in {"update", "withdrawn", "attributes", "prefixes", "attrs"}
    BY <1>8, Zenon DEF ParseUpdate, WithdrawnParsed, AttributesParsed, UpdateParsed, ParseAttributeHeader
  <2> QED BY <1>2, <2>1
<1> QED BY <1>3, <1>4, <1>5, <1>6, <1>7, <1>8, Zenon DEF UpdateNext

\* The message has attributes, and another list of them in their place.
LEMMA MsgAttrs ==
    ASSUME Inv, InAttributes, NEW s
    PROVE  /\ msg.attrs \in Seq(Attributes) /\ Len(msg.attrs) \in Nat
           /\ [msg EXCEPT !.attrs = s].attrs = s
<1>1. attr.ret \in {"attributes", "entry", "tableDumpAttributes"}
  BY DEF Inv, IInv, AttributesInside
<1>2. msg \in Updates \/ msg \in [attrs : Seq(Attributes)]
  BY <1>1, Zenon DEF Inv, Typed, MessageTyped, InUpdate, InEntry, Outside
<1>3. msg.attrs \in Seq(Attributes)
  BY AttrsType, Zenon
<1> QED BY ONLY <1>2, <1>3 DEF Updates

\* The facts of the list.
LEMMA AttributesFacts ==
    ASSUME Inv, InAttributes, NEW s, NEW base \in Nat, AttributesReplay(s, base)
    PROVE  /\ AttributeWords(s) \in Seq(Seq(Byte)) /\ Len(AttributeWords(s)) = Len(s) /\ Len(s) \in Nat
           /\ s \in Seq(Attributes) /\ Has(base, FlattenSeq(AttributeWords(s)))
           /\ attrsEnd = base + Upto(AttributeWords(s), Len(AttributeWords(s))) /\ Len(msg.attrs) \in Nat
           /\ \A k \in 1 .. Len(s) : /\ s[k] \in CanonicalAttributes(session) /\ s[k] \in Attributes
                                     /\ Writable(s[k]) /\ AttributeWords(s)[k] = WriteAttribute(s[k])
                                     /\ Len(AttributeWords(s)[k]) = AttributeLen(s[k])
<1> DEFINE t == AttributeWords(s)  n == Len(msg.attrs)
<1>1. /\ s \in Seq(CanonicalAttributes(session)) /\ Sound(s) /\ \A k \in DOMAIN s : Writable(s[k])
      /\ Has(base, Concat(WriteAttribute, s)) /\ attrsEnd = base + Sum(AttributeLen, s)
  BY Zenon DEF AttributesReplay
<1>2. DOMAIN s = 1 .. Len(s) /\ Len(s) \in Nat /\ \A k \in 1 .. Len(s) : s[k] \in CanonicalAttributes(session)
  BY <1>1, ElementsOf, Zenon
<1>3. CanonicalAttributes(session) \subseteq Attributes
  BY Zenon DEF CanonicalAttributes
<1>4. s \in Seq(Attributes)
  BY <1>1, <1>3, SeqInto, Zenon
<1>5. n \in Nat
  BY MsgAttrs, Zenon
<1>6. \A k \in 1 .. Len(s) : s[k] \in Attributes /\ Writable(s[k])
  BY <1>1, <1>2, <1>3, Zenon
<1>7. /\ t \in Seq(Seq(Byte)) /\ Len(t) = Len(s) /\ Concat(WriteAttribute, s) = FlattenSeq(t)
      /\ Sum(AttributeLen, s) = Upto(t, Len(s))
      /\ \A k \in 1 .. Len(s) : t[k] = WriteAttribute(s[k]) /\ Len(t[k]) = AttributeLen(s[k])
  BY <1>1, <1>4, AttributeWordsType, Zenon
<1> QED BY <1>1, <1>2, <1>4, <1>5, <1>6, <1>7, Zenon

\* The list ends, with no error, after the last attribute.
LEMMA AttributesEnd ==
    ASSUME Inv, ParseAttributeHeader, NEW s, NEW base \in Nat, AttributesReplay(s, base),
           Len(msg.attrs) = Len(s)
    PROVE  ReturnAttributes(FALSE)
<1>1. pc = "attrs" /\ InAttributes
  BY DEF ParseAttributeHeader, InAttributes
<1>2. /\ Len(AttributeWords(s)) = Len(s)
      /\ attrsEnd = base + Upto(AttributeWords(s), Len(AttributeWords(s)))
  BY <1>1, AttributesFacts, Zenon
<1>3. i = base + Upto(AttributeWords(s), Len(msg.attrs))
  BY <1>1, Zenon DEF AttributesReplay
<1>4. i = attrsEnd
  BY <1>2, <1>3, Zenon
<1>5. i \in Nat
  BY DEF Inv, IInv, TypeOK
<1>6. i >= attrsEnd /\ ~(i < attrsEnd)
  BY <1>4, <1>5
<1> QED BY <1>6, Zenon DEF ParseAttributeHeader

\* The content of an attribute is entered.
LEMMA ContentEntered ==
    ASSUME NEW a, NEW k, Has(k, Content(a)), b' = b, i' = k, attrEnd' = k + ContentLen(a),
           attr'.code = a.code, attr'.flag = WrittenFlag(a)
    PROVE  AtContent(a)'
<1>1. Has(k, Content(a))'
  BY HasStays, Zenon
<1> QED BY <1>1, Zenon DEF AtContent, Has

\* The next attribute is entered.
LEMMA AttributeEntered ==
    ASSUME Inv, ParseAttributeHeader, NEW s, NEW base \in Nat, AttributesReplay(s, base),
           Len(msg.attrs) # Len(s)
    PROVE  /\ pc' = "attr" /\ attr'.ret = attr.ret /\ UNCHANGED <<b, session, attrsEnd, nlri, msg, caller>>
           /\ AttributesReplay(s, base)'
<1> DEFINE n == Len(msg.attrs)
           t == AttributeWords(s)
           a == s[n + 1]
           l == ContentLen(a)
           ext == Extended(At(i))
           start == i + 3 + ext
<1>1. pc = "attrs" /\ InAttributes
  BY DEF ParseAttributeHeader, InAttributes
<1>2. /\ t \in Seq(Seq(Byte)) /\ Len(t) = Len(s) /\ Len(s) \in Nat
      /\ Has(base, FlattenSeq(t)) /\ attrsEnd = base + Upto(t, Len(t)) /\ n \in Nat
      /\ \A k \in 1 .. Len(s) : /\ s[k] \in Attributes /\ Writable(s[k])
                                /\ t[k] = WriteAttribute(s[k]) /\ Len(t[k]) = AttributeLen(s[k])
  BY <1>1, AttributesFacts, Zenon
<1>3. n <= Len(s) /\ i = base + Upto(t, n)
  BY <1>1, Zenon DEF AttributesReplay
<1>4. n \in 0 .. Len(t) - 1 /\ n + 1 \in 1 .. Len(s) /\ n < Len(s)
  <2> DEFINE m == Len(s)
  <2>1. n \in Nat /\ m \in Nat /\ n <= m /\ n # m /\ Len(t) = m
    BY <1>2, <1>3
  <2> HIDE DEF n, m, t
  <2>2. n \in 0 .. Len(t) - 1 /\ n + 1 \in 1 .. m /\ n < m
    BY <2>1
  <2> QED BY <2>2, Zenon DEF m
<1>5. b \in Seq(Byte) /\ i \in Nat
  BY DEF Inv, IInv, TypeOK
<1>6. a \in Attributes /\ Writable(a) /\ t[n + 1] = WriteAttribute(a) /\ Len(t[n + 1]) = AttributeLen(a)
  BY <1>2, <1>4, Zenon
<1>7. /\ Has(i, WriteAttribute(a)) /\ Upto(t, n) \in Nat /\ Upto(t, Len(t)) \in Nat
      /\ Upto(t, n + 1) = Upto(t, n) + AttributeLen(a) /\ Upto(t, n + 1) <= Upto(t, Len(t))
  <2>1. Has(base + Upto(t, n), t[n + 1])
    BY <1>2, <1>4, <1>5, NextWord, Zenon
  <2> HIDE DEF t
  <2> QED BY <1>2, <1>3, <1>4, <1>6, <2>1, NextWord, Zenon
<1>8. /\ At(i) = WrittenFlag(a) /\ At(i + 1) = a.code
      /\ ext = (IF l > 255 THEN 1 ELSE 0)
      /\ (IF ext = 1 THEN Uint16(i + 2) ELSE At(i + 2)) = l
      /\ Has(start, Content(a)) /\ 3 + ext + l = AttributeLen(a) /\ l \in Nat
  <2> HIDE DEF a
  <2> QED BY <1>5, <1>6, <1>7, HeaderBack, Zenon
<1>9. ext \in {0, 1}
  <2> HIDE DEF ext, l
  <2> QED BY <1>8
<1>10. /\ i < attrsEnd /\ attrsEnd - i >= 3 /\ i + 3 <= attrsEnd /\ ~(ext = 1 /\ i + 3 > attrsEnd - 1)
       /\ start <= attrsEnd /\ ~(start + l > attrsEnd) /\ start + l <= attrsEnd
       /\ start + l = base + Upto(t, n + 1) /\ start \in Nat
  <2> DEFINE u == Upto(t, n)  v == Upto(t, n + 1)  z == Upto(t, Len(t))  w == AttributeLen(a)
  <2>1. /\ u \in Nat /\ z \in Nat /\ v = u + w /\ v <= z /\ w = 3 + ext + l /\ l \in Nat /\ ext \in {0, 1}
        /\ i = base + u /\ attrsEnd = base + z /\ i \in Nat
    BY <1>2, <1>3, <1>5, <1>7, <1>8, <1>9, Zenon
  <2> HIDE DEF u, v, z, w, ext, l
  <2>2. /\ i < attrsEnd /\ attrsEnd - i >= 3 /\ i + 3 <= attrsEnd /\ ~(ext = 1 /\ i + 3 > attrsEnd - 1)
        /\ start <= attrsEnd /\ ~(start + l > attrsEnd) /\ start + l <= attrsEnd
        /\ start + l = base + v /\ start \in Nat
    BY <2>1
  <2> QED BY <2>2, Zenon DEF v
<1>11. ~(i >= attrsEnd) /\ ~(attrsEnd - i < 3) /\ attrsEnd \in Nat
  BY <1>5, <1>10 DEF Inv, IInv, TypeOK
<1>12. EnterAttribute(start, l)
  <2> HIDE DEF l, n, a
  <2> QED BY <1>8, <1>10, <1>11, Zenon DEF ParseAttributeHeader, Reading
<1>13. /\ attr' = [ret |-> attr.ret, flag |-> At(i), code |-> At(i + 1)]
       /\ i' = start /\ attrEnd' = start + l /\ pc' = "attr"
       /\ UNCHANGED <<b, session, end, attrsEnd, nlri, failed, msg, caller>>
  <2> HIDE DEF l, n, a, start
  <2> QED BY <1>10, <1>12, Zenon DEF EnterAttribute, Reading
<1>14. attr'.ret = attr.ret /\ attr'.code = a.code /\ attr'.flag = WrittenFlag(a)
  <2> HIDE DEF a
  <2> QED BY <1>8, <1>13
<1>15. PICK x, y, k : x = a /\ y = start /\ k = n
  BY Zenon
<1>16. AtContent(x)'
  <2>1. Has(y, Content(x)) /\ i' = y /\ attrEnd' = y + ContentLen(x) /\ b' = b
    BY <1>8, <1>13, <1>15, Zenon
  <2>2. attr'.code = x.code /\ attr'.flag = WrittenFlag(x)
    BY <1>14, <1>15, Zenon
  <2> QED BY <2>1, <2>2, ContentEntered, Zenon
<1>17. AttributeReplay(x)'
  BY <1>13, <1>16 DEF AttributeReplay, Listing, InNLRI
<1>18. Len(msg'.attrs) = k /\ x = s[k + 1] /\ k < Len(s) /\ attrEnd' = base + Upto(AttributeWords(s), k + 1)
  <2>1. attrEnd' = start + l
    BY <1>13
  <2>2. Len(msg'.attrs) = n
    BY <1>13
  <2> QED BY <1>4, <1>10, <1>15, <2>1, <2>2, Zenon
<1>19. AttributesReplay(s, base)'
  <2>1. /\ s \in Seq(CanonicalAttributes(session)) /\ Sound(s) /\ \A j \in DOMAIN s : Writable(s[j])
        /\ Has(base, Concat(WriteAttribute, s)) /\ attrsEnd = base + Sum(AttributeLen, s)
        /\ Faithful(s, session) => msg.attrs = SubSeq(s, 1, n)
    BY Zenon DEF AttributesReplay
  <2>2. Has(base, Concat(WriteAttribute, s))'
    BY <1>13, <2>1, HasStays, Zenon
  <2>3. session' = session /\ msg' = msg /\ attrsEnd' = attrsEnd /\ pc' # "attrs"
    BY <1>13
  <2> QED BY <1>15, <1>17, <1>18, <2>1, <2>2, <2>3, Zenon DEF AttributesReplay
<1> QED BY <1>13, <1>14, <1>19, Zenon

\* What a step among the attributes leaves alone.
OnlyAttributes == /\ InAttributes' /\ attr'.ret = attr.ret /\ UNCHANGED <<b, session, attrsEnd, caller>>
                  /\ \/ msg' = msg
                     \/ \E x : msg' = [msg EXCEPT !.attrs = x]

\* The list goes on within an attribute.
LEMMA AttributeContinues ==
    ASSUME NEW s, NEW base \in Nat, AttributesReplay(s, base), pc # "attrs",
           NEW a, a = s[Len(msg.attrs) + 1], Continues(a)
    PROVE  OnlyAttributes /\ AttributesReplay(s, base)'
<1> DEFINE n == Len(msg.attrs)
<1>1. /\ UNCHANGED <<b, session, attrsEnd, attrEnd, msg, caller>> /\ attr'.ret = attr.ret
      /\ pc' \in {"aspath", "reach", "unreach", "nlri"}
      /\ pc' = "nlri" => nlri'.ret \in {"reach", "unreach"}
      /\ AttributeReplay(a)'
  BY Zenon DEF Continues
<1>2. PICK k : k = n
  BY Zenon
<1>3. /\ s \in Seq(CanonicalAttributes(session)) /\ Sound(s) /\ \A j \in DOMAIN s : Writable(s[j])
      /\ Has(base, Concat(WriteAttribute, s)) /\ attrsEnd = base + Sum(AttributeLen, s)
      /\ Faithful(s, session) => msg.attrs = SubSeq(s, 1, n)
      /\ n < Len(s) /\ attrEnd = base + Upto(AttributeWords(s), n + 1)
  BY Zenon DEF AttributesReplay
<1>4. Has(base, Concat(WriteAttribute, s))'
  BY <1>1, <1>3, HasStays, Zenon
<1>5. session' = session /\ msg' = msg /\ attrsEnd' = attrsEnd /\ attrEnd' = attrEnd /\ pc' # "attrs" /\ n' = k
  <2>1. n' = k
    BY <1>1, <1>2, Zenon
  <2> QED BY <1>1, <2>1
<1>6. s[n + 1]' = a
  BY <1>2, <1>5, Zenon
<1>7. AttributesReplay(s, base)'
  BY <1>1, <1>2, <1>3, <1>4, <1>5, <1>6, Zenon DEF AttributesReplay
<1>8. InAttributes'
  BY <1>1 DEF InAttributes
<1> QED BY <1>1, <1>7, <1>8, Zenon DEF OnlyAttributes

\* The attribute is appended.
LEMMA AttributeAdded ==
    ASSUME Inv, InAttributes, NEW s, NEW base \in Nat, AttributesReplay(s, base), pc # "attrs",
           NEW a, a = s[Len(msg.attrs) + 1], Added(a)
    PROVE  OnlyAttributes /\ AttributesReplay(s, base)'
<1> DEFINE n == Len(msg.attrs)
<1>1. PICK x : AppendAttribute(x) /\ (FaithfulOne(a, session) => x = a)
  BY Zenon DEF Added
<1>2. /\ msg' = [msg EXCEPT !.attrs = Append(msg.attrs, x)] /\ i' = attrEnd /\ pc' = "attrs"
      /\ UNCHANGED <<b, session, attrsEnd, attr, caller>>
  BY <1>1 DEF AppendAttribute
<1>3. /\ s \in Seq(CanonicalAttributes(session)) /\ Sound(s) /\ \A j \in DOMAIN s : Writable(s[j])
      /\ Has(base, Concat(WriteAttribute, s)) /\ attrsEnd = base + Sum(AttributeLen, s)
      /\ Faithful(s, session) => msg.attrs = SubSeq(s, 1, n)
      /\ n < Len(s) /\ attrEnd = base + Upto(AttributeWords(s), n + 1)
  BY Zenon DEF AttributesReplay
<1>4. Has(base, Concat(WriteAttribute, s))'
  BY <1>2, <1>3, HasStays, Zenon
<1>5. /\ msg'.attrs = Append(msg.attrs, x) /\ msg.attrs \in Seq(Attributes) /\ n \in Nat
  BY <1>2, MsgAttrs, Zenon
<1>6. Len(msg'.attrs) = n + 1
  <2> DEFINE u == msg.attrs
  <2>1. u \in Seq(Attributes) /\ msg'.attrs = Append(u, x)
    BY <1>5
  <2> HIDE DEF u
  <2>2. Len(msg'.attrs) = Len(u) + 1
    BY ONLY <2>1
  <2> QED BY <2>2, Zenon DEF u
<1>7. Len(s) \in Nat /\ n + 1 <= Len(s) /\ n \in 0 .. Len(s) - 1 /\ n + 1 \in DOMAIN s
  <2>1. Len(s) \in Nat /\ DOMAIN s = 1 .. Len(s)
    BY <1>3, ElementsOf, Zenon
  <2> DEFINE m == Len(s)
  <2>2. m \in Nat /\ n \in Nat /\ n < m
    BY <1>3, <1>5, <2>1, Zenon
  <2> HIDE DEF m, n
  <2>3. n + 1 <= m /\ n \in 0 .. m - 1 /\ n + 1 \in 1 .. m
    BY <2>2
  <2> QED BY <2>1, <2>3, Zenon DEF m
<1>8. Faithful(s, session) => msg'.attrs = SubSeq(s, 1, n + 1)
  <2> SUFFICES ASSUME Faithful(s, session) PROVE msg'.attrs = SubSeq(s, 1, n + 1)
    BY Zenon
  <2>1. FaithfulOne(a, session)
    BY <1>7, FaithfulAll, Zenon
  <2>2. msg'.attrs = Append(SubSeq(s, 1, n), s[n + 1])
    BY <1>1, <1>3, <1>5, <2>1, Zenon
  <2> QED BY <1>3, <1>7, <2>2, OneFurther, Zenon
<1>9. AttributesReplay(s, base)'
  <2>1. session' = session /\ attrsEnd' = attrsEnd /\ i' = base + Upto(AttributeWords(s), Len(msg'.attrs))
    BY <1>2, <1>3, <1>6, Zenon
  <2>2. Faithful(s, session) => msg'.attrs = SubSeq(s, 1, Len(msg'.attrs))
    BY <1>6, <1>8, Zenon
  <2>3. Len(msg'.attrs) <= Len(s)
    BY <1>6, <1>7, Zenon
  <2> QED BY <1>2, <1>3, <1>4, <2>1, <2>2, <2>3, Zenon DEF AttributesReplay, AttributeWords
<1>10. InAttributes' /\ attr'.ret = attr.ret
  BY <1>2 DEF InAttributes
<1> QED BY <1>2, <1>9, <1>10, Zenon DEF OnlyAttributes

\* A step of the list.
LEMMA AttributesGo ==
    ASSUME Inv, UpdateNext, InAttributes, NEW s, NEW base \in Nat, AttributesReplay(s, base)
    PROVE  \/ OnlyAttributes /\ AttributesReplay(s, base)'
           \/ /\ ReturnAttributes(FALSE) /\ attrsEnd = base + Sum(AttributeLen, s)
              /\ Faithful(s, session) => msg.attrs = s
<1>1. CASE pc = "attrs"
  <2>1. ParseAttributeHeader
    <3>1. ParseNLRI => pc = "nlri"
      BY Zenon DEF ParseNLRI
    <3> QED BY <1>1, <3>1, Zenon DEF UpdateNext, ParseUpdate, WithdrawnParsed, AttributesParsed, UpdateParsed,
          ParseOrigin, ParseMedLocPref, ParseAggregator, ParseAtomicAggregate, ParseNextHop, ParseCommunities,
          ParseUnknown, ParseASPath, ParseASPathSegment, ParseReach, ReachParsed, ParseUnreach, UnreachParsed, Case
  <2>2. CASE Len(msg.attrs) = Len(s)
    <3>1. ReturnAttributes(FALSE)
      BY <2>1, <2>2, AttributesEnd, Zenon
    <3>2. s \in Seq(CanonicalAttributes(session)) /\ attrsEnd = base + Sum(AttributeLen, s)
          /\ (Faithful(s, session) => msg.attrs = SubSeq(s, 1, Len(msg.attrs)))
      BY Zenon DEF AttributesReplay
    <3>3. SubSeq(s, 1, Len(s)) = s
      BY <3>2, OneFurther, Zenon
    <3> QED BY <2>2, <3>1, <3>2, <3>3, Zenon
  <2>3. CASE Len(msg.attrs) # Len(s)
    <3>1. /\ pc' = "attr" /\ attr'.ret = attr.ret /\ UNCHANGED <<b, session, attrsEnd, nlri, msg, caller>>
          /\ AttributesReplay(s, base)'
      BY <2>1, <2>3, AttributeEntered, Zenon
    <3>2. InAttributes'
      BY <3>1 DEF InAttributes
    <3> QED BY <3>1, <3>2, Zenon DEF OnlyAttributes
  <2> QED BY <2>2, <2>3, Zenon
<1>2. CASE pc # "attrs"
  <2>1. PICK a : a = s[Len(msg.attrs) + 1]
    BY Zenon
  <2>2. a \in CanonicalAttributes(session) /\ Writable(a) /\ AttributeReplay(a)
    <3> DEFINE n == Len(msg.attrs)  m == Len(s)
    <3>1. n < m /\ AttributeReplay(a)
      BY <1>2, <2>1, Zenon DEF AttributesReplay
    <3>2. n \in Nat /\ m \in Nat
      BY AttributesFacts, Zenon
    <3>3. n + 1 \in 1 .. m
      <4> HIDE DEF n, m
      <4> QED BY <3>1, <3>2
    <3> QED BY <2>1, <3>1, <3>3, AttributesFacts, Zenon
  <2>3. Continues(a) \/ Added(a)
    BY <1>2, <2>2, AttributeGoes, Zenon
  <2> QED BY <1>2, <2>1, <2>3, AttributeContinues, AttributeAdded, Zenon
<1> QED BY <1>1, <1>2, Zenon

-----------------------------------------------------------------------------
(* An UPDATE.                                                               *)

\* Where its parts begin.
AttributesAt(m) == 4 + LenNLRIs(m.withdrawn, m.addPath)
PrefixesAt(m)   == AttributesAt(m) + LenPathAttribute(m)

\* What is written one after the other is there one after the other.
LEMMA HasNext ==
    ASSUME b \in Seq(Byte), NEW k \in Nat, NEW n \in Nat, NEW l \in Nat, NEW x \in Bs(n), NEW y \in Bs(l),
           Has(k, x \o y)
    PROVE  Has(k, x) /\ Has(k + n, y)
<1>1. x \in Seq(Byte) /\ y \in Seq(Byte) /\ Len(x) = n
  BY DEF Bs
<1> QED BY <1>1, HasBoth, Zenon

\* Its parts are where they are looked for.
LEMMA UpdateLayout ==
    ASSUME NEW m \in Updates, Sound(m.attrs), LenPacket(m) <= MaxMessage, b = WriteUpdate(m)
    PROVE  /\ b \in Seq(Byte) /\ LenNLRIs(m.withdrawn, m.addPath) \in Nat /\ LenPathAttribute(m) \in Nat
           /\ LenNLRIs(m.nlri, m.addPath) \in Nat /\ AttributesAt(m) \in Nat /\ PrefixesAt(m) \in Nat
           /\ Size = PrefixesAt(m) + LenNLRIs(m.nlri, m.addPath) /\ Size <= MaxMessage
           /\ Uint16(0) = LenNLRIs(m.withdrawn, m.addPath)
           /\ Has(2, WriteNLRIs(m.withdrawn, m.addPath))
           /\ Uint16(2 + LenNLRIs(m.withdrawn, m.addPath)) = LenPathAttribute(m)
           /\ Has(AttributesAt(m), Concat(WriteAttribute, m.attrs))
           /\ Has(PrefixesAt(m), WriteNLRIs(m.nlri, m.addPath))
<1> DEFINE gone == WriteNLRIs(m.withdrawn, m.addPath)
           attributes == Concat(WriteAttribute, m.attrs)
           new == WriteNLRIs(m.nlri, m.addPath)
           nGone == LenNLRIs(m.withdrawn, m.addPath)
           nAttributes == LenPathAttribute(m)
           nNew == LenNLRIs(m.nlri, m.addPath)
<1>1. /\ m.withdrawn \in Seq(Routes) /\ m.nlri \in Seq(Routes) /\ m.addPath \in BOOLEAN /\ m.attrs \in Seq(Attributes)
      /\ m.type = "UPDATE"
  BY DEF Updates
<1>2. gone \in Bs(nGone) /\ nGone \in Nat /\ new \in Bs(nNew) /\ nNew \in Nat
  BY <1>1, WriteNLRIsLen, Zenon DEF Bs
<1>3. attributes \in Bs(nAttributes) /\ nAttributes \in Nat
  <2>1. Attributes \subseteq Attributes \cup Pointers
    OBVIOUS
  <2>2. m.attrs \in Seq(Attributes \cup Pointers)
    BY <1>1, <2>1, SeqInto, Zenon
  <2> QED BY <2>2, WriteAttributesLen, Zenon DEF Sound, LenPathAttribute, Bs
<1>4. /\ WriteUpdate(m) = U16(nGone) \o gone \o U16(nAttributes) \o attributes \o new
      /\ UpdateLen(m) = 4 + nGone + nAttributes + nNew
  BY Zenon DEF WriteUpdate, UpdateLen
<1>5. b \in Seq(Byte) /\ Size = UpdateLen(m) /\ Has(0, b)
  <2>1. m \in Updates \cup Conversions
    OBVIOUS
  <2>2. b \in Seq(Byte) /\ Len(b) = UpdateLen(m)
    BY <2>1, WriteUpdateLen, Zenon
  <2> QED BY <2>2, HasAll, Zenon DEF Size
<1>6. GetBGPHeaderLen + UpdateLen(m) <= MaxMessage
  <2>1. LenContent(m) = UpdateLen(m)
    BY <1>1 DEF LenContent
  <2> QED BY <2>1, Zenon DEF LenPacket
<1> HIDE DEF gone, attributes, new, nGone, nAttributes, nNew
<1>7. nGone <= MaxUint16 /\ nAttributes <= MaxUint16 /\ Size <= MaxMessage
  BY <1>2, <1>3, <1>4, <1>5, <1>6 DEF MaxUint16, MaxMessage, GetBGPHeaderLen
<1>8. U16(nGone) \in Bs(2) /\ U16(nAttributes) \in Bs(2)
  BY <1>2, <1>3, BsBytes
<1> DEFINE c1 == U16(nGone) \o gone
           c2 == c1 \o U16(nAttributes)
           c3 == c2 \o attributes
           c4 == c3 \o new
<1>9. b = c4
  BY <1>4, Zenon
<1>10. /\ 0 \in Nat /\ 2 \in Nat /\ 2 + nGone \in Nat /\ 4 + nGone \in Nat /\ 4 + nGone + nAttributes \in Nat
       /\ (2 + nGone) + 2 = 4 + nGone /\ 0 + 2 = 2
       /\ 0 + (2 + nGone) = 2 + nGone /\ 0 + (4 + nGone) = 4 + nGone
       /\ 0 + (4 + nGone + nAttributes) = 4 + nGone + nAttributes
  BY <1>2, <1>3
<1>11. c1 \in Bs(2 + nGone)
  BY <1>2, <1>8, <1>10, BsAppend, Zenon
<1>12. c2 \in Bs(4 + nGone)
  <2> HIDE DEF c1
  <2>1. c2 \in Bs((2 + nGone) + 2)
    BY <1>8, <1>10, <1>11, BsAppend, Zenon
  <2> QED BY <1>10, <2>1, Zenon
<1>13. c3 \in Bs(4 + nGone + nAttributes)
  <2> HIDE DEF c2
  <2> QED BY <1>3, <1>10, <1>12, BsAppend, Zenon
<1>14. Has(0, c3) /\ Has(4 + nGone + nAttributes, new)
  <2> DEFINE k == 4 + nGone + nAttributes
  <2>1. Has(0, c3 \o new) /\ k \in Nat /\ c3 \in Bs(k) /\ 0 \in Nat
    BY <1>5, <1>9, <1>10, <1>13
  <2>2. 0 + k = k
    BY <1>10
  <2> HIDE DEF c3, k
  <2>3. Has(0, c3) /\ Has(0 + k, new)
    BY <1>2, <1>5, <2>1, HasNext, Zenon
  <2> QED BY <2>2, <2>3, Zenon DEF k
<1>15. Has(0, c2) /\ Has(4 + nGone, attributes)
  <2> HIDE DEF c2
  <2> QED BY <1>3, <1>5, <1>10, <1>12, <1>14, HasNext, Zenon
<1>16. Has(0, c1) /\ Has(2 + nGone, U16(nAttributes))
  <2> HIDE DEF c1
  <2> QED BY <1>8, <1>5, <1>10, <1>11, <1>15, HasNext, Zenon
<1>17. Has(0, U16(nGone)) /\ Has(2, gone)
  <2>1. Has(0, U16(nGone) \o gone) /\ 0 \in Nat /\ 2 \in Nat
    BY <1>16
  <2>2. Has(0, U16(nGone)) /\ Has(0 + 2, gone)
    BY <1>2, <1>5, <1>8, <2>1, HasNext, Zenon
  <2> QED BY <2>2
<1>18. Uint16(0) = nGone /\ Uint16(2 + nGone) = nAttributes
  BY <1>2, <1>3, <1>7, <1>10, <1>16, <1>17, HasU16, Zenon
<1>19. Size = 4 + nGone + nAttributes + nNew
  BY <1>4, <1>5, Zenon
<1>20. AttributesAt(m) = 4 + nGone /\ PrefixesAt(m) = 4 + nGone + nAttributes
  BY Zenon DEF AttributesAt, PrefixesAt, nGone, nAttributes
<1> QED BY <1>2, <1>3, <1>5, <1>7, <1>10, <1>14, <1>15, <1>17, <1>18, <1>19, <1>20, Zenon
       DEF gone, attributes, new, nGone, nAttributes, nNew

\* All its attributes can be written.
LEMMA AllWritable ==
    ASSUME NEW s \in Seq(Attributes), Sound(s), Sum(AttributeLen, s) <= MaxUint16
    PROVE  \A k \in DOMAIN s : Writable(s[k])
<1> DEFINE t == AttributeWords(s)
<1>1. /\ t \in Seq(Seq(Byte)) /\ Len(t) = Len(s)
      /\ Sum(AttributeLen, s) = Upto(t, Len(t))
      /\ \A k \in 1 .. Len(s) : Len(t[k]) = AttributeLen(s[k])
  BY AttributeWordsType, Zenon
<1>2. DOMAIN s = 1 .. Len(s) /\ \A k \in 1 .. Len(s) : s[k] \in Attributes
  BY ElementsOf, Zenon
<1>3. SUFFICES ASSUME NEW k \in 1 .. Len(s) PROVE Writable(s[k])
  BY <1>2, Zenon
<1>4. /\ Upto(t, k - 1) \in Nat /\ Upto(t, k) = Upto(t, k - 1) + Len(t[k]) /\ Upto(t, k) <= Upto(t, Len(t))
      /\ Upto(t, k) \in Nat /\ Upto(t, Len(t)) \in Nat /\ Len(t[k]) \in Nat
  BY <1>1, WordFits, Zenon
<1>5. AttributeLen(s[k]) <= MaxUint16
  <2> DEFINE u == Upto(t, k - 1)  v == Upto(t, k)  z == Upto(t, Len(t))  l == Len(t[k])
  <2>1. u \in Nat /\ v = u + l /\ v <= z /\ v \in Nat /\ z \in Nat /\ l \in Nat /\ z <= MaxUint16
    BY <1>1, <1>4, Zenon
  <2> HIDE DEF u, v, z, l
  <2>2. l <= MaxUint16
    BY <2>1 DEF MaxUint16
  <2>3. l = AttributeLen(s[k])
    BY <1>1, Zenon DEF l
  <2> QED BY <2>2, <2>3, Zenon
<1>6. s[k].code = AGGREGATOR => Len(s[k].id) = 4
  BY <1>2, Zenon DEF Sound
<1> DEFINE a == s[k]  size == ContentLen(a)
<1>7. ContentLen(a) \in Nat
  <2>1. a \in Attributes \cup Pointers
    BY <1>2, Zenon
  <2> QED BY <2>1, <1>6, ContentType, Zenon
<1>8. AttributeLen(a) = AttributeHeaderLen(size) + size /\ AttributeHeaderLen(size) \in {3, 4}
  <2>1. AttributeHeaderLen(size) \in {3, 4}
    BY DEF AttributeHeaderLen
  <2> QED BY <2>1, Zenon DEF AttributeLen
<1>9. size <= MaxUint16
  <2> DEFINE h == AttributeHeaderLen(size)
  <2> HIDE DEF h, size
  <2>1. h \in {3, 4} /\ size \in Nat /\ h + size <= MaxUint16
    BY <1>5, <1>7, <1>8, Zenon DEF h, size
  <2> QED BY <2>1 DEF MaxUint16
<1> QED BY <1>6, <1>9, Zenon DEF Writable

\* ParseNLRI begins, for prefixes of IPv4.
LEMMA PrefixesBegin ==
    ASSUME b' = b, NEW path \in BOOLEAN, NEW s, s \in Seq(CanonicalPrefixes(4, path)),
           NEW from \in Nat, NEW to, NEW ret, CallParseNLRI(from, to, AFI_IPV4, path, ret),
           Has(from, WriteNLRIs(s, path)), to = from + LenNLRIs(s, path)
    PROVE  PrefixesReplay(s, path, from)' /\ pc' = "nlri" /\ nlri'.ret = ret
<1>1. /\ i' = from /\ end' = to /\ pc' = "nlri"
      /\ nlri' = [size |-> 4, path |-> path, list |-> <<>>, ret |-> ret]
  <2>1. AFI_IPV4 # AFI_IPV6
    BY DEF AFI_IPV4, AFI_IPV6
  <2> QED BY <2>1, Zenon DEF CallParseNLRI
<1>2. nlri'.size = 4 /\ nlri'.path = path /\ nlri'.list = <<>> /\ nlri'.ret = ret
  BY <1>1
<1> DEFINE P == CanonicalPrefixes(4, path)
<1>3. s \in Seq(P)
  OBVIOUS
<1>4. Len(nlri'.list) = 0 /\ Len(nlri'.list) <= Len(s) /\ nlri'.list = SubSeq(s, 1, Len(nlri'.list))
  <2> HIDE DEF P
  <2>1. Len(nlri'.list) = 0
    BY <1>2
  <2>2. SubSeq(s, 1, 0) = <<>> /\ Len(s) \in Nat
    BY <1>3, OneFurther
  <2> QED BY <1>2, <2>1, <2>2
<1>5. i' = from + Upto(NLRIWords(s, path), 0)
  <2>1. s \in Seq(Routes)
    <3>1. 4 \in {4, 16}
      OBVIOUS
    <3> QED BY <3>1, PrefixesAreRoutes, Zenon
  <2>2. NLRIWords(s, path) \in Seq(Seq(Byte))
    BY <2>1, NLRIWordsType, Zenon
  <2>3. Upto(NLRIWords(s, path), 0) = 0
    BY <2>2, UptoSteps, Zenon
  <2> QED BY <1>1, <2>3
<1>6. Has(from, WriteNLRIs(s, path))'
  BY HasStays, Zenon
<1>7. (pc = "nlri" => /\ Len(nlri.list) <= Len(s) /\ nlri.list = SubSeq(s, 1, Len(nlri.list))
                      /\ i = from + Upto(NLRIWords(s, path), Len(nlri.list)))'
  BY <1>4, <1>5, Zenon DEF NLRIWords
<1>8. (s \in Seq(CanonicalPrefixes(nlri.size, path)))'
  BY <1>2, Zenon
<1> QED BY <1>1, <1>2, <1>6, <1>7, <1>8, Zenon DEF PrefixesReplay

\* The UPDATE m is decoded.
UpdateReplay(m) ==
    /\ m \in CanonicalUpdates(session) /\ Sound(m.attrs) /\ LenPacket(m) <= MaxMessage
    /\ pc = "update" \/ InUpdate \/ pc = "done"
    /\ pc # "done" => b = WriteUpdate(m)
    /\ InUpdate => msg.addPath = m.addPath
    /\ Listing("withdrawn") => msg.attrs = <<>> /\ PrefixesReplay(m.withdrawn, m.addPath, 2)
    /\ InUpdate /\ ~Listing("withdrawn") => msg.withdrawn = m.withdrawn
    /\ InAttributes => attr.ret = "attributes" /\ AttributesReplay(m.attrs, AttributesAt(m))
    /\ pc = "attributes" => ~failed /\ attrsEnd = PrefixesAt(m)
    /\ pc = "attributes" \/ Listing("prefixes") => (Faithful(m.attrs, session) => msg.attrs = m.attrs)
    /\ Listing("prefixes") => PrefixesReplay(m.nlri, m.addPath, PrefixesAt(m))
    /\ pc = "done" => (Faithful(m.attrs, session) => msg = m)

\* What stays of it.
LEMMA UpdateFacts ==
    ASSUME NEW m, UpdateReplay(m)
    PROVE  /\ m \in Updates /\ m \in CanonicalUpdates(session) /\ Sound(m.attrs) /\ LenPacket(m) <= MaxMessage
           /\ m.addPath = InAfiSafi(AFI_IPV4, SAFI_UNICAST) /\ m.addPath \in BOOLEAN
           /\ m.withdrawn \in Seq(CanonicalPrefixes(4, m.addPath))
           /\ m.nlri \in Seq(CanonicalPrefixes(4, m.addPath))
           /\ m.attrs \in Seq(CanonicalAttributes(session))
<1>1. m \in CanonicalUpdates(session) /\ Sound(m.attrs) /\ LenPacket(m) <= MaxMessage
  BY Zenon DEF UpdateReplay
<1>2. m \in Updates /\ UpdateReadWith(m, session) /\ m.attrs \in Seq(CanonicalAttributes(session))
  BY <1>1, Zenon DEF CanonicalUpdates
<1>3. m.addPath \in BOOLEAN
  BY <1>2 DEF Updates
<1> QED BY <1>1, <1>2, <1>3, Zenon DEF UpdateReadWith, InAfiSafi

\* It begins.
LEMMA UpdateBegins ==
    ASSUME Inv, ParseUpdate, NEW m, UpdateReplay(m)
    PROVE  UpdateReplay(m)'
<1> DEFINE path == InAfiSafi(AFI_IPV4, SAFI_UNICAST)  wl == LenNLRIs(m.withdrawn, m.addPath)
<1>1. pc = "update" /\ b = WriteUpdate(m)
  BY Zenon DEF ParseUpdate, UpdateReplay
<1>2. /\ b \in Seq(Byte) /\ wl \in Nat /\ LenPathAttribute(m) \in Nat /\ LenNLRIs(m.nlri, m.addPath) \in Nat
      /\ Size = PrefixesAt(m) + LenNLRIs(m.nlri, m.addPath)
      /\ Uint16(0) = wl /\ Has(2, WriteNLRIs(m.withdrawn, m.addPath))
  BY <1>1, UpdateFacts, UpdateLayout, Zenon
<1>3. ~(Size < 4) /\ ~(Uint16(0) + 4 > Size) /\ 2 + Uint16(0) <= Size
  <2> HIDE DEF wl
  <2>1. PrefixesAt(m) = 4 + wl + LenPathAttribute(m)
    BY Zenon DEF PrefixesAt, AttributesAt, wl
  <2> QED BY <1>2, <2>1
<1>4. /\ msg' = [type |-> "UPDATE", withdrawn |-> <<>>, attrs |-> <<>>, nlri |-> <<>>, addPath |-> path]
      /\ CallParseNLRI(2, 2 + wl, AFI_IPV4, path, "withdrawn")
      /\ UNCHANGED <<b, session, attrsEnd, attrEnd, attr, caller>>
  BY <1>2, <1>3, Zenon DEF ParseUpdate, Reading
<1>5. path = m.addPath /\ m.addPath \in BOOLEAN /\ m.withdrawn \in Seq(CanonicalPrefixes(4, m.addPath))
  BY UpdateFacts, Zenon
<1>6. PrefixesReplay(m.withdrawn, m.addPath, 2)' /\ pc' = "nlri" /\ nlri'.ret = "withdrawn"
  <2>1. PICK t, f : t = 2 + wl /\ f = 2
    BY Zenon
  <2>2. /\ Has(f, WriteNLRIs(m.withdrawn, m.addPath)) /\ f \in Nat /\ b' = b
        /\ CallParseNLRI(f, t, AFI_IPV4, m.addPath, "withdrawn") /\ t = f + LenNLRIs(m.withdrawn, m.addPath)
    <3>1. f \in Nat
      BY <2>1
    <3> QED BY <1>2, <1>4, <1>5, <2>1, <3>1, Zenon
  <2>3. PrefixesReplay(m.withdrawn, m.addPath, f)' /\ pc' = "nlri" /\ nlri'.ret = "withdrawn"
    BY <1>5, <2>2, PrefixesBegin, Zenon
  <2> QED BY <2>1, <2>3, Zenon
<1>7. msg'.attrs = <<>> /\ msg'.addPath = m.addPath
  BY <1>4, <1>5
<1>8. /\ InUpdate' /\ Listing("withdrawn")' /\ ~InAttributes' /\ pc' # "attributes" /\ ~Listing("prefixes")'
      /\ pc' # "done"
  BY <1>6 DEF InUpdate, Listing, InNLRI, InAttributes
<1>9. m \in CanonicalUpdates(session)' /\ b' = b
  <2>1. session' = session /\ b' = b
    BY <1>4
  <2> QED BY <2>1, UpdateFacts, Zenon DEF CanonicalUpdates, UpdateReadWith, CanonicalAttributes, ReadWith, Family
<1> QED BY <1>1, <1>6, <1>7, <1>8, <1>9, UpdateFacts, Zenon DEF UpdateReplay

\* The message is canonical as long as its session is the same.
LEMMA UpdateStays ==
    ASSUME session' = session, NEW m, m \in CanonicalUpdates(session)
    PROVE  m \in CanonicalUpdates(session)'
BY Zenon DEF CanonicalUpdates, UpdateReadWith, CanonicalAttributes, ReadWith, Family

\* A round of ParseNLRI in the withdrawn routes.
LEMMA WithdrawnGo ==
    ASSUME Inv, ParseNLRI, NEW m, UpdateReplay(m), nlri.ret = "withdrawn"
    PROVE  UpdateReplay(m)'
<1>1. pc = "nlri"
  BY Zenon DEF ParseNLRI
<1>2. /\ InUpdate /\ Listing("withdrawn") /\ pc # "done"
  BY <1>1 DEF InUpdate, Listing, InNLRI
<1>3. PICK f \in Nat : f = 2
  OBVIOUS
<1>4. b = WriteUpdate(m) /\ msg.addPath = m.addPath /\ msg.attrs = <<>> /\ PrefixesReplay(m.withdrawn, m.addPath, f)
  BY <1>2, <1>3, Zenon DEF UpdateReplay
<1>5. /\ OnlyNLRI /\ PrefixesReplay(m.withdrawn, m.addPath, f)'
      /\ (pc' = "nlri" \/ (pc' = nlri.ret /\ pc' # "nlri"))
  BY <1>4, PrefixesStep, Zenon
<1>6. UNCHANGED <<b, session, msg>> /\ nlri'.ret = nlri.ret
  BY <1>5, Zenon DEF OnlyNLRI
<1>7. /\ InUpdate' /\ Listing("withdrawn")' /\ ~InAttributes' /\ pc' # "attributes" /\ ~Listing("prefixes")'
      /\ pc' # "done"
  BY <1>5, <1>6 DEF InUpdate, Listing, InNLRI, InAttributes
<1>8. m \in CanonicalUpdates(session)'
  BY <1>6, UpdateFacts, UpdateStays, Zenon
<1>9. PrefixesReplay(m.withdrawn, m.addPath, 2)'
  BY <1>3, <1>5, Zenon
<1>10. b' = WriteUpdate(m) /\ msg'.addPath = m.addPath /\ msg'.attrs = <<>>
  BY <1>4, <1>6
<1> QED BY <1>7, <1>8, <1>9, <1>10, UpdateFacts, Zenon DEF UpdateReplay

\* A round of ParseNLRI in the prefixes.
LEMMA NewGo ==
    ASSUME Inv, ParseNLRI, NEW m, UpdateReplay(m), nlri.ret = "prefixes"
    PROVE  UpdateReplay(m)'
<1>1. pc = "nlri"
  BY Zenon DEF ParseNLRI
<1>2. /\ InUpdate /\ Listing("prefixes") /\ ~Listing("withdrawn") /\ pc # "done"
  BY <1>1 DEF InUpdate, Listing, InNLRI
<1>3. /\ b = WriteUpdate(m) /\ msg.addPath = m.addPath /\ msg.withdrawn = m.withdrawn
      /\ (Faithful(m.attrs, session) => msg.attrs = m.attrs)
      /\ PrefixesReplay(m.nlri, m.addPath, PrefixesAt(m))
  BY <1>2, Zenon DEF UpdateReplay
<1>4. PrefixesAt(m) \in Nat
  BY <1>3, UpdateFacts, UpdateLayout, Zenon
<1>5. /\ OnlyNLRI /\ PrefixesReplay(m.nlri, m.addPath, PrefixesAt(m))'
      /\ (pc' = "nlri" \/ (pc' = nlri.ret /\ pc' # "nlri"))
  BY <1>3, <1>4, PrefixesStep, Zenon
<1>6. UNCHANGED <<b, session, msg>> /\ nlri'.ret = nlri.ret
  BY <1>5, Zenon DEF OnlyNLRI
<1>7. /\ InUpdate' /\ ~Listing("withdrawn")' /\ ~InAttributes' /\ pc' # "attributes" /\ Listing("prefixes")'
      /\ pc' # "done"
  BY <1>5, <1>6 DEF InUpdate, Listing, InNLRI, InAttributes
<1>8. m \in CanonicalUpdates(session)'
  BY <1>6, UpdateFacts, UpdateStays, Zenon
<1>9. /\ b' = WriteUpdate(m) /\ msg'.addPath = m.addPath /\ msg'.withdrawn = m.withdrawn
      /\ (Faithful(m.attrs, session)' => msg'.attrs = m.attrs)
  <2>1. Faithful(m.attrs, session)' = Faithful(m.attrs, session)
    BY <1>6, Zenon
  <2>2. msg' = msg /\ b' = b
    BY <1>6
  <2> QED BY <1>3, <2>1, <2>2, Zenon
<1> QED BY <1>5, <1>7, <1>8, <1>9, UpdateFacts, Zenon DEF UpdateReplay

\* The message is whole.
LEMMA UpdateEnds ==
    ASSUME Inv, UpdateParsed, NEW m, UpdateReplay(m)
    PROVE  UpdateReplay(m)' /\ pc' = "done" /\ (Faithful(m.attrs, session) => msg' = m)
<1>1. pc = "prefixes" /\ InUpdate /\ Listing("prefixes") /\ ~Listing("withdrawn")
  BY DEF UpdateParsed, InUpdate, Listing, InNLRI
<1>2. /\ msg.addPath = m.addPath /\ msg.withdrawn = m.withdrawn
      /\ (Faithful(m.attrs, session) => msg.attrs = m.attrs)
      /\ PrefixesReplay(m.nlri, m.addPath, PrefixesAt(m))
  BY <1>1, Zenon DEF UpdateReplay
<1>3. nlri.list = m.nlri /\ ~failed
  BY <1>1, <1>2 DEF PrefixesReplay
<1>4. pc' = "done" /\ session' = session /\ msg' = [msg EXCEPT !.nlri = nlri.list]
  BY <1>3, Zenon DEF UpdateParsed
<1>5. msg \in Updates /\ m \in Updates
  BY <1>1, UpdateFacts, Zenon DEF Inv, Typed, MessageTyped
<1>6. ASSUME Faithful(m.attrs, session) PROVE msg' = m
  <2> DEFINE l == m.nlri
  <2>1. msg' = [msg EXCEPT !.nlri = l]
    BY <1>3, <1>4, Zenon
  <2>2. /\ msg.addPath = m.addPath /\ msg.withdrawn = m.withdrawn /\ msg.attrs = m.attrs
    BY <1>2, <1>6
  <2>3. /\ msg = [type |-> "UPDATE", withdrawn |-> msg.withdrawn, attrs |-> msg.attrs, nlri |-> msg.nlri,
                  addPath |-> msg.addPath]
        /\ m = [type |-> "UPDATE", withdrawn |-> m.withdrawn, attrs |-> m.attrs, nlri |-> m.nlri,
                  addPath |-> m.addPath]
    BY <1>5 DEF Updates
  <2> QED BY <2>1, <2>2, <2>3
<1>7. m \in CanonicalUpdates(session)'
  BY <1>4, UpdateFacts, UpdateStays, Zenon
<1>8. ~InUpdate' /\ ~Listing("withdrawn")' /\ ~InAttributes' /\ pc' # "attributes" /\ ~Listing("prefixes")'
  BY <1>4 DEF InUpdate, Listing, InNLRI, InAttributes
<1>9. Faithful(m.attrs, session)' = Faithful(m.attrs, session)
  BY <1>4, Zenon
<1>10. UpdateReplay(m)'
  BY <1>4, <1>6, <1>7, <1>8, <1>9, UpdateFacts, Zenon DEF UpdateReplay
<1> QED BY <1>4, <1>6, <1>10

\* The attributes begin.
LEMMA AttributesBegin ==
    ASSUME NEW s, NEW base \in Nat, NEW to, NEW ret,
           (s \in Seq(CanonicalAttributes(session)))', Sound(s), \A k \in DOMAIN s : Writable(s[k]),
           Has(base, Concat(WriteAttribute, s))', CallParsePathAttribute(base, to, ret),
           to = base + Sum(AttributeLen, s), msg'.attrs = <<>>
    PROVE  /\ AttributesReplay(s, base)' /\ attr'.ret = ret /\ pc' = "attrs"
<1>1. i' = base /\ attrsEnd' = to /\ attr'.ret = ret /\ pc' = "attrs"
  <2>1. i' = base /\ attrsEnd' = to /\ attr' = [ret |-> ret] /\ pc' = "attrs"
    BY Zenon DEF CallParsePathAttribute
  <2> QED BY <2>1
<1> DEFINE A == CanonicalAttributes(session)'
<1>2. s \in Seq(A)
  BY Zenon
<1>3. SubSeq(s, 1, 0) = <<>> /\ Len(s) \in Nat /\ Len(<<>>) = 0
  <2> HIDE DEF A
  <2>1. Len(<<>>) = 0
    OBVIOUS
  <2> QED BY <1>2, <2>1, OneFurther
<1>4. Upto(AttributeWords(s), 0) = 0
  <2>1. s \in Seq(Attributes)
    <3>1. A \subseteq Attributes
      BY Zenon DEF CanonicalAttributes
    <3> HIDE DEF A
    <3> QED BY <1>2, <3>1, SeqInto, Zenon
  <2>2. AttributeWords(s) \in Seq(Seq(Byte))
    BY <2>1, AttributeWordsType, Zenon
  <2> QED BY <2>2, UptoSteps, Zenon
<1>5. Len(msg'.attrs) = 0 /\ Len(msg'.attrs) <= Len(s) /\ msg'.attrs = SubSeq(s, 1, Len(msg'.attrs))
  BY <1>3
<1>6. i' = base + Upto(AttributeWords(s), Len(msg'.attrs))
  <2>1. base + 0 = base
    OBVIOUS
  <2> QED BY <1>1, <1>4, <1>5, <2>1, Zenon
<1>7. AttributesReplay(s, base)'
  BY <1>1, <1>5, <1>6, Zenon DEF AttributesReplay, AttributeWords
<1> QED BY <1>1, <1>7

\* The withdrawn routes are whole.
LEMMA WithdrawnEnds ==
    ASSUME Inv, WithdrawnParsed, NEW m, UpdateReplay(m)
    PROVE  UpdateReplay(m)'
<1> DEFINE wl == LenNLRIs(m.withdrawn, m.addPath)  al == LenPathAttribute(m)
<1>1. pc = "withdrawn" /\ InUpdate /\ Listing("withdrawn") /\ pc # "done"
  BY DEF WithdrawnParsed, InUpdate, Listing, InNLRI
<1>2. b = WriteUpdate(m) /\ msg.addPath = m.addPath /\ msg.attrs = <<>> /\ PrefixesReplay(m.withdrawn, m.addPath, 2)
  BY <1>1, Zenon DEF UpdateReplay
<1>3. nlri.list = m.withdrawn /\ ~failed /\ end = 2 + wl
  BY <1>1, <1>2 DEF PrefixesReplay
<1>4. /\ b \in Seq(Byte) /\ wl \in Nat /\ al \in Nat /\ LenNLRIs(m.nlri, m.addPath) \in Nat
      /\ AttributesAt(m) \in Nat /\ Size = PrefixesAt(m) + LenNLRIs(m.nlri, m.addPath) /\ Size <= MaxMessage
      /\ Uint16(2 + wl) = al /\ Has(AttributesAt(m), Concat(WriteAttribute, m.attrs))
  BY <1>2, UpdateFacts, UpdateLayout, Zenon
<1>5. Uint16(end) = al
  BY <1>3, <1>4, Zenon
<1>6. /\ end + 2 <= Size /\ ~(al + end + 2 > Size) /\ end + 2 + al <= Size /\ end + 2 = AttributesAt(m)
      /\ al <= MaxUint16
  <2> HIDE DEF wl, al
  <2>1. PrefixesAt(m) = 4 + wl + al /\ AttributesAt(m) = 4 + wl
    BY Zenon DEF PrefixesAt, AttributesAt, wl, al
  <2> QED BY <1>3, <1>4, <2>1 DEF MaxMessage, MaxUint16
<1>7. /\ msg' = [msg EXCEPT !.withdrawn = nlri.list]
      /\ CallParsePathAttribute(end + 2, end + 2 + al, "attributes")
      /\ UNCHANGED <<b, session, end, attrEnd, nlri, failed, caller>>
  <2> HIDE DEF al
  <2> QED BY <1>3, <1>5, <1>6, Zenon DEF WithdrawnParsed, Reading
<1>8. msg \in Updates /\ m \in Updates
  BY <1>1, UpdateFacts, Zenon DEF Inv, Typed, MessageTyped
<1>9. msg'.withdrawn = m.withdrawn /\ msg'.addPath = m.addPath /\ msg'.attrs = <<>>
  <2> DEFINE l == m.withdrawn
  <2>1. msg' = [msg EXCEPT !.withdrawn = l]
    BY <1>3, <1>7, Zenon
  <2> HIDE DEF l
  <2>2. msg'.withdrawn = l /\ msg'.addPath = msg.addPath /\ msg'.attrs = msg.attrs
    BY ONLY <1>8, <2>1 DEF Updates
  <2> QED BY <1>2, <2>2, Zenon DEF l
<1>10. session' = session /\ b' = b
  BY <1>7
<1>11. m \in CanonicalUpdates(session)'
  BY <1>10, UpdateFacts, UpdateStays, Zenon
<1>12. AttributesReplay(m.attrs, AttributesAt(m))' /\ attr'.ret = "attributes" /\ pc' = "attrs"
  <2>1. (m.attrs \in Seq(CanonicalAttributes(session)))'
    BY <1>11, Zenon DEF CanonicalUpdates
  <2>2. m.attrs \in Seq(Attributes) /\ Sum(AttributeLen, m.attrs) <= MaxUint16 /\ Sound(m.attrs)
    <3>1. m.attrs \in Seq(Attributes)
      BY <1>8 DEF Updates
    <3> QED BY <1>6, <3>1, UpdateFacts, Zenon DEF LenPathAttribute
  <2>3. \A k \in DOMAIN m.attrs : Writable(m.attrs[k])
    BY <2>2, AllWritable, Zenon
  <2>4. Has(AttributesAt(m), Concat(WriteAttribute, m.attrs))'
    BY <1>4, <1>10, HasStays, Zenon
  <2> DEFINE s == m.attrs  base == AttributesAt(m)  to == base + al
  <2>5. CallParsePathAttribute(base, to, "attributes")
    BY <1>6, <1>7, Zenon
  <2>6. to = base + Sum(AttributeLen, s)
    BY Zenon DEF LenPathAttribute
  <2> QED BY <1>4, <1>9, <2>1, <2>2, <2>3, <2>4, <2>5, <2>6, AttributesBegin, Zenon
<1>13. /\ InUpdate' /\ InAttributes' /\ ~Listing("withdrawn")' /\ pc' # "attributes" /\ ~Listing("prefixes")'
       /\ pc' # "done"
  BY <1>12 DEF InUpdate, Listing, InNLRI, InAttributes
<1>14. b' = WriteUpdate(m)
  BY <1>2, <1>10
<1> QED BY <1>9, <1>11, <1>12, <1>13, <1>14, UpdateFacts, Zenon DEF UpdateReplay

\* The attributes are whole.
LEMMA AttributesWhole ==
    ASSUME Inv, AttributesParsed, NEW m, UpdateReplay(m)
    PROVE  UpdateReplay(m)'
<1>1. pc = "attributes" /\ InUpdate /\ ~Listing("withdrawn") /\ ~Listing("prefixes") /\ pc # "done"
  BY DEF AttributesParsed, InUpdate, Listing, InNLRI
<1>2. /\ b = WriteUpdate(m) /\ msg.addPath = m.addPath /\ msg.withdrawn = m.withdrawn
      /\ ~failed /\ attrsEnd = PrefixesAt(m) /\ (Faithful(m.attrs, session) => msg.attrs = m.attrs)
  BY <1>1, Zenon DEF UpdateReplay
<1>3. /\ LenNLRIs(m.nlri, m.addPath) \in Nat /\ PrefixesAt(m) \in Nat
      /\ Size = PrefixesAt(m) + LenNLRIs(m.nlri, m.addPath) /\ Has(PrefixesAt(m), WriteNLRIs(m.nlri, m.addPath))
  BY <1>2, UpdateFacts, UpdateLayout, Zenon
<1>4. attrsEnd <= Size
  BY <1>2, <1>3
<1>5. /\ CallParseNLRI(PrefixesAt(m), Size, AFI_IPV4, m.addPath, "prefixes")
      /\ UNCHANGED <<b, session, attrsEnd, attrEnd, attr, msg, caller>>
  BY <1>2, <1>4, Zenon DEF AttributesParsed, Reading
<1>6. PICK t : t = Size
  BY Zenon
<1>7. m.addPath \in BOOLEAN /\ m.nlri \in Seq(CanonicalPrefixes(4, m.addPath))
  BY UpdateFacts, Zenon
<1>8. b' = b /\ session' = session /\ msg' = msg
  BY <1>5
<1>9. PrefixesReplay(m.nlri, m.addPath, PrefixesAt(m))' /\ pc' = "nlri" /\ nlri'.ret = "prefixes"
  <2>1. PICK f : f = PrefixesAt(m)
    BY Zenon
  <2>2. /\ CallParseNLRI(f, t, AFI_IPV4, m.addPath, "prefixes") /\ f \in Nat
        /\ t = f + LenNLRIs(m.nlri, m.addPath) /\ Has(f, WriteNLRIs(m.nlri, m.addPath))
    BY <1>3, <1>5, <1>6, <2>1, Zenon
  <2>3. PrefixesReplay(m.nlri, m.addPath, f)' /\ pc' = "nlri" /\ nlri'.ret = "prefixes"
    <3>1. b' = b
      BY <1>8
    <3> DEFINE s == m.nlri  path == m.addPath
    <3>2. /\ path \in BOOLEAN /\ s \in Seq(CanonicalPrefixes(4, path)) /\ f \in Nat
          /\ CallParseNLRI(f, t, AFI_IPV4, path, "prefixes")
          /\ Has(f, WriteNLRIs(s, path)) /\ t = f + LenNLRIs(s, path)
      BY <1>7, <2>2, Zenon
    <3> HIDE DEF s, path
    <3>3. PrefixesReplay(s, path, f)' /\ pc' = "nlri" /\ nlri'.ret = "prefixes"
      BY ONLY <3>1, <3>2, PrefixesBegin, ZenonT(60)
    <3> QED BY <3>3, Zenon DEF s, path
  <2> QED BY <2>1, <2>3, Zenon
<1>10. /\ InUpdate' /\ ~Listing("withdrawn")' /\ ~InAttributes' /\ pc' # "attributes" /\ Listing("prefixes")'
       /\ pc' # "done"
  BY <1>9 DEF InUpdate, Listing, InNLRI, InAttributes
<1>11. m \in CanonicalUpdates(session)'
  BY <1>8, UpdateFacts, UpdateStays, Zenon
<1>12. /\ b' = WriteUpdate(m) /\ msg'.addPath = m.addPath /\ msg'.withdrawn = m.withdrawn
      /\ (Faithful(m.attrs, session)' => msg'.attrs = m.attrs)
  <2>1. Faithful(m.attrs, session)' = Faithful(m.attrs, session)
    BY <1>8, Zenon
  <2> QED BY <1>2, <1>8, <2>1, Zenon
<1> QED BY <1>9, <1>10, <1>11, <1>12, UpdateFacts, Zenon DEF UpdateReplay

\* Decoding among the attributes of m.
LEMMA UpdateAttributesGo ==
    ASSUME Inv, UpdateNext, NEW m, UpdateReplay(m), InAttributes
    PROVE  UpdateReplay(m)'
<1>1. pc # "update" /\ pc # "done" /\ ~Listing("withdrawn") /\ ~Listing("prefixes") /\ pc # "attributes"
  BY DEF Listing, InNLRI, InAttributes
<1>2. InUpdate
  BY <1>1, Zenon DEF UpdateReplay
<1>3. /\ b = WriteUpdate(m) /\ msg.addPath = m.addPath /\ msg.withdrawn = m.withdrawn
      /\ attr.ret = "attributes" /\ AttributesReplay(m.attrs, AttributesAt(m))
  BY <1>1, <1>2, Zenon DEF UpdateReplay
<1>4. AttributesAt(m) \in Nat
  BY <1>3, UpdateFacts, UpdateLayout, Zenon
<1>5. msg \in Updates
  BY <1>2, Zenon DEF Inv, Typed, MessageTyped
<1>6. CASE OnlyAttributes /\ AttributesReplay(m.attrs, AttributesAt(m))'
  <2>1. /\ InAttributes' /\ attr'.ret = "attributes" /\ UNCHANGED <<b, session, attrsEnd, caller>>
        /\ (msg' = msg \/ \E x : msg' = [msg EXCEPT !.attrs = x])
    BY <1>3, <1>6, Zenon DEF OnlyAttributes
  <2>2. msg'.addPath = m.addPath /\ msg'.withdrawn = m.withdrawn
    <3>1. \A x : LET y == [msg EXCEPT !.attrs = x] IN y.addPath = msg.addPath /\ y.withdrawn = msg.withdrawn
      BY <1>5 DEF Updates
    <3> QED BY <1>3, <2>1, <3>1, Zenon
  <2>3. /\ InUpdate' /\ ~Listing("withdrawn")' /\ pc' # "attributes" /\ ~Listing("prefixes")' /\ pc' # "done"
    BY <2>1 DEF InUpdate, Listing, InNLRI, InAttributes
  <2>4. m \in CanonicalUpdates(session)' /\ b' = WriteUpdate(m)
    <3>1. session' = session /\ b' = b
      BY <2>1
    <3> QED BY <1>3, <3>1, UpdateFacts, UpdateStays, Zenon
  <2> QED BY <1>6, <2>1, <2>2, <2>3, <2>4, UpdateFacts, Zenon DEF UpdateReplay
<1>7. CASE /\ ReturnAttributes(FALSE) /\ attrsEnd = AttributesAt(m) + Sum(AttributeLen, m.attrs)
           /\ Faithful(m.attrs, session) => msg.attrs = m.attrs
  <2>1. /\ pc' = "attributes" /\ failed' = FALSE /\ UNCHANGED <<b, session, attrsEnd, msg>>
    BY <1>3, <1>7 DEF ReturnAttributes
  <2>2. /\ InUpdate' /\ ~Listing("withdrawn")' /\ ~Listing("prefixes")' /\ pc' # "done" /\ ~InAttributes'
    BY <2>1 DEF InUpdate, Listing, InNLRI, InAttributes
  <2>3. m \in CanonicalUpdates(session)' /\ b' = WriteUpdate(m) /\ Faithful(m.attrs, session)' = Faithful(m.attrs, session)
    <3>1. session' = session /\ b' = b
      BY <2>1
    <3> QED BY <1>3, <3>1, UpdateFacts, UpdateStays, Zenon
  <2>4. attrsEnd' = PrefixesAt(m)
    BY <1>7, <2>1, Zenon DEF PrefixesAt, LenPathAttribute
  <2>5. ~failed' /\ msg' = msg
    BY <2>1
  <2> QED BY <1>3, <1>7, <2>1, <2>2, <2>3, <2>4, <2>5, UpdateFacts, Zenon DEF UpdateReplay
<1> QED BY <1>3, <1>4, <1>6, <1>7, AttributesGo, Zenon

\* Whatever is decoded next.
LEMMA UpdateGoes ==
    ASSUME Inv, UpdateNext, NEW m, UpdateReplay(m)
    PROVE  UpdateReplay(m)'
<1>1. CASE InAttributes
  BY <1>1, UpdateAttributesGo, Zenon
<1>2. CASE ParseUpdate \/ WithdrawnParsed \/ AttributesParsed \/ UpdateParsed
  BY <1>2, UpdateBegins, WithdrawnEnds, AttributesWhole, UpdateEnds, Zenon
<1>3. CASE ParseNLRI /\ ~InAttributes
  <2>1. pc = "nlri" /\ nlri.ret \notin {"reach", "unreach"}
    BY <1>3 DEF ParseNLRI, InAttributes
  <2>2. InUpdate
    BY <2>1, Zenon DEF UpdateReplay
  <2>3. nlri.ret \in {"withdrawn", "prefixes"}
    BY <1>3, <2>1, <2>2 DEF InUpdate
  <2> QED BY <1>3, <2>3, WithdrawnGo, NewGo, Zenon
<1>4. CASE UpdateNext /\ ~ParseNLRI /\ ~(ParseUpdate \/ WithdrawnParsed \/ AttributesParsed \/ UpdateParsed)
  <2>1. pc \in {"attrs", "attr", "aspath", "reach", "unreach"}
    BY <1>4 DEF UpdateNext, ParseAttributeHeader, ParseOrigin, ParseMedLocPref, ParseAggregator,
          ParseAtomicAggregate, ParseNextHop, ParseCommunities, ParseUnknown, ParseASPath, ParseASPathSegment,
          ParseReach, ReachParsed, ParseUnreach, UnreachParsed, Case
  <2>2. InAttributes
    BY <2>1, Zenon DEF InAttributes
  <2> QED BY <2>2, <1>1, Zenon
<1> QED BY <1>1, <1>2, <1>3, <1>4, Zenon

-----------------------------------------------------------------------------
(* A message.                                                               *)

\* A part of a sequence, by its elements.
LEMMA SliceIs ==
    ASSUME NEW n \in Nat, NEW l \in Nat, NEW z \in Seq(Byte), n + l <= Len(z), NEW y \in Bs(l),
           \A j \in 1 .. l : z[n + j] = y[j]
    PROVE  SubSeq(z, n + 1, n + l) = y
<1>0. Len(z) \in Nat /\ y \in Seq(Byte) /\ Len(y) = l
  BY DEF Bs
<1>1. PICK h, k : h = n + 1 /\ k = n + l
  OBVIOUS
<1>2. h \in Int /\ k \in Int /\ 1 <= h /\ h <= k + 1 /\ k <= Len(z) /\ k - h + 1 = l
  BY ONLY <1>0, <1>1, n \in Nat, l \in Nat, n + l <= Len(z)
<1> DEFINE w == SubSeq(z, h, k)
<1>3. w \in Seq(Byte) /\ Len(w) = l
  BY <1>2, SubSlice
<1>4. \A j \in 1 .. l : w[j] = z[h + j - 1]
  BY ONLY <1>2, z \in Seq(Byte), l \in Nat
<1> HIDE DEF w
<1>5. \A j \in 1 .. l : w[j] = y[j]
  <2> TAKE j \in 1 .. l
  <2>1. h + j - 1 = n + j
    BY <1>1
  <2> QED BY <1>4, <2>1
<1>6. w = y
  BY ONLY <1>0, <1>3, <1>5
<1> QED BY <1>1, <1>6, Zenon DEF w

\* The parts of what is written one after the other.
LEMMA PartsOf ==
    ASSUME NEW n \in Nat, NEW l \in Nat, NEW x \in Bs(n), NEW y \in Bs(l)
    PROVE  /\ x \o y \in Seq(Byte) /\ Len(x \o y) = n + l
           /\ \A k \in 1 .. n : (x \o y)[k] = x[k]
           /\ \A k \in 1 .. l : (x \o y)[n + k] = y[k]
           /\ SubSeq(x \o y, n + 1, n + l) = y
<1> DEFINE z == x \o y
<1>1. x \in Seq(Byte) /\ y \in Seq(Byte) /\ Len(x) = n /\ Len(y) = l
  BY Zenon DEF Bs
<1>2. /\ z \in Seq(Byte) /\ Len(z) = n + l
      /\ \A k \in 1 .. n : z[k] = x[k]
      /\ \A k \in 1 .. l : z[n + k] = y[k]
  BY <1>1
<1> HIDE DEF z
<1>3. SubSeq(z, n + 1, n + l) = y
  <2>1. n + l <= Len(z)
    BY <1>2
  <2> QED BY <1>2, <2>1, SliceIs, Zenon
<1> QED BY <1>2, <1>3, Zenon DEF z

\* What is written after the header.
Body(m) == CASE m.type = "OPEN" -> WriteOpen(m)
             [] m.type = "UPDATE" -> WriteUpdate(m)
             [] m.type = "NOTIFICATION" -> WriteNotification(m)
             [] m.type = "KEEPALIVE" -> <<>>
             [] m.type = "ROUTEREFRESH" -> WriteRouteRefresh(m)

\* Its type, by that of the message.
LEMMA BodyType ==
    ASSUME NEW m \in Messages, m.type = "UPDATE" => Sound(m.attrs)
    PROVE  /\ m.type \in {"OPEN", "UPDATE", "NOTIFICATION", "KEEPALIVE"}
           /\ LenContent(m) \in Nat /\ Body(m) \in Bs(LenContent(m))
           /\ m.type = "OPEN" => m \in Opens
           /\ m.type = "UPDATE" => m \in Updates
           /\ m.type = "NOTIFICATION" => m \in Notifications
           /\ m.type = "KEEPALIVE" => m \in KeepAlives
<1>1. CASE m \in Opens
  <2>1. m.type = "OPEN"
    BY <1>1 DEF Opens
  <2>2. Body(m) = WriteOpen(m) /\ LenContent(m) = 10 + LenParams(m)
    BY <2>1, Zenon DEF LenContent, Body
  <2>3. LenParams(m) \in Nat /\ WriteOpen(m) \in Bs(10 + LenParams(m))
    BY <1>1, WriteOpenLen
  <2>4. 10 + LenParams(m) \in Nat
    BY <2>3
  <2> QED BY <1>1, <2>1, <2>2, <2>3, <2>4, Zenon
<1>2. CASE m \in Updates
  <2>1. m.type = "UPDATE"
    BY <1>2 DEF Updates
  <2>2. Body(m) = WriteUpdate(m) /\ LenContent(m) = UpdateLen(m)
    BY <2>1, Zenon DEF LenContent, Body
  <2>3. m \in Updates \cup Conversions
    BY <1>2
  <2> QED BY <1>2, <2>1, <2>2, <2>3, WriteUpdateLen, Zenon DEF Bs
<1>3. CASE m \in Notifications
  <2> DEFINE n == Len(m.data)
  <2>1. m.type = "NOTIFICATION" /\ m.error \in Bs(2) /\ m.data \in Seq(Byte)
    BY <1>3 DEF Notifications
  <2>2. Body(m) = m.error \o m.data /\ LenContent(m) = 2 + n
    BY <2>1, Zenon DEF LenContent, WriteNotification, Body
  <2>3. n \in Nat /\ m.data \in Bs(n) /\ 2 + n \in Nat
    BY <2>1 DEF Bs
  <2> HIDE DEF n
  <2>4. m.error \o m.data \in Bs(2 + n)
    BY <2>1, <2>3, BsAppend
  <2> QED BY <1>3, <2>1, <2>2, <2>3, <2>4, Zenon
<1>4. CASE m \in KeepAlives
  <2>1. m.type = "KEEPALIVE"
    BY <1>4 DEF KeepAlives
  <2>2. Body(m) = <<>> /\ LenContent(m) = 0
    BY <2>1, Zenon DEF LenContent, Body
  <2>3. <<>> \in Bs(0) /\ 0 \in Nat
    BY BsBytes
  <2> QED BY <1>4, <2>1, <2>2, <2>3, Zenon
<1> QED BY <1>1, <1>2, <1>3, <1>4, Zenon DEF Messages

\* The marker.
LEMMA MarkerBytes == Marker \in Bs(16) /\ \A k \in 1 .. 16 : Marker[k] = 255
<1> DEFINE f == [k \in 1 .. 16 |-> 255]
<1>1. f \in [1 .. 16 -> Byte] /\ \A k \in 1 .. 16 : f[k] = 255
  BY DEF Byte
<1> HIDE DEF f
<1>2. \A n \in Nat : \A g \in [1 .. n -> Byte] : g \in Seq(Byte) /\ Len(g) = n
  OBVIOUS
<1>3. PICK n \in Nat : n = 16
  OBVIOUS
<1>4. f \in [1 .. n -> Byte]
  BY <1>1, <1>3
<1>5. f \in Seq(Byte) /\ Len(f) = n
  BY <1>2, <1>4, Zenon
<1> QED BY <1>1, <1>3, <1>5, Zenon DEF f, Marker, Bs

\* The header of m is accepted, and its body is what was written.
LEMMA PacketLayout ==
    ASSUME NEW m \in Messages, m.type = "UPDATE" => Sound(m.attrs), LenPacket(m) <= MaxMessage,
           NEW s, s = WritePacket(m)
    PROVE  /\ ParsePacketHeader(s) /\ BodyLen(s) = LenContent(m) /\ s \in Seq(Byte)
           /\ Len(s) = 19 + LenContent(m) /\ s[19] = MessageType[m.type]
           /\ SubSeq(s, 20, 19 + LenContent(m)) = Body(m)
<1> DEFINE n == LenContent(m)  t == MessageType[m.type]  size == U16(GetBGPHeaderLen + n)
           head == WriteBGPHeader(m.type, n)  body == Body(m)
<1>1. /\ m.type \in {"OPEN", "UPDATE", "NOTIFICATION", "KEEPALIVE"}
      /\ n \in Nat /\ body \in Bs(n)
  BY BodyType, Zenon
<1>2. s = head \o body /\ LenPacket(m) = GetBGPHeaderLen + n /\ head = Marker \o size \o <<t>>
  BY Zenon DEF WritePacket, Body, LenPacket, WriteBGPHeader
<1>3. head \in Bs(19)
  BY <1>1, WriteHeaderLen, Zenon
<1> HIDE DEF n, body
<1>4. GetBGPHeaderLen + n = 19 + n /\ 19 + n <= 4096 /\ 19 + n \in Nat
  BY <1>1, <1>2 DEF GetBGPHeaderLen, MaxMessage
<1>5. /\ size[1] = ((19 + n) \div 256) % 256 /\ size[2] = (19 + n) % 256 /\ Len(size) = 2
      /\ 256 * size[1] + size[2] = 19 + n
  <2>1. size = <<((19 + n) \div 256) % 256, (19 + n) % 256>>
    BY <1>4 DEF U16
  <2> HIDE DEF size
  <2>2. size[1] = ((19 + n) \div 256) % 256 /\ size[2] = (19 + n) % 256 /\ Len(size) = 2
    BY <2>1
  <2>3. 256 * (((19 + n) \div 256) % 256) + ((19 + n) % 256) = 19 + n
    BY ONLY <1>4
  <2> QED BY <2>2, <2>3
<1>6. /\ \A k \in 1 .. 16 : head[k] = 255
      /\ head[17] = size[1] /\ head[18] = size[2] /\ head[19] = t
  <2>1. Marker \in Bs(16) /\ \A k \in 1 .. 16 : Marker[k] = 255
    BY MarkerBytes
  <2>2. size \in Bs(2) /\ <<t>> \in Bs(1)
    <3>1. t \in Byte
      BY <1>1 DEF MessageType, Byte
    <3> HIDE DEF t
    <3>2. GetBGPHeaderLen + n \in Nat
      BY <1>4
    <3> QED BY <3>1, <3>2, BsBytes, Zenon
  <2>3. PICK n1 \in Nat, n2 \in Nat, n3 \in Nat : n1 = 16 /\ n2 = 2 /\ n3 = 1
    OBVIOUS
  <2> DEFINE x == Marker  z == <<t>>
  <2>4. z[1] = t
    OBVIOUS
  <2>5. head = x \o size \o z /\ x \in Bs(n1) /\ size \in Bs(n2) /\ z \in Bs(n3)
    BY <1>2, <2>1, <2>2, <2>3, Zenon
  <2>6. \A k \in 1 .. 16 : x[k] = 255
    BY <2>1, Zenon
  <2> HIDE DEF x, z, size, head, t
  <2>7. /\ \A k \in 1 .. n1 : head[k] = x[k]
        /\ \A k \in 1 .. n2 : head[n1 + k] = size[k]
        /\ \A k \in 1 .. n3 : head[n1 + n2 + k] = z[k]
    <3> DEFINE y == x \o size
    <3>1. /\ \A k \in 1 .. n1 : y[k] = x[k]
          /\ \A k \in 1 .. n2 : y[n1 + k] = size[k]
          /\ y \in Bs(n1 + n2) /\ n1 + n2 \in Nat
      <4>1. n1 + n2 \in Nat
        OBVIOUS
      <4> QED BY <2>5, <4>1, PartsOf, BsAppend, ZenonT(60)
    <3>2. head = y \o z
      BY <2>5, Zenon
    <3> HIDE DEF y
    <3>3. /\ \A k \in 1 .. n1 + n2 : (y \o z)[k] = y[k]
          /\ \A k \in 1 .. n3 : (y \o z)[n1 + n2 + k] = z[k]
      BY <2>5, <3>1, PartsOf, ZenonT(60)
    <3>4. \A k \in 1 .. n1 : head[k] = x[k]
      <4> TAKE k \in 1 .. n1
      <4>1. k \in 1 .. n1 + n2
        OBVIOUS
      <4> QED BY <3>1, <3>2, <3>3, <4>1, Zenon
    <3>5. \A k \in 1 .. n2 : head[n1 + k] = size[k]
      <4> TAKE k \in 1 .. n2
      <4>1. n1 + k \in 1 .. n1 + n2
        OBVIOUS
      <4> QED BY <3>1, <3>2, <3>3, <4>1, Zenon
    <3> QED BY <3>2, <3>3, <3>4, <3>5, Zenon
  <2>8. /\ \A k \in 1 .. 16 : head[k] = x[k]
        /\ head[17] = size[1] /\ head[18] = size[2] /\ head[19] = z[1]
    <3>1. 1 \in 1 .. n2 /\ 2 \in 1 .. n2 /\ 1 \in 1 .. n3 /\ n1 + 1 = 17 /\ n1 + 2 = 18 /\ n1 + n2 + 1 = 19
      BY ONLY <2>3
    <3> QED BY ONLY <2>3, <2>7, <3>1
  <2> QED BY ONLY <2>4, <2>6, <2>8
<1> HIDE DEF head, size, t
<1>7. /\ s \in Seq(Byte) /\ Len(s) = 19 + n /\ \A k \in 1 .. 19 : s[k] = head[k]
      /\ SubSeq(s, 19 + 1, 19 + n) = body
  <2>1. PICK h \in Nat : h = 19
    OBVIOUS
  <2>2. head \in Bs(h)
    BY <1>3, <2>1
  <2>3. /\ head \o body \in Seq(Byte) /\ Len(head \o body) = h + n
        /\ \A k \in 1 .. h : (head \o body)[k] = head[k]
        /\ SubSeq(head \o body, h + 1, h + n) = body
    BY <1>1, <2>2, PartsOf, Zenon
  <2>4. s = head \o body
    BY <1>2, Zenon
  <2> QED BY ONLY <2>1, <2>3, <2>4
<1>8. /\ \A k \in 1 .. 16 : s[k] = 255
      /\ s[17] = size[1] /\ s[18] = size[2] /\ s[19] = t
  <2>1. \A k \in 1 .. 19 : s[k] = head[k]
    BY <1>7, Zenon
  <2>2. s[17] = head[17] /\ s[18] = head[18] /\ s[19] = head[19]
    BY ONLY <2>1
  <2>3. \A k \in 1 .. 16 : s[k] = 255
    <3> TAKE k \in 1 .. 16
    <3>1. k \in 1 .. 19
      OBVIOUS
    <3> QED BY ONLY <1>6, <2>1, <3>1, k \in 1 .. 16
  <2> QED BY ONLY <1>6, <2>2, <2>3
<1>9. LengthField(s) = 19 + n
  BY <1>5, <1>8 DEF LengthField
<1>10. ParsePacketHeader(s) /\ BodyLen(s) = n
  BY <1>1, <1>4, <1>7, <1>8, <1>9 DEF ParsePacketHeader, BodyLen, GetBGPHeaderLen, MaxMessage
<1>11. 19 + 1 = 20
  OBVIOUS
<1> QED BY <1>7, <1>8, <1>10, <1>11 DEF n, t, body

-----------------------------------------------------------------------------
(* An OPEN.                                                                 *)

\* Three parts, in any order.
LEMMA Associative ==
    ASSUME NEW x \in Seq(Byte), NEW y \in Seq(Byte), NEW z \in Seq(Byte)
    PROVE  (x \o y) \o z = x \o (y \o z)
OBVIOUS

\* What follows the header of a capability.
CapaData(c) == CASE c.code = CAPA_MP  -> c.afi \o <<0, c.safi>>
                 [] c.code = CAPA_ASN -> c.asn
                 [] c.code = CAPA_RR  -> <<>>
                 [] c.code = CAPA_ADDPATH -> Flat(c.list, 4)
                 [] OTHER -> c.data

\* A capability is written as its code, its length and its data.
LEMMA CapaWritten ==
    ASSUME NEW c \in Capas, CapaLen(c) <= 257
    PROVE  /\ CapaLen(c) - 2 \in Byte /\ CapaData(c) \in Bs(CapaLen(c) - 2) /\ CapaLen(c) \in Nat
           /\ WriteCapa(c) = <<c.code, CapaLen(c) - 2>> \o CapaData(c) /\ c.code \in Byte
<1>0. /\ CAPA_MP \in Byte /\ CAPA_ASN \in Byte /\ CAPA_RR \in Byte /\ CAPA_ADDPATH \in Byte
      /\ 0 \in Byte /\ 4 \in Byte
  BY DEF CAPA_MP, CAPA_ASN, CAPA_RR, CAPA_ADDPATH, Byte
<1>1. CASE c \in [code : {CAPA_MP}, afi : Bs(2), safi : Byte]
  <2>1. c.code = CAPA_MP /\ c.afi \in Bs(2) /\ c.safi \in Byte
    BY <1>1
  <2>2. c.code \notin {CAPA_ASN, CAPA_RR, CAPA_ADDPATH}
    BY <2>1 DEF CAPA_MP, CAPA_ASN, CAPA_RR, CAPA_ADDPATH
  <2> DEFINE h == <<c.code, 4>>  u == <<0, c.safi>>
  <2>3. WriteCapa(c) = (h \o c.afi) \o u /\ CapaLen(c) = 6 /\ CapaData(c) = c.afi \o u
    BY <2>1, <2>2, Zenon DEF WriteCapa, CapaLen, CapaData
  <2>4. h \in Bs(2) /\ u \in Bs(2)
    BY <1>0, <2>1, BsBytes
  <2> HIDE DEF h, u
  <2>5. (h \o c.afi) \o u = h \o (c.afi \o u)
    <3>1. h \in Seq(Byte) /\ c.afi \in Seq(Byte) /\ u \in Seq(Byte)
      BY <2>1, <2>4, Zenon DEF Bs
    <3>2. PICK y : y = c.afi
      BY Zenon
    <3>3. (h \o y) \o u = h \o (y \o u)
      BY ONLY <3>1, <3>2, Associative
    <3> QED BY <3>2, <3>3, Zenon
  <2>6. c.afi \o u \in Bs(2 + 2)
    BY <2>1, <2>4, BsAppend
  <2>7. 2 + 2 = 4 /\ 6 - 2 = 4 /\ 6 \in Nat
    OBVIOUS
  <2> QED BY <1>0, <2>1, <2>3, <2>5, <2>6, <2>7, Zenon DEF h
<1>2. CASE c \in [code : {CAPA_ASN}, asn : Bs(4)]
  <2>1. c.code = CAPA_ASN /\ c.asn \in Bs(4)
    BY <1>2
  <2>2. c.code \notin {CAPA_MP, CAPA_RR, CAPA_ADDPATH}
    BY <2>1 DEF CAPA_MP, CAPA_ASN, CAPA_RR, CAPA_ADDPATH
  <2>3. WriteCapa(c) = <<c.code, 4>> \o c.asn /\ CapaLen(c) = 6 /\ CapaData(c) = c.asn
    BY <2>1, <2>2, Zenon DEF WriteCapa, CapaLen, CapaData
  <2>4. 6 - 2 = 4 /\ 6 \in Nat
    OBVIOUS
  <2> QED BY <1>0, <2>1, <2>3, <2>4, Zenon
<1>3. CASE c \in [code : {CAPA_RR}]
  <2>1. c.code = CAPA_RR
    BY <1>3
  <2>2. c.code \notin {CAPA_MP, CAPA_ASN, CAPA_ADDPATH}
    BY <2>1 DEF CAPA_MP, CAPA_ASN, CAPA_RR, CAPA_ADDPATH
  <2> DEFINE h == <<c.code, 0>>
  <2>3. WriteCapa(c) = h /\ CapaLen(c) = 2 /\ CapaData(c) = <<>>
    BY <2>1, <2>2, Zenon DEF WriteCapa, CapaLen, CapaData
  <2>4. h \o <<>> = h
    OBVIOUS
  <2>5. 2 - 2 = 0 /\ 2 \in Nat
    OBVIOUS
  <2> QED BY <1>0, <2>1, <2>3, <2>4, <2>5, BsBytes, Zenon
<1>4. CASE c \in [code : {CAPA_ADDPATH}, list : Seq(Bs(4))]
  <2> DEFINE n == 4 * Len(c.list)
  <2>1. c.code = CAPA_ADDPATH /\ c.list \in Seq(Bs(4))
    BY <1>4
  <2>2. c.code \notin {CAPA_MP, CAPA_ASN, CAPA_RR}
    BY <2>1 DEF CAPA_MP, CAPA_ASN, CAPA_RR, CAPA_ADDPATH
  <2>3. /\ WriteCapa(c) = <<c.code, n % 256>> \o Flat(c.list, 4) /\ CapaLen(c) = 2 + n
        /\ CapaData(c) = Flat(c.list, 4)
    BY <2>1, <2>2, Zenon DEF WriteCapa, CapaLen, CapaData
  <2>4. n \in Nat
    BY <2>1
  <2>5. Flat(c.list, 4) \in Bs(n)
    BY <2>1, FlatType
  <2> HIDE DEF n
  <2>6. n % 256 = n /\ n \in Byte /\ 2 + n - 2 = n /\ 2 + n \in Nat
    <3>1. 2 + n <= 257
      BY <2>3, Zenon
    <3> QED BY ONLY <2>4, <3>1 DEF Byte
  <2>7. CapaLen(c) - 2 = n /\ CapaLen(c) \in Nat
    <3> DEFINE x == CapaLen(c)
    <3>1. x = 2 + n
      BY <2>3, Zenon
    <3> HIDE DEF x
    <3>2. x - 2 = n /\ x \in Nat
      BY ONLY <3>1, <2>4
    <3> QED BY <3>2, Zenon DEF x
  <2> QED BY <1>0, <2>1, <2>3, <2>5, <2>6, <2>7, Zenon
<1>5. CASE c \in [code : Byte \ {CAPA_MP, CAPA_ASN, CAPA_RR, CAPA_ADDPATH}, data : Seq(Byte)]
  <2> DEFINE n == Len(c.data)
  <2>1. c.code \in Byte /\ c.code \notin {CAPA_MP, CAPA_ASN, CAPA_RR, CAPA_ADDPATH} /\ c.data \in Seq(Byte)
    BY <1>5
  <2>2. WriteCapa(c) = <<c.code, n % 256>> \o c.data /\ CapaLen(c) = 2 + n /\ CapaData(c) = c.data
    BY <2>1, Zenon DEF WriteCapa, CapaLen, CapaData
  <2>3. n \in Nat /\ c.data \in Bs(n)
    BY <2>1 DEF Bs
  <2> HIDE DEF n
  <2>4. n % 256 = n /\ n \in Byte /\ 2 + n - 2 = n /\ 2 + n \in Nat
    <3>1. 2 + n <= 257
      BY <2>2, Zenon
    <3> QED BY ONLY <2>3, <3>1 DEF Byte
  <2>5. CapaLen(c) - 2 = n /\ CapaLen(c) \in Nat
    <3> DEFINE x == CapaLen(c)
    <3>1. x = 2 + n
      BY <2>2, Zenon
    <3> HIDE DEF x
    <3>2. x - 2 = n /\ x \in Nat
      BY ONLY <3>1, <2>3
    <3> QED BY <3>2, Zenon DEF x
  <2> QED BY <2>1, <2>2, <2>3, <2>4, <2>5, Zenon
<1> QED BY <1>1, <1>2, <1>3, <1>4, <1>5, Zenon DEF Capas

\* A capability is decoded as it was.
LEMMA CapaParsed ==
    ASSUME NEW c \in Capas
    PROVE  ParseCapability(c.code, CapaData(c)) = c
<1> DEFINE data == CapaData(c)
           Read(from, to) == IF to <= Len(data) THEN SubSeq(data, from, to) ELSE Zeros(to - from + 1)
           list == [k \in 1 .. Len(data) \div 4 |-> SubSeq(data, 4 * k - 3, 4 * k)]
<1>0. ParseCapability(c.code, data) =
         CASE c.code = CAPA_MP  -> [code |-> c.code, afi |-> Read(1, 2), safi |-> Read(4, 4)[1]]
           [] c.code = CAPA_ASN -> [code |-> c.code, asn |-> Read(1, 4)]
           [] c.code = CAPA_RR  -> [code |-> c.code]
           [] c.code = CAPA_ADDPATH -> [code |-> c.code, list |-> list]
           [] OTHER -> [code |-> c.code, data |-> data]
  BY Zenon DEF ParseCapability
<1>1. CASE c \in [code : {CAPA_MP}, afi : Bs(2), safi : Byte]
  <2>1. c.code = CAPA_MP /\ c.afi \in Bs(2) /\ c.safi \in Byte
    BY <1>1
  <2> DEFINE u == <<0, c.safi>>  f == c.afi
  <2>0. c.code \notin {CAPA_ASN, CAPA_RR, CAPA_ADDPATH}
    BY <2>1 DEF CAPA_MP, CAPA_ASN, CAPA_RR, CAPA_ADDPATH
  <2>2. data = f \o u
    BY <2>0, <2>1, Zenon DEF CapaData
  <2>3. u \in Bs(2) /\ u[2] = c.safi
    <3>1. 0 \in Byte
      BY DEF Byte
    <3> QED BY <2>1, <3>1, BsBytes
  <2>4. ParseCapability(c.code, data) = [code |-> c.code, afi |-> Read(1, 2), safi |-> Read(4, 4)[1]]
    BY <1>0, <2>0, <2>1, Zenon
  <2> HIDE DEF data
  <2>5. Read(1, 2) = f /\ Read(4, 4)[1] = c.safi
    <3> HIDE DEF u, f
    <3>1. PICK n \in Nat : n = 2
      OBVIOUS
    <3>2. f \in Bs(n) /\ u \in Bs(n)
      BY <2>1, <2>3, <3>1 DEF f
    <3>3. /\ f \o u \in Seq(Byte) /\ Len(f \o u) = n + n
          /\ \A k \in 1 .. n : (f \o u)[k] = f[k]
          /\ \A k \in 1 .. n : (f \o u)[n + k] = u[k]
      BY <3>2, PartsOf, Zenon
    <3>4. data \in Seq(Byte) /\ Len(data) = 4 /\ (\A k \in 1 .. 2 : data[0 + k] = f[k]) /\ data[4] = u[2]
      <4>1. n + n = 4 /\ n + 2 = 4 /\ 2 \in 1 .. n /\ \A k \in 1 .. 2 : 0 + k = k
        BY ONLY <3>1
      <4>2. (f \o u)[n + 2] = u[2]
        BY <3>3, <4>1
      <4> QED BY ONLY <2>2, <3>1, <3>3, <4>1, <4>2
    <3>5. SubSeq(data, 0 + 1, 0 + 2) = f
      <4>1. PICK z : z = 0 /\ z \in Nat /\ z + n <= Len(data)
        BY <3>1, <3>4
      <4>2. \A k \in 1 .. n : data[z + k] = f[k]
        BY ONLY <3>1, <3>4, <4>1
      <4>3. SubSeq(data, z + 1, z + n) = f
        BY <3>2, <3>4, <4>1, <4>2, SliceIs, Zenon
      <4> QED BY <3>1, <4>1, <4>3
    <3>6. SubSeq(data, 1, 2) = f
      <4>1. 0 + 1 = 1 /\ 0 + 2 = 2
        OBVIOUS
      <4> QED BY <3>5, <4>1
    <3>7. SubSeq(data, 4, 4)[1] = u[2]
      BY <3>4
    <3>8. Read(1, 2) = SubSeq(data, 1, 2) /\ Read(4, 4) = SubSeq(data, 4, 4)
      BY <3>4
    <3> QED BY <2>3, <3>6, <3>7, <3>8
  <2>6. c = [code |-> c.code, afi |-> c.afi, safi |-> c.safi]
    BY <1>1
  <2> QED BY <2>4, <2>5, <2>6 DEF data
<1>2. CASE c \in [code : {CAPA_ASN}, asn : Bs(4)]
  <2>1. c.code = CAPA_ASN /\ c.asn \in Bs(4)
    BY <1>2
  <2>2. c.code \notin {CAPA_MP, CAPA_RR, CAPA_ADDPATH}
    BY <2>1 DEF CAPA_MP, CAPA_ASN, CAPA_RR, CAPA_ADDPATH
  <2>3. data = c.asn /\ ParseCapability(c.code, data) = [code |-> c.code, asn |-> Read(1, 4)]
    BY <1>0, <2>1, <2>2, Zenon DEF CapaData
  <2> HIDE DEF data
  <2>4. data \in Seq(Byte) /\ Len(data) = 4
    BY <2>1, <2>3 DEF Bs
  <2>5. Read(1, 4) = data
    <3>1. SubSeq(data, 1, 4) = data
      BY <2>4
    <3> QED BY <2>4, <3>1
  <2>6. c = [code |-> c.code, asn |-> c.asn]
    BY <1>2
  <2> QED BY <2>3, <2>5, <2>6 DEF data
<1>3. CASE c \in [code : {CAPA_RR}]
  <2>1. c.code = CAPA_RR
    BY <1>3
  <2>2. c.code \notin {CAPA_MP, CAPA_ASN, CAPA_ADDPATH}
    BY <2>1 DEF CAPA_MP, CAPA_ASN, CAPA_RR, CAPA_ADDPATH
  <2>3. ParseCapability(c.code, data) = [code |-> c.code]
    BY <1>0, <2>1, <2>2, Zenon
  <2>4. c = [code |-> c.code]
    BY <1>3
  <2> QED BY <2>3, <2>4, Zenon
<1>4. CASE c \in [code : {CAPA_ADDPATH}, list : Seq(Bs(4))]
  <2> DEFINE n == Len(c.list)
  <2>1. c.code = CAPA_ADDPATH /\ c.list \in Seq(Bs(4))
    BY <1>4
  <2>2. c.code \notin {CAPA_MP, CAPA_ASN, CAPA_RR}
    BY <2>1 DEF CAPA_MP, CAPA_ASN, CAPA_RR, CAPA_ADDPATH
  <2>3. /\ ParseCapability(c.code, data) = [code |-> c.code, list |-> list]
        /\ data = Flat(c.list, 4)
    BY <1>0, <2>1, <2>2, Zenon DEF CapaData
  <2> DEFINE s == c.list
  <2>4. n \in Nat /\ s \in Seq(Bs(4)) /\ data = Flat(s, 4)
    BY <2>1, <2>3
  <2> HIDE DEF n, s, data
  <2>5. PICK w : w = 4 /\ w \in {2, 4, 12}
    OBVIOUS
  <2>6. data \in Bs(w * Len(s)) /\ Len(s) = n
    BY <2>4, <2>5, FlatType DEF n, s
  <2>7. data \in Seq(Byte) /\ Len(data) = 4 * n /\ Len(data) \div 4 = n
    <3>1. data \in Seq(Byte) /\ Len(data) = w * Len(s)
      BY <2>6, Zenon DEF Bs
    <3>2. (4 * n) \div 4 = n
      BY ONLY <2>4
    <3> QED BY <2>5, <2>6, <3>1, <3>2
  <2>8. \A k \in 1 .. n : SubSeq(data, 4 * k - 3, 4 * k) = s[k]
    <3> TAKE k \in 1 .. n
    <3>1. s[k] \in Bs(4)
      BY <2>4, <2>6
    <3>2. \A j \in 1 .. w : data[w * (k - 1) + j] = s[k][j]
      <4> TAKE j \in 1 .. w
      <4>1. Flat(s, w)[w * (k - 1) + j] = s[k][j]
        BY <2>4, <2>5, <2>6, FlatAt
      <4> QED BY <2>4, <2>5, <4>1
    <3>3. PICK x : x = 4 * (k - 1)
      BY Zenon
    <3>4. x \in Nat /\ x + w <= Len(data) /\ x + 1 = 4 * k - 3 /\ x + w = 4 * k /\ w \in Nat
      BY ONLY <2>4, <2>5, <2>7, <3>3, k \in 1 .. n
    <3>5. \A j \in 1 .. w : data[x + j] = s[k][j]
      BY <2>5, <3>2, <3>3
    <3>6. s[k] \in Bs(w)
      BY <2>5, <3>1
    <3>7. SubSeq(data, x + 1, x + w) = s[k]
      BY <2>7, <3>4, <3>5, <3>6, SliceIs, Zenon
    <3> QED BY <3>4, <3>7
  <2>9. list = [k \in 1 .. n |-> s[k]]
    BY <2>7, <2>8, Zenon
  <2>10. s = [k \in 1 .. n |-> s[k]]
    BY <2>4, <2>6
  <2>11. c = [code |-> c.code, list |-> c.list]
    BY <1>4
  <2> QED BY <2>3, <2>9, <2>10, <2>11, Zenon DEF s, data
<1>5. CASE c \in [code : Byte \ {CAPA_MP, CAPA_ASN, CAPA_RR, CAPA_ADDPATH}, data : Seq(Byte)]
  <2>1. c.code \in Byte /\ c.code \notin {CAPA_MP, CAPA_ASN, CAPA_RR, CAPA_ADDPATH}
    BY <1>5
  <2>2. ParseCapability(c.code, data) = [code |-> c.code, data |-> data] /\ data = c.data
    BY <1>0, <2>1, Zenon DEF CapaData
  <2>3. c = [code |-> c.code, data |-> c.data]
    BY <1>5
  <2> QED BY <2>2, <2>3, Zenon
<1> QED BY <1>1, <1>2, <1>3, <1>4, <1>5, Zenon DEF Capas

\* The bytes of the capabilities of a parameter, one after the other.
CapaWords(s) == [k \in DOMAIN s |-> WriteCapa(s[k])]
\* Each is as long as CapaLen says.
LEMMA CapaWordsType ==
    ASSUME NEW s \in Seq(Capas)
    PROVE  /\ CapaWords(s) \in Seq(Seq(Byte)) /\ Len(CapaWords(s)) = Len(s)
           /\ Concat(WriteCapa, s) = FlattenSeq(CapaWords(s))
           /\ Sum(CapaLen, s) = Upto(CapaWords(s), Len(s)) /\ Sum(CapaLen, s) \in Nat
           /\ \A k \in 1 .. Len(s) : /\ CapaWords(s)[k] = WriteCapa(s[k]) /\ s[k] \in Capas
                                     /\ Len(CapaWords(s)[k]) = CapaLen(s[k])
<1> DEFINE t == CapaWords(s)
<1>1. DOMAIN s = 1 .. Len(s) /\ Len(s) \in Nat /\ \A k \in 1 .. Len(s) : s[k] \in Capas
  BY ElementsOf, Zenon
<1>2. \A k \in 1 .. Len(s) : /\ t[k] = WriteCapa(s[k]) /\ t[k] \in Seq(Byte)
                             /\ Len(t[k]) = CapaLen(s[k])
  BY <1>1, WriteCapaLen, Zenon DEF CapaWords, Bs
<1>3. t = [k \in 1 .. Len(s) |-> t[k]]
  BY <1>1, Zenon DEF CapaWords
<1>4. t \in Seq(Seq(Byte)) /\ Len(t) = Len(s)
  <2> HIDE DEF t
  <2> QED BY ONLY <1>1, <1>2, <1>3
<1>5. Concat(WriteCapa, s) = FlattenSeq(t)
  BY Zenon DEF Concat, CapaWords
<1>6. Upto(t, Len(s)) = Len(FlattenSeq(t))
  BY <1>4, UptoSteps, Zenon
<1>7. Sum(CapaLen, s) = Upto(t, Len(s)) /\ Sum(CapaLen, s) \in Nat
  BY <1>5, <1>6, WriteCapasLen, Zenon DEF Bs
<1> QED BY <1>1, <1>2, <1>4, <1>5, <1>7

\* The bytes of the parameters of an OPEN, one after the other.
ParamWords(s) == [k \in DOMAIN s |-> WriteParam(s[k])]
\* Each is as long as ParamLen says.
LEMMA ParamWordsType ==
    ASSUME NEW s \in Seq(Params)
    PROVE  /\ ParamWords(s) \in Seq(Seq(Byte)) /\ Len(ParamWords(s)) = Len(s)
           /\ Concat(WriteParam, s) = FlattenSeq(ParamWords(s))
           /\ Upto(ParamWords(s), Len(s)) = Len(FlattenSeq(ParamWords(s))) /\ FlattenSeq(ParamWords(s)) \in Seq(Byte)
           /\ \A k \in 1 .. Len(s) : /\ ParamWords(s)[k] = WriteParam(s[k]) /\ s[k] \in Params
                                     /\ Len(ParamWords(s)[k]) = ParamLen(s[k])
<1> DEFINE t == ParamWords(s)
<1>1. DOMAIN s = 1 .. Len(s) /\ Len(s) \in Nat /\ \A k \in 1 .. Len(s) : s[k] \in Params
  BY ElementsOf, Zenon
<1>2. \A k \in 1 .. Len(s) : /\ t[k] = WriteParam(s[k]) /\ t[k] \in Seq(Byte)
                             /\ Len(t[k]) = ParamLen(s[k])
  BY <1>1, WriteParamLen, Zenon DEF ParamWords, Bs
<1>3. t = [k \in 1 .. Len(s) |-> t[k]]
  BY <1>1, Zenon DEF ParamWords
<1>4. t \in Seq(Seq(Byte)) /\ Len(t) = Len(s)
  <2> HIDE DEF t
  <2> QED BY ONLY <1>1, <1>2, <1>3
<1>5. Concat(WriteParam, s) = FlattenSeq(t)
  BY Zenon DEF Concat, ParamWords
<1>6. Upto(t, Len(s)) = Len(FlattenSeq(t))
  BY <1>4, UptoSteps, Zenon
<1>7. FlattenSeq(t) \in Seq(Byte)
  <2>1. Len(t) \in 0 .. Len(t)
    BY <1>1, <1>4
  <2> QED BY <1>4, <2>1, FlattenUpto, Zenon
<1> QED BY <1>1, <1>2, <1>4, <1>5, <1>6, <1>7

\* What an OPEN is written as.
LEMMA OpenLayout ==
    ASSUME NEW m \in Opens, LenParams(m) <= 255, b = WriteOpen(m)
    PROVE  /\ b \in Seq(Byte) /\ LenParams(m) \in Nat /\ Size = 10 + LenParams(m)
           /\ At(0) = m.version /\ Bytes(1, 2) = m.asn /\ Bytes(3, 2) = m.hold /\ Bytes(5, 4) = m.id
           /\ At(9) = LenParams(m) /\ Has(10, FlattenSeq(ParamWords(m.params)))
           /\ Upto(ParamWords(m.params), Len(m.params)) = LenParams(m)
<1> DEFINE w == FlattenSeq(ParamWords(m.params))  l == LenParams(m)
<1>1. /\ m.version \in Byte /\ m.asn \in Bs(2) /\ m.hold \in Bs(2) /\ m.id \in Bs(4)
      /\ m.params \in Seq(Params)
  BY DEF Opens
<1>2. l \in Nat /\ b \in Bs(10 + l)
  BY WriteOpenLen, Zenon
<1>3. w \in Seq(Byte) /\ Concat(WriteParam, m.params) = w /\ Upto(ParamWords(m.params), Len(m.params)) = Len(w)
  BY <1>1, ParamWordsType, Zenon
<1>4. b = <<m.version>> \o m.asn \o m.hold \o m.id \o <<l % 256>> \o w
  BY <1>3, Zenon DEF WriteOpen
<1>5. l % 256 = l /\ l \in Byte
  <2>1. l <= 255
    OBVIOUS
  <2> HIDE DEF l
  <2> QED BY <1>2, <2>1 DEF Byte
<1> HIDE DEF w, l
<1>6. b \in Seq(Byte) /\ Len(b) = 10 + l /\ Has(0, b) /\ Size = 10 + l
  <2>1. b \in Seq(Byte) /\ Len(b) = 10 + l
    BY <1>2, Zenon DEF Bs
  <2> QED BY <2>1, HasAll, Zenon DEF Size
<1> DEFINE c1 == <<m.version>>  c2 == c1 \o m.asn  c3 == c2 \o m.hold  c4 == c3 \o m.id  c5 == c4 \o <<l>>
<1>7. b = c5 \o w
  BY <1>4, <1>5, Zenon
<1>8. c1 \in Bs(1) /\ <<l>> \in Bs(1)
  BY <1>1, <1>5, BsBytes
<1>0. /\ 1 \in Nat /\ 2 \in Nat /\ 3 \in Nat /\ 4 \in Nat /\ 5 \in Nat /\ 9 \in Nat /\ 10 \in Nat /\ 0 \in Nat
      /\ 1 + 2 = 3 /\ 3 + 2 = 5 /\ 5 + 4 = 9 /\ 9 + 1 = 10
      /\ 0 + 1 = 1 /\ 0 + 3 = 3 /\ 0 + 5 = 5 /\ 0 + 9 = 9 /\ 0 + 10 = 10
  OBVIOUS
<1>9. c2 \in Bs(3)
  <2>1. c2 \in Bs(1 + 2)
    BY <1>0, <1>1, <1>8, BsAppend, Zenon
  <2> QED BY <1>0, <2>1, Zenon
<1>10. c3 \in Bs(5)
  <2> HIDE DEF c2
  <2>1. c3 \in Bs(3 + 2)
    BY <1>0, <1>1, <1>9, BsAppend, Zenon
  <2> QED BY <1>0, <2>1, Zenon
<1>11. c4 \in Bs(9)
  <2> HIDE DEF c3
  <2>1. c4 \in Bs(5 + 4)
    BY <1>0, <1>1, <1>10, BsAppend, Zenon
  <2> QED BY <1>0, <2>1, Zenon
<1>12. c5 \in Bs(10)
  <2> HIDE DEF c4
  <2>1. c5 \in Bs(9 + 1)
    BY <1>0, <1>8, <1>11, BsAppend, Zenon
  <2> QED BY <1>0, <2>1, Zenon
<1>13. w \in Bs(l) /\ Len(w) = l
  <2> HIDE DEF c5
  <2>1. Len(b) = 10 + Len(w) /\ Len(w) \in Nat
    <3>1. c5 \in Seq(Byte) /\ Len(c5) = 10
      BY <1>12, Zenon DEF Bs
    <3>2. Len(c5 \o w) = Len(c5) + Len(w) /\ Len(w) \in Nat
      BY <1>3, <3>1, Appended, Zenon
    <3> QED BY <1>7, <3>1, <3>2
  <2>2. Len(w) = l
    BY <1>2, <1>6, <2>1
  <2> QED BY <1>3, <2>2, Zenon DEF Bs
<1>14. Has(0, c5) /\ Has(10, w)
  <2> HIDE DEF c5
  <2>0. Has(0, c5 \o w) /\ b \in Seq(Byte) /\ 0 \in Nat /\ 10 \in Nat
    BY <1>0, <1>6, <1>7
  <2>1. Has(0, c5) /\ Has(0 + 10, w)
    BY <1>2, <1>12, <1>13, <2>0, HasNext, Zenon
  <2> QED BY <1>0, <2>1, Zenon
<1>15. Has(0, c4) /\ Has(9, <<l>>)
  <2> HIDE DEF c4
  <2>0. Has(0, c4 \o <<l>>) /\ b \in Seq(Byte) /\ 0 \in Nat /\ 9 \in Nat /\ 1 \in Nat
    BY <1>0, <1>6, <1>14 DEF c5
  <2>1. Has(0, c4) /\ Has(0 + 9, <<l>>)
    BY <1>8, <1>11, <2>0, HasNext, Zenon
  <2> QED BY <1>0, <2>1, Zenon
<1>16. Has(0, c3) /\ Has(5, m.id)
  <2> HIDE DEF c3
  <2>1. Has(0, c3) /\ Has(0 + 5, m.id)
    BY <1>0, <1>1, <1>6, <1>10, <1>15, HasNext, Zenon DEF c4
  <2> QED BY <1>0, <2>1, Zenon
<1>17. Has(0, c2) /\ Has(3, m.hold)
  <2> HIDE DEF c2
  <2>1. Has(0, c2) /\ Has(0 + 3, m.hold)
    BY <1>0, <1>1, <1>6, <1>9, <1>16, HasNext, Zenon DEF c3
  <2> QED BY <1>0, <2>1, Zenon
<1>18. Has(0, c1) /\ Has(1, m.asn)
  <2>1. Has(0, c1) /\ Has(0 + 1, m.asn)
    BY <1>0, <1>1, <1>6, <1>8, <1>17, HasNext, Zenon DEF c2
  <2> QED BY <1>0, <2>1, Zenon
<1>19. At(0) = m.version /\ At(9) = l
  BY <1>0, <1>15, <1>18, HasByte, Zenon
<1>20. Bytes(1, 2) = m.asn /\ Bytes(3, 2) = m.hold /\ Bytes(5, 4) = m.id
  BY <1>0, <1>1, <1>16, <1>17, <1>18, HasBs, Zenon
<1> QED BY <1>2, <1>3, <1>6, <1>13, <1>14, <1>19, <1>20 DEF w, l

\* Where parameter n + 1 of an OPEN begins.
ParamAt(m, n) == 10 + Upto(ParamWords(m.params), n)

\* The first is after the fixed part, and the last ends the message.
LEMMA ParamsEnd ==
    ASSUME NEW m \in Opens, LenParams(m) <= 255, b = WriteOpen(m)
    PROVE  ParamAt(m, 0) = 10 /\ ParamAt(m, Len(m.params)) = Size
<1>1. m.params \in Seq(Params)
  BY DEF Opens
<1>2. Upto(ParamWords(m.params), 0) = 0
  <2> DEFINE t == ParamWords(m.params)
  <2>1. t \in Seq(Seq(Byte))
    BY <1>1, ParamWordsType, Zenon
  <2> HIDE DEF t
  <2>2. SubSeq(t, 1, 0) = <<>>
    BY <2>1, OneFurther, Zenon
  <2>3. Len(<<>>) = 0
    OBVIOUS
  <2> QED BY <2>2, <2>3, FlattenEmpty, Zenon DEF Upto, t
<1>3. Size = 10 + LenParams(m) /\ Upto(ParamWords(m.params), Len(m.params)) = LenParams(m)
  BY OpenLayout, Zenon
<1>4. 10 + 0 = 10
  OBVIOUS
<1> QED BY <1>2, <1>3, <1>4, Zenon DEF ParamAt

\* A parameter of it.
LEMMA ParamHere ==
    ASSUME NEW m \in Opens, LenParams(m) <= 255, b = WriteOpen(m), NEW n \in 0 .. Len(m.params) - 1
    PROVE  /\ ParamAt(m, n) \in Nat /\ ParamAt(m, n) >= 10 /\ m.params[n + 1] \in Params
           /\ At(ParamAt(m, n)) = m.params[n + 1].type
           /\ At(ParamAt(m, n) + 1) = Sum(CapaLen, m.params[n + 1].capas)
           /\ Sum(CapaLen, m.params[n + 1].capas) \in 0 .. 253
           /\ Has(ParamAt(m, n) + 2, FlattenSeq(CapaWords(m.params[n + 1].capas)))
           /\ ParamAt(m, n + 1) = ParamAt(m, n) + 2 + Sum(CapaLen, m.params[n + 1].capas)
           /\ ParamAt(m, n + 1) <= Size
<1> DEFINE s == m.params  t == ParamWords(s)  k == n + 1  p == s[k]  c == FlattenSeq(CapaWords(p.capas))
           l == Sum(CapaLen, p.capas)
<1>1. m.params \in Seq(Params) /\ Len(m.params) \in Nat
  BY DEF Opens
<1>2. /\ t \in Seq(Seq(Byte)) /\ Len(t) = Len(s)
      /\ \A j \in 1 .. Len(s) : t[j] = WriteParam(s[j]) /\ s[j] \in Params /\ Len(t[j]) = ParamLen(s[j])
  BY <1>1, ParamWordsType, Zenon
<1>3. k \in 1 .. Len(s) /\ n \in 0 .. Len(t) - 1 /\ n \in Nat
  BY <1>1, <1>2
<1>4. t[k] = WriteParam(p) /\ p \in Params /\ Len(t[k]) = ParamLen(p)
  <2> HIDE DEF k
  <2> QED BY <1>2, <1>3, Zenon
<1>5. /\ b \in Seq(Byte) /\ LenParams(m) \in Nat /\ Size = 10 + LenParams(m) /\ Has(10, FlattenSeq(t))
      /\ Upto(t, Len(s)) = LenParams(m)
  BY OpenLayout, Zenon
<1>6. /\ Upto(t, n) \in Nat /\ Upto(t, k) \in Nat /\ Upto(t, k) = Upto(t, n) + Len(t[k])
      /\ Upto(t, k) <= Upto(t, Len(t)) /\ \A base \in Nat : Has(base, FlattenSeq(t)) => Has(base + Upto(t, n), t[k])
  <2> HIDE DEF t
  <2> QED BY <1>2, <1>3, <1>5, NextWord, Zenon
<1>7. p.type \in Byte /\ p.capas \in Seq(Capas)
  BY <1>4 DEF Params
<1> HIDE DEF p
<1>8. l \in Nat /\ c \in Seq(Byte) /\ Concat(WriteCapa, p.capas) = c
  <2>1. Concat(WriteCapa, p.capas) \in Seq(Byte) /\ l \in Nat
    BY <1>7, WriteCapasLen, Zenon DEF Bs
  <2> QED BY <1>7, <2>1, CapaWordsType, Zenon
<1>9. ParamLen(p) = 2 + l /\ WriteParam(p) = <<p.type, l % 256>> \o c
  BY <1>8, Zenon DEF ParamLen, WriteParam
<1> HIDE DEF l, c, t, k, s
<1>10. l <= 253 /\ l % 256 = l /\ Upto(t, k) = Upto(t, n) + 2 + l /\ 10 + Upto(t, k) <= Size
  <2>1. PICK u, v, x, y, z : /\ u = Upto(t, n) /\ v = Upto(t, k) /\ x = Len(t[k]) /\ y = LenParams(m) /\ z = Size
    OBVIOUS
  <2>2. /\ u \in Nat /\ v \in Nat /\ v = u + x /\ v <= y /\ y \in Nat /\ y <= 255 /\ z = 10 + y /\ x = 2 + l
    <3>1. v <= y
      BY <1>2, <1>5, <1>6, <2>1, Zenon
    <3>2. v = u + x /\ x = 2 + l /\ z = 10 + y /\ u \in Nat /\ v \in Nat /\ y \in Nat
      BY <1>4, <1>5, <1>6, <1>9, <2>1, Zenon
    <3> QED BY <2>1, <3>1, <3>2
  <2>3. l <= 253 /\ l % 256 = l /\ v = u + 2 + l /\ 10 + v <= z
    BY ONLY <1>8, <2>2
  <2> QED BY <2>1, <2>3, Zenon
<1> DEFINE base == 10 + Upto(t, n)
<1>11. base \in Nat /\ base >= 10 /\ base + 2 \in Nat
  BY <1>6
<1>12. Has(base, <<p.type, l>> \o c)
  <2>1. 10 \in Nat
    OBVIOUS
  <2> QED BY <1>4, <1>5, <1>6, <1>9, <1>10, <2>1, Zenon
<1>13. Has(base, <<p.type, l>>) /\ Has(base + 2, c)
  <2> HIDE DEF base
  <2>1. l \in Byte /\ <<p.type, l>> \in Bs(2) /\ 2 \in Nat
    <3>1. l \in Byte
      BY <1>8, <1>10 DEF Byte
    <3> QED BY <1>7, <3>1, BsBytes
  <2>2. <<p.type, l>> \in Seq(Byte) /\ Len(<<p.type, l>>) = 2
    BY <2>1, Zenon DEF Bs
  <2>3. Has(base, <<p.type, l>>) /\ Has(base + Len(<<p.type, l>>), c)
    BY <1>5, <1>8, <1>11, <1>12, <2>2, HasBoth, Zenon
  <2> QED BY <2>2, <2>3, Zenon
<1>14. At(base) = p.type /\ At(base + 1) = l
  <2> HIDE DEF base
  <2> QED BY <1>11, <1>13, HasTwo, Zenon
<1>15. ParamAt(m, n) = base /\ ParamAt(m, k) = 10 + Upto(t, k)
  BY Zenon DEF ParamAt, s, t
<1>16. 10 + Upto(t, k) = base + 2 + l /\ l \in 0 .. 253
  <2>1. PICK u, v : u = Upto(t, n) /\ v = Upto(t, k)
    OBVIOUS
  <2>2. u \in Nat /\ v = u + 2 + l /\ base = 10 + u
    BY <1>6, <1>10, <2>1, Zenon
  <2>3. 10 + v = base + 2 + l /\ l \in 0 .. 253
    BY ONLY <1>8, <1>10, <2>2
  <2> QED BY <2>1, <2>3, Zenon
<1>17. s[k] = p
  BY Zenon DEF p
<1> HIDE DEF base
<1> QED BY <1>4, <1>10, <1>11, <1>13, <1>14, <1>15, <1>16, <1>17, Zenon DEF k, l, c, s

\* Where capability k + 1 begins.
CapaAt(s, base, k) == base + Upto(CapaWords(s), k)

\* The first is at the base, and the last ends the parameter.
LEMMA CapasEnd ==
    ASSUME NEW s \in Seq(Capas), NEW base \in Nat
    PROVE  CapaAt(s, base, 0) = base /\ CapaAt(s, base, Len(s)) = base + Sum(CapaLen, s)
<1> DEFINE t == CapaWords(s)
<1>1. t \in Seq(Seq(Byte)) /\ Upto(t, Len(s)) = Sum(CapaLen, s)
  BY CapaWordsType, Zenon
<1> HIDE DEF t
<1>2. Upto(t, 0) = 0
  <2>1. SubSeq(t, 1, 0) = <<>>
    BY <1>1, OneFurther, Zenon
  <2>2. Len(<<>>) = 0
    OBVIOUS
  <2> QED BY <2>1, <2>2, FlattenEmpty, Zenon DEF Upto
<1>3. base + 0 = base
  OBVIOUS
<1> QED BY <1>1, <1>2, <1>3, Zenon DEF CapaAt, t

\* A capability of a parameter.
LEMMA CapaHere ==
    ASSUME b \in Seq(Byte), NEW s \in Seq(Capas), NEW base \in Nat, Has(base, FlattenSeq(CapaWords(s))),
           Sum(CapaLen, s) <= 253, NEW k \in 0 .. Len(s) - 1
    PROVE  /\ CapaAt(s, base, k) \in Nat /\ At(CapaAt(s, base, k) + 1) \in Nat
           /\ ParseCapability(At(CapaAt(s, base, k)), Bytes(CapaAt(s, base, k) + 2, At(CapaAt(s, base, k) + 1)))
                  = s[k + 1]
           /\ CapaAt(s, base, k + 1) = CapaAt(s, base, k) + 2 + At(CapaAt(s, base, k) + 1)
           /\ CapaAt(s, base, k + 1) <= base + Sum(CapaLen, s)
<1> DEFINE t == CapaWords(s)  j == k + 1  c == s[j]  at == CapaAt(s, base, k)  n == CapaLen(c) - 2
<1>1. /\ t \in Seq(Seq(Byte)) /\ Len(t) = Len(s) /\ Upto(t, Len(s)) = Sum(CapaLen, s) /\ Sum(CapaLen, s) \in Nat
      /\ \A h \in 1 .. Len(s) : t[h] = WriteCapa(s[h]) /\ s[h] \in Capas /\ Len(t[h]) = CapaLen(s[h])
  BY CapaWordsType, Zenon
<1>2. j \in 1 .. Len(s) /\ k \in 0 .. Len(t) - 1
  BY <1>1
<1>3. t[j] = WriteCapa(c) /\ c \in Capas /\ Len(t[j]) = CapaLen(c) /\ CapaLen(c) \in Nat
  <2> HIDE DEF j
  <2> QED BY <1>1, <1>2, WriteCapaLen, Zenon
<1>4. /\ Upto(t, k) \in Nat /\ Upto(t, j) \in Nat /\ Upto(t, j) = Upto(t, k) + Len(t[j])
      /\ Upto(t, j) <= Upto(t, Len(t)) /\ Has(base + Upto(t, k), t[j])
  <2> HIDE DEF t
  <2> QED BY <1>1, <1>2, NextWord, Zenon DEF t
<1>5. CapaAt(s, base, k) = base + Upto(t, k) /\ CapaAt(s, base, j) = base + Upto(t, j)
  BY Zenon DEF CapaAt
<1> HIDE DEF t, j, c
<1>6. PICK u, v, x, y : u = Upto(t, k) /\ v = Upto(t, j) /\ x = CapaLen(c) /\ y = Sum(CapaLen, s)
  OBVIOUS
<1>7. u \in Nat /\ v \in Nat /\ x \in Nat /\ y \in Nat /\ v = u + x /\ v <= y /\ y <= 253
  <2>1. v <= y
    BY <1>1, <1>4, <1>6, Zenon
  <2>2. y <= 253
    BY <1>6
  <2> QED BY <1>1, <1>3, <1>4, <1>6, <2>1, <2>2, Zenon
<1>8. x <= 257 /\ base + u \in Nat /\ base + v = (base + u) + 2 + (x - 2) /\ base + v <= base + y /\ (base + u) + 2 \in Nat
  BY ONLY <1>7, base \in Nat
<1>9. n \in Byte /\ CapaData(c) \in Bs(n) /\ WriteCapa(c) = <<c.code, n>> \o CapaData(c) /\ c.code \in Byte
  <2>1. CapaLen(c) <= 257
    BY <1>6, <1>8
  <2> QED BY <1>3, <2>1, CapaWritten, Zenon
<1>10. x - 2 = n
  BY <1>6
<1> HIDE DEF n
<1>11. at = base + u /\ at \in Nat /\ at + 2 \in Nat /\ n \in Nat
  <2>1. n \in Nat
    BY <1>9 DEF Byte
  <2> QED BY <1>5, <1>6, <1>8, <2>1
<1>12. Has(at, <<c.code, n>> \o CapaData(c))
  BY <1>3, <1>4, <1>5, <1>9, Zenon
<1> HIDE DEF at
<1>13. Has(at, <<c.code, n>>) /\ Has(at + 2, CapaData(c))
  <2>1. <<c.code, n>> \in Bs(2) /\ 2 \in Nat
    BY <1>9, BsBytes
  <2> QED BY <1>9, <1>11, <1>12, <2>1, HasNext, Zenon
<1>14. At(at) = c.code /\ At(at + 1) = n /\ Bytes(at + 2, n) = CapaData(c)
  <2>1. At(at) = c.code /\ At(at + 1) = n
    BY <1>11, <1>13, HasTwo, Zenon
  <2>2. Bytes(at + 2, n) = CapaData(c)
    BY <1>9, <1>11, <1>13, HasBs, Zenon
  <2> QED BY <2>1, <2>2
<1>15. ParseCapability(At(at), Bytes(at + 2, At(at + 1))) = c
  BY <1>3, <1>14, CapaParsed, Zenon
<1>16. CapaAt(s, base, j) = at + 2 + At(at + 1) /\ CapaAt(s, base, j) <= base + y
  BY <1>5, <1>6, <1>8, <1>10, <1>11, <1>14, Zenon
<1> QED BY <1>6, <1>11, <1>14, <1>15, <1>16, Zenon DEF at, c, j

\* An OPEN with other parameters.
WithParams(m, s) == [m EXCEPT !.params = s]
\* Nothing else of it changes.
LEMMA WithParamsFacts ==
    ASSUME NEW m \in Opens, NEW s \in Seq(Params)
    PROVE  /\ WithParams(m, s).params = s /\ WithParams(m, m.params) = m /\ WithParams(m, s) \in Opens
           /\ \A p : [WithParams(m, s) EXCEPT !.params = Append(@, p)] = WithParams(m, Append(s, p))
<1>1. WithParams(m, s).params = s
  BY DEF Opens, WithParams
<1>2. WithParams(m, m.params) = m
  BY DEF Opens, WithParams
<1>3. WithParams(m, s) \in Opens
  BY DEF Opens, WithParams
<1>4. ASSUME NEW p
      PROVE  [WithParams(m, s) EXCEPT !.params = Append(@, p)] = WithParams(m, Append(s, p))
  BY DEF Opens, WithParams
<1> QED BY <1>1, <1>2, <1>3, <1>4

\* The capabilities of a parameter up to k.
ParamUpto(p, k) == [type |-> p.type, capas |-> SubSeq(p.capas, 1, k)]
\* They grow one by one.
LEMMA ParamUptoFacts ==
    ASSUME NEW p \in Params
    PROVE  /\ ParamUpto(p, 0) = [type |-> p.type, capas |-> <<>>] /\ ParamUpto(p, Len(p.capas)) = p
           /\ \A k \in 0 .. Len(p.capas) : ParamUpto(p, k) \in Params
           /\ \A k \in 0 .. Len(p.capas) - 1 :
                 ParamUpto(p, k + 1) = [ParamUpto(p, k) EXCEPT !.capas = Append(@, p.capas[k + 1])]
<1>1. p.type \in Byte /\ p.capas \in Seq(Capas) /\ p = [type |-> p.type, capas |-> p.capas]
  BY DEF Params
<1> DEFINE s == p.capas
<1>2. /\ SubSeq(s, 1, 0) = <<>> /\ SubSeq(s, 1, Len(s)) = s
      /\ \A k \in 0 .. Len(s) : SubSeq(s, 1, k) \in Seq(Capas)
      /\ \A k \in 0 .. Len(s) - 1 : SubSeq(s, 1, k + 1) = Append(SubSeq(s, 1, k), s[k + 1])
  BY <1>1, OneFurther, Zenon
<1>3. ParamUpto(p, 0) = [type |-> p.type, capas |-> <<>>]
  BY <1>2, Zenon DEF ParamUpto
<1>4. ParamUpto(p, Len(s)) = p
  BY <1>1, <1>2, Zenon DEF ParamUpto
<1>5. ASSUME NEW k \in 0 .. Len(s)
      PROVE  ParamUpto(p, k) \in Params
  <2>1. SubSeq(s, 1, k) \in Seq(Capas)
    BY <1>2
  <2> QED BY <1>1, <2>1 DEF Params, ParamUpto
<1>6. ASSUME NEW k \in 0 .. Len(s) - 1
      PROVE  ParamUpto(p, k + 1) = [ParamUpto(p, k) EXCEPT !.capas = Append(@, p.capas[k + 1])]
  <2>1. SubSeq(s, 1, k + 1) = Append(SubSeq(s, 1, k), s[k + 1])
    BY <1>2, <1>6, Zenon
  <2> DEFINE x == SubSeq(s, 1, k)  y == s[k + 1]
  <2>2. ParamUpto(p, k) = [type |-> p.type, capas |-> x]
    BY Zenon DEF ParamUpto
  <2>3. ParamUpto(p, k + 1) = [type |-> p.type, capas |-> Append(x, y)]
    BY <2>1, Zenon DEF ParamUpto
  <2> HIDE DEF x, y
  <2>4. [[type |-> p.type, capas |-> x] EXCEPT !.capas = Append(@, y)] = [type |-> p.type, capas |-> Append(x, y)]
    BY SMTT(30)
  <2> QED BY <2>2, <2>3, <2>4, Zenon DEF y
<1> QED BY <1>3, <1>4, <1>5, <1>6, Zenon

\* A capability is added to the last parameter.
WithCapa(p, c) == [p EXCEPT !.capas = Append(@, c)]
AddCapa(x, c) == [x EXCEPT !.params[Len(x.params)].capas = Append(@, c)]
\* It is the last parameter that changes.
LEMMA LastParam ==
    ASSUME NEW m \in Opens, NEW s \in Seq(Params), NEW p \in Params, NEW c \in Capas
    PROVE  AddCapa(WithParams(m, Append(s, p)), c) = WithParams(m, Append(s, WithCapa(p, c)))
<1> DEFINE x == WithParams(m, Append(s, p))
<1> DEFINE n == Len(s) + 1  q == WithCapa(p, c)  t == Append(s, p)
<1>1. t \in Seq(Params) /\ Len(t) = n /\ n \in DOMAIN t /\ t[n] = p
  OBVIOUS
<1>2. x.params = t /\ x \in Opens
  BY <1>1, WithParamsFacts, Zenon
<1>3. [t EXCEPT ![n] = q] = Append(s, q)
  <2>1. q \in Params
    BY DEF Params, WithCapa
  <2>2. \A k \in 1 .. Len(s) : t[k] = s[k] /\ k # n
    OBVIOUS
  <2> DEFINE u == [t EXCEPT ![n] = q]
  <2> HIDE DEF q, t
  <2>3. u \in Seq(Params) /\ Len(u) = Len(s) + 1 /\ u[n] = q /\ \A k \in 1 .. Len(s) : u[k] = s[k]
    BY <1>1, <2>1, <2>2
  <2> HIDE DEF u
  <2>4. u \in [1 .. Len(s) + 1 -> Params] /\ u[Len(s) + 1] = q
    BY <2>3
  <2>5. u = Append(s, q)
    BY <2>1, <2>3, <2>4, IsAppend, Zenon
  <2> QED BY <2>5, Zenon DEF u
<1>4. [x EXCEPT !.params[n].capas = Append(@, c)] = [x EXCEPT !.params = [t EXCEPT ![n] = q]]
  <2> HIDE DEF t, n, x
  <2>1. [x EXCEPT !.params[n].capas = Append(@, c)]
           = [x EXCEPT !.params = [x.params EXCEPT ![n] = [x.params[n] EXCEPT !.capas = Append(@, c)]]]
    BY <1>2, <1>1 DEF Opens
  <2> QED BY <1>1, <1>2, <2>1, Zenon DEF q, WithCapa
<1>5. [x EXCEPT !.params = Append(s, q)] = WithParams(m, Append(s, q))
  <2> HIDE DEF q
  <2> QED BY DEF WithParams, Opens
<1>6. AddCapa(x, c) = [x EXCEPT !.params[n].capas = Append(@, c)]
  <2>1. Len(x.params) = n
    BY <1>1, <1>2, Zenon
  <2> HIDE DEF x, n
  <2> QED BY <2>1, Zenon DEF AddCapa
<1> HIDE DEF t, n, q
<1> QED BY <1>3, <1>4, <1>5, <1>6, Zenon DEF q

\* The first n parameters of m have been decoded.
ParamsReplay(m, n) == msg = WithParams(m, SubSeq(m.params, 1, n)) /\ i = ParamAt(m, n)

\* So have the first k capabilities of the next one.
CapasReplay(m, n, k) ==
    /\ m.params[n + 1].type = PARAMETER_CAPA
    /\ msg = WithParams(m, Append(SubSeq(m.params, 1, n), ParamUpto(m.params[n + 1], k)))
    /\ i = CapaAt(m.params[n + 1].capas, ParamAt(m, n) + 2, k) /\ end = ParamAt(m, n + 1)

\* The OPEN m is decoded from what it is written as, and nothing else.
OpenReplay(m) ==
    /\ m \in CanonicalOpens /\ LenParams(m) <= 255
    /\ pc \in {"open", "param", "capa", "done"}
    /\ pc # "done" => b = WriteOpen(m)
    /\ pc = "param" => \E n \in 0 .. Len(m.params) : ParamsReplay(m, n)
    /\ pc = "capa" => \E n \in 0 .. Len(m.params) - 1 :
                          \E k \in 0 .. Len(m.params[n + 1].capas) : CapasReplay(m, n, k)
    /\ pc = "done" => msg = m

\* It begins.
LEMMA OpenBegins == ASSUME ParseOpen, NEW m, OpenReplay(m) PROVE OpenReplay(m)'
<1>1. /\ pc = "open" /\ m \in CanonicalOpens /\ LenParams(m) <= 255 /\ b = WriteOpen(m)
      /\ m \in Opens
  BY Zenon DEF ParseOpen, OpenReplay, CanonicalOpens
<1>2. /\ b \in Seq(Byte) /\ LenParams(m) \in Nat /\ Size = 10 + LenParams(m)
      /\ At(0) = m.version /\ Bytes(1, 2) = m.asn /\ Bytes(3, 2) = m.hold /\ Bytes(5, 4) = m.id
      /\ At(9) = LenParams(m)
  BY <1>1, OpenLayout, Zenon
<1>3. ~(Size < 10) /\ 10 <= Size /\ ~(Size - 10 # At(9))
  BY <1>2
<1>4. /\ msg' = [type |-> "OPEN", version |-> At(0), asn |-> Bytes(1, 2),
                 hold |-> Bytes(3, 2), id |-> Bytes(5, 4), params |-> <<>>]
      /\ pc' = (IF At(9) >= 2 THEN "param" ELSE "done")
      /\ i' = 10 /\ b' = b
  BY <1>3, Zenon DEF ParseOpen, Reading
<1>5. msg' = WithParams(m, <<>>)
  <2>1. msg' = [type |-> "OPEN", version |-> m.version, asn |-> m.asn, hold |-> m.hold, id |-> m.id, params |-> <<>>]
    BY <1>2, <1>4, Zenon
  <2> QED BY <1>1, <2>1 DEF Opens, WithParams
<1>6. m.params \in Seq(Params) /\ Len(m.params) \in Nat
  BY <1>1 DEF Opens
<1>7. CASE At(9) >= 2
  <2>1. pc' = "param"
    BY <1>4, <1>7
  <2>2. SubSeq(m.params, 1, 0) = <<>> /\ ParamAt(m, 0) = 10
    BY <1>1, <1>6, OneFurther, ParamsEnd, Zenon
  <2>3. 0 \in 0 .. Len(m.params)
    BY <1>6
  <2>5. \E n \in 0 .. Len(m.params) : ParamsReplay(m, n)'
    <3>1. PICK n \in 0 .. Len(m.params) : n = 0
      BY <2>3
    <3>2. ParamsReplay(m, n)'
      BY <1>4, <1>5, <2>2, <3>1, Zenon DEF ParamsReplay
    <3> QED BY <3>2
  <2>6. pc' \in {"open", "param", "capa", "done"} /\ pc' # "capa" /\ pc' # "done"
    BY <2>1
  <2> QED BY <1>1, <1>4, <2>5, <2>6, Zenon DEF OpenReplay
<1>8. CASE ~(At(9) >= 2)
  <2>1. pc' = "done"
    BY <1>4, <1>8
  <2>2. Len(m.params) = 0
    <3>1. SUFFICES ASSUME Len(m.params) # 0 PROVE FALSE
      OBVIOUS
    <3>2. PICK n \in 0 .. Len(m.params) - 1 : n = 0
      BY <1>6, <3>1
    <3>3. /\ ParamAt(m, n) \in Nat /\ ParamAt(m, n) >= 10 /\ Sum(CapaLen, m.params[n + 1].capas) \in 0 .. 253
          /\ ParamAt(m, n + 1) = ParamAt(m, n) + 2 + Sum(CapaLen, m.params[n + 1].capas)
          /\ ParamAt(m, n + 1) <= Size
      BY <1>1, <3>2, ParamHere, Zenon
    <3>4. PICK x, y, z : x = ParamAt(m, n) /\ y = Sum(CapaLen, m.params[n + 1].capas) /\ z = ParamAt(m, n + 1)
      OBVIOUS
    <3>5. x >= 10 /\ x \in Nat /\ y \in 0 .. 253 /\ z = x + 2 + y /\ z <= Size
      BY <3>3, <3>4, Zenon
    <3>6. PICK u, v : u = Size /\ v = LenParams(m)
      OBVIOUS
    <3>7. v \in Nat /\ u = 10 + v /\ ~(v >= 2) /\ z <= u
      BY <1>2, <1>8, <3>5, <3>6, Zenon
    <3> QED BY ONLY <3>5, <3>7
  <2>3. m.params = <<>>
    BY <1>6, <2>2
  <2>4. msg' = m
    BY <1>1, <1>5, <1>6, <2>3, WithParamsFacts, Zenon
  <2>5. pc' \in {"open", "param", "capa", "done"} /\ pc' # "capa" /\ pc' # "param"
    BY <2>1
  <2> QED BY <1>1, <2>1, <2>4, <2>5, Zenon DEF OpenReplay
<1> QED BY <1>7, <1>8

\* The next parameter, or the end.
LEMMA ParamsGo == ASSUME ParseParameter, NEW m, OpenReplay(m) PROVE OpenReplay(m)'
<1>1. /\ pc = "param" /\ m \in CanonicalOpens /\ LenParams(m) <= 255 /\ b = WriteOpen(m)
      /\ m \in Opens /\ m.params \in Seq(CanonicalParams)
      /\ \E n \in 0 .. Len(m.params) : ParamsReplay(m, n)
  <2>1. pc = "param"
    BY DEF ParseParameter
  <2> QED BY <2>1, Zenon DEF OpenReplay, CanonicalOpens
<1>2. PICK n \in 0 .. Len(m.params) : ParamsReplay(m, n)
  BY <1>1
<1>3. m.params \in Seq(Params) /\ Len(m.params) \in Nat
  BY <1>1 DEF Opens
<1>4. /\ SubSeq(m.params, 1, Len(m.params)) = m.params /\ SubSeq(m.params, 1, n) \in Seq(Params)
  BY <1>2, <1>3, OneFurther, Zenon
<1>5. msg = WithParams(m, SubSeq(m.params, 1, n)) /\ i = ParamAt(m, n)
  BY <1>2, Zenon DEF ParamsReplay
<1>6. CASE n = Len(m.params)
  <2>1. i = Size /\ Size \in Nat
    <3>1. Size = 10 + LenParams(m) /\ LenParams(m) \in Nat
      BY <1>1, OpenLayout, Zenon
    <3>2. i = Size
      BY <1>1, <1>5, <1>6, ParamsEnd, Zenon
    <3> QED BY <3>1, <3>2
  <2>2. i >= Size - 1
    BY <2>1
  <2>3. pc' = "done" /\ UNCHANGED msg
    BY <2>2, Zenon DEF ParseParameter
  <2>4. msg' = m
    BY <1>1, <1>3, <1>4, <1>5, <1>6, <2>3, WithParamsFacts, Zenon
  <2>5. pc' \in {"open", "param", "capa", "done"} /\ pc' # "capa" /\ pc' # "param"
    BY <2>3
  <2> QED BY <1>1, <2>3, <2>4, <2>5, Zenon DEF OpenReplay
<1>7. CASE n # Len(m.params)
  <2> DEFINE p == m.params[n + 1]  l == Sum(CapaLen, p.capas)
  <2>1. n \in 0 .. Len(m.params) - 1 /\ n + 1 \in 0 .. Len(m.params) /\ n + 1 \in 1 .. Len(m.params)
    BY <1>2, <1>3, <1>7
  <2>2. /\ ParamAt(m, n) \in Nat /\ p \in Params /\ At(ParamAt(m, n)) = p.type /\ At(ParamAt(m, n) + 1) = l
        /\ l \in 0 .. 253 /\ ParamAt(m, n + 1) = ParamAt(m, n) + 2 + l /\ ParamAt(m, n + 1) <= Size
    BY <1>1, <2>1, ParamHere, Zenon
  <2>3. p.type # PARAMETER_CAPA => p.capas = <<>>
    <3>1. p \in CanonicalParams
      <4> HIDE DEF p
      <4>1. \A k \in 1 .. Len(m.params) : m.params[k] \in CanonicalParams
        BY <1>1, ElementsOf, Zenon
      <4> QED BY <2>1, <4>1, Zenon DEF p
    <3> QED BY <3>1, Zenon DEF CanonicalParams
  <2>4. SubSeq(m.params, 1, n + 1) = Append(SubSeq(m.params, 1, n), p)
    BY <1>3, <2>1, OneFurther, Zenon
  <2> HIDE DEF l, p
  <2>5. PICK z : z = Size
    OBVIOUS
  <2>6. i \in Nat /\ At(i) = p.type /\ At(i + 1) = l /\ i + 2 + l <= z /\ i + 2 + l = ParamAt(m, n + 1)
    BY <1>5, <2>2, <2>5, Zenon
  <2>7. z \in Nat
    <3>1. Size = 10 + LenParams(m) /\ LenParams(m) \in Nat
      BY <1>1, OpenLayout, Zenon
    <3> QED BY <2>5, <3>1
  <2>8. ~(i >= z - 1) /\ i + 2 <= z /\ ~(i + 1 + l > z)
    BY ONLY <2>2, <2>6, <2>7
  <2>9. /\ msg' = [msg EXCEPT !.params = Append(@, [type |-> p.type, capas |-> <<>>])]
        /\ pc' = (IF p.type = PARAMETER_CAPA THEN "capa" ELSE "param")
        /\ i' = i + 2 /\ end' = i + 2 + l /\ b' = b
    BY <2>5, <2>6, <2>8, Zenon DEF ParseParameter, Reading
  <2> DEFINE s == SubSeq(m.params, 1, n)  q == [type |-> p.type, capas |-> <<>>]
  <2>10. msg' = WithParams(m, Append(s, q))
    <3>1. s \in Seq(Params) /\ msg = WithParams(m, s) /\ msg' = [msg EXCEPT !.params = Append(@, q)]
      BY <1>4, <1>5, <2>9, Zenon
    <3> HIDE DEF s, q
    <3>2. \A x : [WithParams(m, s) EXCEPT !.params = Append(@, x)] = WithParams(m, Append(s, x))
      BY <1>1, <3>1, WithParamsFacts, Zenon
    <3>3. [WithParams(m, s) EXCEPT !.params = Append(@, q)] = WithParams(m, Append(s, q))
      BY <3>2
    <3>4. msg' = [WithParams(m, s) EXCEPT !.params = Append(@, q)]
      BY <3>1
    <3> QED BY <3>3, <3>4
  <2>11. CASE p.type = PARAMETER_CAPA
    <3>1. pc' = "capa"
      BY <2>9, <2>11
    <3>2. ParamUpto(p, 0) = q /\ p.capas \in Seq(Capas)
      <4>1. p.capas \in Seq(Capas)
        BY <2>2 DEF Params
      <4> QED BY <2>2, <4>1, ParamUptoFacts, Zenon
    <3>3. CapaAt(p.capas, ParamAt(m, n) + 2, 0) = i + 2
      <4>1. ParamAt(m, n) + 2 \in Nat
        BY <2>2
      <4> QED BY <1>5, <3>2, <4>1, CapasEnd, Zenon
    <3>4. PICK k \in 0 .. Len(p.capas) : k = 0
      BY <3>2
    <3>5. CapasReplay(m, n, k)'
      BY <2>6, <2>9, <2>10, <2>11, <3>2, <3>3, <3>4, Zenon DEF CapasReplay, p
    <3>6. \E h \in 0 .. Len(m.params) - 1 : \E j \in 0 .. Len(m.params[h + 1].capas) : CapasReplay(m, h, j)'
      BY <2>1, <3>5, Zenon DEF p
    <3>7. pc' \in {"open", "param", "capa", "done"} /\ pc' # "done" /\ pc' # "param"
      BY <3>1
    <3> QED BY <1>1, <2>9, <3>6, <3>7, Zenon DEF OpenReplay
  <2>12. CASE p.type # PARAMETER_CAPA
    <3>1. pc' = "param"
      BY <2>9, <2>12
    <3>2. q = p
      BY <2>2, <2>3, <2>12 DEF Params
    <3>3. l = 0
      <4>1. <<>> \in Seq(Capas) /\ Len(<<>>) = 0 /\ 0 \in Nat
        OBVIOUS
      <4>2. 0 = 0 + Sum(CapaLen, <<>>)
        BY <4>1, CapasEnd, Zenon
      <4>3. l = Sum(CapaLen, <<>>)
        BY <2>3, <2>12, Zenon DEF l
      <4> QED BY <2>2, <4>2, <4>3
    <3>4. i' = ParamAt(m, n + 1)
      <4>1. i + 2 + l = i + 2
        BY <2>6, <3>3
      <4> QED BY <2>6, <2>9, <4>1, Zenon
    <3>5. ParamsReplay(m, n + 1)'
      BY <2>4, <2>10, <3>2, <3>4, Zenon DEF ParamsReplay
    <3>6. \E j \in 0 .. Len(m.params) : ParamsReplay(m, j)'
      BY <2>1, <3>5, Zenon
    <3>7. pc' \in {"open", "param", "capa", "done"} /\ pc' # "done" /\ pc' # "capa"
      BY <3>1
    <3> QED BY <1>1, <2>9, <3>6, <3>7, Zenon DEF OpenReplay
  <2> QED BY <2>11, <2>12
<1> QED BY <1>6, <1>7

\* The next capability, or the end of the parameter.
LEMMA CapasGo == ASSUME ParseCapabilities, NEW m, OpenReplay(m) PROVE OpenReplay(m)'
<1>1. /\ pc = "capa" /\ m \in CanonicalOpens /\ LenParams(m) <= 255 /\ b = WriteOpen(m) /\ m \in Opens
      /\ \E n \in 0 .. Len(m.params) - 1 : \E k \in 0 .. Len(m.params[n + 1].capas) : CapasReplay(m, n, k)
  <2>1. pc = "capa"
    BY DEF ParseCapabilities
  <2> QED BY <2>1, Zenon DEF OpenReplay, CanonicalOpens
<1>2. PICK n \in 0 .. Len(m.params) - 1 : \E k \in 0 .. Len(m.params[n + 1].capas) : CapasReplay(m, n, k)
  BY <1>1
<1> DEFINE p == m.params[n + 1]  base == ParamAt(m, n) + 2  l == Sum(CapaLen, p.capas)  s == SubSeq(m.params, 1, n)
<1>3. PICK k \in 0 .. Len(p.capas) : CapasReplay(m, n, k)
  BY <1>2
<1>4. m.params \in Seq(Params) /\ Len(m.params) \in Nat
  BY <1>1 DEF Opens
<1>5. n + 1 \in 0 .. Len(m.params) /\ n \in 0 .. Len(m.params)
  BY <1>2, <1>4
<1>6. s \in Seq(Params) /\ SubSeq(m.params, 1, n + 1) = Append(s, p)
  BY <1>2, <1>4, <1>5, OneFurther, Zenon
<1>7. /\ ParamAt(m, n) \in Nat /\ p \in Params /\ l \in 0 .. 253 /\ Has(base, FlattenSeq(CapaWords(p.capas)))
      /\ ParamAt(m, n + 1) = base + l /\ ParamAt(m, n + 1) <= Size
  BY <1>1, <1>2, ParamHere, Zenon
<1>8. /\ p.type = PARAMETER_CAPA /\ msg = WithParams(m, Append(s, ParamUpto(p, k)))
      /\ i = CapaAt(p.capas, base, k) /\ end = base + l /\ end = ParamAt(m, n + 1)
  BY <1>3, <1>7, Zenon DEF CapasReplay
<1>9. p.capas \in Seq(Capas) /\ Len(p.capas) \in Nat
  <2>1. \A q \in Params : q.capas \in Seq(Capas)
    BY ONLY DEF Params
  <2>2. p.capas \in Seq(Capas)
    BY <1>7, <2>1, Zenon
  <2>3. PICK q : q = p.capas
    OBVIOUS
  <2> QED BY ONLY <2>2, <2>3
<1>10. base \in Nat
  BY <1>7
<1>11. b \in Seq(Byte) /\ LenParams(m) \in Nat /\ Size = 10 + LenParams(m)
  BY <1>1, OpenLayout, Zenon
<1> HIDE DEF p, base, l, s
<1>12. CASE k = Len(p.capas)
  <2>1. i = end
    BY <1>8, <1>9, <1>10, <1>12, CapasEnd, Zenon DEF l
  <2>2. i >= end
    <3>1. end \in Nat
      BY <1>7, <1>8, <1>10
    <3> QED BY <2>1, <3>1
  <2>3. pc' = "param" /\ UNCHANGED <<b, i, msg>>
    BY <2>2, Zenon DEF ParseCapabilities
  <2>4. msg' = WithParams(m, Append(s, p))
    BY <1>7, <1>8, <1>12, <2>3, ParamUptoFacts, Zenon
  <2>5. ParamsReplay(m, n + 1)'
    BY <1>6, <1>8, <2>1, <2>3, <2>4, Zenon DEF ParamsReplay
  <2>6. \E j \in 0 .. Len(m.params) : ParamsReplay(m, j)'
    BY <1>5, <2>5, Zenon
  <2>7. pc' \in {"open", "param", "capa", "done"} /\ pc' # "done" /\ pc' # "capa"
    BY <2>3
  <2> QED BY <1>1, <2>3, <2>6, <2>7, Zenon DEF OpenReplay
<1>13. CASE k # Len(p.capas)
  <2> DEFINE c == p.capas[k + 1]  at == CapaAt(p.capas, base, k)  d == At(at + 1)
  <2>1. k \in 0 .. Len(p.capas) - 1 /\ k + 1 \in 0 .. Len(p.capas) /\ k + 1 \in 1 .. Len(p.capas)
    BY <1>3, <1>9, <1>13
  <2>2. l <= 253
    BY <1>7
  <2>3. /\ at \in Nat /\ d \in Nat /\ ParseCapability(At(at), Bytes(at + 2, d)) = c
        /\ CapaAt(p.capas, base, k + 1) = at + 2 + d /\ CapaAt(p.capas, base, k + 1) <= base + l
    BY <1>7, <1>9, <1>10, <1>11, <2>1, <2>2, CapaHere, Zenon DEF l
  <2> HIDE DEF at, d, c
  <2>4. PICK z : z = Size
    OBVIOUS
  <2>5. i = at /\ At(i + 1) = d /\ ParseCapability(At(i), Bytes(i + 2, d)) = c
    BY <1>8, <2>3, Zenon DEF at, d
  <2>6. i + 2 + d <= base + l /\ base + l <= z /\ end = base + l /\ i \in Nat
    BY <1>7, <1>8, <2>3, <2>4, <2>5, Zenon
  <2>7. z \in Nat
    BY <1>11, <2>4
  <2>8. l \in Nat
    BY <1>7
  <2>9. ~(i >= z - 1 \/ i >= end) /\ i + 2 <= z /\ ~(i + 2 + d > z) /\ i + 2 + d <= z
    BY ONLY <1>10, <2>3, <2>6, <2>7, <2>8
  <2>10. /\ msg' = [msg EXCEPT !.params[Len(msg.params)].capas = Append(@, c)]
         /\ i' = i + 2 + d /\ UNCHANGED <<b, pc, locals>>
    BY <2>4, <2>5, <2>9, Zenon DEF ParseCapabilities, Reading
  <2>11. /\ ParamUpto(p, k) \in Params
         /\ ParamUpto(p, k + 1) = [ParamUpto(p, k) EXCEPT !.capas = Append(@, c)]
    BY <1>7, <1>3, <2>1, ParamUptoFacts, Zenon DEF c
  <2>12. c \in Capas
    <3>1. \A j \in 1 .. Len(p.capas) : p.capas[j] \in Capas
      BY <1>9, ElementsOf, Zenon
    <3> QED BY <2>1, <3>1, Zenon DEF c
  <2>13. msg' = WithParams(m, Append(s, ParamUpto(p, k + 1)))
    <3> DEFINE x == msg  q == ParamUpto(p, k)
    <3>1. x = WithParams(m, Append(s, q)) /\ q \in Params
      BY <1>8, <2>11, Zenon
    <3> HIDE DEF x, q
    <3>2. AddCapa(x, c) = WithParams(m, Append(s, WithCapa(q, c)))
      BY <1>1, <1>6, <2>12, <3>1, LastParam, Zenon
    <3>3. msg' = AddCapa(x, c) /\ ParamUpto(p, k + 1) = WithCapa(q, c)
      BY <2>10, <2>11, Zenon DEF x, q, AddCapa, WithCapa
    <3> QED BY <3>2, <3>3, Zenon
  <2>14. i' = CapaAt(p.capas, base, k + 1)
    BY <2>3, <2>5, <2>10, Zenon
  <2>15. CapasReplay(m, n, k + 1)'
    <3>1. end' = end
      BY <2>10, Zenon DEF locals
    <3> QED BY <1>8, <2>13, <2>14, <3>1, Zenon DEF CapasReplay, p, base, s
  <2>16. \E h \in 0 .. Len(m.params) - 1 : \E j \in 0 .. Len(m.params[h + 1].capas) : CapasReplay(m, h, j)'
    BY <1>2, <2>1, <2>15, Zenon DEF p
  <2>17. pc' = "capa"
    BY <1>1, <2>10
  <2>18. pc' \in {"open", "param", "capa", "done"} /\ pc' # "done" /\ pc' # "param"
    BY <2>17
  <2> QED BY <1>1, <2>10, <2>16, <2>18, Zenon DEF OpenReplay
<1> QED BY <1>12, <1>13

\* Whatever is decoded next of an OPEN.
LEMMA OpenGoes == ASSUME OpenNext, NEW m, OpenReplay(m) PROVE OpenReplay(m)'
BY OpenBegins, ParamsGo, CapasGo, Zenon DEF OpenNext

\* The shorter messages are decoded as they were.
NotificationReplay(m) ==
    /\ m \in Notifications /\ pc \in {"notification", "done"}
    /\ pc # "done" => b = WriteNotification(m)
    /\ pc = "done" => msg = m
KeepAliveReplay(m) == m \in KeepAlives /\ pc \in {"keepalive", "done"} /\ (pc = "done" => msg = m)

\* The message m is decoded from what it is written as, and nothing else.
MessageReplay(m) == OpenReplay(m) \/ UpdateReplay(m) \/ NotificationReplay(m) \/ KeepAliveReplay(m)

\* A NOTIFICATION or a KEEPALIVE is decoded.
LEMMA ShortMessagesGo ==
    ASSUME NEW m
    PROVE  /\ ParseNotification /\ NotificationReplay(m) => NotificationReplay(m)'
           /\ ParseKeepAlive /\ KeepAliveReplay(m) => KeepAliveReplay(m)'
<1>1. ASSUME ParseNotification, NotificationReplay(m)
      PROVE  NotificationReplay(m)'
  <2>1. pc = "notification" /\ m \in Notifications /\ b = WriteNotification(m)
    BY <1>1 DEF ParseNotification, NotificationReplay
  <2> DEFINE e == m.error  d == m.data
  <2>2. /\ m = [type |-> "NOTIFICATION", error |-> e, data |-> d] /\ e \in Bs(2) /\ d \in Seq(Byte)
        /\ d \in Bs(Len(d)) /\ Len(d) \in Nat /\ b = e \o d
    BY <2>1 DEF Notifications, Bs, WriteNotification
  <2> HIDE DEF e, d
  <2>3. PICK n \in Nat : n = 2
    OBVIOUS
  <2>4. /\ e \o d \in Seq(Byte) /\ Len(e \o d) = n + Len(d) /\ SubSeq(e \o d, n + 1, n + Len(d)) = d
    <3>1. PICK l \in Nat : l = Len(d)
      BY <2>2
    <3>2. e \in Bs(n) /\ d \in Bs(l)
      BY <2>2, <2>3, <3>1
    <3>3. /\ e \o d \in Seq(Byte) /\ Len(e \o d) = n + l /\ SubSeq(e \o d, n + 1, n + l) = d
      BY <3>2, PartsOf
    <3> QED BY <3>1, <3>3, Zenon
  <2>5. Size = 2 + Len(d) /\ SubSeq(b, 3, Size) = d
    <3>1. Size = n + Len(d)
      BY <2>2, <2>4, Zenon DEF Size
    <3>2. n + 1 = 3
      BY <2>3
    <3> QED BY <2>2, <2>3, <2>4, <3>1, <3>2, Zenon
  <2>6. Bytes(0, 2) = e
    <3>1. b \in Seq(Byte) /\ Has(0, b) /\ 0 \in Nat /\ 2 \in Nat
      <4>1. b \in Seq(Byte)
        BY <2>2, <2>4, Zenon
      <4> QED BY <4>1, HasAll
    <3>2. Has(0, e)
      <4>1. Len(d) \in Nat
        BY <2>2
      <4> QED BY <2>2, <3>1, <4>1, HasNext, Zenon
    <3> QED BY <2>2, <3>1, <3>2, HasBs, Zenon
  <2>7. ~(Size < 2) /\ 2 <= Size
    BY <2>2, <2>5
  <2>8. /\ msg' = [type |-> "NOTIFICATION", error |-> e, data |-> d] /\ pc' = "done"
    BY <1>1, <2>5, <2>6, <2>7, Zenon DEF ParseNotification, Reading
  <2>9. pc' \in {"notification", "done"}
    BY <2>8
  <2> QED BY <2>1, <2>2, <2>8, <2>9, Zenon DEF NotificationReplay
<1>2. ASSUME ParseKeepAlive, KeepAliveReplay(m)
      PROVE  KeepAliveReplay(m)'
  BY <1>2 DEF ParseKeepAlive, KeepAliveReplay, KeepAlives
<1> QED BY <1>1, <1>2

\* Where the decoders of a message are.
LEMMA UpdateNextAt == ASSUME UpdateNext PROVE pc = "update" \/ InUpdate \/ InAttributes \/ pc = "nlri"
<1>1. pc \in {"update", "withdrawn", "attributes", "prefixes", "nlri", "attrs", "attr", "aspath", "reach", "unreach"}
  BY DEF UpdateNext, ParseUpdate, WithdrawnParsed, AttributesParsed, UpdateParsed, ParseNLRI, ParseAttributeHeader,
     ParseOrigin, ParseMedLocPref, ParseAggregator, ParseAtomicAggregate, ParseNextHop, ParseCommunities,
     ParseUnknown, ParseASPath, ParseASPathSegment, ParseReach, ReachParsed, ParseUnreach, UnreachParsed, Case
<1> QED BY <1>1 DEF InUpdate, InAttributes

\* And the other decoders.
LEMMA DecodersAt ==
    /\ OpenNext => pc \in {"open", "param", "capa"}
    /\ ParseNotification => pc = "notification"
    /\ ParseKeepAlive => pc = "keepalive"
    /\ Receive \/ ParseSlice => pc = "start"
BY DEF OpenNext, ParseOpen, ParseParameter, ParseCapabilities, ParseNotification, ParseKeepAlive, Receive, ParseSlice

\* Whatever is decoded next of a message.
LEMMA MessageGoes ==
    ASSUME Inv, PacketNext, NEW m, MessageReplay(m)
    PROVE  MessageReplay(m)'
<1>1. PacketNext
  OBVIOUS
<1>2. CASE OpenReplay(m)
  <2>1. pc \in {"open", "param", "capa", "done"}
    BY <1>2, Zenon DEF OpenReplay
  <2>2. ~(pc = "update" \/ InUpdate \/ InAttributes \/ pc = "nlri") /\ pc # "start" /\ pc # "notification" /\ pc # "keepalive"
    BY <2>1 DEF InUpdate, InAttributes
  <2>3. OpenNext
    BY <1>1, <2>2, UpdateNextAt, DecodersAt, Zenon DEF PacketNext
  <2> QED BY <1>2, <2>3, OpenGoes, Zenon DEF MessageReplay
<1>3. CASE UpdateReplay(m)
  <2>1. pc = "update" \/ InUpdate \/ pc = "done"
    BY <1>3, Zenon DEF UpdateReplay
  <2>2. pc \notin {"open", "param", "capa", "notification", "keepalive", "start"}
    BY <2>1 DEF InUpdate, InAttributes
  <2>3. UpdateNext
    BY <1>1, <2>2, DecodersAt DEF PacketNext
  <2> QED BY <1>3, <2>3, UpdateGoes, Zenon DEF MessageReplay
<1>4. CASE NotificationReplay(m)
  <2>1. pc \in {"notification", "done"}
    BY <1>4, Zenon DEF NotificationReplay
  <2>2. /\ ~(pc = "update" \/ InUpdate \/ InAttributes \/ pc = "nlri")
        /\ pc \notin {"open", "param", "capa"} /\ pc # "start" /\ pc # "keepalive"
    BY <2>1 DEF InUpdate, InAttributes
  <2>3. ParseNotification
    BY <1>1, <2>2, UpdateNextAt, DecodersAt, Zenon DEF PacketNext
  <2> QED BY <1>4, <2>3, ShortMessagesGo, Zenon DEF MessageReplay
<1>5. CASE KeepAliveReplay(m)
  <2>1. pc \in {"keepalive", "done"}
    BY <1>5, Zenon DEF KeepAliveReplay
  <2>2. /\ ~(pc = "update" \/ InUpdate \/ InAttributes \/ pc = "nlri")
        /\ pc \notin {"open", "param", "capa"} /\ pc # "start" /\ pc # "notification"
    BY <2>1 DEF InUpdate, InAttributes
  <2>3. ParseKeepAlive
    BY <1>1, <2>2, UpdateNextAt, DecodersAt, Zenon DEF PacketNext
  <2> QED BY <1>5, <2>3, ShortMessagesGo, Zenon DEF MessageReplay
<1> QED BY <1>2, <1>3, <1>4, <1>5, Zenon DEF MessageReplay

\* The type of a message decides its decoder.
LEMMA MessageTypes ==
    /\ MessageType["OPEN"] = 1 /\ MessageType["UPDATE"] = 2 /\ MessageType["NOTIFICATION"] = 3
    /\ MessageType["KEEPALIVE"] = 4
BY DEF MessageType

\* The body of a message that is written is given to the decoder of its type.
LEMMA BodyBegins ==
    ASSUME NEW m \in Messages, Fits(m), NEW body, NEW options,
           ParsePacket(MessageType[m.type], body, options), body = Body(m) \/ LenContent(m) = 0
    PROVE  /\ m.type = "OPEN" => pc' = "open" /\ b' = WriteOpen(m)
           /\ m.type = "UPDATE" => pc' = "update" /\ b' = WriteUpdate(m)
           /\ m.type = "NOTIFICATION" => pc' = "notification" /\ b' = WriteNotification(m)
           /\ m.type = "KEEPALIVE" => pc' = "keepalive"
           /\ session' = options
<1> DEFINE n == LenContent(m)
<1>1. (m.type = "UPDATE" => Sound(m.attrs)) /\ LenPacket(m) <= MaxMessage
  BY Zenon DEF Fits
<1>2. /\ m.type \in {"OPEN", "UPDATE", "NOTIFICATION", "KEEPALIVE"} /\ n \in Nat
      /\ m.type = "OPEN" => m \in Opens
      /\ m.type = "UPDATE" => m \in Updates
      /\ m.type = "NOTIFICATION" => m \in Notifications
  BY <1>1, BodyType, Zenon
<1>7. session' = options
  BY Zenon DEF ParsePacket
<1>8. b' = body /\ pc' = CASE MessageType[m.type] = 1 -> "open"
               [] MessageType[m.type] = 2 -> "update"
               [] MessageType[m.type] = 3 -> "notification"
               [] MessageType[m.type] = 4 -> "keepalive"
               [] OTHER -> "error"
  BY Zenon DEF ParsePacket
<1>9. CASE m.type = "OPEN"
  <2>1. MessageType[m.type] = 1
    BY <1>9, MessageTypes
  <2>2. pc' = "open"
    BY <1>8, <2>1
  <2>3. n # 0 /\ Body(m) = WriteOpen(m)
    <3>1. n = 10 + LenParams(m) /\ LenParams(m) \in Nat
      BY <1>2, <1>9, WriteOpenLen DEF LenContent
    <3>2. Body(m) = WriteOpen(m)
      BY <1>9 DEF Body
    <3> QED BY <3>1, <3>2
  <2>4. b' = WriteOpen(m)
    BY <1>8, <2>3, Zenon
  <2> QED BY <1>7, <1>9, <2>2, <2>4
<1>10. CASE m.type = "UPDATE"
  <2>1. MessageType[m.type] = 2
    BY <1>10, MessageTypes
  <2>2. pc' = "update"
    BY <1>8, <2>1
  <2>3. n # 0 /\ Body(m) = WriteUpdate(m)
    <3>1. n = UpdateLen(m) /\ Body(m) = WriteUpdate(m)
      BY <1>10 DEF LenContent, Body
    <3>2. n = 4 + LenNLRIs(m.withdrawn, m.addPath) + LenPathAttribute(m) + LenNLRIs(m.nlri, m.addPath)
      BY <3>1, Zenon DEF UpdateLen
    <3>3. /\ m.withdrawn \in Seq(Routes) /\ m.nlri \in Seq(Routes) /\ m.addPath \in BOOLEAN /\ m.attrs \in Seq(Attributes)
      BY <1>2, <1>10 DEF Updates
    <3>4. LenNLRIs(m.withdrawn, m.addPath) \in Nat /\ LenNLRIs(m.nlri, m.addPath) \in Nat
      BY <3>3, WriteNLRIsLen, Zenon
    <3>5. LenPathAttribute(m) \in Nat
      <4>1. Attributes \subseteq Attributes \cup Pointers
        OBVIOUS
      <4>2. m.attrs \in Seq(Attributes \cup Pointers)
        BY <3>3, <4>1, SeqInto, Zenon
      <4> QED BY <4>2, WriteAttributesLen, Zenon DEF LenPathAttribute
    <3> QED BY <3>1, <3>2, <3>4, <3>5
  <2>4. b' = WriteUpdate(m)
    BY <1>8, <2>3, Zenon
  <2> QED BY <1>7, <1>10, <2>2, <2>4
<1>11. CASE m.type = "NOTIFICATION"
  <2>1. MessageType[m.type] = 3
    BY <1>11, MessageTypes
  <2>2. pc' = "notification"
    BY <1>8, <2>1
  <2>3. n # 0 /\ Body(m) = WriteNotification(m)
    <3>1. n = 2 + Len(m.data) /\ Len(m.data) \in Nat
      BY <1>2, <1>11 DEF LenContent, Notifications
    <3>2. Body(m) = WriteNotification(m)
      BY <1>11 DEF Body
    <3> QED BY <3>1, <3>2
  <2>4. b' = WriteNotification(m)
    BY <1>8, <2>3, Zenon
  <2> QED BY <1>7, <1>11, <2>2, <2>4
<1>12. CASE m.type = "KEEPALIVE"
  <2>1. MessageType[m.type] = 4
    BY <1>12, MessageTypes
  <2>2. pc' = "keepalive"
    BY <1>8, <2>1
  <2> QED BY <1>7, <1>12, <2>2
<1> HIDE DEF n
<1> QED BY <1>2, <1>7, <1>9, <1>10, <1>11, <1>12

\* And its header is accepted.
LEMMA HeaderBegins ==
    ASSUME Receive \/ ParseSlice, NEW m \in Messages, Fits(m), b = WritePacket(m)
    PROVE  /\ m.type = "OPEN" => pc' = "open" /\ b' = WriteOpen(m)
           /\ m.type = "UPDATE" => pc' = "update" /\ b' = WriteUpdate(m)
           /\ m.type = "NOTIFICATION" => pc' = "notification" /\ b' = WriteNotification(m)
           /\ m.type = "KEEPALIVE" => pc' = "keepalive"
           /\ session' = Options'
<1> DEFINE n == LenContent(m)
<1>1. (m.type = "UPDATE" => Sound(m.attrs)) /\ LenPacket(m) <= MaxMessage
  BY Zenon DEF Fits
<1>2. /\ m.type \in {"OPEN", "UPDATE", "NOTIFICATION", "KEEPALIVE"} /\ n \in Nat
      /\ m.type = "OPEN" => m \in Opens
      /\ m.type = "UPDATE" => m \in Updates
      /\ m.type = "NOTIFICATION" => m \in Notifications
  BY <1>1, BodyType, Zenon
<1>3. /\ ParsePacketHeader(b) /\ BodyLen(b) = n /\ Size = 19 + n
      /\ b[19] = MessageType[m.type] /\ SubSeq(b, 20, 19 + n) = Body(m)
  BY <1>1, PacketLayout, Zenon DEF Size
<1>4. ~(GetBGPHeaderLen + n > Size)
  <2> HIDE DEF n
  <2> QED BY <1>2, <1>3 DEF GetBGPHeaderLen
<1>5. \E options, body :
          /\ ParsePacket(MessageType[m.type], body, options) /\ options = Options /\ UNCHANGED caller
          /\ body = Body(m) \/ n = 0
  <2>1. CASE Receive
    <3>1. source = "socket" /\ Options = session
      BY <2>1 DEF Receive, Options
    <3>2. /\ ParsePacket(b[19], IF n = 0 THEN SubSeq(b, 1, 19) ELSE SubSeq(b, 20, 19 + n), session)
          /\ UNCHANGED caller
      <4> HIDE DEF n
      <4> QED BY <1>3, <1>4, <2>1, Zenon DEF Receive
    <3> HIDE DEF n
    <3>3. n # 0 => ParsePacket(MessageType[m.type], Body(m), session)
      BY <1>3, <3>2, Zenon
    <3>4. n = 0 => ParsePacket(MessageType[m.type], SubSeq(b, 1, 19), session)
      BY <1>3, <3>2, Zenon
    <3> QED BY <3>1, <3>2, <3>3, <3>4, Zenon
  <2>2. CASE ParseSlice
    <3>1. Options = NoOptions
      BY <2>2 DEF ParseSlice, Options
    <3>2. ParsePacket(b[19], SubSeq(b, 20, 19 + n), NoOptions) /\ UNCHANGED caller
      <4> HIDE DEF n
      <4> QED BY <1>3, <1>4, <2>2, Zenon DEF ParseSlice
    <3>3. ParsePacket(MessageType[m.type], Body(m), NoOptions)
      BY <1>3, <3>2, Zenon
    <3> QED BY <3>1, <3>2, <3>3, Zenon
  <2> QED BY <2>1, <2>2
<1>6. PICK options, body :
          /\ ParsePacket(MessageType[m.type], body, options) /\ options = Options /\ UNCHANGED caller
          /\ body = Body(m) \/ n = 0
  BY <1>5
<1>7. session' = options
  BY <1>6, Zenon DEF ParsePacket
<1>8. Options' = options
  <2>1. source' = source
    BY <1>6, Zenon DEF caller
  <2> QED BY <1>6, <1>7, <2>1, Zenon DEF Options
<1>9. body = Body(m) \/ LenContent(m) = 0
  BY <1>6
<1> HIDE DEF n
<1> QED BY <1>6, <1>8, <1>9, BodyBegins, Zenon

\* A canonical message is one.
LEMMA CanonicalAreMessages == ASSUME NEW options, NEW m \in CanonicalMessages(options) PROVE m \in Messages
<1>1. CanonicalOpens \subseteq Opens /\ CanonicalUpdates(options) \subseteq Updates
  BY Zenon DEF CanonicalOpens, CanonicalUpdates
<1> QED BY <1>1, Zenon DEF Messages, CanonicalMessages

\* The decoder of a canonical message is at the beginning of what was written of it.
LEMMA MessageEntered ==
    ASSUME NEW options, NEW m \in CanonicalMessages(options), Fits(m), session' = options,
           /\ m.type = "OPEN" => pc' = "open" /\ b' = WriteOpen(m)
           /\ m.type = "UPDATE" => pc' = "update" /\ b' = WriteUpdate(m)
           /\ m.type = "NOTIFICATION" => pc' = "notification" /\ b' = WriteNotification(m)
           /\ m.type = "KEEPALIVE" => pc' = "keepalive"
    PROVE  MessageReplay(m)'
<1>4. LenPacket(m) <= MaxMessage /\ (m.type = "OPEN" => LenParams(m) <= 255) /\ (m.type = "UPDATE" => Sound(m.attrs))
  BY Zenon DEF Fits
<1>5. CASE m \in CanonicalOpens
  <2>1. m.type = "OPEN"
    BY <1>5 DEF CanonicalOpens, Opens
  <2>2. pc' \in {"open", "param", "capa", "done"} /\ pc' # "param" /\ pc' # "capa" /\ pc' # "done"
    BY <2>1
  <2>3. OpenReplay(m)'
    BY <1>4, <1>5, <2>1, <2>2, Zenon DEF OpenReplay
  <2> QED BY <2>3, Zenon DEF MessageReplay
<1>6. CASE m \in CanonicalUpdates(options)
  <2>1. m.type = "UPDATE"
    <3>1. m \in Updates
      BY <1>6, Zenon DEF CanonicalUpdates
    <3> QED BY <3>1 DEF Updates
  <2>2. /\ pc' = "update" /\ ~InUpdate' /\ ~Listing("withdrawn")' /\ ~Listing("prefixes")' /\ ~InAttributes'
        /\ pc' # "attributes" /\ pc' # "done"
    <3>1. pc' = "update"
      BY <2>1
    <3> QED BY <3>1 DEF InUpdate, InAttributes, Listing, InNLRI
  <2>3. m \in CanonicalUpdates(session)'
    BY <1>6, Zenon DEF CanonicalUpdates
  <2>4. UpdateReplay(m)'
    BY <1>4, <2>1, <2>2, <2>3, Zenon DEF UpdateReplay
  <2> QED BY <2>4, Zenon DEF MessageReplay
<1>7. CASE m \in Notifications
  <2>1. m.type = "NOTIFICATION"
    BY <1>7 DEF Notifications
  <2>2. pc' \in {"notification", "done"} /\ pc' # "done"
    BY <2>1
  <2>3. NotificationReplay(m)'
    BY <1>7, <2>1, <2>2, Zenon DEF NotificationReplay
  <2> QED BY <2>3, Zenon DEF MessageReplay
<1>8. CASE m \in KeepAlives
  <2>1. m.type = "KEEPALIVE"
    BY <1>8 DEF KeepAlives
  <2>2. pc' \in {"keepalive", "done"} /\ pc' # "done"
    BY <2>1
  <2>3. KeepAliveReplay(m)'
    BY <1>8, <2>2, Zenon DEF KeepAliveReplay
  <2> QED BY <2>3, Zenon DEF MessageReplay
<1> QED BY <1>5, <1>6, <1>7, <1>8, Zenon DEF CanonicalMessages

\* A message that is written begins to be decoded as it was.
LEMMA MessageBegins ==
    ASSUME Receive \/ ParseSlice, NEW m \in CanonicalMessages(Options), Fits(m), b = WritePacket(m)
    PROVE  MessageReplay(m)'
<1>1. m \in Messages
  BY CanonicalAreMessages, Zenon
<1>2. /\ m.type = "OPEN" => pc' = "open" /\ b' = WriteOpen(m)
      /\ m.type = "UPDATE" => pc' = "update" /\ b' = WriteUpdate(m)
      /\ m.type = "NOTIFICATION" => pc' = "notification" /\ b' = WriteNotification(m)
      /\ m.type = "KEEPALIVE" => pc' = "keepalive"
      /\ session' = Options'
  BY <1>1, HeaderBegins, Zenon
<1>3. Options' = Options
  <2>1. source' = source /\ (source = "socket" => session' = session)
    BY Zenon DEF Receive, ParseSlice, Fail, ParsePacket, caller
  <2> QED BY <2>1, Zenon DEF Options
<1>4. PICK options : options = Options
  OBVIOUS
<1>5. m \in CanonicalMessages(options) /\ session' = options
  BY <1>2, <1>3, <1>4
<1> QED BY <1>2, <1>5, MessageEntered, Zenon

\* Nothing changes.
LEMMA PartsStay ==
    ASSUME UNCHANGED vars
    PROVE  /\ \A s, path, start : PrefixesReplay(s, path, start) => PrefixesReplay(s, path, start)'
           /\ \A s, base : AttributesReplay(s, base) => AttributesReplay(s, base)'
<1>1. UNCHANGED <<b, session, i, pc, msg, locals>>
  BY Zenon DEF vars
<1>2. UNCHANGED <<b, session, i, pc, msg, end, attrsEnd, attrEnd, nlri, attr, failed>>
  BY <1>1, Zenon DEF locals
<1>3. \A k, s : Has(k, s)' <=> Has(k, s)
  BY <1>2, HasStays
<1>7. \A s, path, start : PrefixesReplay(s, path, start) => PrefixesReplay(s, path, start)'
  BY <1>2, <1>3, Zenon DEF PrefixesReplay
<1>9. \A a : AttributeReplay(a) => AttributeReplay(a)'
  <2> TAKE a
  <2>1. ReachReplay(a) => ReachReplay(a)'
    BY <1>2, <1>7, Zenon DEF ReachReplay, ListReplay
  <2>2. UnreachReplay(a) => UnreachReplay(a)'
    BY <1>2, <1>7, Zenon DEF UnreachReplay, ListReplay
  <2>3. FaithfulOne(a, session)' <=> FaithfulOne(a, session)
    BY <1>2, Zenon DEF FaithfulOne
  <2>4. (Listing("reach")' <=> Listing("reach")) /\ (Listing("unreach")' <=> Listing("unreach"))
    BY <1>2, Zenon DEF Listing, InNLRI
  <2>5. pc' = pc
    BY <1>2
  <2>6. (AtContent(a) => AtContent(a)') /\ (PathReplay(a) => PathReplay(a)')
    BY <1>2, <1>3, Zenon DEF AtContent, PathReplay
  <2> QED BY <2>1, <2>2, <2>3, <2>4, <2>5, <2>6, Zenon DEF AttributeReplay
<1>10. \A s, base : AttributesReplay(s, base) => AttributesReplay(s, base)'
  <2> TAKE s, base
  <2>1. Faithful(s, session)' = Faithful(s, session)
    BY <1>2, Zenon DEF Faithful
  <2>2. s \in Seq(CanonicalAttributes(session)) => s \in Seq(CanonicalAttributes(session))'
    BY <1>2, Zenon DEF CanonicalAttributes, ReadWith, Family
  <2> QED BY <1>2, <1>3, <1>9, <2>1, <2>2, Zenon DEF AttributesReplay
<1> QED BY <1>7, <1>10, Zenon

\* A message stays where it is.
LEMMA ReplayStays ==
    ASSUME UNCHANGED vars, NEW m, MessageReplay(m)
    PROVE  MessageReplay(m)'
<1>1. UNCHANGED <<b, session, i, pc, msg, locals>>
  BY Zenon DEF vars
<1>2. UNCHANGED <<b, session, i, pc, msg, end, attrsEnd, attrEnd, nlri, attr, failed>>
  BY <1>1, Zenon DEF locals
<1>3. \A k, s : Has(k, s)' <=> Has(k, s)
  BY <1>2, HasStays
<1>4. OpenReplay(m) => OpenReplay(m)'
  BY <1>2, Zenon DEF OpenReplay, ParamsReplay, CapasReplay
<1>5. NotificationReplay(m) \/ KeepAliveReplay(m) => NotificationReplay(m)' \/ KeepAliveReplay(m)'
  BY <1>2, Zenon DEF NotificationReplay, KeepAliveReplay
<1>6. /\ InAttributes' = InAttributes /\ InUpdate' = InUpdate
      /\ \A ret : Listing(ret)' <=> Listing(ret)
  BY <1>2, Zenon DEF InAttributes, InUpdate, Listing, InNLRI
<1>7. \A s, path, start : PrefixesReplay(s, path, start) => PrefixesReplay(s, path, start)'
  BY PartsStay, Zenon
<1>10. \A s, base : AttributesReplay(s, base) => AttributesReplay(s, base)'
  BY PartsStay, Zenon
<1>11. UpdateReplay(m) => UpdateReplay(m)'
  <2>1. Faithful(m.attrs, session)' = Faithful(m.attrs, session)
    BY <1>2, Zenon DEF Faithful
  <2>2. m \in CanonicalUpdates(session) => m \in CanonicalUpdates(session)'
    BY <1>2, UpdateStays, Zenon
  <2>3. /\ Listing("withdrawn")' = Listing("withdrawn") /\ Listing("prefixes")' = Listing("prefixes")
    BY <1>2, Zenon DEF Listing, InNLRI
  <2> QED BY <1>2, <1>6, <1>7, <1>10, <2>1, <2>2, <2>3, Zenon DEF UpdateReplay
<1> QED BY <1>4, <1>5, <1>11, Zenon DEF MessageReplay

\* What was returned and fits is decoded again as it was.
Retold == first.type = "CONVERTED" => Len(first.nlri.ip) = 4
Replayed == first # Nil /\ source # "mrt" /\ Fits(Target) /\ Retold /\ pc # "start" => MessageReplay(Target)

\* The message that is decoded again is canonical.
LEMMA TargetCanonical ==
    ASSUME FirstCanonical, first # Nil, source # "mrt", Retold
    PROVE  Target \in CanonicalMessages(Options)
<1>1. CASE first.type = "CONVERTED"
  <2>1. first.message \in CanonicalUpdates(NoOptions) /\ source = "packet"
    BY <1>1, Zenon DEF FirstCanonical, Retold
  <2>2. Target = first.message
    BY <1>1 DEF Target
  <2>3. Options = NoOptions
    BY <2>1 DEF Options
  <2> QED BY <2>1, <2>2, <2>3, Zenon DEF CanonicalMessages
<1>2. CASE first.type # "CONVERTED"
  <2>1. first \in CanonicalMessages(Options)
    BY <1>2, Zenon DEF FirstCanonical
  <2>2. first.type # "MESSAGE"
    <3>1. first \in Opens \cup Updates \cup Notifications \cup KeepAlives
      BY <2>1, Zenon DEF CanonicalMessages, CanonicalOpens, CanonicalUpdates
    <3> QED BY <3>1 DEF Opens, Updates, Notifications, KeepAlives
  <2>3. Target = first
    BY <1>2, <2>2 DEF Target
  <2> QED BY <2>1, <2>3, Zenon
<1> QED BY <1>1, <1>2

\* Every step keeps it.
LEMMA NextReplayed == ASSUME Clean, Replayed, [Next]_vars PROVE Replayed'
<1>0. Inv /\ FirstCanonical /\ AtRewritten
  BY Zenon DEF Clean
<1>1. CASE Decode
  <2>1. UNCHANGED <<source, first>> /\ pc' # "start"
    BY <1>0, <1>1, DecodeKeeps
  <2>2. Target' = Target /\ Fits(Target)' = Fits(Target) /\ Retold' = Retold
    BY <2>1, Zenon DEF Target, Retold
  <2>3. SUFFICES ASSUME first # Nil, source # "mrt", Fits(Target), Retold
                 PROVE  MessageReplay(Target)'
    BY <2>1, <2>2, Zenon DEF Replayed
  <2>4. PICK m : m = Target
    OBVIOUS
  <2>5. CASE pc = "start"
    <3>1. b = WritePacket(m)
      BY <1>0, <2>3, <2>4, <2>5, Zenon DEF AtRewritten, Rewritten
    <3>2. m \in CanonicalMessages(Options) /\ Fits(m)
      BY <1>0, <2>3, <2>4, TargetCanonical, Zenon
    <3>3. Receive \/ ParseSlice
      <4>1. PacketNext
        BY <1>0, <1>1, <2>3, MrtKeeps, Zenon DEF Decode
      <4>2. /\ ~(pc = "update" \/ InUpdate \/ InAttributes \/ pc = "nlri")
            /\ pc \notin {"open", "param", "capa"} /\ pc # "keepalive" /\ pc # "notification"
        BY <2>5 DEF InUpdate, InAttributes
      <4> QED BY <4>1, <4>2, UpdateNextAt, DecodersAt, Zenon DEF PacketNext
    <3>4. MessageReplay(m)'
      BY <3>1, <3>2, <3>3, MessageBegins, Zenon
    <3> QED BY <2>2, <2>4, <3>4, Zenon
  <2>6. CASE pc # "start"
    <3>0. PacketNext
      BY <1>0, <1>1, <2>3, MrtKeeps, Zenon DEF Decode
    <3>1. MessageReplay(m)
      BY <2>3, <2>4, <2>6, Zenon DEF Replayed
    <3>2. MessageReplay(m)'
      BY <1>0, <3>0, <3>1, MessageGoes, Zenon
    <3> QED BY <2>2, <2>4, <3>2, Zenon
  <2> QED BY <2>5, <2>6
<1>2. CASE Rewrite \/ Convert
  <2>1. pc' = "start"
    BY <1>2, Zenon DEF Rewrite, Convert, DecodeAgain
  <2> QED BY <2>1, Zenon DEF Replayed
<1>3. CASE UNCHANGED vars
  <2>1. UNCHANGED <<pc, source, first>>
    BY <1>3, Zenon DEF vars, caller
  <2>2. Target' = Target /\ Fits(Target)' = Fits(Target) /\ Retold' = Retold
    BY <2>1, Zenon DEF Target, Retold
  <2>3. PICK m : m = Target
    OBVIOUS
  <2>4. MessageReplay(m) => MessageReplay(m)'
    BY <1>3, ReplayStays, Zenon
  <2> QED BY <2>1, <2>2, <2>3, <2>4, Zenon DEF Replayed
<1> QED BY <1>1, <1>2, <1>3, Zenon DEF Next

-----------------------------------------------------------------------------
(* What is written is decoded again as it was.                              *)

\* What has been returned is canonical, and replayed as it was.
LEMMA AlwaysReplayed == Spec => [](Clean /\ Replayed)
<1>1. Init => Clean /\ Replayed
  <2>1. Init => first = Nil
    BY Zenon DEF Init
  <2> QED BY <2>1, InitClean, Zenon DEF Replayed
<1>2. Clean /\ Replayed /\ [Next]_vars => (Clean /\ Replayed)'
  BY NextClean, NextReplayed, Zenon
<1> QED BY <1>1, <1>2, PTL DEF Spec

\* At the end of the second time.
LEMMA ReplayedEnd ==
    ASSUME Clean, Replayed, Final, first # Nil, source # "mrt", Fits(Target), Retold
    PROVE  /\ pc = "done" /\ MessageReplay(Target)
           /\ Target.type = "UPDATE" => (Faithful(Target.attrs, session) => msg = Target)
           /\ Target.type # "UPDATE" => msg = Target
<1>1. pc # "start"
  BY DEF Final
<1>2. MessageReplay(Target)
  BY <1>1, Zenon DEF Replayed
<1>3. PICK m : m = Target
  OBVIOUS
<1>4. MessageReplay(m) /\ m.type = Target.type /\ m.attrs = Target.attrs
  BY <1>2, <1>3, Zenon
<1>5. CASE OpenReplay(m)
  <2>1. pc \in {"open", "param", "capa", "done"}
    BY <1>5, Zenon DEF OpenReplay
  <2>2. pc = "done"
    BY <2>1 DEF Final
  <2>3. msg = m
    BY <1>5, <2>2, Zenon DEF OpenReplay
  <2> QED BY <1>2, <1>3, <2>2, <2>3
<1>6. CASE UpdateReplay(m)
  <2>1. pc = "update" \/ InUpdate \/ pc = "done"
    BY <1>6, Zenon DEF UpdateReplay
  <2>2. pc = "done"
    BY <2>1 DEF Final, InUpdate, InAttributes
  <2>3. Faithful(m.attrs, session) => msg = m
    BY <1>6, <2>2, Zenon DEF UpdateReplay
  <2>4. m.type = "UPDATE"
    <3>1. m \in Updates
      BY <1>6, UpdateFacts, Zenon
    <3> QED BY <3>1 DEF Updates
  <2> QED BY <1>2, <1>3, <2>2, <2>3, <2>4, Zenon
<1>7. CASE NotificationReplay(m) \/ KeepAliveReplay(m)
  <2>1. pc \in {"notification", "keepalive", "done"}
    BY <1>7 DEF NotificationReplay, KeepAliveReplay
  <2>2. pc = "done"
    BY <2>1 DEF Final
  <2>3. msg = m
    BY <1>7, <2>2, Zenon DEF NotificationReplay, KeepAliveReplay
  <2> QED BY <1>2, <1>3, <2>2, <2>3
<1> QED BY <1>4, <1>5, <1>6, <1>7, Zenon DEF MessageReplay

\* What was not converted is decoded again.
LEMMA TargetFirst ==
    ASSUME Clean, first # Nil, source # "mrt", first.type # "CONVERTED"
    PROVE  Target = first /\ Retold
<1>1. first \in CanonicalMessages(Options)
  BY Zenon DEF Clean, FirstCanonical
<1>2. first.type # "MESSAGE"
  <2>1. first \in Opens \cup Updates \cup Notifications \cup KeepAlives
    BY <1>1, Zenon DEF CanonicalMessages, CanonicalOpens, CanonicalUpdates
  <2> QED BY <2>1 DEF Opens, Updates, Notifications, KeepAlives
<1> QED BY <1>2 DEF Target, Retold

\* FuzzParseRoundTrip: a message that was accepted and written is accepted again, whatever arrived
\* and whatever was negotiated, when its lengths fit their fields: the length fields Write computes
\* with Len are those ParsePacketHeader, ParseOpen, ParseUpdate and ParsePathAttribute accept.
THEOREM RewritingAccepted == Spec => []RewrittenIsAccepted
<1>1. Clean /\ Replayed => RewrittenIsAccepted
  <2> SUFFICES ASSUME Clean, Replayed, Final, first # Nil, source # "mrt", first.type # "CONVERTED", Fits(first)
               PROVE  pc = "done"
    BY Zenon DEF RewrittenIsAccepted
  <2>1. Target = first /\ Retold
    BY TargetFirst, Zenon
  <2> QED BY <2>1, ReplayedEnd, Zenon
<1> QED BY <1>1, AlwaysReplayed, PTL

\* And it is the same message: parameters and capabilities, prefixes with their masks and paths, and
\* every attribute the codec does not lose something of come back as they were, in their order.
THEOREM RoundTrips == Spec => []RoundTrip
<1>1. Clean /\ Replayed => RoundTrip
  <2> SUFFICES ASSUME Clean, Replayed, Final, first # Nil, source # "mrt", first.type # "CONVERTED",
                      Fits(first), first.type = "UPDATE" => Faithful(first.attrs, session)
               PROVE  msg = first
    BY Zenon DEF RoundTrip
  <2>1. Target = first /\ Retold
    BY TargetFirst, Zenon
  <2> QED BY <2>1, ReplayedEnd, Zenon
<1> QED BY <1>1, AlwaysReplayed, PTL

\* ConvertToUpdate: the UPDATE made of an entry of an IPv4 RIB is accepted and announces the prefix
\* of the record, and nothing else, with the attributes of the entry.
THEOREM Converts == Spec => []ConvertedAnnounces
<1>1. Clean /\ Replayed => ConvertedAnnounces
  <2> SUFFICES ASSUME Clean, Replayed, Final, first # Nil, first.type = "CONVERTED",
                      Fits(first.message), Faithful(first.attrs, NoOptions), Len(first.nlri.ip) = 4
               PROVE  pc = "done" /\ msg.nlri = <<first.nlri>> /\ msg.attrs = first.attrs
    BY Zenon DEF ConvertedAnnounces
  <2>1. Inv /\ Canonical /\ FirstCanonical
    BY Zenon DEF Clean
  <2>2. source # "mrt"
    <3>1. SUFFICES ASSUME source = "mrt" PROVE FALSE
      OBVIOUS
    <3>2. \/ first \in MessageResults \/ first \in StateChanges \/ first \in PeerIndexes \cup RibResults
      BY <2>1, <3>1, Zenon DEF FirstCanonical
    <3> QED BY <3>2 DEF MessageResults, StateChanges, PeerIndexes, RibResults
  <2>3. first.message = Announcing(first.nlri, first.attrs) /\ source = "packet"
    BY <2>1, <2>2, Zenon DEF FirstCanonical
  <2>4. Target = first.message /\ Retold
    BY DEF Target, Retold
  <2>5. /\ pc = "done"
        /\ Target.type = "UPDATE" => (Faithful(Target.attrs, session) => msg = Target)
    BY <2>2, <2>4, ReplayedEnd, Zenon
  <2>6. Target.type = "UPDATE" /\ Target.attrs = first.attrs /\ Target.nlri = <<first.nlri>>
    BY <2>3, <2>4 DEF Announcing
  <2>7. session = NoOptions
    <3>1. Options = NoOptions
      BY <2>3 DEF Options
    <3> QED BY <2>1, <2>2, <2>5, <3>1, Zenon DEF Canonical, ResultCanonical
  <2> QED BY <2>5, <2>6, <2>7, Zenon
<1> QED BY <1>1, AlwaysReplayed, PTL
=================================================================================
