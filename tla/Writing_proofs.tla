--------------------------- MODULE Writing_proofs ---------------------------
(***************************************************************************)
(* For every message and record of the types the decoders return: what is  *)
(* written is bytes, as many as Len counts.  Folds first: induction is     *)
(* that of the library over a set, since its own takes an operator.        *)
(***************************************************************************)
EXTENDS Codec, SequenceTheorems, WellFoundedInduction, TLAPS

-----------------------------------------------------------------------------
(* Numbers, sums and concatenations.                                        *)

\* A set of numbers has a least one.
LEMMA LeastNumber ==
    ASSUME NEW T \in SUBSET Nat, T # {}
    PROVE  \E m \in T : \A n \in T : m <= n
<1> DEFINE R == {ss \in Nat \X Nat : ss[1] < ss[2]}
<1>1. OpToRel(<, Nat) = R
  BY Zenon DEF OpToRel
<1>2. IsWellFoundedOn(R, Nat)
  BY <1>1, NatLessThanWellFounded, Zenon
<1>3. \E m \in T : \A n \in T : <<n, m>> \notin R
  <2> HIDE DEF R
  <2> QED BY <1>2, WFMin, Zenon
<1>4. \A m, n \in T : <<n, m>> \notin R => m <= n
  OBVIOUS
<1> QED
  BY <1>3, <1>4, Zenon

\* Induction over the numbers, for a set T.
LEMMA Induction ==
    ASSUME NEW T, 0 \in T, \A n \in Nat : n \in T => n + 1 \in T
    PROVE  Nat \subseteq T
<1> SUFFICES ASSUME Nat \ T # {} PROVE FALSE
  OBVIOUS
<1>1. PICK m \in Nat \ T : \A n \in Nat \ T : m <= n
  <2> Nat \ T \in SUBSET Nat OBVIOUS
  <2> QED BY LeastNumber
<1> QED
  BY <1>1

\* The maximum of a set of positions, which FoldLeft takes out first.
LEMMA MaxOfInterval ==
    ASSUME NEW m \in Nat, NEW s \in SUBSET (1 .. m + 1), m + 1 \in s
    PROVE  Max(s) = m + 1
<1>1. \A y \in s : y \in Nat /\ m + 1 >= y
  OBVIOUS
<1>2. \A x \in s : (\A y \in s : x >= y) => x = m + 1
  BY <1>1
<1> QED
  BY <1>1, <1>2, Zenon DEF Max

\* It is one of them.
LEMMA MaxInSet ==
    ASSUME NEW m \in Nat, NEW s \in SUBSET (1 .. m), s # {}
    PROVE  Max(s) \in s
<1> DEFINE T == {x \in Nat : x <= m /\ m - x \in s}
<1>1. T \in SUBSET Nat /\ T # {}
  <2>1. PICK k \in s : TRUE
    OBVIOUS
  <2>2. m - k \in Nat /\ m - k <= m /\ m - (m - k) = k
    BY <2>1
  <2> QED
    BY <2>1, <2>2
<1>2. PICK x \in T : \A n \in T : x <= n
  BY <1>1, LeastNumber
<1>3. \A k \in s : m - x >= k
  <2> TAKE k \in s
  <2>1. m - k \in T
    OBVIOUS
  <2> QED
    BY <1>2, <2>1
<1> QED
  BY <1>2, <1>3, Zenon DEF Max

\* t summed over the indices in a set, for every set of indices up to m.
Partial(t, m, g) ==
    \A s \in SUBSET (1 .. m) : g[s] = IF s = {} THEN 0 ELSE g[s \ {Max(s)}] + t[Max(s)]

\* The function that FoldLeft takes by CHOOSE exists: it can be continued to every length.
LEMMA PartialExists ==
    ASSUME NEW t
    PROVE  \A m \in Nat : \E g : Partial(t, m, g)
<1> DEFINE T == {m \in Nat : \E g : Partial(t, m, g)}
<1>1. 0 \in T
  <2> Partial(t, 0, [s \in SUBSET (1 .. 0) |-> 0])
    BY DEF Partial
  <2> QED OBVIOUS
<1>2. ASSUME NEW m \in Nat, m \in T PROVE m + 1 \in T
  <2>1. PICK g : Partial(t, m, g)
    BY <1>2
  <2> DEFINE h == [s \in SUBSET (1 .. m + 1) |->
                     IF m + 1 \in s THEN g[s \ {m + 1}] + t[m + 1] ELSE g[s]]
  <2>2. ASSUME NEW s \in SUBSET (1 .. m + 1)
        PROVE  h[s] = IF s = {} THEN 0 ELSE h[s \ {Max(s)}] + t[Max(s)]
    <3>1. CASE m + 1 \in s
      <4>1. Max(s) = m + 1
        BY <3>1, MaxOfInterval
      <4>2. s \ {m + 1} \in SUBSET (1 .. m + 1) /\ m + 1 \notin s \ {m + 1}
        OBVIOUS
      <4>3. h[s \ {m + 1}] = g[s \ {m + 1}]
        BY <4>2
      <4> QED
        BY <3>1, <4>1, <4>3
    <3>2. CASE m + 1 \notin s
      <4>1. s \in SUBSET (1 .. m)
        BY <3>2
      <4>2. CASE s = {}
        BY <2>1, <3>2, <4>1, <4>2 DEF Partial
      <4>3. CASE s # {}
        <5>1. s \ {Max(s)} \in SUBSET (1 .. m + 1) /\ m + 1 \notin s \ {Max(s)}
          <6>1. \A k \in s : k \in 1 .. m + 1 /\ k # m + 1
            BY <4>1
          <6> HIDE DEF h
          <6> QED
            BY <6>1, Zenon
        <5>2. h[s \ {Max(s)}] = g[s \ {Max(s)}] /\ h[s] = g[s]
          BY <5>1, <3>2
        <5> QED
          BY <5>2, <4>3, <4>1, <2>1 DEF Partial
      <4> QED
        BY <4>2, <4>3
    <3> QED
      BY <3>1, <3>2
  <2>3. Partial(t, m + 1, h)
    <3> HIDE DEF h
    <3> QED BY <2>2 DEF Partial
  <2> QED
    BY <2>3
<1> QED
  <2> HIDE DEF T
  <2>1. Nat \subseteq T
    BY <1>1, <1>2, Induction
  <2> QED
    BY <2>1 DEF T

Iter(t) == CHOOSE g : g = [s \in SUBSET DOMAIN t |->
                  IF s = {} THEN 0 ELSE g[s \ {Max(s)}] + t[Max(s)]]

\* Total by that function.
LEMMA TotalIter ==
    ASSUME NEW t
    PROVE  Total(t) = Iter(t)[DOMAIN t]
BY DEF Total, FoldLeft, MapThenFoldSet, Iter

\* It is what its definition says.
LEMMA IterDef ==
    ASSUME NEW t, NEW n \in Nat, DOMAIN t = 1 .. n
    PROVE  Partial(t, n, Iter(t))
<1> DEFINE F(g) == [s \in SUBSET DOMAIN t |->
                  IF s = {} THEN 0 ELSE g[s \ {Max(s)}] + t[Max(s)]]
<1>1. PICK g : Partial(t, n, g)
  BY PartialExists
<1> DEFINE h == [s \in SUBSET DOMAIN t |-> g[s]]
<1>2. h = F(h)
  <2>1. ASSUME NEW s \in SUBSET DOMAIN t PROVE h[s] = F(h)[s]
     <3>1. s \ {Max(s)} \in SUBSET DOMAIN t
        OBVIOUS
     <3> QED BY <3>1, <1>1 DEF Partial
  <2> QED BY <2>1
<1>3. Iter(t) = F(Iter(t))
  <2> HIDE DEF h
  <2> QED BY <1>2 DEF Iter
<1> QED
  BY <1>3 DEF Partial

\* Over the first k positions: the sum so far.
LEMMA IterStep ==
    ASSUME NEW t, NEW n \in Nat, DOMAIN t = 1 .. n
    PROVE  /\ Iter(t)[1 .. 0] = 0
           /\ \A k \in 1 .. n : Iter(t)[1 .. k] = Iter(t)[1 .. k - 1] + t[k]
<1>1. Iter(t)[1 .. 0] = 0
  <2>1. {} \in SUBSET (1 .. n) /\ 1 .. 0 = {}
    OBVIOUS
  <2> QED
    BY <2>1, IterDef DEF Partial
<1>2. ASSUME NEW k \in 1 .. n
      PROVE  Iter(t)[1 .. k] = Iter(t)[1 .. k - 1] + t[k]
  <2>1. 1 .. k \in SUBSET (1 .. n) /\ 1 .. k # {} /\ (1 .. k) \ {k} = 1 .. k - 1
    OBVIOUS
  <2>2. Max(1 .. k) = k
    <3> DEFINE m == k - 1
    <3>1. m \in Nat /\ m + 1 = k /\ 1 .. k \in SUBSET (1 .. m + 1) /\ k \in 1 .. k
      OBVIOUS
    <3> QED
      <4> HIDE DEF m
      <4> QED BY <3>1, MaxOfInterval
  <2> QED
    BY <2>1, <2>2, IterDef DEF Partial
<1> QED
  BY <1>1, <1>2

\* Total is the last of its partial sums.
LEMMA TotalIsSum ==
    ASSUME NEW t \in Seq(Int), NEW f, f[0] = 0, \A k \in 1 .. Len(t) : f[k] = f[k - 1] + t[k]
    PROVE  Total(t) = f[Len(t)]
<1> DEFINE T == {k \in Nat : k <= Len(t) => Iter(t)[1 .. k] = f[k]}
<1>1. DOMAIN t = 1 .. Len(t) /\ Len(t) \in Nat
  OBVIOUS
<1>2. 0 \in T
  BY <1>1, IterStep
<1>3. ASSUME NEW k \in Nat, k \in T PROVE k + 1 \in T
  <2> SUFFICES ASSUME k + 1 <= Len(t) PROVE Iter(t)[1 .. k + 1] = f[k + 1]
    OBVIOUS
  <2>1. k + 1 \in 1 .. Len(t) /\ (k + 1) - 1 = k
    OBVIOUS
  <2>2. Iter(t)[1 .. k + 1] = Iter(t)[1 .. k] + t[k + 1]
    BY <1>1, <2>1, IterStep
  <2> QED
    BY <2>1, <2>2, <1>3
<1>4. Len(t) \in T
  <2> HIDE DEF T
  <2> QED BY <1>1, <1>2, <1>3, Induction
<1> QED
  BY <1>1, <1>4, TotalIter

\* Total as a function of the length of the prefix summed.
LEMMA TotalPrefixes ==
    ASSUME NEW t \in Seq(Int)
    PROVE  /\ Iter(t)[1 .. 0] = 0
           /\ \A k \in 1 .. Len(t) : Iter(t)[1 .. k] = Iter(t)[1 .. k - 1] + t[k]
           /\ \A k \in 0 .. Len(t) : Iter(t)[1 .. k] \in Int
           /\ Total(t) = Iter(t)[1 .. Len(t)]
<1> DEFINE T == {k \in Nat : k <= Len(t) => Iter(t)[1 .. k] \in Int}
<1>1. DOMAIN t = 1 .. Len(t) /\ Len(t) \in Nat
  OBVIOUS
<1>2. 0 \in T
  BY <1>1, IterStep
<1>3. ASSUME NEW k \in Nat, k \in T PROVE k + 1 \in T
  <2> SUFFICES ASSUME k + 1 <= Len(t) PROVE Iter(t)[1 .. k + 1] \in Int
    OBVIOUS
  <2>1. k + 1 \in 1 .. Len(t) /\ (k + 1) - 1 = k
    OBVIOUS
  <2>2. Iter(t)[1 .. k + 1] = Iter(t)[1 .. k] + t[k + 1]
    BY <1>1, <2>1, IterStep
  <2> QED
    BY <2>1, <2>2, <1>3
<1>4. Nat \subseteq T
  <2> HIDE DEF T
  <2> QED BY <1>1, <1>2, <1>3, Induction
<1>5. \A k \in 0 .. Len(t) : k \in Nat /\ k <= Len(t)
  BY <1>1
<1>6. \A k \in 0 .. Len(t) : Iter(t)[1 .. k] \in Int
  BY <1>4, <1>5
<1>7. Total(t) = Iter(t)[1 .. Len(t)]
  BY <1>1, TotalIter
<1> QED
  BY <1>1, <1>6, <1>7, IterStep

\* The sum of nothing, and with one more number.
LEMMA TotalEmpty == Total(<<>>) = 0
<1>1. <<>> \in Seq(Int) /\ Len(<<>>) = 0
  OBVIOUS
<1> QED
  BY <1>1, TotalPrefixes

\* One more number adds itself.
LEMMA TotalAppend ==
    ASSUME NEW t \in Seq(Int), NEW x \in Int
    PROVE  Total(Append(t, x)) = Total(t) + x
<1> DEFINE u == Append(t, x)
           f == [k \in 0 .. Len(t) + 1 |-> IF k <= Len(t) THEN Iter(t)[1 .. k] ELSE Total(t) + x]
<1>1. u \in Seq(Int) /\ Len(u) = Len(t) + 1 /\ u[Len(t) + 1] = x /\ Len(t) \in Nat
      /\ \A k \in 1 .. Len(t) : u[k] = t[k]
  OBVIOUS
<1>2. f[0] = 0
  BY TotalPrefixes, <1>1
<1>3. ASSUME NEW k \in 1 .. Len(u) PROVE f[k] = f[k - 1] + u[k]
  <2>1. CASE k <= Len(t)
    BY <2>1, <1>1, TotalPrefixes
  <2>2. CASE k = Len(t) + 1
    BY <2>2, <1>1, TotalPrefixes
  <2> QED BY <2>1, <2>2, <1>1
<1>4. f[Len(u)] = Total(t) + x
  BY <1>1
<1>5. Total(u) = f[Len(u)]
  <2> HIDE DEF f, u
  <2> QED BY <1>1, <1>2, <1>3, TotalIsSum
<1> QED
  BY <1>4, <1>5

\* Total of natural numbers.
LEMMA TotalNat ==
    ASSUME NEW t \in Seq(Nat)
    PROVE  Total(t) \in Nat
<1> DEFINE T == {k \in Nat : k <= Len(t) => Iter(t)[1 .. k] \in Nat}
<1>1. t \in Seq(Int) /\ Len(t) \in Nat
  OBVIOUS
<1>2. 0 \in T
  BY <1>1, TotalPrefixes
<1>3. ASSUME NEW k \in Nat, k \in T PROVE k + 1 \in T
  <2> SUFFICES ASSUME k + 1 <= Len(t) PROVE Iter(t)[1 .. k + 1] \in Nat
    OBVIOUS
  <2>1. k + 1 \in 1 .. Len(t) /\ (k + 1) - 1 = k /\ t[k + 1] \in Nat
    OBVIOUS
  <2>2. Iter(t)[1 .. k + 1] = Iter(t)[1 .. k] + t[k + 1]
    BY <1>1, <2>1, TotalPrefixes
  <2> QED
    BY <2>1, <2>2, <1>3
<1>4. Len(t) \in T
  <2> HIDE DEF T
  <2> QED BY <1>1, <1>2, <1>3, Induction
<1> QED
  BY <1>1, <1>4, TotalPrefixes

-----------------------------------------------------------------------------
Joined(t, m, g) == \A k \in 1 .. m : g[k] = IF k = 1 THEN t[k] ELSE g[k - 1] \o t[k]

\* The function that FlattenSeq takes by CHOOSE exists too.
LEMMA JoinedExists ==
    ASSUME NEW t
    PROVE  \A m \in Nat : \E g : Joined(t, m, g)
<1> DEFINE T == {m \in Nat : \E g : Joined(t, m, g)}
<1>1. 0 \in T
  <2> Joined(t, 0, <<>>)
    BY DEF Joined
  <2> QED OBVIOUS
<1>2. ASSUME NEW m \in Nat, m \in T PROVE m + 1 \in T
  <2>1. PICK g : Joined(t, m, g)
    BY <1>2
  <2> DEFINE h == [k \in 1 .. m + 1 |-> IF k <= m THEN g[k]
                                        ELSE IF k = 1 THEN t[k] ELSE g[k - 1] \o t[k]]
  <2>2. ASSUME NEW k \in 1 .. m + 1 PROVE h[k] = IF k = 1 THEN t[k] ELSE h[k - 1] \o t[k]
    <3>1. CASE k <= m
      BY <2>1, <3>1 DEF Joined
    <3>2. CASE k = m + 1
      BY <3>2
    <3> QED BY <3>1, <3>2
  <2>3. Joined(t, m + 1, h)
    <3> HIDE DEF h
    <3> QED BY <2>2 DEF Joined
  <2> QED BY <2>3
<1> QED
  <2> HIDE DEF T
  <2>1. Nat \subseteq T
    BY <1>1, <1>2, Induction
  <2> QED
    BY <2>1 DEF T

Join(t) == CHOOSE f : f = [k \in 1 .. Len(t) |-> IF k = 1 THEN t[k] ELSE f[k - 1] \o t[k]]

\* FlattenSeq by that function.
LEMMA JoinDef ==
    ASSUME NEW t, Len(t) \in Nat
    PROVE  /\ Joined(t, Len(t), Join(t))
           /\ FlattenSeq(t) = IF Len(t) = 0 THEN t ELSE Join(t)[Len(t)]
<1> DEFINE F(f) == [k \in 1 .. Len(t) |-> IF k = 1 THEN t[k] ELSE f[k - 1] \o t[k]]
<1>1. PICK g : Joined(t, Len(t), g)
  BY JoinedExists
<1> DEFINE h == [k \in 1 .. Len(t) |-> g[k]]
<1>2. h = F(h)
  BY <1>1 DEF Joined
<1>3. Join(t) = F(Join(t))
  <2> HIDE DEF h
  <2> QED BY <1>2 DEF Join
<1>4. Joined(t, Len(t), Join(t))
  BY <1>3 DEF Joined
<1>5. FlattenSeq(t) = IF Len(t) = 0 THEN t ELSE Join(t)[Len(t)]
  BY DEF FlattenSeq, Join
<1> QED
  BY <1>4, <1>5

\* FlattenSeq by the sequences it has joined after every element.
LEMMA FlattenSteps ==
    ASSUME NEW B, NEW t \in Seq(Seq(B))
    PROVE  \E f : /\ f[0] = <<>>
                  /\ \A k \in 1 .. Len(t) : f[k] = f[k - 1] \o t[k]
                  /\ \A k \in 0 .. Len(t) : f[k] \in Seq(B)
                  /\ FlattenSeq(t) = f[Len(t)]
<1> DEFINE n == Len(t)
<1>1. n \in Nat /\ \A k \in 1 .. n : t[k] \in Seq(B)
  OBVIOUS
<1>2. PICK g : /\ \A k \in 1 .. n : g[k] = IF k = 1 THEN t[k] ELSE g[k - 1] \o t[k]
               /\ FlattenSeq(t) = IF n = 0 THEN t ELSE g[n]
  BY <1>1, JoinDef DEF Joined
<1> DEFINE f == [k \in 0 .. n |-> IF k = 0 THEN <<>> ELSE g[k]]
<1>3. f[0] = <<>> /\ \A k \in 1 .. n : f[k] = g[k]
  BY <1>1
<1>4. t = <<>> \/ n # 0
  OBVIOUS
<1>5. FlattenSeq(t) = f[n]
  BY <1>1, <1>2, <1>3, <1>4
<1> HIDE DEF f, n
<1>6. ASSUME NEW k \in 1 .. n PROVE f[k] = f[k - 1] \o t[k]
  <2>1. CASE k = 1
    <3>1. f[k] = t[k] /\ f[k - 1] = <<>>
      BY <2>1, <1>2, <1>3
    <3>2. <<>> \o t[k] = t[k]
      BY <1>1
    <3> QED BY <3>1, <3>2
  <2>2. CASE k # 1
    <3>1. k - 1 \in 1 .. n
      BY <1>1, <2>2
    <3> QED BY <3>1, <2>2, <1>2, <1>3
  <2> QED BY <2>1, <2>2
<1> DEFINE T == {k \in Nat : k \in 0 .. n => f[k] \in Seq(B)}
<1>7. 0 \in T
  <2>1. f[0] \in Seq(B)
    BY <1>3
  <2> QED BY <2>1
<1>8. ASSUME NEW k \in Nat, k \in T PROVE k + 1 \in T
  <2> SUFFICES ASSUME k + 1 \in 0 .. n PROVE f[k + 1] \in Seq(B)
    OBVIOUS
  <2>1. k + 1 \in 1 .. n /\ (k + 1) - 1 = k /\ k \in 0 .. n
    BY <1>1
  <2>2. f[k + 1] = f[k] \o t[k + 1] /\ f[k] \in Seq(B) /\ t[k + 1] \in Seq(B)
    BY <1>1, <2>1, <1>6, <1>8
  <2> HIDE DEF T
  <2> QED
    BY <2>2
<1>9. Nat \subseteq T
  <2> HIDE DEF T
  <2> QED BY <1>7, <1>8, Induction
<1>10. \A k \in 0 .. n : f[k] \in Seq(B)
  BY <1>1, <1>9
<1> QED
  BY <1>3, <1>5, <1>6, <1>10 DEF n

\* FlattenSeq is the last of its partial concatenations.
LEMMA FlattenIs ==
    ASSUME NEW B, NEW t \in Seq(Seq(B)), NEW f, f[0] = <<>>,
           \A k \in 1 .. Len(t) : f[k] = f[k - 1] \o t[k]
    PROVE  FlattenSeq(t) = f[Len(t)]
<1>1. PICK g : /\ g[0] = <<>>
               /\ \A k \in 1 .. Len(t) : g[k] = g[k - 1] \o t[k]
               /\ FlattenSeq(t) = g[Len(t)]
  BY FlattenSteps
<1> DEFINE T == {k \in Nat : k \in 0 .. Len(t) => f[k] = g[k]}
<1>2. 0 \in T
  BY <1>1
<1>3. ASSUME NEW k \in Nat, k \in T PROVE k + 1 \in T
  <2> SUFFICES ASSUME k + 1 \in 0 .. Len(t) PROVE f[k + 1] = g[k + 1]
    OBVIOUS
  <2>1. k + 1 \in 1 .. Len(t) /\ (k + 1) - 1 = k /\ k \in 0 .. Len(t)
    OBVIOUS
  <2>2. f[k + 1] = f[k] \o t[k + 1] /\ g[k + 1] = g[k] \o t[k + 1]
    BY <2>1, <1>1
  <2>3. f[k] = g[k]
    BY <2>1, <1>3
  <2> QED
    BY <2>2, <2>3
<1>4. Len(t) \in T
  <2> HIDE DEF T
  <2>1. Len(t) \in Nat OBVIOUS
  <2> QED BY <2>1, <1>2, <1>3, Induction
<1>5. Len(t) \in 0 .. Len(t)
  OBVIOUS
<1> QED
  BY <1>1, <1>4, <1>5

\* What FlattenSeq makes of nothing, its type, and what one more sequence adds.
LEMMA FlattenEmpty == FlattenSeq(<<>>) = <<>>
<1>1. <<>> \in Seq(Seq({})) /\ Len(<<>>) = 0
  OBVIOUS
<1> QED
  BY <1>1, FlattenSteps

\* Its elements are those of the sequences.
LEMMA FlattenType ==
    ASSUME NEW B, NEW t \in Seq(Seq(B))
    PROVE  FlattenSeq(t) \in Seq(B)
<1>1. Len(t) \in 0 .. Len(t)
  OBVIOUS
<1> QED
  BY <1>1, FlattenSteps

\* One more sequence goes to the end.
LEMMA FlattenAppend ==
    ASSUME NEW B, NEW t \in Seq(Seq(B)), NEW x \in Seq(B)
    PROVE  FlattenSeq(Append(t, x)) = FlattenSeq(t) \o x
<1> DEFINE u == Append(t, x)
           n == Len(t)
<1>1. u \in Seq(Seq(B)) /\ Len(u) = n + 1 /\ u[n + 1] = x /\ n \in Nat
      /\ \A k \in 1 .. n : u[k] = t[k]
  OBVIOUS
<1>2. PICK g : /\ g[0] = <<>>
               /\ \A k \in 1 .. n : g[k] = g[k - 1] \o t[k]
               /\ FlattenSeq(t) = g[n]
  BY FlattenSteps
<1> HIDE DEF u, n
<1> DEFINE f == [k \in 0 .. n + 1 |-> IF k <= n THEN g[k] ELSE g[n] \o x]
<1>3. f[0] = <<>>
  BY <1>1, <1>2
<1>4. ASSUME NEW k \in 1 .. n + 1 PROVE f[k] = f[k - 1] \o u[k]
  <2>1. CASE k <= n
    <3>1. k \in 1 .. n /\ k - 1 \in 0 .. n
      BY <2>1, <1>1
    <3>2. f[k] = g[k] /\ f[k - 1] = g[k - 1] /\ u[k] = t[k]
      BY <3>1, <1>1
    <3> HIDE DEF f
    <3> QED BY <3>1, <3>2, <1>2
  <2>2. CASE k = n + 1
    <3>1. f[k] = g[n] \o x /\ f[k - 1] = g[n] /\ u[k] = x
      BY <2>2, <1>1
    <3> HIDE DEF f
    <3> QED BY <3>1
  <2>3. k <= n \/ k = n + 1
    BY <1>1
  <2> HIDE DEF f
  <2> QED BY <2>1, <2>2, <2>3
<1>5. f[n + 1] = g[n] \o x
  BY <1>1
<1>6. FlattenSeq(u) = f[n + 1]
  <2> HIDE DEF f
  <2> QED BY <1>1, <1>3, <1>4, FlattenIs
<1> QED
  BY <1>2, <1>5, <1>6 DEF u

\* The length of a concatenation is the sum of the lengths.
LEMMA FlattenLen ==
    ASSUME NEW B, NEW t \in Seq(Seq(B))
    PROVE  Len(FlattenSeq(t)) = Total([k \in DOMAIN t |-> Len(t[k])])
<1> DEFINE u == [k \in DOMAIN t |-> Len(t[k])]
           n == Len(t)
<1>1. n \in Nat /\ \A k \in 1 .. n : t[k] \in Seq(B)
  OBVIOUS
<1>2. u \in Seq(Int) /\ Len(u) = n /\ \A k \in 1 .. n : u[k] = Len(t[k])
  OBVIOUS
<1>3. PICK g : /\ g[0] = <<>>
               /\ \A k \in 1 .. n : g[k] = g[k - 1] \o t[k]
               /\ \A k \in 0 .. n : g[k] \in Seq(B)
               /\ FlattenSeq(t) = g[n]
  BY FlattenSteps
<1> HIDE DEF u, n
<1> DEFINE f == [k \in 0 .. n |-> Len(g[k])]
<1>4. f[0] = 0
  BY <1>1, <1>3
<1>5. ASSUME NEW k \in 1 .. n PROVE f[k] = f[k - 1] + u[k]
  <2>1. k \in 0 .. n /\ k - 1 \in 0 .. n
    BY <1>1
  <2>2. g[k] = g[k - 1] \o t[k] /\ g[k - 1] \in Seq(B) /\ t[k] \in Seq(B)
    BY <2>1, <1>1, <1>3
  <2>3. Len(g[k]) = Len(g[k - 1]) + Len(t[k])
    BY <2>2
  <2>4. f[k] = Len(g[k]) /\ f[k - 1] = Len(g[k - 1]) /\ u[k] = Len(t[k])
    BY <2>1, <1>2
  <2> HIDE DEF f
  <2> QED
    BY <2>3, <2>4
<1>6. f[n] = Len(FlattenSeq(t))
  BY <1>1, <1>3
<1>7. Total(u) = f[n]
  <2> HIDE DEF f
  <2> QED BY <1>2, <1>4, <1>5, TotalIsSum
<1> QED
  BY <1>6, <1>7 DEF u

\* Len and Write agree on a list when they agree on its elements.
LEMMA JoinedLen ==
    ASSUME NEW n \in Nat, NEW w \in [1 .. n -> Seq(Byte)], NEW l \in [1 .. n -> Nat],
           \A k \in 1 .. n : Len(w[k]) = l[k]
    PROVE  FlattenSeq(w) \in Seq(Byte) /\ Len(FlattenSeq(w)) = Total(l) /\ Total(l) \in Nat
<1>1. w \in Seq(Seq(Byte)) /\ l \in Seq(Nat) /\ DOMAIN w = 1 .. n
  OBVIOUS
<1>2. [k \in DOMAIN w |-> Len(w[k])] = l
  BY <1>1
<1> QED
  BY <1>1, <1>2, FlattenType, FlattenLen, TotalNat

\* Bytes one after the other.
LEMMA Appended ==
    ASSUME NEW x \in Seq(Byte), NEW y \in Seq(Byte)
    PROVE  x \o y \in Seq(Byte) /\ Len(x \o y) = Len(x) + Len(y) /\ Len(x) \in Nat /\ Len(y) \in Nat
OBVIOUS

\* Sequences of n bytes, and what Flat makes of a list of them.
Bs(n) == {s \in Seq(Byte) : Len(s) = n}

\* Zeros are bytes.
LEMMA ZerosType == ASSUME NEW n \in Nat PROVE Zeros(n) \in Bs(n)
<1> DEFINE z == [k \in 1 .. n |-> 0]
<1>1. z \in [1 .. n -> Byte]
  BY DEF Byte
<1> HIDE DEF z
<1>2. z \in Seq(Byte) /\ Len(z) = n
  BY <1>1
<1> QED
  BY <1>2 DEF Bs, Zeros, z

\* A list of communities, or of families with add-path, is written in n bytes for each.
LEMMA FlatType ==
    ASSUME NEW n \in {2, 4, 12}, NEW s \in Seq(Bs(n))
    PROVE  Flat(s, n) \in Bs(n * Len(s))
<1> DEFINE m == n * Len(s)
           f == [k \in 1 .. m |-> s[1 + (k - 1) \div n][1 + ((k - 1) % n)]]
<1>1. Len(s) \in Nat /\ m \in Nat /\ \A k \in 1 .. Len(s) : s[k] \in Bs(n)
  OBVIOUS
<1>2. ASSUME NEW k \in 1 .. m PROVE s[1 + (k - 1) \div n][1 + ((k - 1) % n)] \in Byte
  <2>1. 1 + (k - 1) \div n \in 1 .. Len(s) /\ 1 + ((k - 1) % n) \in 1 .. n
    BY <1>1
  <2>2. \A x \in Bs(n), j \in 1 .. n : x[j] \in Byte
    BY DEF Bs
  <2> HIDE DEF m
  <2> QED BY <1>1, <2>1, <2>2, Zenon
<1>3. f \in [1 .. m -> Byte]
  BY <1>2, Zenon
<1>4. f \in Seq(Byte) /\ Len(f) = m
  <2> HIDE DEF f, m
  <2> QED BY <1>1, <1>3
<1> QED
  BY <1>4, Zenon DEF Bs, Flat

\* A sequence is another one with an element appended when it agrees with it everywhere.
LEMMA IsAppend ==
    ASSUME NEW B, NEW l \in Seq(B), NEW x \in B, NEW u \in [1 .. Len(l) + 1 -> B],
           u[Len(l) + 1] = x, \A k \in 1 .. Len(l) : u[k] = l[k]
    PROVE  u = Append(l, x)
<1>1. u \in Seq(B) /\ Len(u) = Len(l) + 1 /\ Len(l) \in Nat
  OBVIOUS
<1>2. Append(l, x) \in Seq(B) /\ Len(Append(l, x)) = Len(l) + 1
  OBVIOUS
<1>3. ASSUME NEW k \in 1 .. Len(l) + 1 PROVE u[k] = Append(l, x)[k]
  <2>1. CASE k = Len(l) + 1
    BY <2>1
  <2>2. CASE k \in 1 .. Len(l)
    BY <2>2
  <2>3. k = Len(l) + 1 \/ k \in 1 .. Len(l)
    BY <1>1
  <2> QED BY <2>1, <2>2, <2>3, Zenon
<1> QED
  BY <1>1, <1>2, <1>3

-----------------------------------------------------------------------------
(* Masks.                                                                  *)

\* The powers of 2 within a byte differ.
LEMMA Powers ==
    /\ \A j \in 1 .. 7 : 2 ^ j \in 2 .. 128
    /\ \A j, k \in 1 .. 7 : j # k => 2 ^ j # 2 ^ k
<1>1. 2^1 = 2 /\ 2^2 = 4 /\ 2^3 = 8 /\ 2^4 = 16 /\ 2^5 = 32 /\ 2^6 = 64 /\ 2^7 = 128
  BY SMT
<1> DEFINE f == [j \in 1 .. 7 |-> 2 ^ j]
<1>2. f[1] = 2 /\ f[2] = 4 /\ f[3] = 8 /\ f[4] = 16 /\ f[5] = 32 /\ f[6] = 64 /\ f[7] = 128
  <2>1. f[1] = 2^1 /\ f[2] = 2^2 /\ f[3] = 2^3 /\ f[4] = 2^4 /\ f[5] = 2^5 /\ f[6] = 2^6 /\ f[7] = 2^7
    OBVIOUS
  <2> HIDE DEF f
  <2> QED BY <1>1, <2>1
<1>3. \A j \in 1 .. 7 : f[j] = 2 ^ j
  OBVIOUS
<1> HIDE DEF f
<1>4. \A j \in 1 .. 7 : j = 1 \/ j = 2 \/ j = 3 \/ j = 4 \/ j = 5 \/ j = 6 \/ j = 7
  OBVIOUS
<1>5. \A j \in 1 .. 7 : f[j] \in 2 .. 128
  BY <1>2, <1>4
<1>6. \A j, k \in 1 .. 7 : j # k => f[j] # f[k]
  BY <1>2, <1>4
<1> QED
  BY <1>3, <1>5, <1>6, Zenon

\* The k-th byte of the mask of n ones.
MaskByte(n, k) == IF n >= 8 * k THEN 255 ELSE IF n <= 8 * (k - 1) THEN 0 ELSE 256 - 2 ^ (8 * k - n)

\* A mask is made of these bytes.
LEMMA MaskBytes ==
    ASSUME NEW size \in {4, 16}, NEW n \in 0 .. 8 * size
    PROVE  /\ Mask(size)[n] \in Seq(Byte) /\ Len(Mask(size)[n]) = size
           /\ \A k \in 1 .. size : Mask(size)[n][k] = MaskByte(n, k)
<1>1. ASSUME NEW k \in 1 .. size PROVE MaskByte(n, k) \in Byte
  <2>1. CASE ~(n >= 8 * k) /\ ~(n <= 8 * (k - 1))
    <3>1. 8 * k - n \in 1 .. 7
      BY <2>1
    <3>2. PICK p \in 2 .. 128 : p = 2 ^ (8 * k - n)
      BY <3>1, Powers, Zenon
    <3>3. MaskByte(n, k) = 256 - p
      BY <2>1, <3>2, Zenon DEF MaskByte
    <3> QED BY <3>3 DEF Byte
  <2>2. CASE n >= 8 * k \/ n <= 8 * (k - 1)
    <3>1. MaskByte(n, k) \in {0, 255}
      BY <2>2, Zenon DEF MaskByte
    <3> QED BY <3>1 DEF Byte
  <2> QED BY <2>1, <2>2, Zenon
<1> DEFINE m == [k \in 1 .. size |-> MaskByte(n, k)]
<1>2. Mask(size)[n] = m
  BY DEF Mask, MaskByte
<1>3. m \in [1 .. size -> Byte] /\ \A k \in 1 .. size : m[k] = MaskByte(n, k)
  BY <1>1
<1> HIDE DEF m
<1>4. size \in Nat /\ m \in Seq(Byte) /\ Len(m) = size
  BY <1>3
<1> QED
  BY <1>2, <1>3, <1>4, Zenon

\* Two masks of the same size are the same only when they have as many ones.
LEMMA MaskInjective ==
    ASSUME NEW size \in {4, 16}, NEW m \in 0 .. 8 * size, NEW n \in 0 .. 8 * size, m < n
    PROVE  Mask(size)[m] # Mask(size)[n]
<1> DEFINE k == (m \div 8) + 1
<1>1. k \in 1 .. size /\ m >= 8 * (k - 1) /\ m < 8 * k
  OBVIOUS
<1> HIDE DEF k
<1>2. Mask(size)[m][k] = MaskByte(m, k) /\ Mask(size)[n][k] = MaskByte(n, k)
  BY <1>1, MaskBytes, Zenon
<1>3. MaskByte(m, k) # MaskByte(n, k)
  <2>1. ASSUME NEW x \in {m, n}, x > 8 * (k - 1), x < 8 * k
        PROVE  \E j \in 1 .. 7 : \E p \in 2 .. 128 :
                  j = 8 * k - x /\ p = 2 ^ j /\ MaskByte(x, k) = 256 - p
    <3>1. 8 * k - x \in 1 .. 7
      BY <1>1, <2>1
    <3>2. 2 ^ (8 * k - x) \in 2 .. 128
      BY <3>1, Powers, Zenon
    <3>3. ~(x >= 8 * k) /\ ~(x <= 8 * (k - 1))
      BY <1>1, <2>1
    <3> QED BY <3>1, <3>2, <3>3, Zenon DEF MaskByte
  <2>2. \A x \in {m, n} : /\ x >= 8 * k => MaskByte(x, k) = 255
                          /\ x <= 8 * (k - 1) => MaskByte(x, k) = 0
    <3> TAKE x \in {m, n}
    <3>1. x <= 8 * (k - 1) => ~(x >= 8 * k)
      BY <1>1
    <3> QED BY <3>1, Zenon DEF MaskByte
  <2>3. CASE m = 8 * (k - 1)
    <3>1. MaskByte(m, k) = 0
      BY <2>2, <2>3, <1>1
    <3>2. CASE n >= 8 * k
      BY <3>1, <3>2, <2>2
    <3>3. CASE n < 8 * k
      <4>1. n > 8 * (k - 1)
        BY <2>3
      <4>2. PICK j \in 1 .. 7, p \in 2 .. 128 : MaskByte(n, k) = 256 - p
        BY <4>1, <3>3, <2>1
      <4> QED BY <3>1, <4>2
    <3> QED BY <3>2, <3>3, <1>1
  <2>4. CASE m > 8 * (k - 1)
    <3>1. PICK j \in 1 .. 7, p \in 2 .. 128 : j = 8 * k - m /\ p = 2 ^ j /\ MaskByte(m, k) = 256 - p
      BY <1>1, <2>4, <2>1, Zenon
    <3>2. CASE n >= 8 * k
      BY <3>1, <3>2, <2>2
    <3>3. CASE n < 8 * k
      <4>1. n > 8 * (k - 1)
        BY <2>4, <1>1
      <4>2. PICK l \in 1 .. 7, q \in 2 .. 128 : l = 8 * k - n /\ q = 2 ^ l /\ MaskByte(n, k) = 256 - q
        BY <4>1, <3>3, <2>1, Zenon
      <4>3. j # l
        BY <3>1, <4>2, <1>1
      <4>4. p # q
        BY <4>3, <3>1, <4>2, Powers, Zenon
      <4> QED BY <3>1, <4>2, <4>4
    <3> QED BY <3>2, <3>3, <1>1
  <2> QED BY <2>3, <2>4, <1>1
<1> QED
  BY <1>2, <1>3, Zenon

\* IPMask.Size of a mask that Mask made.
LEMMA OnesOfMask ==
    ASSUME NEW size \in {4, 16}, NEW n \in 0 .. 8 * size
    PROVE  Ones(Mask(size)[n]) = n
<1>1. \A m \in 0 .. 8 * size : Mask(size)[m] = Mask(size)[n] => m = n
  <2> SUFFICES ASSUME NEW m \in 0 .. 8 * size, Mask(size)[m] = Mask(size)[n], m # n PROVE FALSE
    OBVIOUS
  <2>1. m < n \/ n < m
    OBVIOUS
  <2> QED BY <2>1, MaskInjective
<1>2. DOMAIN Mask(size) = 0 .. 8 * size
  BY DEF Mask
<1>3. (CHOOSE m \in DOMAIN Mask(size) : Mask(size)[m] = Mask(size)[n]) = n
  BY <1>1, <1>2, Zenon
<1>4. Len(Mask(size)[n]) = size
  BY MaskBytes
<1> QED
  BY <1>3, <1>4 DEF Ones, MaskV4, MaskV6

-----------------------------------------------------------------------------
(* Prefixes.                                                               *)

Route(size) == [path : Bs(4), mask : {Mask(size)[n] : n \in 0 .. 8 * size}, ip : Bs(size)]
Routes == Route(4) \cup Route(16)

\* The length of the mask of a prefix, its address and its path identifier.
LEMMA RouteOnes ==
    ASSUME NEW r \in Routes
    PROVE  \E size \in {4, 16} : /\ Ones(r.mask) \in 0 .. 8 * size
                                 /\ r.ip \in Seq(Byte) /\ Len(r.ip) = size
                                 /\ r.path \in Seq(Byte) /\ Len(r.path) = 4
<1>1. PICK size \in {4, 16} : r \in Route(size)
  BY DEF Routes
<1>2. PICK n \in 0 .. 8 * size : r.mask = Mask(size)[n]
  BY <1>1 DEF Route
<1>3. Ones(r.mask) = n
  BY <1>2, OnesOfMask
<1> QED
  BY <1>1, <1>3 DEF Route, Bs

\* A prefix is written in NLRILen bytes.
LEMMA WriteNLRILen ==
    ASSUME NEW r \in Routes, NEW p \in BOOLEAN
    PROVE  WriteNLRI(r, p) \in Seq(Byte) /\ Len(WriteNLRI(r, p)) = NLRILen(r, p) /\ NLRILen(r, p) \in Nat
<1>1. PICK size \in {4, 16} : /\ Ones(r.mask) \in 0 .. 8 * size
                              /\ r.ip \in Seq(Byte) /\ Len(r.ip) = size
                              /\ r.path \in Seq(Byte) /\ Len(r.path) = 4
  BY RouteOnes, Zenon
<1> DEFINE g == GetSplitLen(r)
           ip == SubSeq(r.ip, 1, g)
           path == IF p THEN r.path ELSE <<>>
           ones == <<Ones(r.mask)>>
<1>2. g \in 0 .. size
  BY <1>1 DEF GetSplitLen
<1>3. ip \in Seq(Byte) /\ Len(ip) = g
  <2> HIDE DEF g
  <2> QED BY <1>1, <1>2
<1>4. path \in Seq(Byte) /\ Len(path) = IF p THEN 4 ELSE 0
  <2>1. CASE p
    BY <1>1, <2>1
  <2>2. CASE ~p
    BY <2>2
  <2> QED BY <2>1, <2>2, Zenon
<1>5. ones \in Seq(Byte) /\ Len(ones) = 1
  <2>1. Ones(r.mask) \in Byte
    <3>1. Ones(r.mask) \in 0 .. 8 * size
      BY <1>1, Zenon
    <3>2. 0 .. 8 * size \subseteq Byte
      BY DEF Byte
    <3> QED BY <3>1, <3>2, Zenon
  <2> HIDE DEF ones
  <2> QED BY <2>1 DEF ones
<1>6. WriteNLRI(r, p) = path \o ones \o ip /\ NLRILen(r, p) = (IF p THEN 4 ELSE 0) + 1 + g
  BY DEF WriteNLRI, NLRILen
<1> HIDE DEF g, ip, path, ones
<1> QED
  <2>1. g \in Nat /\ size \in Nat
    BY <1>2
  <2>2. /\ path \o ones \o ip \in Seq(Byte)
        /\ Len(path \o ones \o ip) = (IF p THEN 4 ELSE 0) + 1 + g
    <3>1. path \o ones \in Seq(Byte) /\ Len(path \o ones) = Len(path) + 1
      BY <1>4, <1>5, Appended
    <3>2. path \o ones \o ip \in Seq(Byte) /\ Len(path \o ones \o ip) = Len(path) + 1 + g
      BY <1>3, <3>1, Appended
    <3> QED BY <3>2, <1>4
  <2>3. (IF p THEN 4 ELSE 0) + 1 + g \in Nat
    BY <2>1
  <2> QED BY <2>2, <2>3, <1>6, Zenon

\* So is a list of them.
LEMMA WriteNLRIsLen ==
    ASSUME NEW s \in Seq(Routes), NEW p \in BOOLEAN
    PROVE  /\ WriteNLRIs(s, p) \in Seq(Byte) /\ Len(WriteNLRIs(s, p)) = LenNLRIs(s, p)
           /\ LenNLRIs(s, p) \in Nat
<1> DEFINE w == [k \in DOMAIN s |-> WriteNLRI(s[k], p)]
           l == [k \in DOMAIN s |-> NLRILen(s[k], p)]
           n == Len(s)
<1>1. n \in Nat /\ DOMAIN s = 1 .. n /\ \A k \in 1 .. n : s[k] \in Routes
  OBVIOUS
<1>2. WriteNLRIs(s, p) = FlattenSeq(w) /\ LenNLRIs(s, p) = Total(l)
  BY DEF WriteNLRIs, LenNLRIs, Concat, Sum
<1>3. /\ w \in [1 .. n -> Seq(Byte)] /\ l \in [1 .. n -> Nat]
      /\ \A k \in 1 .. n : Len(w[k]) = l[k]
  <2> HIDE DEF n
  <2> QED BY <1>1, WriteNLRILen
<1> HIDE DEF w, l, n
<1> QED
  BY <1>1, <1>2, <1>3, JoinedLen, Zenon

\* One more prefix adds its length.
LEMMA LenNLRIsAppend ==
    ASSUME NEW s \in Seq(Routes), NEW r \in Routes, NEW p \in BOOLEAN
    PROVE  LenNLRIs(Append(s, r), p) = LenNLRIs(s, p) + NLRILen(r, p)
<1> DEFINE t == Append(s, r)
           l == [k \in DOMAIN s |-> NLRILen(s[k], p)]
           u == [k \in DOMAIN t |-> NLRILen(t[k], p)]
           n == NLRILen(r, p)
<1>1. n \in Int /\ \A k \in DOMAIN s : NLRILen(s[k], p) \in Int
  BY WriteNLRILen
<1>2. l \in Seq(Int)
  BY <1>1
<1>3. u = Append(l, n)
  <2>1. DOMAIN t = 1 .. Len(s) + 1 /\ DOMAIN s = 1 .. Len(s) /\ Len(s) \in Nat
        /\ t[Len(s) + 1] = r /\ \A k \in 1 .. Len(s) : t[k] = s[k]
    OBVIOUS
  <2> HIDE DEF t
  <2>2. Len(l) = Len(s) /\ \A k \in 1 .. Len(s) : l[k] = NLRILen(s[k], p)
    BY <2>1
  <2>3. \A k \in 1 .. Len(s) + 1 : k = Len(s) + 1 \/ k \in 1 .. Len(s)
    BY <2>1
  <2>4. \A k \in 1 .. Len(s) + 1 : NLRILen(t[k], p) \in Int
    BY <2>1, <2>3, <1>1
  <2>5. u \in [1 .. Len(s) + 1 -> Int] /\ u[Len(s) + 1] = n /\ \A k \in 1 .. Len(s) : u[k] = l[k]
    <3> HIDE DEF l
    <3>1. \A k \in 1 .. Len(s) + 1 : u[k] = NLRILen(t[k], p)
      BY <2>1
    <3>2. u \in [1 .. Len(s) + 1 -> Int]
      BY <2>1, <2>4
    <3>3. Len(s) + 1 \in 1 .. Len(s) + 1 /\ \A k \in 1 .. Len(s) : k \in 1 .. Len(s) + 1
      BY <2>1
    <3> HIDE DEF u
    <3> QED BY <3>1, <3>2, <3>3, <2>1, <2>2
  <2> HIDE DEF l, n, u
  <2> QED BY <1>1, <1>2, <2>2, <2>5, IsAppend
<1>4. LenNLRIs(s, p) = Total(l) /\ LenNLRIs(t, p) = Total(u)
  BY DEF LenNLRIs, Sum
<1> HIDE DEF l, n, u
<1> QED
  BY <1>1, <1>2, <1>3, <1>4, TotalAppend DEF n

\* No prefix, no bytes.
LEMMA LenNLRIsEmpty == ASSUME NEW p PROVE LenNLRIs(<<>>, p) = 0
<1>1. [k \in DOMAIN <<>> |-> NLRILen(<<>>[k], p)] = <<>>
  OBVIOUS
<1> QED
  BY <1>1, TotalEmpty DEF LenNLRIs, Sum

-----------------------------------------------------------------------------
(* Attributes.                                                             *)

\* What the decoder makes of each attribute.
Segments == [stype : Byte, path : Seq(Bs(4))]
Origins      == [code : {ORIGIN}, origin : Byte]
Numbers      == [code : {MED, LOCPREF}, value : Bs(4)]
Atomics      == [code : {ATOMIC_AGGREGATE}]
Aggregators  == [code : {AGGREGATOR}, asn : Bs(4), id : Bs(4) \cup {<<>>}, enc2bytes : BOOLEAN]
Paths        == [code : {ASPATH}, segments : Seq(Segments), enc2bytes : BOOLEAN]
NextHops     == [code : {NEXTHOP}, nextHop : Bs(4)]
CommunityLists == [code : {COMMUNITIES}, list : Seq(Bs(4))]
LargeLists    == [code : {LARGECOMMUNITIES}, list : Seq(Bs(12))]
Reaches      == [code : {REACH}, afi : Nat, safi : Byte, nextHop : Seq(Byte), nlri : Seq(Routes),
                 addPath : BOOLEAN]
Unreaches    == [code : {UNREACH}, afi : Nat, safi : Byte, nlri : Seq(Routes), addPath : BOOLEAN]
Unknowns     == [code : Byte \ Decoded, flag : Byte, data : Seq(Byte)]
Attributes   == Origins \cup Numbers \cup Atomics \cup Aggregators \cup Paths \cup NextHops
                \cup CommunityLists \cup LargeLists \cup Reaches \cup Unreaches \cup Unknowns

\* The MP_REACH that ConvertToUpdateIndex adds.
Pointers == [code : {REACH}, pointer : {TRUE}, afi : Nat, safi : Byte, nextHop : Seq(Byte),
             nlri : Seq(Routes), addPath : BOOLEAN]

\* The address that IPtoBytes makes of bytes.
LEMMA IPtoBytesType ==
    ASSUME NEW ip \in Seq(Byte)
    PROVE  IPtoBytes(ip) \in Seq(Byte) /\ Len(IPtoBytes(ip)) \in {0, 4, 16}
<1>0. (Mapped(ip) => Len(ip) = 16) /\ ~(Len(ip) = 4 /\ Len(ip) = 16)
  <2>1. Mapped(ip) => Len(ip) = 16
    BY Zenon DEF Mapped
  <2>2. ~(Len(ip) = 4 /\ Len(ip) = 16)
    <3>1. 4 # 16
      OBVIOUS
    <3> QED BY <3>1, Zenon
  <2> QED BY <2>1, <2>2, Zenon
<1>1. CASE Len(ip) = 4
  <2>1. IPtoBytes(ip) = ip
    BY <1>0, <1>1, Zenon DEF IPtoBytes
  <2> QED BY <1>1, <2>1
<1>2. CASE Len(ip) # 4 /\ Mapped(ip)
  <2>1. Len(ip) = 16
    BY <1>0, <1>2, Zenon
  <2>2. IPtoBytes(ip) \in {SubSeq(ip, 13, 16), ip}
    BY <1>0, <1>2, Zenon DEF IPtoBytes
  <2>3. SubSeq(ip, 13, 16) \in Seq(Byte) /\ Len(SubSeq(ip, 13, 16)) = 4
    <3>1. \A j \in 13 .. 16 : j \in 1 .. Len(ip)
      BY <2>1
    <3>2. \A j \in 13 .. 16 : ip[j] \in Byte
      BY <3>1
    <3>3. /\ SubSeq(ip, 13, 16) \in Seq(Byte)
          /\ Len(SubSeq(ip, 13, 16)) = IF 13 <= 16 THEN 16 - 13 + 1 ELSE 0
      BY ONLY <3>2, SubSeqProperties
    <3> QED BY <3>3
  <2> QED BY <2>1, <2>2, <2>3
<1>3. CASE Len(ip) # 4 /\ ~Mapped(ip) /\ Len(ip) = 16
  <2>1. IPtoBytes(ip) = ip
    BY <1>3, Zenon DEF IPtoBytes
  <2> QED BY <1>3, <2>1
<1>4. CASE Len(ip) # 4 /\ ~Mapped(ip) /\ Len(ip) # 16
  <2>1. IPtoBytes(ip) = <<>>
    BY <1>4, Zenon DEF IPtoBytes
  <2> QED BY <2>1
<1> QED BY <1>1, <1>2, <1>3, <1>4

\* One, two and four bytes.
LEMMA OneByte == ASSUME NEW x \in Byte PROVE <<x>> \in Seq(Byte) /\ Len(<<x>>) = 1
OBVIOUS

\* Two bytes.
LEMMA TwoBytesOf ==
    ASSUME NEW x \in Byte, NEW y \in Byte PROVE <<x, y>> \in Seq(Byte) /\ Len(<<x, y>>) = 2
OBVIOUS

\* A uint16 is written in two bytes.
LEMMA U16Type == ASSUME NEW n \in Nat PROVE U16(n) \in Seq(Byte) /\ Len(U16(n)) = 2
<1>1. (n \div 256) % 256 \in Byte /\ n % 256 \in Byte
  BY DEF Byte
<1> QED BY <1>1, TwoBytesOf DEF U16

\* A number written to a byte.
LEMMA ByteOf == ASSUME NEW n \in Nat PROVE n % 256 \in Byte
BY DEF Byte

\* A set of at most 255 AS numbers, of a segment.
Set(s, k) == SubSeq(s.path, 255 * (k - 1) + 1, IF 255 * k < Len(s.path) THEN 255 * k ELSE Len(s.path))
Written(path, width) == [k \in 1 .. width * Len(path) |->
                            path[1 + (k - 1) \div width][5 - width + ((k - 1) % width)]]

\* An element of n bytes.
LEMMA BsElement == ASSUME NEW n \in Nat, NEW x \in Bs(n), NEW j \in 1 .. n PROVE x[j] \in Byte
BY DEF Bs

\* The AS numbers of a set, of width bytes each.
LEMMA WrittenType ==
    ASSUME NEW width \in {2, 4}, NEW path \in Seq(Bs(4))
    PROVE  Written(path, width) \in Seq(Byte) /\ Len(Written(path, width)) = width * Len(path)
<1> DEFINE m == width * Len(path)
           f == [k \in 1 .. m |-> path[1 + (k - 1) \div width][5 - width + ((k - 1) % width)]]
<1>0. \A x \in Bs(4), j \in 1 .. 4 : x[j] \in Byte
  BY BsElement
<1>1. Len(path) \in Nat /\ m \in Nat /\ \A k \in 1 .. Len(path) : path[k] \in Bs(4)
  OBVIOUS
<1>2. ASSUME NEW k \in 1 .. m PROVE path[1 + (k - 1) \div width][5 - width + ((k - 1) % width)] \in Byte
  <2>1. 1 + (k - 1) \div width \in 1 .. Len(path) /\ 5 - width + ((k - 1) % width) \in 1 .. 4
    BY <1>1
  <2> HIDE DEF m
  <2> QED BY <1>0, <1>1, <2>1, Zenon
<1>3. f \in [1 .. m -> Byte]
  BY <1>2, Zenon
<1>4. f \in Seq(Byte) /\ Len(f) = m
  <2> HIDE DEF f, m
  <2> QED BY <1>1, <1>3
<1> QED
  BY <1>4, Zenon DEF Written

\* The sets of a segment, and the AS numbers in them.
LEMMA SetType ==
    ASSUME NEW s \in Segments, NEW k \in 1 .. LenSets(Len(s.path))
    PROVE  /\ Set(s, k) \in Seq(Bs(4))
           /\ Len(Set(s, k)) = (IF 255 * k < Len(s.path) THEN 255 * k ELSE Len(s.path)) - 255 * (k - 1)
<1> DEFINE n == Len(s.path)
           first1 == 255 * (k - 1) + 1
           last1 == IF 255 * k < n THEN 255 * k ELSE n
<1>1. s.path \in Seq(Bs(4)) /\ n \in Nat
  BY DEF Segments
<1>2. 255 * (k - 1) < n
  <2>1. k \in 1 .. LenSets(n)
    OBVIOUS
  <2> HIDE DEF n
  <2> QED BY ONLY <1>1, <2>1 DEF LenSets
<1>3. first1 \in Int /\ last1 \in Int /\ 1 <= first1 /\ first1 <= last1 /\ last1 <= n
  <2> HIDE DEF n
  <2> QED BY <1>1, <1>2
<1>4. \A j \in first1 .. last1 : s.path[j] \in Bs(4)
  <2> TAKE j \in first1 .. last1
  <2>1. j \in 1 .. n
    <3> HIDE DEF n, first1, last1
    <3> QED BY <1>1, <1>3
  <2> QED BY ONLY <1>1, <2>1
<1>5. Set(s, k) = SubSeq(s.path, first1, last1)
  BY Zenon DEF Set
<1> HIDE DEF n, first1, last1
<1>6. /\ SubSeq(s.path, first1, last1) \in Seq(Bs(4))
      /\ Len(SubSeq(s.path, first1, last1)) = IF first1 <= last1 THEN last1 - first1 + 1 ELSE 0
  BY <1>3, <1>4, SubSeqProperties
<1>7. Len(Set(s, k)) = last1 - first1 + 1
  BY <1>3, <1>5, <1>6
<1>8. last1 - first1 + 1 = last1 - 255 * (k - 1)
  BY <1>3 DEF first1
<1> QED BY <1>5, <1>6, <1>7, <1>8 DEF n, last1

\* Len of a segment, and the length of what is written for it.
LEMMA WriteSegmentLen ==
    ASSUME NEW s \in Segments, NEW width \in {2, 4}
    PROVE  /\ WriteSegment(s, width) \in Seq(Byte) /\ SegmentLen(s, width) \in Nat
           /\ Len(WriteSegment(s, width)) = SegmentLen(s, width)
<1> DEFINE n == Len(s.path)
           sets == LenSets(n)
           w == [k \in 1 .. sets |-> <<s.stype, SetLen(n, k)>> \o Written(Set(s, k), width)]
           l == [k \in 1 .. sets |-> 2 + width * Len(Set(s, k))]
           f == [k \in 0 .. sets |-> 2 * k + width * (IF 255 * k < n THEN 255 * k ELSE n)]
<1>1. n \in Nat /\ s.stype \in Byte
  BY DEF Segments
<1>2. sets \in Nat /\ 255 * sets >= n /\ (n = 0 => sets = 0)
  <2> HIDE DEF n
  <2> QED BY <1>1 DEF LenSets
<1>3. ASSUME NEW k \in 1 .. sets
      PROVE  /\ <<s.stype, SetLen(n, k)>> \o Written(Set(s, k), width) \in Seq(Byte)
             /\ Len(<<s.stype, SetLen(n, k)>> \o Written(Set(s, k), width)) = 2 + width * Len(Set(s, k))
             /\ 2 + width * Len(Set(s, k)) \in Nat
  <2>1. Set(s, k) \in Seq(Bs(4))
    BY SetType
  <2>2. Written(Set(s, k), width) \in Seq(Byte) /\ Len(Written(Set(s, k), width)) = width * Len(Set(s, k))
    BY <2>1, WrittenType
  <2>3. SetLen(n, k) \in Byte
    <3> HIDE DEF n
    <3> QED BY <1>1 DEF SetLen, Byte
  <2>4. <<s.stype, SetLen(n, k)>> \in Seq(Byte) /\ Len(<<s.stype, SetLen(n, k)>>) = 2
    BY <1>1, <2>3, TwoBytesOf
  <2>5. Len(Set(s, k)) \in Nat
    BY <2>1
  <2>6. 2 + width * Len(Set(s, k)) \in Nat
    BY <2>5
  <2> QED BY <2>2, <2>4, <2>6, Appended
<1>4. WriteSegment(s, width) = FlattenSeq(w)
  <2> DEFINE id == [k \in 1 .. sets |-> k]
  <2>1. DOMAIN id = 1 .. sets /\ \A k \in 1 .. sets : id[k] = k
    OBVIOUS
  <2>2. WriteSegment(s, width) =
            FlattenSeq([k \in DOMAIN id |-> <<s.stype, SetLen(n, id[k])>> \o Written(Set(s, id[k]), width)])
    BY Zenon DEF WriteSegment, Concat, Written, Set
  <2> HIDE DEF id
  <2>3. [k \in DOMAIN id |-> <<s.stype, SetLen(n, id[k])>> \o Written(Set(s, id[k]), width)] = w
    BY <2>1, Zenon
  <2> QED BY <2>2, <2>3
<1>5. w \in [1 .. sets -> Seq(Byte)] /\ l \in [1 .. sets -> Nat] /\ \A k \in 1 .. sets : Len(w[k]) = l[k]
  <2> HIDE DEF sets, n
  <2> QED BY <1>3, Zenon
<1>6. FlattenSeq(w) \in Seq(Byte) /\ Len(FlattenSeq(w)) = Total(l) /\ Total(l) \in Nat
  <2> HIDE DEF w, l, sets
  <2> QED BY <1>2, <1>5, JoinedLen
<1>7. Total(l) = 2 * sets + width * n
  <2>1. f[0] = 0
    <3> HIDE DEF n, sets
    <3> QED BY <1>1, <1>2
  <2>2. ASSUME NEW k \in 1 .. sets PROVE f[k] = f[k - 1] + l[k]
    <3>1. Len(Set(s, k)) = (IF 255 * k < n THEN 255 * k ELSE n) - 255 * (k - 1)
      BY SetType
    <3>2. 255 * (k - 1) < n
      <4> HIDE DEF n
      <4> QED BY <1>1 DEF LenSets
    <3>3. /\ f[k] = 2 * k + width * (IF 255 * k < n THEN 255 * k ELSE n)
          /\ f[k - 1] = 2 * (k - 1) + width * (IF 255 * (k - 1) < n THEN 255 * (k - 1) ELSE n)
          /\ l[k] = 2 + width * Len(Set(s, k))
      <4>1. k \in 0 .. sets /\ k - 1 \in 0 .. sets
        <5> HIDE DEF sets, n
        <5> QED BY <1>2
      <4> HIDE DEF sets, n
      <4> QED BY <4>1
    <3> HIDE DEF sets, n, f, l
    <3>4. k \in Int
      BY <1>2
    <3> QED BY <1>1, <3>1, <3>2, <3>3, <3>4
  <2>3. l \in Seq(Int) /\ Len(l) = sets
    <3> HIDE DEF l, sets
    <3> QED BY <1>2, <1>5
  <2>4. f[sets] = 2 * sets + width * n
    <3> HIDE DEF n, sets
    <3> QED BY <1>1, <1>2
  <2>5. \A k \in 1 .. Len(l) : f[k] = f[k - 1] + l[k]
    BY <2>2, <2>3, Zenon
  <2> HIDE DEF f, l
  <2> QED BY <2>1, <2>3, <2>4, <2>5, TotalIsSum
<1>8. SegmentLen(s, width) = 2 * sets + width * n
  <2>1. SegmentLen(s, width) = IF n = 0 THEN 0 ELSE 2 * sets + width * n
    BY Zenon DEF SegmentLen
  <2> HIDE DEF n, sets
  <2> QED BY <1>1, <1>2, <2>1
<1> HIDE DEF w, l
<1> QED BY <1>4, <1>6, <1>7, <1>8

\* The segments of a path.
LEMMA WriteSegmentsLen ==
    ASSUME NEW segments \in Seq(Segments), NEW width \in {2, 4}
    PROVE  /\ Concat(LAMBDA s : WriteSegment(s, width), segments) \in Seq(Byte)
           /\ Sum(LAMBDA s : SegmentLen(s, width), segments) \in Nat
           /\ Len(Concat(LAMBDA s : WriteSegment(s, width), segments))
                  = Sum(LAMBDA s : SegmentLen(s, width), segments)
<1> DEFINE n == Len(segments)
           w == [k \in DOMAIN segments |-> WriteSegment(segments[k], width)]
           l == [k \in DOMAIN segments |-> SegmentLen(segments[k], width)]
<1>1. DOMAIN segments = 1 .. n /\ n \in Nat /\ \A k \in 1 .. n : segments[k] \in Segments
  OBVIOUS
<1>2. w \in [1 .. n -> Seq(Byte)] /\ l \in [1 .. n -> Nat] /\ \A k \in 1 .. n : Len(w[k]) = l[k]
  BY <1>1, WriteSegmentLen, Zenon
<1> HIDE DEF w, l, n
<1>3. FlattenSeq(w) \in Seq(Byte) /\ Len(FlattenSeq(w)) = Total(l) /\ Total(l) \in Nat
  BY <1>1, <1>2, JoinedLen
<1> QED BY <1>3, Zenon DEF w, l, Concat, Sum

-----------------------------------------------------------------------------
(* Attributes are as long as Len says.                                      *)

\* The header of an attribute has 3 bytes, or 4 when its length has two.
LEMMA AttributeHeaderType ==
    ASSUME NEW size \in Nat, NEW flag \in Byte, NEW code \in Byte
    PROVE  /\ WriteAttributeHeader(size, flag, code) \in Seq(Byte)
           /\ Len(WriteAttributeHeader(size, flag, code)) = AttributeHeaderLen(size)
           /\ AttributeHeaderLen(size) \in Nat
<1> DEFINE plain == flag - ATTRIBUTE_EXTENDED * Extended(flag)
<1>1. plain \in Byte /\ plain + ATTRIBUTE_EXTENDED \in Byte
  BY DEF Byte, Extended, ATTRIBUTE_EXTENDED
<1> HIDE DEF plain
<1>2. CASE size > 255
  <2>1. /\ WriteAttributeHeader(size, flag, code) = <<plain + ATTRIBUTE_EXTENDED, code>> \o U16(size)
        /\ AttributeHeaderLen(size) = 4
    BY <1>2, Zenon DEF WriteAttributeHeader, AttributeHeaderLen, plain
  <2>2. /\ <<plain + ATTRIBUTE_EXTENDED, code>> \in Seq(Byte)
        /\ Len(<<plain + ATTRIBUTE_EXTENDED, code>>) = 2
    BY <1>1, TwoBytesOf
  <2>3. U16(size) \in Seq(Byte) /\ Len(U16(size)) = 2
    BY U16Type
  <2> DEFINE h == <<plain + ATTRIBUTE_EXTENDED, code>>
  <2> HIDE DEF h
  <2>4. h \o U16(size) \in Seq(Byte) /\ Len(h \o U16(size)) = 2 + 2
    BY <2>2, <2>3, Appended DEF h
  <2> QED BY <2>1, <2>4 DEF h
<1>3. CASE ~(size > 255)
  <2>1. /\ WriteAttributeHeader(size, flag, code) = <<plain, code, size>>
        /\ AttributeHeaderLen(size) = 3
    BY <1>3, Zenon DEF WriteAttributeHeader, AttributeHeaderLen, plain
  <2>2. size \in Byte
    BY <1>3 DEF Byte
  <2> QED BY <1>1, <2>1, <2>2
<1> QED BY <1>2, <1>3

\* The content of an attribute, and its length: an AGGREGATOR without an Identifier is the only one
\* whose Len is wrong.
LEMMA ContentType ==
    ASSUME NEW a \in Attributes \cup Pointers
    PROVE  /\ Content(a) \in Seq(Byte) /\ ContentLen(a) \in Nat /\ Flag(a) \in Byte /\ a.code \in Byte
           /\ (a.code = AGGREGATOR => Len(a.id) = 4) => Len(Content(a)) = ContentLen(a)
<1>0. /\ 1 \in Nat /\ 4 \in Nat /\ 0 \in Nat /\ 8 \in Nat /\ 64 \in Byte /\ 128 \in Byte /\ 192 \in Byte
      /\ {ORIGIN, ASPATH, NEXTHOP, MED, LOCPREF, ATOMIC_AGGREGATE, AGGREGATOR, COMMUNITIES,
          REACH, UNREACH, LARGECOMMUNITIES} \subseteq Byte
  BY DEF Byte, ORIGIN, ASPATH, NEXTHOP, MED, LOCPREF, ATOMIC_AGGREGATE, AGGREGATOR, COMMUNITIES,
     REACH, UNREACH, LARGECOMMUNITIES
<1>1. CASE a \in Origins
  <2>1. a.code = ORIGIN /\ a.origin \in Byte
    BY <1>1 DEF Origins
  <2>2. a.code \notin {ASPATH, NEXTHOP, MED, LOCPREF, ATOMIC_AGGREGATE, AGGREGATOR,
                       COMMUNITIES, REACH, UNREACH, LARGECOMMUNITIES}
    BY <2>1 DEF ORIGIN, ASPATH, NEXTHOP, MED, LOCPREF, ATOMIC_AGGREGATE, AGGREGATOR, COMMUNITIES,
       REACH, UNREACH, LARGECOMMUNITIES
  <2>3. Content(a) = <<a.origin>> /\ ContentLen(a) = 1 /\ Flag(a) = 64
    BY <2>1, <2>2, Zenon DEF Content, ContentLen, Flag, Decoded
  <2>4. <<a.origin>> \in Seq(Byte) /\ Len(<<a.origin>>) = 1
    BY <2>1, OneByte
  <2> QED BY <1>0, <2>1, <2>3, <2>4
<1>2. CASE a \in Numbers
  <2>1. a.code \in {MED, LOCPREF} /\ a.value \in Bs(4)
    BY <1>2 DEF Numbers
  <2>2. a.code \notin {ORIGIN, ASPATH, NEXTHOP, ATOMIC_AGGREGATE, AGGREGATOR, COMMUNITIES,
                       REACH, UNREACH, LARGECOMMUNITIES}
    BY <2>1 DEF ORIGIN, ASPATH, NEXTHOP, MED, LOCPREF, ATOMIC_AGGREGATE, AGGREGATOR, COMMUNITIES,
       REACH, UNREACH, LARGECOMMUNITIES
  <2>3. Content(a) = a.value /\ ContentLen(a) = 4 /\ Flag(a) = 128
    BY <2>1, <2>2, Zenon DEF Content, ContentLen, Flag, Decoded
  <2>4. a.value \in Seq(Byte) /\ Len(a.value) = 4
    BY <2>1 DEF Bs
  <2> QED BY <1>0, <2>1, <2>3, <2>4
<1>3. CASE a \in Atomics
  <2>1. a.code = ATOMIC_AGGREGATE /\ TRUE
    BY <1>3 DEF Atomics
  <2>2. a.code \notin {ORIGIN, ASPATH, NEXTHOP, MED, LOCPREF, AGGREGATOR, COMMUNITIES, REACH, UNREACH, LARGECOMMUNITIES}
    BY <2>1 DEF ORIGIN, ASPATH, NEXTHOP, MED, LOCPREF, ATOMIC_AGGREGATE, AGGREGATOR, COMMUNITIES,
       REACH, UNREACH, LARGECOMMUNITIES
  <2>3. Content(a) = <<>> /\ ContentLen(a) = 0 /\ Flag(a) = 128
    BY <2>1, <2>2, Zenon DEF Content, ContentLen, Flag, Decoded
  <2>4. <<>> \in Seq(Byte) /\ Len(<<>>) = 0
    OBVIOUS
  <2> QED BY <1>0, <2>1, <2>3, <2>4
<1>4. CASE a \in Aggregators
  <2>1. a.code = AGGREGATOR /\ a.asn \in Bs(4) /\ a.id \in Bs(4) \cup {<<>>}
    BY <1>4 DEF Aggregators
  <2>2. a.code \notin {ORIGIN, ASPATH, NEXTHOP, MED, LOCPREF, ATOMIC_AGGREGATE, COMMUNITIES,
                       REACH, UNREACH, LARGECOMMUNITIES}
    BY <2>1 DEF ORIGIN, ASPATH, NEXTHOP, MED, LOCPREF, ATOMIC_AGGREGATE, AGGREGATOR, COMMUNITIES,
       REACH, UNREACH, LARGECOMMUNITIES
  <2>3. Content(a) = a.asn \o a.id /\ ContentLen(a) = 8 /\ Flag(a) = 128
    BY <2>1, <2>2, Zenon DEF Content, ContentLen, Flag, Decoded
  <2>4. a.asn \in Seq(Byte) /\ Len(a.asn) = 4 /\ a.id \in Seq(Byte)
    <3>1. <<>> \in Seq(Byte)
      OBVIOUS
    <3> QED BY <2>1, <3>1 DEF Bs
  <2>5. a.asn \o a.id \in Seq(Byte) /\ Len(a.asn \o a.id) = 4 + Len(a.id)
    BY <2>4, Appended
  <2>6. Len(a.id) = 4 => Len(a.asn \o a.id) = 8
    BY <2>5
  <2> QED BY <1>0, <2>1, <2>3, <2>5, <2>6
<1>5. CASE a \in Paths
  <2>1. a.code = ASPATH /\ a.segments \in Seq(Segments) /\ a.enc2bytes \in BOOLEAN
    BY <1>5 DEF Paths
  <2>2. a.code \notin {ORIGIN, NEXTHOP, MED, LOCPREF, ATOMIC_AGGREGATE, AGGREGATOR,
                       COMMUNITIES, REACH, UNREACH, LARGECOMMUNITIES}
    BY <2>1 DEF ORIGIN, ASPATH, NEXTHOP, MED, LOCPREF, ATOMIC_AGGREGATE, AGGREGATOR, COMMUNITIES,
       REACH, UNREACH, LARGECOMMUNITIES
  <2>3. Content(a) = Concat(LAMBDA s : WriteSegment(s, Width(a.enc2bytes)), a.segments) /\ ContentLen(a) = 
            Sum(LAMBDA s : SegmentLen(s, Width(a.enc2bytes)), a.segments) /\ Flag(a) = 64
    BY <2>1, <2>2, Zenon DEF Content, ContentLen, Flag, Decoded
  <2>4. Width(a.enc2bytes) \in {2, 4}
    BY DEF Width
  <2>5. /\ Concat(LAMBDA s : WriteSegment(s, Width(a.enc2bytes)), a.segments) \in Seq(Byte)
        /\ Sum(LAMBDA s : SegmentLen(s, Width(a.enc2bytes)), a.segments) \in Nat
        /\ Len(Concat(LAMBDA s : WriteSegment(s, Width(a.enc2bytes)), a.segments))
               = Sum(LAMBDA s : SegmentLen(s, Width(a.enc2bytes)), a.segments)
    BY <2>1, <2>4, WriteSegmentsLen, Zenon
  <2> QED BY <1>0, <2>1, <2>3, <2>5, Zenon
<1>6. CASE a \in NextHops
  <2>1. a.code = NEXTHOP /\ a.nextHop \in Bs(4)
    BY <1>6 DEF NextHops
  <2>2. a.code \notin {ORIGIN, ASPATH, MED, LOCPREF, ATOMIC_AGGREGATE, AGGREGATOR,
                       COMMUNITIES, REACH, UNREACH, LARGECOMMUNITIES}
    BY <2>1 DEF ORIGIN, ASPATH, NEXTHOP, MED, LOCPREF, ATOMIC_AGGREGATE, AGGREGATOR, COMMUNITIES,
       REACH, UNREACH, LARGECOMMUNITIES
  <2>3. Content(a) = IPtoBytes(a.nextHop) /\ ContentLen(a) = Len(IPtoBytes(a.nextHop)) /\ Flag(a) = 64
    BY <2>1, <2>2, Zenon DEF Content, ContentLen, Flag, Decoded
  <2>4. IPtoBytes(a.nextHop) \in Seq(Byte)
    BY <2>1, IPtoBytesType DEF Bs
  <2>5. Len(IPtoBytes(a.nextHop)) \in Nat
    BY <2>4
  <2> QED BY <1>0, <2>1, <2>3, <2>4, <2>5
<1>7. CASE a \in CommunityLists
  <2>1. a.code = COMMUNITIES /\ a.list \in Seq(Bs(4))
    BY <1>7 DEF CommunityLists
  <2>2. a.code \notin {ORIGIN, ASPATH, NEXTHOP, MED, LOCPREF, ATOMIC_AGGREGATE, AGGREGATOR,
                       REACH, UNREACH, LARGECOMMUNITIES}
    BY <2>1 DEF ORIGIN, ASPATH, NEXTHOP, MED, LOCPREF, ATOMIC_AGGREGATE, AGGREGATOR, COMMUNITIES,
       REACH, UNREACH, LARGECOMMUNITIES
  <2>3. Content(a) = Flat(a.list, 4) /\ ContentLen(a) = 4 * Len(a.list) /\ Flag(a) = 192
    BY <2>1, <2>2, Zenon DEF Content, ContentLen, Flag, Decoded
  <2>4. Flat(a.list, 4) \in Bs(4 * Len(a.list))
    BY <2>1, FlatType
  <2>5. 4 * Len(a.list) \in Nat
    BY <2>1
  <2>6. Flat(a.list, 4) \in Seq(Byte) /\ Len(Flat(a.list, 4)) = 4 * Len(a.list)
    BY <2>4, Zenon DEF Bs
  <2> QED BY <1>0, <2>1, <2>3, <2>5, <2>6
<1>8. CASE a \in LargeLists
  <2>1. a.code = LARGECOMMUNITIES /\ a.list \in Seq(Bs(12))
    BY <1>8 DEF LargeLists
  <2>2. a.code \notin {ORIGIN, ASPATH, NEXTHOP, MED, LOCPREF, ATOMIC_AGGREGATE, AGGREGATOR,
                       COMMUNITIES, REACH, UNREACH}
    BY <2>1 DEF ORIGIN, ASPATH, NEXTHOP, MED, LOCPREF, ATOMIC_AGGREGATE, AGGREGATOR, COMMUNITIES,
       REACH, UNREACH, LARGECOMMUNITIES
  <2>3. Content(a) = Flat(a.list, 12) /\ ContentLen(a) = 12 * Len(a.list) /\ Flag(a) = 192
    BY <2>1, <2>2, Zenon DEF Content, ContentLen, Flag, Decoded
  <2>4. Flat(a.list, 12) \in Bs(12 * Len(a.list))
    BY <2>1, FlatType
  <2>5. 12 * Len(a.list) \in Nat
    BY <2>1
  <2>6. Flat(a.list, 12) \in Seq(Byte) /\ Len(Flat(a.list, 12)) = 12 * Len(a.list)
    BY <2>4, Zenon DEF Bs
  <2> QED BY <1>0, <2>1, <2>3, <2>5, <2>6
<1>9. CASE a \in Reaches \cup Pointers
  <2> DEFINE next == IPtoBytes(a.nextHop)
             list == WriteNLRIs(a.nlri, a.addPath)
             head == <<a.safi, Len(next)>>
  <2>1. /\ a.code = REACH /\ a.afi \in Nat /\ a.safi \in Byte /\ a.nextHop \in Seq(Byte)
        /\ a.nlri \in Seq(Routes) /\ a.addPath \in BOOLEAN
    BY <1>9 DEF Reaches, Pointers
  <2>2. a.code \notin {ORIGIN, ASPATH, NEXTHOP, MED, LOCPREF, ATOMIC_AGGREGATE, AGGREGATOR,
                       COMMUNITIES, UNREACH, LARGECOMMUNITIES}
    BY <2>1 DEF ORIGIN, ASPATH, NEXTHOP, MED, LOCPREF, ATOMIC_AGGREGATE, AGGREGATOR, COMMUNITIES,
       REACH, UNREACH, LARGECOMMUNITIES
  <2>3. /\ Content(a) = U16(a.afi) \o head \o next \o <<0>> \o list
        /\ ContentLen(a) = 5 + Len(next) + LenNLRIs(a.nlri, a.addPath) /\ Flag(a) = 128
    BY <2>1, <2>2, Zenon DEF Content, ContentLen, Flag, Decoded
  <2>4. next \in Seq(Byte) /\ Len(next) \in {0, 4, 16}
    BY <2>1, IPtoBytesType
  <2>5. head \in Seq(Byte) /\ Len(head) = 2
    <3>1. Len(next) \in Byte
      BY <2>4 DEF Byte
    <3> QED BY <2>1, <3>1, TwoBytesOf
  <2>6. <<0>> \in Seq(Byte) /\ Len(<<0>>) = 1
    BY DEF Byte
  <2>7. U16(a.afi) \in Seq(Byte) /\ Len(U16(a.afi)) = 2
    BY <2>1, U16Type
  <2>8. list \in Seq(Byte) /\ Len(list) = LenNLRIs(a.nlri, a.addPath) /\ LenNLRIs(a.nlri, a.addPath) \in Nat
    BY <2>1, WriteNLRIsLen
  <2> HIDE DEF next, list, head
  <2>9. U16(a.afi) \o head \in Seq(Byte) /\ Len(U16(a.afi) \o head) = 4
    <3>1. Len(U16(a.afi) \o head) = Len(U16(a.afi)) + Len(head) /\ U16(a.afi) \o head \in Seq(Byte)
      BY <2>5, <2>7, Appended, Zenon
    <3> QED BY ONLY <2>5, <2>7, <3>1
  <2>10. U16(a.afi) \o head \o next \in Seq(Byte) /\ Len(U16(a.afi) \o head \o next) = 4 + Len(next)
    BY <2>4, <2>9, Appended
  <2>11. /\ U16(a.afi) \o head \o next \o <<0>> \in Seq(Byte)
         /\ Len(U16(a.afi) \o head \o next \o <<0>>) = 5 + Len(next)
    BY <2>4, <2>6, <2>10, Appended
  <2>12. /\ U16(a.afi) \o head \o next \o <<0>> \o list \in Seq(Byte)
         /\ Len(U16(a.afi) \o head \o next \o <<0>> \o list) = 5 + Len(next) + Len(list)
    BY <2>8, <2>11, Appended
  <2>13. 5 + Len(next) + LenNLRIs(a.nlri, a.addPath) \in Nat
    BY <2>4, <2>8
  <2> QED BY <1>0, <2>1, <2>3, <2>8, <2>12, <2>13
<1>10. CASE a \in Unreaches
  <2> DEFINE list == WriteNLRIs(a.nlri, a.addPath)
  <2>1. /\ a.code = UNREACH /\ a.afi \in Nat /\ a.safi \in Byte
        /\ a.nlri \in Seq(Routes) /\ a.addPath \in BOOLEAN
    BY <1>10 DEF Unreaches
  <2>2. a.code \notin {ORIGIN, ASPATH, NEXTHOP, MED, LOCPREF, ATOMIC_AGGREGATE, AGGREGATOR,
                       COMMUNITIES, REACH, LARGECOMMUNITIES}
    BY <2>1 DEF ORIGIN, ASPATH, NEXTHOP, MED, LOCPREF, ATOMIC_AGGREGATE, AGGREGATOR, COMMUNITIES,
       REACH, UNREACH, LARGECOMMUNITIES
  <2>3. /\ Content(a) = U16(a.afi) \o <<a.safi>> \o list
        /\ ContentLen(a) = 3 + LenNLRIs(a.nlri, a.addPath) /\ Flag(a) = 128
    BY <2>1, <2>2, Zenon DEF Content, ContentLen, Flag, Decoded
  <2>4. <<a.safi>> \in Seq(Byte) /\ Len(<<a.safi>>) = 1
    BY <2>1, OneByte
  <2>5. U16(a.afi) \in Seq(Byte) /\ Len(U16(a.afi)) = 2
    BY <2>1, U16Type
  <2>6. list \in Seq(Byte) /\ Len(list) = LenNLRIs(a.nlri, a.addPath) /\ LenNLRIs(a.nlri, a.addPath) \in Nat
    BY <2>1, WriteNLRIsLen
  <2> HIDE DEF list
  <2>7. U16(a.afi) \o <<a.safi>> \in Seq(Byte) /\ Len(U16(a.afi) \o <<a.safi>>) = 3
    <3>1. /\ Len(U16(a.afi) \o <<a.safi>>) = Len(U16(a.afi)) + Len(<<a.safi>>)
          /\ U16(a.afi) \o <<a.safi>> \in Seq(Byte)
      BY <2>4, <2>5, Appended, Zenon
    <3> QED BY ONLY <2>4, <2>5, <3>1
  <2>8. /\ U16(a.afi) \o <<a.safi>> \o list \in Seq(Byte)
        /\ Len(U16(a.afi) \o <<a.safi>> \o list) = 3 + Len(list)
    BY <2>6, <2>7, Appended
  <2>9. 3 + LenNLRIs(a.nlri, a.addPath) \in Nat
    BY <2>6
  <2> QED BY <1>0, <2>1, <2>3, <2>6, <2>8, <2>9
<1>11. CASE a \in Unknowns
  <2>1. a.code \in Byte /\ a.code \notin Decoded /\ a.flag \in Byte /\ a.data \in Seq(Byte)
    BY <1>11 DEF Unknowns
  <2>2. Content(a) = a.data /\ ContentLen(a) = Len(a.data) /\ Flag(a) = a.flag
    BY <2>1, Zenon DEF Content, ContentLen, Flag, Decoded
  <2>3. Len(a.data) \in Nat
    BY <2>1
  <2> QED BY <2>1, <2>2, <2>3
<1> QED BY <1>1, <1>2, <1>3, <1>4, <1>5, <1>6, <1>7, <1>8, <1>9, <1>10, <1>11, Zenon DEF Attributes

\* So an attribute is as long as Len says.
LEMMA WriteAttributeLen ==
    ASSUME NEW a \in Attributes \cup Pointers
    PROVE  /\ WriteAttribute(a) \in Seq(Byte) /\ AttributeLen(a) \in Nat
           /\ (a.code = AGGREGATOR => Len(a.id) = 4) => Len(WriteAttribute(a)) = AttributeLen(a)
<1> DEFINE head == WriteAttributeHeader(ContentLen(a), Flag(a), a.code)
<1>1. /\ Content(a) \in Seq(Byte) /\ ContentLen(a) \in Nat /\ Flag(a) \in Byte /\ a.code \in Byte
      /\ (a.code = AGGREGATOR => Len(a.id) = 4) => Len(Content(a)) = ContentLen(a)
  BY ContentType
<1>2. /\ head \in Seq(Byte) /\ Len(head) = AttributeHeaderLen(ContentLen(a))
      /\ AttributeHeaderLen(ContentLen(a)) \in Nat
  BY <1>1, AttributeHeaderType
<1>3. WriteAttribute(a) = head \o Content(a) /\ AttributeLen(a) = AttributeHeaderLen(ContentLen(a)) + ContentLen(a)
  BY Zenon DEF WriteAttribute, AttributeLen
<1> HIDE DEF head
<1>4. head \o Content(a) \in Seq(Byte) /\ Len(head \o Content(a)) = Len(head) + Len(Content(a))
  BY <1>1, <1>2, Appended
<1>5. AttributeHeaderLen(ContentLen(a)) + ContentLen(a) \in Nat
  BY <1>1, <1>2
<1> QED BY <1>1, <1>2, <1>3, <1>4, <1>5, Zenon

\* And so is a list of them.
LEMMA WriteAttributesLen ==
    ASSUME NEW s \in Seq(Attributes \cup Pointers)
    PROVE  /\ Concat(WriteAttribute, s) \in Seq(Byte) /\ Sum(AttributeLen, s) \in Nat
           /\ (\A k \in DOMAIN s : s[k].code = AGGREGATOR => Len(s[k].id) = 4)
                  => Len(Concat(WriteAttribute, s)) = Sum(AttributeLen, s)
<1> DEFINE n == Len(s)
           w == [k \in DOMAIN s |-> WriteAttribute(s[k])]
           l == [k \in DOMAIN s |-> AttributeLen(s[k])]
           Exact == \A k \in DOMAIN s : s[k].code = AGGREGATOR => Len(s[k].id) = 4
<1>1. DOMAIN s = 1 .. n /\ n \in Nat /\ \A k \in 1 .. n : s[k] \in Attributes \cup Pointers
  <2>1. \A B : \A t \in Seq(B) : DOMAIN t = 1 .. Len(t) /\ Len(t) \in Nat /\ \A k \in 1 .. Len(t) : t[k] \in B
    OBVIOUS
  <2> QED BY <2>1, Zenon
<1>2. w \in [1 .. n -> Seq(Byte)] /\ l \in [1 .. n -> Nat] /\ (Exact => \A k \in 1 .. n : Len(w[k]) = l[k])
  BY <1>1, WriteAttributeLen, Zenon
<1>3. Concat(WriteAttribute, s) = FlattenSeq(w) /\ Sum(AttributeLen, s) = Total(l)
  BY Zenon DEF Concat, Sum
<1> HIDE DEF w, l, n
<1>4. w \in Seq(Seq(Byte)) /\ l \in Seq(Nat)
  BY <1>1, <1>2
<1>5. FlattenSeq(w) \in Seq(Byte) /\ Total(l) \in Nat
  BY <1>4, FlattenType, TotalNat
<1>6. Exact => Len(FlattenSeq(w)) = Total(l)
  BY <1>1, <1>2, JoinedLen
<1> QED BY <1>3, <1>5, <1>6, Zenon

-----------------------------------------------------------------------------
(* Messages.                                                               *)

\* Sequences of known lengths, one after the other.
LEMMA BsAppend ==
    ASSUME NEW m \in Nat, NEW n \in Nat, NEW x \in Bs(m), NEW y \in Bs(n)
    PROVE  x \o y \in Bs(m + n)
<1>1. x \in Seq(Byte) /\ Len(x) = m /\ y \in Seq(Byte) /\ Len(y) = n
  BY Zenon DEF Bs
<1>2. x \o y \in Seq(Byte) /\ Len(x \o y) = Len(x) + Len(y)
  BY <1>1, Appended, Zenon
<1> QED BY <1>1, <1>2, Zenon DEF Bs

\* Short sequences of bytes.
LEMMA BsBytes ==
    /\ \A x \in Byte : <<x>> \in Bs(1)
    /\ \A x, y \in Byte : <<x, y>> \in Bs(2)
    /\ \A n \in Nat : U16(n) \in Bs(2)
    /\ <<>> \in Bs(0)
<1>1. <<>> \in Seq(Byte) /\ Len(<<>>) = 0
  OBVIOUS
<1> QED BY <1>1, OneByte, TwoBytesOf, U16Type, Zenon DEF Bs

\* What the decoder of an OPEN makes of capabilities and parameters.
Capas == [code : {CAPA_MP}, afi : Bs(2), safi : Byte] \cup [code : {CAPA_ASN}, asn : Bs(4)]
         \cup [code : {CAPA_RR}] \cup [code : {CAPA_ADDPATH}, list : Seq(Bs(4))]
         \cup [code : Byte \ {CAPA_MP, CAPA_ASN, CAPA_RR, CAPA_ADDPATH}, data : Seq(Byte)]
Params == [type : Byte, capas : Seq(Capas)]

\* What it makes of each message.
Opens == [type : {"OPEN"}, version : Byte, asn : Bs(2), hold : Bs(2), id : Bs(4), params : Seq(Params)]
Updates == [type : {"UPDATE"}, withdrawn : Seq(Routes), attrs : Seq(Attributes), nlri : Seq(Routes),
            addPath : BOOLEAN]
Notifications == [type : {"NOTIFICATION"}, error : Bs(2), data : Seq(Byte)]
KeepAlives == [type : {"KEEPALIVE"}]
Messages == Opens \cup Updates \cup Notifications \cup KeepAlives

\* What an application may have made of an entry of a RIB.
Conversions == [type : {"UPDATE"}, withdrawn : Seq(Routes), attrs : Seq(Attributes \cup Pointers),
                nlri : Seq(Routes), addPath : BOOLEAN]

\* A capability.
LEMMA WriteCapaLen ==
    ASSUME NEW c \in Capas
    PROVE  CapaLen(c) \in Nat /\ WriteCapa(c) \in Bs(CapaLen(c))
<1>0. /\ CAPA_MP \in Byte /\ CAPA_ASN \in Byte /\ CAPA_RR \in Byte /\ CAPA_ADDPATH \in Byte
      /\ 0 \in Byte /\ 4 \in Byte
  BY DEF CAPA_MP, CAPA_ASN, CAPA_RR, CAPA_ADDPATH, Byte
<1>1. CASE c \in [code : {CAPA_MP}, afi : Bs(2), safi : Byte]
  <2>1. c.code = CAPA_MP /\ c.afi \in Bs(2) /\ c.safi \in Byte
    BY <1>1
  <2>2. c.code \notin {CAPA_ASN, CAPA_RR, CAPA_ADDPATH}
    BY <2>1 DEF CAPA_MP, CAPA_ASN, CAPA_RR, CAPA_ADDPATH
  <2>3. WriteCapa(c) = <<c.code, 4>> \o c.afi \o <<0, c.safi>> /\ CapaLen(c) = 6
    BY <2>1, <2>2, Zenon DEF WriteCapa, CapaLen
  <2>4. <<c.code, 4>> \in Bs(2) /\ <<0, c.safi>> \in Bs(2)
    BY <1>0, <2>1, BsBytes
  <2>5. <<c.code, 4>> \o c.afi \in Bs(2 + 2)
    BY <2>1, <2>4, BsAppend
  <2>6. <<c.code, 4>> \o c.afi \o <<0, c.safi>> \in Bs((2 + 2) + 2)
    BY <2>4, <2>5, BsAppend
  <2>7. (2 + 2) + 2 = 6 /\ 6 \in Nat
    OBVIOUS
  <2> QED BY <2>3, <2>6, <2>7, Zenon
<1>2. CASE c \in [code : {CAPA_ASN}, asn : Bs(4)]
  <2>1. c.code = CAPA_ASN /\ c.asn \in Bs(4)
    BY <1>2
  <2>2. c.code \notin {CAPA_MP, CAPA_RR, CAPA_ADDPATH}
    BY <2>1 DEF CAPA_MP, CAPA_ASN, CAPA_RR, CAPA_ADDPATH
  <2>3. WriteCapa(c) = <<c.code, 4>> \o c.asn /\ CapaLen(c) = 6
    BY <2>1, <2>2, Zenon DEF WriteCapa, CapaLen
  <2>4. <<c.code, 4>> \in Bs(2)
    BY <1>0, <2>1, BsBytes
  <2>5. <<c.code, 4>> \o c.asn \in Bs(2 + 4)
    BY <2>1, <2>4, BsAppend
  <2>6. 2 + 4 = 6 /\ 6 \in Nat
    OBVIOUS
  <2> QED BY <2>3, <2>5, <2>6, Zenon
<1>3. CASE c \in [code : {CAPA_RR}]
  <2>1. c.code = CAPA_RR
    BY <1>3
  <2>2. c.code \notin {CAPA_MP, CAPA_ASN, CAPA_ADDPATH}
    BY <2>1 DEF CAPA_MP, CAPA_ASN, CAPA_RR, CAPA_ADDPATH
  <2>3. WriteCapa(c) = <<c.code, 0>> /\ CapaLen(c) = 2
    BY <2>1, <2>2, Zenon DEF WriteCapa, CapaLen
  <2>4. <<c.code, 0>> \in Bs(2) /\ 2 \in Nat
    BY <1>0, <2>1, BsBytes
  <2> QED BY <2>3, <2>4, Zenon
<1>4. CASE c \in [code : {CAPA_ADDPATH}, list : Seq(Bs(4))]
  <2> DEFINE n == 4 * Len(c.list)
  <2>1. c.code = CAPA_ADDPATH /\ c.list \in Seq(Bs(4))
    BY <1>4
  <2>2. c.code \notin {CAPA_MP, CAPA_ASN, CAPA_RR}
    BY <2>1 DEF CAPA_MP, CAPA_ASN, CAPA_RR, CAPA_ADDPATH
  <2>3. WriteCapa(c) = <<c.code, n % 256>> \o Flat(c.list, 4) /\ CapaLen(c) = 2 + n
    BY <2>1, <2>2, Zenon DEF WriteCapa, CapaLen
  <2>4. n \in Nat /\ 2 + n \in Nat
    BY <2>1
  <2>5. Flat(c.list, 4) \in Bs(n)
    BY <2>1, FlatType
  <2> HIDE DEF n
  <2>6. <<c.code, n % 256>> \in Bs(2)
    BY <1>0, <2>1, <2>4, ByteOf, BsBytes
  <2>7. <<c.code, n % 256>> \o Flat(c.list, 4) \in Bs(2 + n)
    BY <2>4, <2>5, <2>6, BsAppend
  <2> QED BY <2>3, <2>4, <2>7, Zenon
<1>5. CASE c \in [code : Byte \ {CAPA_MP, CAPA_ASN, CAPA_RR, CAPA_ADDPATH}, data : Seq(Byte)]
  <2> DEFINE n == Len(c.data)
  <2>1. c.code \in Byte /\ c.code \notin {CAPA_MP, CAPA_ASN, CAPA_RR, CAPA_ADDPATH} /\ c.data \in Seq(Byte)
    BY <1>5
  <2>2. WriteCapa(c) = <<c.code, n % 256>> \o c.data /\ CapaLen(c) = 2 + n
    BY <2>1, Zenon DEF WriteCapa, CapaLen
  <2>3. n \in Nat /\ 2 + n \in Nat /\ c.data \in Bs(n)
    BY <2>1 DEF Bs
  <2> HIDE DEF n
  <2>4. <<c.code, n % 256>> \in Bs(2)
    BY <2>1, <2>3, ByteOf, BsBytes
  <2>5. <<c.code, n % 256>> \o c.data \in Bs(2 + n)
    BY <2>3, <2>4, BsAppend
  <2> QED BY <2>2, <2>3, <2>5, Zenon
<1> QED BY <1>1, <1>2, <1>3, <1>4, <1>5, Zenon DEF Capas

\* Written one after the other, as long as the sum.
LEMMA BsJoined ==
    ASSUME NEW n \in Nat, NEW w, NEW l, DOMAIN w = 1 .. n, DOMAIN l = 1 .. n,
           w = [k \in 1 .. n |-> w[k]], l = [k \in 1 .. n |-> l[k]],
           \A k \in 1 .. n : l[k] \in Nat /\ w[k] \in Bs(l[k])
    PROVE  Total(l) \in Nat /\ FlattenSeq(w) \in Bs(Total(l))
<1>1. \A k \in 1 .. n : l[k] \in Nat /\ w[k] \in Seq(Byte) /\ Len(w[k]) = l[k]
  BY Zenon DEF Bs
<1>2. w \in [1 .. n -> Seq(Byte)] /\ l \in [1 .. n -> Nat]
  BY <1>1, Zenon
<1>3. \A k \in 1 .. n : Len(w[k]) = l[k]
  BY <1>1, Zenon
<1>4. FlattenSeq(w) \in Seq(Byte) /\ Len(FlattenSeq(w)) = Total(l) /\ Total(l) \in Nat
  BY <1>2, <1>3, JoinedLen, Zenon
<1> QED BY <1>4, Zenon DEF Bs

\* A list and its elements.
LEMMA ElementsOf == ASSUME NEW B, NEW s \in Seq(B)
                    PROVE  DOMAIN s = 1 .. Len(s) /\ Len(s) \in Nat /\ \A k \in 1 .. Len(s) : s[k] \in B
OBVIOUS

\* The capabilities of a parameter.
LEMMA WriteCapasLen ==
    ASSUME NEW s \in Seq(Capas)
    PROVE  Sum(CapaLen, s) \in Nat /\ Concat(WriteCapa, s) \in Bs(Sum(CapaLen, s))
<1> DEFINE n == Len(s)
           w == [k \in DOMAIN s |-> WriteCapa(s[k])]
           l == [k \in DOMAIN s |-> CapaLen(s[k])]
<1>1. DOMAIN s = 1 .. n /\ n \in Nat /\ \A k \in 1 .. n : s[k] \in Capas
  BY ElementsOf
<1>2. /\ DOMAIN w = 1 .. n /\ DOMAIN l = 1 .. n
      /\ w = [k \in 1 .. n |-> w[k]] /\ l = [k \in 1 .. n |-> l[k]]
      /\ \A k \in 1 .. n : l[k] \in Nat /\ w[k] \in Bs(l[k])
  BY <1>1, WriteCapaLen, Zenon
<1>3. Concat(WriteCapa, s) = FlattenSeq(w) /\ Sum(CapaLen, s) = Total(l)
  BY Zenon DEF Concat, Sum
<1> HIDE DEF w, l, n
<1> QED BY <1>1, <1>2, <1>3, BsJoined

\* A parameter of an OPEN.
LEMMA WriteParamLen ==
    ASSUME NEW p \in Params
    PROVE  ParamLen(p) \in Nat /\ WriteParam(p) \in Bs(ParamLen(p))
<1> DEFINE n == Sum(CapaLen, p.capas)
<1>1. p.type \in Byte /\ p.capas \in Seq(Capas)
  BY DEF Params
<1>2. n \in Nat /\ Concat(WriteCapa, p.capas) \in Bs(n)
  BY <1>1, WriteCapasLen
<1>3. ParamLen(p) = 2 + n /\ WriteParam(p) = <<p.type, n % 256>> \o Concat(WriteCapa, p.capas)
  BY Zenon DEF ParamLen, WriteParam
<1> HIDE DEF n
<1>4. <<p.type, n % 256>> \in Bs(2)
  BY <1>1, <1>2, ByteOf, BsBytes
<1>5. <<p.type, n % 256>> \o Concat(WriteCapa, p.capas) \in Bs(2 + n)
  BY <1>2, <1>4, BsAppend
<1>6. 2 + n \in Nat
  BY <1>2
<1> QED BY <1>3, <1>5, <1>6, Zenon

\* An OPEN.
LEMMA WriteOpenLen ==
    ASSUME NEW m \in Opens
    PROVE  LenParams(m) \in Nat /\ WriteOpen(m) \in Bs(10 + LenParams(m))
<1> DEFINE n == Len(m.params)
           w == [k \in DOMAIN m.params |-> WriteParam(m.params[k])]
           l == [k \in DOMAIN m.params |-> ParamLen(m.params[k])]
<1>1. /\ m.version \in Byte /\ m.asn \in Bs(2) /\ m.hold \in Bs(2) /\ m.id \in Bs(4)
      /\ m.params \in Seq(Params)
  BY DEF Opens
<1>2. DOMAIN m.params = 1 .. n /\ n \in Nat /\ \A k \in 1 .. n : m.params[k] \in Params
  BY <1>1, ElementsOf
<1>3. /\ DOMAIN w = 1 .. n /\ DOMAIN l = 1 .. n
      /\ w = [k \in 1 .. n |-> w[k]] /\ l = [k \in 1 .. n |-> l[k]]
      /\ \A k \in 1 .. n : l[k] \in Nat /\ w[k] \in Bs(l[k])
  BY <1>2, WriteParamLen, Zenon
<1>4. /\ Concat(WriteParam, m.params) = FlattenSeq(w) /\ LenParams(m) = Total(l)
      /\ WriteOpen(m) = <<m.version>> \o m.asn \o m.hold \o m.id \o <<LenParams(m) % 256>>
                            \o Concat(WriteParam, m.params)
  BY Zenon DEF Concat, Sum, LenParams, WriteOpen
<1> HIDE DEF w, l, n
<1>5. LenParams(m) \in Nat /\ Concat(WriteParam, m.params) \in Bs(LenParams(m))
  BY <1>2, <1>3, <1>4, BsJoined
<1>6. <<m.version>> \in Bs(1) /\ <<LenParams(m) % 256>> \in Bs(1)
  BY <1>1, <1>5, ByteOf, BsBytes
<1>0. 1 \in Nat /\ 2 \in Nat /\ 4 \in Nat /\ 1 + 2 \in Nat /\ (1 + 2) + 2 \in Nat /\ ((1 + 2) + 2) + 4 \in Nat
  OBVIOUS
<1>7. <<m.version>> \o m.asn \in Bs(1 + 2)
  BY <1>0, <1>1, <1>6, BsAppend, Zenon
<1>8. <<m.version>> \o m.asn \o m.hold \in Bs((1 + 2) + 2)
  BY <1>0, <1>1, <1>7, BsAppend, Zenon
<1>9. <<m.version>> \o m.asn \o m.hold \o m.id \in Bs(((1 + 2) + 2) + 4)
  BY <1>0, <1>1, <1>8, BsAppend, Zenon
<1>10. <<m.version>> \o m.asn \o m.hold \o m.id \o <<LenParams(m) % 256>> \in Bs((((1 + 2) + 2) + 4) + 1)
  BY <1>0, <1>6, <1>9, BsAppend, Zenon
<1>11. (((1 + 2) + 2) + 4) + 1 = 10 /\ 10 \in Nat
  OBVIOUS
<1>12. <<m.version>> \o m.asn \o m.hold \o m.id \o <<LenParams(m) % 256>> \in Bs(10)
  BY <1>10, <1>11, Zenon
<1>13. WriteOpen(m) \in Bs(10 + LenParams(m))
  BY <1>4, <1>5, <1>11, <1>12, BsAppend, Zenon
<1> QED BY <1>5, <1>13

\* An UPDATE.
LEMMA WriteUpdateLen ==
    ASSUME NEW m \in Updates \cup Conversions
    PROVE  /\ WriteUpdate(m) \in Seq(Byte) /\ UpdateLen(m) \in Nat
           /\ Sound(m.attrs) => Len(WriteUpdate(m)) = UpdateLen(m)
<1> DEFINE gone == WriteNLRIs(m.withdrawn, m.addPath)
           attributes == Concat(WriteAttribute, m.attrs)
           new == WriteNLRIs(m.nlri, m.addPath)
           nGone == LenNLRIs(m.withdrawn, m.addPath)
           nAttributes == LenPathAttribute(m)
           nNew == LenNLRIs(m.nlri, m.addPath)
<1>1. /\ m.withdrawn \in Seq(Routes) /\ m.nlri \in Seq(Routes) /\ m.addPath \in BOOLEAN
      /\ m.attrs \in Seq(Attributes \cup Pointers)
  <2>1. m \in Conversions
    <3>1. CASE m \in Updates
      <4>1. m.attrs \in Seq(Attributes)
        BY <3>1 DEF Updates
      <4> DEFINE Both == Attributes \cup Pointers
      <4>2. Attributes \subseteq Both
        OBVIOUS
      <4> HIDE DEF Both
      <4>3. m.attrs \in Seq(Both)
        BY ONLY <4>1, <4>2
      <4> QED BY <3>1, <4>3 DEF Updates, Conversions, Both
    <3> QED BY <3>1
  <2> QED BY ONLY <2>1 DEF Conversions
<1>2. gone \in Bs(nGone) /\ nGone \in Nat /\ new \in Bs(nNew) /\ nNew \in Nat
  BY <1>1, WriteNLRIsLen, Zenon DEF Bs
<1>3. /\ attributes \in Seq(Byte) /\ nAttributes \in Nat
      /\ Sound(m.attrs) => Len(attributes) = nAttributes
  BY <1>1, WriteAttributesLen, Zenon DEF Sound, LenPathAttribute
<1>4. /\ WriteUpdate(m) = U16(nGone) \o gone \o U16(nAttributes) \o attributes \o new
      /\ UpdateLen(m) = 4 + nGone + nAttributes + nNew
  BY Zenon DEF WriteUpdate, UpdateLen
<1> HIDE DEF gone, attributes, new, nGone, nAttributes, nNew
<1>5. U16(nGone) \in Bs(2) /\ U16(nAttributes) \in Bs(2)
  BY <1>2, <1>3, BsBytes
<1>6. U16(nGone) \o gone \in Bs(2 + nGone)
  BY <1>2, <1>5, BsAppend
<1>7. 2 + nGone \in Nat
  BY <1>2
<1>8. U16(nGone) \o gone \o U16(nAttributes) \in Bs((2 + nGone) + 2)
  BY <1>5, <1>6, <1>7, BsAppend
<1> DEFINE n == Len(attributes)
<1>9. (2 + nGone) + 2 \in Nat /\ n \in Nat /\ attributes \in Bs(n)
  BY <1>2, <1>3 DEF Bs
<1> HIDE DEF n
<1>10. U16(nGone) \o gone \o U16(nAttributes) \o attributes \in Bs(((2 + nGone) + 2) + n)
  BY <1>8, <1>9, BsAppend
<1>11. ((2 + nGone) + 2) + n \in Nat
  BY <1>9
<1>12. U16(nGone) \o gone \o U16(nAttributes) \o attributes \o new \in Bs((((2 + nGone) + 2) + n) + nNew)
  BY <1>2, <1>10, <1>11, BsAppend
<1>13. WriteUpdate(m) \in Seq(Byte) /\ Len(WriteUpdate(m)) = (((2 + nGone) + 2) + n) + nNew
  BY <1>4, <1>12, Zenon DEF Bs
<1>14. UpdateLen(m) \in Nat
  BY <1>2, <1>3, <1>4
<1>15. Sound(m.attrs) => (((2 + nGone) + 2) + n) + nNew = 4 + nGone + nAttributes + nNew
  BY ONLY <1>2, <1>3, <1>9 DEF n
<1> QED BY <1>4, <1>13, <1>14, <1>15, Zenon

\* The header of a message.
LEMMA WriteHeaderLen ==
    ASSUME NEW type \in {"OPEN", "UPDATE", "NOTIFICATION", "KEEPALIVE"}, NEW size \in Nat
    PROVE  WriteBGPHeader(type, size) \in Bs(19)
<1>1. Marker \in Bs(16)
  <2> DEFINE f == [k \in 1 .. 16 |-> 255]
  <2>1. f \in [1 .. 16 -> Byte]
    BY DEF Byte
  <2> HIDE DEF f
  <2>2. \A n \in Nat : \A g \in [1 .. n -> Byte] : g \in Seq(Byte) /\ Len(g) = n
    OBVIOUS
  <2>3. 16 \in Nat
    OBVIOUS
  <2>4. f \in Seq(Byte) /\ Len(f) = 16
    BY <2>1, <2>2, <2>3, Zenon
  <2> QED BY <2>4, Zenon DEF f, Marker, Bs
<1>2. MessageType[type] \in Byte
  <2>1. MessageType[type] \in {1, 2, 3, 4}
    BY DEF MessageType
  <2> QED BY <2>1 DEF Byte
<1>3. GetBGPHeaderLen + size \in Nat
  BY DEF GetBGPHeaderLen
<1>4. U16(GetBGPHeaderLen + size) \in Bs(2) /\ <<MessageType[type]>> \in Bs(1)
  BY <1>2, <1>3, BsBytes, Zenon
<1>5. Marker \o U16(GetBGPHeaderLen + size) \in Bs(16 + 2)
  BY <1>1, <1>4, BsAppend
<1>6. Marker \o U16(GetBGPHeaderLen + size) \o <<MessageType[type]>> \in Bs((16 + 2) + 1)
  BY <1>4, <1>5, BsAppend
<1>7. (16 + 2) + 1 = 19
  OBVIOUS
<1> QED BY <1>6, <1>7, Zenon DEF WriteBGPHeader

\* A message is as long as Len says.
LEMMA WritePacketLen ==
    ASSUME NEW m \in Messages \cup Conversions
    PROVE  /\ WritePacket(m) \in Seq(Byte) /\ LenPacket(m) \in Nat
           /\ (m.type = "UPDATE" => Sound(m.attrs)) => Len(WritePacket(m)) = LenPacket(m)
<1> DEFINE full == CASE m.type = "OPEN" -> WriteOpen(m)
                     [] m.type = "UPDATE" -> WriteUpdate(m)
                     [] m.type = "NOTIFICATION" -> WriteNotification(m)
                     [] m.type = "KEEPALIVE" -> <<>>
                     [] m.type = "ROUTEREFRESH" -> WriteRouteRefresh(m)
<1>1. /\ WritePacket(m) = WriteBGPHeader(m.type, LenContent(m)) \o full
      /\ LenPacket(m) = GetBGPHeaderLen + LenContent(m)
  BY Zenon DEF WritePacket, LenPacket
<1>2. /\ m.type \in {"OPEN", "UPDATE", "NOTIFICATION", "KEEPALIVE"}
      /\ full \in Seq(Byte) /\ LenContent(m) \in Nat
      /\ (m.type = "UPDATE" => Sound(m.attrs)) => Len(full) = LenContent(m)
  <2>1. CASE m \in Opens
    <3>1. m.type = "OPEN"
      BY <2>1 DEF Opens
    <3>2. full = WriteOpen(m) /\ LenContent(m) = 10 + LenParams(m)
      BY <3>1, Zenon DEF LenContent
    <3> HIDE DEF full
    <3>3. LenParams(m) \in Nat /\ WriteOpen(m) \in Bs(10 + LenParams(m))
      BY <2>1, WriteOpenLen
    <3>4. 10 + LenParams(m) \in Nat
      BY <3>3
    <3> QED BY <3>1, <3>2, <3>3, <3>4, Zenon DEF Bs
  <2>2. CASE m \in Updates \cup Conversions
    <3>1. m.type = "UPDATE"
      BY <2>2 DEF Updates, Conversions
    <3>2. full = WriteUpdate(m) /\ LenContent(m) = UpdateLen(m)
      BY <3>1, Zenon DEF LenContent
    <3> HIDE DEF full
    <3> QED BY <2>2, <3>1, <3>2, WriteUpdateLen, Zenon
  <2>3. CASE m \in Notifications
    <3> DEFINE n == Len(m.data)
    <3>1. m.type = "NOTIFICATION" /\ m.error \in Bs(2) /\ m.data \in Seq(Byte)
      BY <2>3 DEF Notifications
    <3>2. full = m.error \o m.data /\ LenContent(m) = 2 + n
      BY <3>1, Zenon DEF LenContent, WriteNotification
    <3> HIDE DEF full
    <3>3. n \in Nat /\ m.data \in Bs(n) /\ 2 + n \in Nat
      BY <3>1 DEF Bs
    <3> HIDE DEF n
    <3>4. m.error \o m.data \in Bs(2 + n)
      BY <3>1, <3>3, BsAppend
    <3> QED BY <3>1, <3>2, <3>3, <3>4, Zenon DEF Bs
  <2>4. CASE m \in KeepAlives
    <3>1. m.type = "KEEPALIVE"
      BY <2>4 DEF KeepAlives
    <3>2. full = <<>> /\ LenContent(m) = 0
      BY <3>1, Zenon DEF LenContent
    <3> HIDE DEF full
    <3>3. <<>> \in Seq(Byte) /\ Len(<<>>) = 0 /\ 0 \in Nat
      OBVIOUS
    <3> QED BY <3>1, <3>2, <3>3, Zenon
  <2> QED BY <2>1, <2>2, <2>3, <2>4, Zenon DEF Messages
<1> HIDE DEF full
<1>3. WriteBGPHeader(m.type, LenContent(m)) \in Bs(19)
  BY <1>2, WriteHeaderLen
<1> DEFINE head == WriteBGPHeader(m.type, LenContent(m))
<1>4. head \in Seq(Byte) /\ Len(head) = 19
  BY <1>3, Zenon DEF Bs
<1> HIDE DEF head
<1>5. head \o full \in Seq(Byte) /\ Len(head \o full) = Len(head) + Len(full)
  BY <1>2, <1>4, Appended, Zenon
<1>6. GetBGPHeaderLen + LenContent(m) \in Nat
  BY <1>2 DEF GetBGPHeaderLen
<1>7. Len(full) = LenContent(m) => Len(head) + Len(full) = GetBGPHeaderLen + LenContent(m)
  BY <1>2, <1>4 DEF GetBGPHeaderLen
<1> QED BY <1>1, <1>2, <1>5, <1>6, <1>7, Zenon DEF head

-----------------------------------------------------------------------------
(* Records.                                                                 *)

\* What the decoder of MRT records makes of them.
Addresses == Bs(4) \cup Bs(16)
MessageRecords ==
    {r \in [type : {"MESSAGE"}, time : Bs(4), peerAS : Bs(4), localAS : Bs(4), iface : Bs(2),
            peerIP : Addresses, localIP : Addresses] : Len(r.localIP) = Len(r.peerIP)}
StateChanges ==
    {r \in [type : {"STATE_CHANGE"}, time : Bs(4), peerAS : Bs(4), localAS : Bs(4), iface : Bs(2),
            peerIP : Addresses, localIP : Addresses, states : Bs(4)] : Len(r.localIP) = Len(r.peerIP)}
PeerEntries == [id : Bs(4), ip : Addresses, asn : Bs(4)]
PeerIndexes == [type : {"PEER_INDEX"}, time : Bs(4), collector : Bs(4), view : Seq(Byte),
                peers : Seq(PeerEntries)]
Entries == [peer : Bs(2), time : Bs(4), attrs : Seq(Attributes)]
RibsWith(nlris, entries) ==
    [type : {"RIB"}, time : Bs(4), seq : Bs(4), afi : Nat, safi : Byte, asAfiSafi : BOOLEAN,
     addPath : BOOLEAN, nlri : nlris, entries : entries]
Ribs == RibsWith(Routes, Seq(Entries))

\* The common header.
LEMMA CommonHeaderLen ==
    ASSUME NEW time \in Bs(4), NEW type \in Nat, NEW subtype \in Nat, NEW length \in Nat
    PROVE  WriteCommonHeader(time, type, subtype, length) \in Bs(12)
<1> DEFINE high == length \div 16777216
           low == length \div 65536
<1>1. high \in Nat /\ low \in Nat
  BY SMT
<1>2. U32(length) = <<high % 256, low % 256>> \o U16(length)
  BY SMT DEF U32
<1> HIDE DEF high, low
<1>3. <<high % 256, low % 256>> \in Bs(2)
  BY <1>1, ByteOf, BsBytes
<1>4. U16(type) \in Bs(2) /\ U16(subtype) \in Bs(2) /\ U16(length) \in Bs(2)
  BY BsBytes
<1>5. U32(length) \in Bs(2 + 2)
  BY <1>2, <1>3, <1>4, BsAppend
<1>6. time \o U16(type) \in Bs(4 + 2)
  BY <1>4, BsAppend
<1>7. time \o U16(type) \o U16(subtype) \in Bs((4 + 2) + 2)
  BY <1>4, <1>6, BsAppend
<1>8. time \o U16(type) \o U16(subtype) \o U32(length) \in Bs(((4 + 2) + 2) + (2 + 2))
  BY <1>5, <1>7, BsAppend
<1>9. ((4 + 2) + 2) + (2 + 2) = 12
  OBVIOUS
<1> QED BY <1>8, <1>9, Zenon DEF WriteCommonHeader

\* An address of IPv4, in 4 bytes or mapped.
LEMMA To4Type ==
    ASSUME NEW ip \in Seq(Byte)
    PROVE  /\ To4(ip) \in Seq(Byte)
           /\ IsIPv4(ip) => To4(ip) \in Bs(4)
           /\ Len(ip) = 4 => To4(ip) = ip
<1>1. CASE Len(ip) = 4
  <2>1. ~Mapped(ip) /\ Len(ip) # 16
    BY <1>1 DEF Mapped
  <2>2. IPtoBytes(ip) = ip
    BY <1>1, <2>1, Zenon DEF IPtoBytes
  <2> QED BY <1>1, <2>2, Zenon DEF To4, IsIPv4, Bs
<1>2. CASE Len(ip) # 4 /\ Mapped(ip)
  <2>1. Len(ip) = 16
    BY <1>2, Zenon DEF Mapped
  <2>2. \A j \in 13 .. 16 : ip[j] \in Byte
    <3>1. \A j \in 13 .. 16 : j \in 1 .. Len(ip)
      BY <2>1
    <3> QED BY <3>1
  <2> DEFINE last == SubSeq(ip, 13, 16)
  <2>3. last \in Seq(Byte) /\ Len(last) = 4
    <3>1. last \in Seq(Byte) /\ Len(last) = IF 13 <= 16 THEN 16 - 13 + 1 ELSE 0
      BY ONLY <2>2, SubSeqProperties
    <3> HIDE DEF last
    <3> QED BY <3>1
  <2> HIDE DEF last
  <2>4. IPtoBytes(ip) = last
    BY <1>2, Zenon DEF IPtoBytes, last
  <2> QED BY <1>2, <2>3, <2>4, Zenon DEF To4, IsIPv4, Bs
<1>3. CASE Len(ip) # 4 /\ ~Mapped(ip)
  <2>1. To4(ip) = <<>> /\ ~IsIPv4(ip)
    BY <1>3, Zenon DEF To4, IsIPv4
  <2>2. <<>> \in Seq(Byte)
    OBVIOUS
  <2> QED BY <1>3, <2>1, <2>2, Zenon
<1> QED BY <1>1, <1>2, <1>3, Zenon

\* A peer of a peer index table.
LEMMA WritePeerLen ==
    ASSUME NEW p \in PeerEntries
    PROVE  PeerLen(p) \in Nat /\ WritePeer(p) \in Bs(PeerLen(p))
<1> DEFINE four == IsIPv4(p.ip)
           short == Short(p.asn)
           type == (IF short THEN 0 ELSE 4) + (IF four THEN 0 ELSE 1)
           ip == IF four THEN To4(p.ip) ELSE p.ip
           asn == IF short THEN SubSeq(p.asn, 3, 4) ELSE p.asn
           nIp == IF four THEN 4 ELSE 16
           nAsn == IF short THEN 2 ELSE 4
<1>1. p.id \in Bs(4) /\ p.ip \in Addresses /\ p.asn \in Bs(4)
  BY DEF PeerEntries
<1>2. p.ip \in Seq(Byte) /\ Len(p.ip) \in {4, 16}
  BY <1>1 DEF Addresses, Bs
<1>3. ip \in Bs(nIp)
  <2>1. CASE four
    BY <2>1, <1>2, To4Type, Zenon
  <2>2. CASE ~four
    <3>1. Len(p.ip) # 4
      BY <2>2, Zenon DEF IsIPv4
    <3>2. p.ip \in Bs(16)
      BY <1>2, <3>1, Zenon DEF Bs
    <3> QED BY <2>2, <3>2, Zenon
  <2> QED BY <2>1, <2>2, Zenon
<1>4. asn \in Bs(nAsn)
  <2>1. p.asn \in Seq(Byte) /\ Len(p.asn) = 4
    BY <1>1, Zenon DEF Bs
  <2>2. \A j \in 3 .. 4 : p.asn[j] \in Byte
    <3>1. \A j \in 3 .. 4 : j \in 1 .. Len(p.asn)
      BY <2>1
    <3> QED BY <2>1, <3>1
  <2> DEFINE last == SubSeq(p.asn, 3, 4)
  <2>3. last \in Seq(Byte) /\ Len(last) = 2
    <3>1. last \in Seq(Byte) /\ Len(last) = IF 3 <= 4 THEN 4 - 3 + 1 ELSE 0
      BY ONLY <2>2, SubSeqProperties
    <3> HIDE DEF last
    <3> QED BY <3>1
  <2>4. last \in Bs(2)
    BY <2>3, Zenon DEF Bs
  <2> QED BY <2>4, <1>1, Zenon
<1>5. type \in Byte
  <2> HIDE DEF four, short
  <2> QED BY DEF Byte
<1>6. To4(p.id) \in Bs(4)
  <2>1. p.id \in Seq(Byte) /\ Len(p.id) = 4
    BY <1>1, Zenon DEF Bs
  <2> QED BY <2>1, <1>1, To4Type, Zenon
<1>7. WritePeer(p) = <<type>> \o To4(p.id) \o ip \o asn /\ PeerLen(p) = 5 + nIp + nAsn
  BY Zenon DEF WritePeer, PeerLen
<1>8. nIp \in Nat /\ nAsn \in Nat
  <2> HIDE DEF four, short
  <2> QED OBVIOUS
<1> HIDE DEF type, ip, asn, nIp, nAsn
<1>9. <<type>> \in Bs(1)
  BY <1>5, BsBytes
<1>10. <<type>> \o To4(p.id) \in Bs(1 + 4)
  BY <1>6, <1>9, BsAppend
<1>11. 1 + 4 = 5 /\ 5 \in Nat /\ 5 + nIp \in Nat /\ 5 + nIp + nAsn \in Nat
  BY <1>8
<1>12. <<type>> \o To4(p.id) \o ip \in Bs(5 + nIp)
  BY <1>3, <1>8, <1>10, <1>11, BsAppend, Zenon
<1>13. <<type>> \o To4(p.id) \o ip \o asn \in Bs(5 + nIp + nAsn)
  BY <1>4, <1>8, <1>11, <1>12, BsAppend, Zenon
<1> QED BY <1>7, <1>11, <1>13, Zenon

\* A peer index table.
LEMMA WritePeerIndexLen ==
    ASSUME NEW r \in PeerIndexes
    PROVE  PeerIndexLen(r) \in Nat /\ WritePeerIndex(r) \in Bs(PeerIndexLen(r))
<1> DEFINE n == Len(r.peers)
           v == Len(r.view)
           w == [k \in DOMAIN r.peers |-> WritePeer(r.peers[k])]
           l == [k \in DOMAIN r.peers |-> PeerLen(r.peers[k])]
           peers == Concat(WritePeer, r.peers)
           nPeers == Sum(PeerLen, r.peers)
<1>1. r.collector \in Bs(4) /\ r.view \in Seq(Byte) /\ r.peers \in Seq(PeerEntries)
  BY DEF PeerIndexes
<1>2. DOMAIN r.peers = 1 .. n /\ n \in Nat /\ \A k \in 1 .. n : r.peers[k] \in PeerEntries
  BY <1>1, ElementsOf
<1>3. /\ DOMAIN w = 1 .. n /\ DOMAIN l = 1 .. n
      /\ w = [k \in 1 .. n |-> w[k]] /\ l = [k \in 1 .. n |-> l[k]]
      /\ \A k \in 1 .. n : l[k] \in Nat /\ w[k] \in Bs(l[k])
  BY <1>2, WritePeerLen, Zenon
<1>4. peers = FlattenSeq(w) /\ nPeers = Total(l)
  BY Zenon DEF Concat, Sum
<1>5. /\ PeerIndexLen(r) = 8 + v + nPeers
      /\ WritePeerIndex(r) = To4(r.collector) \o U16(v) \o r.view \o U16(n) \o peers
  BY Zenon DEF PeerIndexLen, WritePeerIndex
<1>6. To4(r.collector) \in Bs(4)
  <2>1. r.collector \in Seq(Byte) /\ Len(r.collector) = 4
    BY <1>1, Zenon DEF Bs
  <2> QED BY <2>1, <1>1, To4Type, Zenon
<1>7. v \in Nat /\ r.view \in Bs(v)
  BY <1>1 DEF Bs
<1> HIDE DEF w, l, n, v, peers, nPeers
<1>8. nPeers \in Nat /\ peers \in Bs(nPeers)
  BY <1>2, <1>3, <1>4, BsJoined
<1>9. U16(v) \in Bs(2) /\ U16(n) \in Bs(2)
  BY <1>2, <1>7, BsBytes
<1>10. To4(r.collector) \o U16(v) \in Bs(4 + 2)
  BY <1>6, <1>9, BsAppend
<1>11. /\ 4 + 2 \in Nat /\ (4 + 2) + v \in Nat /\ ((4 + 2) + v) + 2 \in Nat /\ 8 + v + nPeers \in Nat
       /\ (((4 + 2) + v) + 2) + nPeers = 8 + v + nPeers
  BY <1>7, <1>8
<1>12. To4(r.collector) \o U16(v) \o r.view \in Bs((4 + 2) + v)
  BY <1>7, <1>10, <1>11, BsAppend
<1>13. To4(r.collector) \o U16(v) \o r.view \o U16(n) \in Bs(((4 + 2) + v) + 2)
  BY <1>9, <1>11, <1>12, BsAppend
<1>14. To4(r.collector) \o U16(v) \o r.view \o U16(n) \o peers \in Bs((((4 + 2) + v) + 2) + nPeers)
  BY <1>8, <1>11, <1>13, BsAppend
<1> QED BY <1>5, <1>11, <1>14, Zenon

\* An entry of a RIB record.
LEMMA WriteEntryLen ==
    ASSUME NEW e \in Entries
    PROVE  /\ EntryLen(e) \in Nat /\ WriteEntry(e) \in Seq(Byte)
           /\ Sound(e.attrs) => Len(WriteEntry(e)) = EntryLen(e)
<1> DEFINE attrs == Concat(WriteAttribute, e.attrs)
           n == Sum(AttributeLen, e.attrs)
<1>1. e.peer \in Bs(2) /\ e.time \in Bs(4) /\ e.attrs \in Seq(Attributes)
  BY DEF Entries
<1>2. \A k \in DOMAIN e.attrs : ~Pointer(e.attrs[k])
  <2>1. \A a \in Attributes : "pointer" \notin DOMAIN a
    BY DEF Attributes, Origins, Numbers, Atomics, Aggregators, Paths, NextHops, CommunityLists,
           LargeLists, Reaches, Unreaches, Unknowns
  <2>2. \A k \in DOMAIN e.attrs : e.attrs[k] \in Attributes
    BY <1>1, ElementsOf
  <2> QED BY <2>1, <2>2, Zenon DEF Pointer
<1>3. /\ [k \in DOMAIN e.attrs |-> EntryAttributeLen(e.attrs[k])]
           = [k \in DOMAIN e.attrs |-> AttributeLen(e.attrs[k])]
      /\ [k \in DOMAIN e.attrs |-> WriteEntryAttribute(e.attrs[k])]
           = [k \in DOMAIN e.attrs |-> WriteAttribute(e.attrs[k])]
  <2>1. \A k \in DOMAIN e.attrs : /\ EntryAttributeLen(e.attrs[k]) = AttributeLen(e.attrs[k])
                                  /\ WriteEntryAttribute(e.attrs[k]) = WriteAttribute(e.attrs[k])
    BY <1>2, Zenon DEF EntryAttributeLen, WriteEntryAttribute
  <2> QED BY <2>1, Zenon
<1>4. Sum(EntryAttributeLen, e.attrs) = n /\ Concat(WriteEntryAttribute, e.attrs) = attrs
  BY <1>3, Zenon DEF Sum, Concat
<1>5. EntryLen(e) = 8 + n /\ WriteEntry(e) = e.peer \o e.time \o U16(n) \o attrs
  BY <1>4, Zenon DEF EntryLen, WriteEntry
<1>6. attrs \in Seq(Byte) /\ n \in Nat /\ (Sound(e.attrs) => Len(attrs) = n)
  <2> DEFINE Both == Attributes \cup Pointers
  <2>1. Attributes \subseteq Both
    OBVIOUS
  <2> HIDE DEF Both
  <2>2. e.attrs \in Seq(Both)
    BY ONLY <1>1, <2>1
  <2> QED BY <2>2, WriteAttributesLen, Zenon DEF Sound, Both
<1> DEFINE k == Len(attrs)
<1>7. attrs \in Bs(k) /\ k \in Nat
  BY <1>6 DEF Bs
<1> HIDE DEF attrs, n, k
<1>8. U16(n) \in Bs(2)
  BY <1>6, BsBytes
<1>9. e.peer \o e.time \in Bs(2 + 4)
  BY <1>1, BsAppend
<1>10. e.peer \o e.time \o U16(n) \in Bs((2 + 4) + 2)
  BY <1>8, <1>9, BsAppend
<1>11. (2 + 4) + 2 = 8 /\ 8 \in Nat /\ 8 + n \in Nat
  BY <1>6
<1>12. e.peer \o e.time \o U16(n) \o attrs \in Bs(8 + k)
  BY <1>7, <1>10, <1>11, BsAppend, Zenon
<1> QED BY <1>5, <1>6, <1>11, <1>12, Zenon DEF Bs, k

\* The entries of a RIB record.
LEMMA WriteEntriesLen ==
    ASSUME NEW s \in Seq(Entries)
    PROVE  /\ Sum(EntryLen, s) \in Nat /\ Concat(WriteEntry, s) \in Seq(Byte)
           /\ (\A k \in DOMAIN s : Sound(s[k].attrs)) => Len(Concat(WriteEntry, s)) = Sum(EntryLen, s)
<1> DEFINE n == Len(s)
           w == [k \in DOMAIN s |-> WriteEntry(s[k])]
           l == [k \in DOMAIN s |-> EntryLen(s[k])]
           Exact == \A k \in DOMAIN s : Sound(s[k].attrs)
<1>1. DOMAIN s = 1 .. n /\ n \in Nat /\ \A k \in 1 .. n : s[k] \in Entries
  BY ElementsOf
<1>2. w \in [1 .. n -> Seq(Byte)] /\ l \in [1 .. n -> Nat] /\ (Exact => \A k \in 1 .. n : Len(w[k]) = l[k])
  BY <1>1, WriteEntryLen, Zenon
<1>3. Concat(WriteEntry, s) = FlattenSeq(w) /\ Sum(EntryLen, s) = Total(l)
  BY Zenon DEF Concat, Sum
<1> HIDE DEF w, l, n
<1>4. w \in Seq(Seq(Byte)) /\ l \in Seq(Nat)
  BY <1>1, <1>2
<1>5. FlattenSeq(w) \in Seq(Byte) /\ Total(l) \in Nat
  BY <1>4, FlattenType, TotalNat
<1>6. Exact => Len(FlattenSeq(w)) = Total(l)
  BY <1>1, <1>2, JoinedLen
<1> QED BY <1>3, <1>5, <1>6, Zenon

\* The subtype a RIB record is written with.
LEMMA SubtypeType == ASSUME NEW r PROVE GetSubtype(r) \in Nat
<1> DEFINE own == {t \in 2 .. 5 : RibSubtype[t].afi = r.afi /\ RibSubtype[t].safi = r.safi}
<1>1. GetSubtype(r) = IF r.asAfiSafi /\ own # {} THEN CHOOSE t \in own : TRUE ELSE RIB_GENERIC
  BY Zenon DEF GetSubtype
<1>2. own # {} => (CHOOSE t \in own : TRUE) \in own
  BY Zenon
<1>3. own \subseteq 2 .. 5
  BY Zenon
<1> HIDE DEF own
<1>4. GetSubtype(r) \in 2 .. 5 \/ GetSubtype(r) = RIB_GENERIC
  BY <1>1, <1>2, <1>3, Zenon
<1> QED BY ONLY <1>4 DEF RIB_GENERIC

\* A RIB record: the AFI and the SAFI of a generic one take three bytes, and Len counts two.
LEMMA WriteRibLen ==
    ASSUME NEW r, r.seq \in Bs(4), r.afi \in Nat, r.safi \in Byte, r.nlri \in Routes,
           r.entries \in Seq(Entries)
    PROVE  /\ RibLen(r) \in Nat /\ WriteRib(r) \in Seq(Byte)
           /\ (\A k \in DOMAIN r.entries : Sound(r.entries[k].attrs))
                  => Len(WriteRib(r)) = RibLen(r) + (IF Generic(r) THEN 1 ELSE 0)
<1> DEFINE family == IF Generic(r) THEN U16(r.afi) \o <<r.safi>> ELSE <<>>
           nFamily == IF Generic(r) THEN 3 ELSE 0
           prefix == WriteNLRI(r.nlri, FALSE)
           nPrefix == NLRILen(r.nlri, FALSE)
           count == U16(Len(r.entries))
           entries == Concat(WriteEntry, r.entries)
           n == Len(entries)
           nEntries == Sum(EntryLen, r.entries)
           Exact == \A k \in DOMAIN r.entries : Sound(r.entries[k].attrs)
<1>1. prefix \in Bs(nPrefix) /\ nPrefix \in Nat
  BY WriteNLRILen, Zenon DEF Bs
<1>2. count \in Bs(2)
  BY ElementsOf, BsBytes
<1>3. entries \in Seq(Byte) /\ nEntries \in Nat /\ (Exact => n = nEntries)
  BY WriteEntriesLen
<1>4. n \in Nat /\ entries \in Bs(n)
  <2> HIDE DEF entries
  <2> QED BY <1>3 DEF Bs
<1>5. family \in Bs(nFamily)
  <2>1. U16(r.afi) \in Bs(2) /\ <<r.safi>> \in Bs(1) /\ <<>> \in Bs(0)
    BY BsBytes
  <2>2. U16(r.afi) \o <<r.safi>> \in Bs(2 + 1)
    BY <2>1, BsAppend
  <2>3. 2 + 1 = 3
    OBVIOUS
  <2> QED BY <2>1, <2>2, <2>3, Zenon
<1>6. WriteRib(r) = family \o r.seq \o prefix \o count \o entries
  BY Zenon DEF WriteRib
<1>7. RibLen(r) = 6 + nPrefix + (IF Generic(r) THEN 2 ELSE 0) + nEntries
  BY Zenon DEF RibLen
<1>8. nFamily \in Nat /\ (Generic(r) => nFamily = 3) /\ (~Generic(r) => nFamily = 0)
  OBVIOUS
<1> HIDE DEF family, nFamily, prefix, nPrefix, count, entries, n, nEntries, Exact
<1>9. family \o r.seq \in Bs(nFamily + 4)
  BY <1>5, <1>8, BsAppend
<1>10. nFamily + 4 \in Nat /\ (nFamily + 4) + nPrefix \in Nat /\ ((nFamily + 4) + nPrefix) + 2 \in Nat
  BY <1>1, <1>8
<1>11. family \o r.seq \o prefix \in Bs((nFamily + 4) + nPrefix)
  BY <1>1, <1>9, <1>10, BsAppend
<1>12. family \o r.seq \o prefix \o count \in Bs(((nFamily + 4) + nPrefix) + 2)
  BY <1>2, <1>10, <1>11, BsAppend
<1>13. family \o r.seq \o prefix \o count \o entries \in Bs((((nFamily + 4) + nPrefix) + 2) + n)
  BY <1>4, <1>10, <1>12, BsAppend
<1>14. WriteRib(r) \in Seq(Byte) /\ Len(WriteRib(r)) = (((nFamily + 4) + nPrefix) + 2) + n
  BY <1>6, <1>13, Zenon DEF Bs
<1>15. RibLen(r) \in Nat
  BY <1>1, <1>3, <1>7
<1>16. Exact => (((nFamily + 4) + nPrefix) + 2) + n = RibLen(r) + (IF Generic(r) THEN 1 ELSE 0)
  <2>1. CASE Generic(r)
    BY ONLY <2>1, <1>1, <1>3, <1>4, <1>7, <1>8
  <2>2. CASE ~Generic(r)
    BY ONLY <2>2, <1>1, <1>3, <1>4, <1>7, <1>8
  <2> QED BY <2>1, <2>2, Zenon
<1> QED BY <1>14, <1>15, <1>16, Zenon DEF Exact

\* What both BGP4MP records begin with.
LEMMA WritePeersLen ==
    ASSUME NEW r, r.peerAS \in Bs(4), r.localAS \in Bs(4), r.iface \in Bs(2),
           r.peerIP \in Addresses, r.localIP \in Addresses, Len(r.localIP) = Len(r.peerIP)
    PROVE  /\ PeersLen(r) \in Nat /\ WritePeers(r) \in Seq(Byte)
           /\ ~Mapped(r.peerIP) => Len(WritePeers(r)) = PeersLen(r)
<1> DEFINE four == IsIPv4(r.peerIP)
           afi == IF four THEN U16(AFI_IPV4) ELSE U16(AFI_IPV6)
           peer == IF four THEN To4(r.peerIP) ELSE r.peerIP
           local == IF four THEN To4(r.localIP) ELSE r.localIP
           size == IF four THEN 4 ELSE 16
           head == r.peerAS \o r.localAS \o r.iface
<1>1. r.peerIP \in Seq(Byte) /\ r.localIP \in Seq(Byte) /\ Len(r.peerIP) \in {4, 16}
  BY DEF Addresses, Bs
<1>2. peer \in Seq(Byte) /\ local \in Seq(Byte)
  BY <1>1, To4Type, Zenon
<1>3. ~Mapped(r.peerIP) => Len(peer) = size /\ Len(local) = size
  <2>1. CASE Len(r.peerIP) = 4
    <3>1. four /\ To4(r.peerIP) = r.peerIP /\ To4(r.localIP) = r.localIP
      BY <1>1, <2>1, To4Type, Zenon DEF IsIPv4
    <3> QED BY <2>1, <3>1, Zenon
  <2>2. CASE Len(r.peerIP) = 16 /\ ~Mapped(r.peerIP)
    <3>1. Len(r.peerIP) # 4
      BY <2>2
    <3>2. ~four
      BY <2>2, <3>1, Zenon DEF IsIPv4
    <3> QED BY <2>2, <3>2, Zenon
  <2> QED BY <1>1, <2>1, <2>2, Zenon
<1>4. afi \in Bs(2)
  <2>1. 1 \in Nat /\ 2 \in Nat
    OBVIOUS
  <2>2. U16(AFI_IPV4) \in Bs(2) /\ U16(AFI_IPV6) \in Bs(2)
    BY <2>1, BsBytes, Zenon DEF AFI_IPV4, AFI_IPV6
  <2> QED BY <2>2, Zenon
<1>5. head \in Bs(10)
  <2>1. r.peerAS \o r.localAS \in Bs(4 + 4)
    BY BsAppend
  <2>2. head \in Bs((4 + 4) + 2)
    BY <2>1, BsAppend
  <2>3. (4 + 4) + 2 = 10
    OBVIOUS
  <2> QED BY <2>2, <2>3, Zenon
<1>6. WritePeers(r) = head \o (afi \o peer \o local)
  BY Zenon DEF WritePeers
<1>7. PeersLen(r) = 12 + 2 * size /\ size \in Nat
  <2>1. PeersLen(r) = 12 + 2 * size
    BY Zenon DEF PeersLen
  <2> HIDE DEF four
  <2> QED BY <2>1
<1> HIDE DEF four, afi, peer, local, size, head
<1>8. /\ head \in Seq(Byte) /\ Len(head) = 10 /\ afi \in Seq(Byte) /\ Len(afi) = 2
  BY <1>4, <1>5, Zenon DEF Bs
<1>9. /\ afi \o peer \in Seq(Byte) /\ Len(afi \o peer) = 2 + Len(peer)
  BY <1>2, <1>8, Appended
<1>10. /\ afi \o peer \o local \in Seq(Byte) /\ Len(afi \o peer \o local) = 2 + Len(peer) + Len(local)
  BY <1>2, <1>9, Appended
<1>11. /\ WritePeers(r) \in Seq(Byte) /\ Len(WritePeers(r)) = 10 + (2 + Len(peer) + Len(local))
  BY <1>6, <1>8, <1>10, Appended
<1>12. PeersLen(r) \in Nat
  BY <1>7
<1>13. Len(peer) = size /\ Len(local) = size => 10 + (2 + Len(peer) + Len(local)) = PeersLen(r)
  BY <1>7
<1> QED BY <1>3, <1>11, <1>12, <1>13, Zenon

\* The records an MRT file can be written from: with its message, and without the flag of the
\* decoder.
MessageResults ==
    {r \in [type : {"MESSAGE"}, time : Bs(4), peerAS : Bs(4), localAS : Bs(4), iface : Bs(2),
            peerIP : Addresses, localIP : Addresses, message : Messages] : Len(r.localIP) = Len(r.peerIP)}
RibResults == [type : {"RIB"}, time : Bs(4), seq : Bs(4), afi : Nat, safi : Byte, asAfiSafi : BOOLEAN,
               nlri : Routes, entries : Seq(Entries)]

\* A header and what follows it.
LEMMA Headed ==
    ASSUME NEW head \in Bs(12), NEW body \in Seq(Byte)
    PROVE  head \o body \in Seq(Byte) /\ Len(head \o body) = 12 + Len(body)
<1>1. head \in Seq(Byte) /\ Len(head) = 12
  BY Zenon DEF Bs
<1> QED BY <1>1, Appended, Zenon

\* Every record but a RIB_GENERIC is as long as Len says, and that one is a byte longer.
LEMMA WriteRecordLen ==
    ASSUME NEW r \in MessageResults \cup StateChanges \cup PeerIndexes \cup RibResults
    PROVE  /\ WriteRecord(r) \in Seq(Byte)
           /\ r.type = "PEER_INDEX" => Len(WriteRecord(r)) = 12 + RecordLen(r)
           /\ r.type = "STATE_CHANGE" /\ ~Mapped(r.peerIP) => Len(WriteRecord(r)) = 12 + RecordLen(r)
           /\ /\ r.type = "MESSAGE" /\ ~Mapped(r.peerIP)
              /\ r.message.type = "UPDATE" => Sound(r.message.attrs)
              => Len(WriteRecord(r)) = 12 + RecordLen(r)
           /\ r.type = "RIB" /\ (\A k \in DOMAIN r.entries : Sound(r.entries[k].attrs))
                  => Len(WriteRecord(r)) = 12 + RecordLen(r) + (IF Generic(r) THEN 1 ELSE 0)
<1> DEFINE Common(type, subtype) == WriteCommonHeader(r.time, type, subtype, RecordLen(r))
<1>0. /\ \A type, subtype \in Nat : r.time \in Bs(4) /\ RecordLen(r) \in Nat => Common(type, subtype) \in Bs(12)
      /\ TYPE_BGP4MP \in Nat /\ TYPE_TABLE_DUMPV2 \in Nat /\ MESSAGE_AS4 \in Nat
      /\ STATE_CHANGE_AS4 \in Nat /\ PEER_INDEX_TABLE \in Nat
  <2>1. /\ TYPE_BGP4MP \in Nat /\ TYPE_TABLE_DUMPV2 \in Nat /\ MESSAGE_AS4 \in Nat
        /\ STATE_CHANGE_AS4 \in Nat /\ PEER_INDEX_TABLE \in Nat
    BY DEF TYPE_BGP4MP, TYPE_TABLE_DUMPV2, MESSAGE_AS4, STATE_CHANGE_AS4, PEER_INDEX_TABLE
  <2> QED BY <2>1, CommonHeaderLen, Zenon
<1>1. CASE r \in MessageResults
  <2>1. /\ r.type = "MESSAGE" /\ r.time \in Bs(4) /\ r.peerAS \in Bs(4) /\ r.localAS \in Bs(4)
        /\ r.iface \in Bs(2) /\ r.peerIP \in Addresses /\ r.localIP \in Addresses
        /\ Len(r.localIP) = Len(r.peerIP) /\ r.message \in Messages
    BY <1>1 DEF MessageResults
  <2> DEFINE peers == WritePeers(r)
             message == WritePacket(r.message)
             n == PeersLen(r)
             k == LenPacket(r.message)
             Exact == r.message.type = "UPDATE" => Sound(r.message.attrs)
  <2>2. n \in Nat /\ peers \in Seq(Byte) /\ (~Mapped(r.peerIP) => Len(peers) = n)
    BY <2>1, WritePeersLen
  <2>3. message \in Seq(Byte) /\ k \in Nat /\ (Exact => Len(message) = k)
    BY <2>1, WritePacketLen, Zenon
  <2>4. RecordLen(r) = n + k
    BY <2>1, Zenon DEF RecordLen
  <2>5. WriteRecord(r) = Common(TYPE_BGP4MP, MESSAGE_AS4) \o peers \o message
    BY <2>1, Zenon DEF WriteRecord
  <2> HIDE DEF peers, message, n, k, Exact, Common
  <2>6. RecordLen(r) \in Nat
    BY <2>2, <2>3, <2>4
  <2> DEFINE head == Common(TYPE_BGP4MP, MESSAGE_AS4)
  <2>7. head \in Bs(12)
    BY <1>0, <2>1, <2>6, Zenon
  <2>8. head \o peers \in Seq(Byte) /\ Len(head \o peers) = 12 + Len(peers)
    BY <2>2, <2>7, Headed
  <2>9. WriteRecord(r) \in Seq(Byte) /\ Len(WriteRecord(r)) = 12 + Len(peers) + Len(message)
    BY <2>3, <2>5, <2>8, Appended, Zenon
  <2>10. Len(peers) = n /\ Len(message) = k => Len(WriteRecord(r)) = 12 + RecordLen(r)
    BY <2>2, <2>3, <2>4, <2>9
  <2> QED BY <2>1, <2>2, <2>3, <2>9, <2>10, Zenon DEF Exact
<1>2. CASE r \in StateChanges
  <2>1. /\ r.type = "STATE_CHANGE" /\ r.time \in Bs(4) /\ r.peerAS \in Bs(4) /\ r.localAS \in Bs(4)
        /\ r.iface \in Bs(2) /\ r.peerIP \in Addresses /\ r.localIP \in Addresses
        /\ Len(r.localIP) = Len(r.peerIP) /\ r.states \in Bs(4)
    BY <1>2 DEF StateChanges
  <2> DEFINE peers == WritePeers(r)
             n == PeersLen(r)
  <2>2. n \in Nat /\ peers \in Seq(Byte) /\ (~Mapped(r.peerIP) => Len(peers) = n)
    BY <2>1, WritePeersLen
  <2>3. r.states \in Seq(Byte) /\ Len(r.states) = 4
    BY <2>1, Zenon DEF Bs
  <2>4. RecordLen(r) = n + 4
    BY <2>1, Zenon DEF RecordLen
  <2>5. WriteRecord(r) = Common(TYPE_BGP4MP, STATE_CHANGE_AS4) \o peers \o r.states
    BY <2>1, Zenon DEF WriteRecord
  <2> HIDE DEF peers, n, Common
  <2>6. RecordLen(r) \in Nat
    BY <2>2, <2>4
  <2> DEFINE head == Common(TYPE_BGP4MP, STATE_CHANGE_AS4)
  <2>7. head \in Bs(12)
    BY <1>0, <2>1, <2>6, Zenon
  <2>8. head \o peers \in Seq(Byte) /\ Len(head \o peers) = 12 + Len(peers)
    BY <2>2, <2>7, Headed
  <2>9. WriteRecord(r) \in Seq(Byte) /\ Len(WriteRecord(r)) = 12 + Len(peers) + Len(r.states)
    BY <2>3, <2>5, <2>8, Appended, Zenon
  <2>10. Len(peers) = n => Len(WriteRecord(r)) = 12 + RecordLen(r)
    BY <2>2, <2>3, <2>4, <2>9
  <2> QED BY <2>1, <2>2, <2>9, <2>10, Zenon
<1>3. CASE r \in PeerIndexes
  <2>1. r.type = "PEER_INDEX" /\ r.time \in Bs(4)
    BY <1>3 DEF PeerIndexes
  <2> DEFINE index == WritePeerIndex(r)
             n == PeerIndexLen(r)
  <2>2. n \in Nat /\ index \in Bs(n)
    BY <1>3, WritePeerIndexLen
  <2>3. RecordLen(r) = n /\ WriteRecord(r) = Common(TYPE_TABLE_DUMPV2, PEER_INDEX_TABLE) \o index
    BY <2>1, Zenon DEF RecordLen, WriteRecord
  <2> HIDE DEF index, n, Common
  <2>4. Common(TYPE_TABLE_DUMPV2, PEER_INDEX_TABLE) \in Bs(12) /\ index \in Seq(Byte) /\ Len(index) = n
    BY <1>0, <2>1, <2>2, <2>3, Zenon DEF Bs
  <2> QED BY <2>1, <2>3, <2>4, Headed, Zenon
<1>4. CASE r \in RibResults
  <2>1. /\ r.type = "RIB" /\ r.time \in Bs(4) /\ r.seq \in Bs(4) /\ r.afi \in Nat /\ r.safi \in Byte
        /\ r.nlri \in Routes /\ r.entries \in Seq(Entries)
    BY <1>4 DEF RibResults
  <2> DEFINE rib == WriteRib(r)
             n == RibLen(r)
             extra == IF Generic(r) THEN 1 ELSE 0
             Exact == \A k \in DOMAIN r.entries : Sound(r.entries[k].attrs)
  <2>2. n \in Nat /\ rib \in Seq(Byte) /\ (Exact => Len(rib) = n + extra)
    BY <2>1, WriteRibLen
  <2>3. RecordLen(r) = n /\ WriteRecord(r) = Common(TYPE_TABLE_DUMPV2, GetSubtype(r)) \o rib
    BY <2>1, Zenon DEF RecordLen, WriteRecord
  <2>4. extra \in Nat
    OBVIOUS
  <2> HIDE DEF rib, n, extra, Exact, Common
  <2>5. Common(TYPE_TABLE_DUMPV2, GetSubtype(r)) \in Bs(12)
    BY <1>0, <2>1, <2>2, <2>3, SubtypeType, Zenon
  <2>6. WriteRecord(r) \in Seq(Byte) /\ Len(WriteRecord(r)) = 12 + Len(rib)
    BY <2>2, <2>3, <2>5, Headed, Zenon
  <2>7. Exact => Len(WriteRecord(r)) = 12 + RecordLen(r) + extra
    BY <2>2, <2>3, <2>4, <2>6
  <2> QED BY <2>1, <2>6, <2>7, Zenon DEF Exact, extra
<1> QED BY <1>1, <1>2, <1>3, <1>4, Zenon

\* The UPDATE made of an entry of a RIB record.
LEMMA ConversionType ==
    ASSUME NEW r, r.nlri \in Routes, r.entries \in Seq(Entries), NEW k \in DOMAIN r.entries
    PROVE  ConvertToUpdateIndex(r, k) \in Conversions
<1> DEFINE attrs == r.entries[k].attrs
           reach == [code |-> REACH, pointer |-> TRUE, afi |-> 0, safi |-> 0, nextHop |-> <<>>,
                     nlri |-> <<r.nlri>>, addPath |-> FALSE]
           routes == IF GetAfi(r.nlri) = AFI_IPV4 THEN <<r.nlri>> ELSE <<>>
           Both == Attributes \cup Pointers
<1>1. attrs \in Seq(Attributes)
  <2>1. r.entries[k] \in Entries
    BY ElementsOf
  <2> QED BY <2>1 DEF Entries
<1>2. <<r.nlri>> \in Seq(Routes) /\ <<>> \in Seq(Routes) /\ <<>> \in Seq(Byte) /\ 0 \in Byte
  BY DEF Byte
<1>3. reach \in Pointers
  BY <1>2 DEF Pointers
<1>4. attrs \in Seq(Both) /\ reach \in Both
  <2>1. Attributes \subseteq Both /\ Pointers \subseteq Both
    OBVIOUS
  <2> HIDE DEF Both, attrs, reach
  <2> QED BY <1>1, <1>3, <2>1
<1>5. routes \in Seq(Routes)
  BY <1>2, Zenon
<1>6. \E s \in Seq(Both) : ConvertToUpdateIndex(r, k) =
        [type |-> "UPDATE", withdrawn |-> <<>>, addPath |-> FALSE, nlri |-> routes, attrs |-> s]
  <2>1. ConvertToUpdateIndex(r, k).attrs \in {Append(attrs, reach), attrs}
    BY Zenon DEF ConvertToUpdateIndex
  <2>2. ConvertToUpdateIndex(r, k) = [type |-> "UPDATE", withdrawn |-> <<>>, addPath |-> FALSE, nlri |-> routes,
                                      attrs |-> ConvertToUpdateIndex(r, k).attrs]
    BY Zenon DEF ConvertToUpdateIndex
  <2>3. Append(attrs, reach) \in Seq(Both)
    <3> HIDE DEF attrs, reach, Both
    <3> QED BY <1>4
  <2> QED BY <1>4, <2>1, <2>2, <2>3, Zenon
<1> HIDE DEF routes, reach, attrs
<1> QED BY <1>2, <1>5, <1>6 DEF Conversions
=============================================================================
