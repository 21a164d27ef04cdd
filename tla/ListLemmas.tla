----------------------------- MODULE ListLemmas -----------------------------
(***************************************************************************)
(* Induction, and what it shows of the operators on sequences that the     *)
(* models take from the community modules.  The induction theorems of the  *)
(* library range over predicates, which no prover here can instantiate;    *)
(* these range over sets.                                                  *)
(***************************************************************************)
EXTENDS Integers, SequencesExt, SequenceTheorems, FiniteSetTheorems,
        WellFoundedInduction, TLAPS

\* A set of natural numbers has a least one.
LEMMA LeastNumber ==
  ASSUME NEW S \in SUBSET Nat, S # {}
  PROVE  \E x \in S : \A y \in S : x <= y
<1>1. IsWellFoundedOn(OpToRel(<, Nat), Nat)
  BY NatLessThanWellFounded, Zenon
<1>2. PICK x \in S : \A y \in S : ~(<<y, x>> \in OpToRel(<, Nat))
  BY <1>1, WFMin, Zenon
<1>3. \A y \in S : ~(y < x)
  <2>1. \A y \in S : <<y, x>> \in Nat \X Nat /\ <<y, x>>[1] = y /\ <<y, x>>[2] = x
    OBVIOUS
  <2>2. QED BY <1>2, <2>1 DEF OpToRel
<1>4. QED BY <1>3

\* A set that has 0, and with a number the next one, has all natural numbers.
LEMMA Induction ==
  ASSUME NEW S, 0 \in S, \A n \in Nat : n \in S => n + 1 \in S
  PROVE  \A n \in Nat : n \in S
<1> SUFFICES ASSUME NEW n \in Nat, n \notin S PROVE FALSE
  OBVIOUS
<1>1. PICK x \in Nat \ S : \A y \in Nat \ S : x <= y
  BY LeastNumber
<1>2. x # 0
  BY <1>1
<1>3. x - 1 \in Nat /\ (x - 1) + 1 = x /\ ~(x <= x - 1)
  BY <1>1, <1>2
<1>4. x - 1 \in S
  BY <1>1, <1>3
<1> QED BY <1>1, <1>3, <1>4

\* A function on the numbers from 1 to n is a sequence.
LEMMA FunctionIsSeq ==
  ASSUME NEW X, NEW n \in Nat, NEW f \in [1..n -> X]
  PROVE  f \in Seq(X) /\ Len(f) = n /\ DOMAIN f = 1..n
  OBVIOUS

\* The numbers from 1 to n are n.
LEMMA CardinalityUpTo ==
  ASSUME NEW n \in Nat
  PROVE  IsFiniteSet(1..n) /\ Cardinality(1..n) = n
<1>1. 1 \in Int /\ n \in Int /\ (IF 1 > n THEN 0 ELSE n - 1 + 1) = n
  OBVIOUS
<1> QED BY <1>1, FS_Interval

-----------------------------------------------------------------------------
\* The sequences that FlattenSeq goes through
IsFlattening(f, seqs) ==
  f = [i \in 1..Len(seqs) |-> IF i = 1 THEN seqs[i] ELSE f[i - 1] \o seqs[i]]

\* A prefix of such sequences, up to the n-th, and no other
Flattened(n, X, seqs) ==
  \E f \in [1..n -> Seq(X)] :
    \A i \in 1..n : f[i] = IF i = 1 THEN seqs[i] ELSE f[i - 1] \o seqs[i]

\* The sequences that FlattenSeq goes through exist.
LEMMA FlattenedExists ==
  ASSUME NEW X, NEW seqs \in Seq(Seq(X))
  PROVE  Flattened(Len(seqs), X, seqs)
<1> DEFINE S == {n \in Nat : n <= Len(seqs) => Flattened(n, X, seqs)}
<1>1. 0 \in S
  <2>1. [i \in 1..0 |-> seqs] \in [1..0 -> Seq(X)]
    OBVIOUS
  <2>2. \A i \in 1..0 : FALSE
    OBVIOUS
  <2>3. Flattened(0, X, seqs)
    BY <2>1, <2>2 DEF Flattened
  <2> QED BY <2>3
<1>2. ASSUME NEW n \in Nat, n \in S PROVE n + 1 \in S
  <2>1. SUFFICES ASSUME n + 1 <= Len(seqs) PROVE Flattened(n + 1, X, seqs)
    OBVIOUS
  <2>2. n <= Len(seqs) /\ Len(seqs) \in Nat
    BY <2>1
  <2>3. PICK f \in [1..n -> Seq(X)] :
          \A i \in 1..n : f[i] = IF i = 1 THEN seqs[i] ELSE f[i - 1] \o seqs[i]
    BY <1>2, <2>2 DEF Flattened
  <2> DEFINE next == IF n = 0 THEN seqs[1] ELSE f[n] \o seqs[n + 1]
             g == [i \in 1..n + 1 |-> IF i = n + 1 THEN next ELSE f[i]]
  <2>4. next \in Seq(X)
    <3>1. seqs[n + 1] \in Seq(X)
      BY <2>1, <2>2
    <3>2. CASE n = 0
      BY <3>1, <3>2
    <3>3. CASE n # 0
      <4>1. f[n] \in Seq(X)
        BY <3>3
      <4> QED BY <3>1, <3>3, <4>1, ConcatProperties
    <3> QED BY <3>2, <3>3
  <2> HIDE DEF next
  <2>5. g \in [1..n + 1 -> Seq(X)]
    BY <2>4
  <2>6. ASSUME NEW i \in 1..n + 1
        PROVE  g[i] = IF i = 1 THEN seqs[i] ELSE g[i - 1] \o seqs[i]
    <3>1. CASE i # n + 1
      <4>1. i \in 1..n /\ g[i] = f[i]
        BY <3>1
      <4>2. i # 1 => i - 1 \in 1..n + 1 /\ i - 1 # n + 1 /\ g[i - 1] = f[i - 1]
        BY <4>1
      <4> HIDE DEF g
      <4> QED BY <2>3, <4>1, <4>2
    <3>2. CASE i = n + 1
      <4>1. g[i] = next
        BY <3>2
      <4>2. i # 1 => n \in 1..n + 1 /\ n # n + 1 /\ g[n] = f[n]
        BY <3>2
      <4> HIDE DEF g
      <4> QED BY <3>2, <4>1, <4>2 DEF next
    <3> QED BY <3>1, <3>2
  <2> HIDE DEF g
  <2> QED BY <2>5, <2>6 DEF Flattened
<1> HIDE DEF S
<1>3. \A n \in Nat : n \in S
  BY <1>1, <1>2, Induction
<1> QED BY <1>3, LenProperties DEF S

\* FlattenSeq is the last of them.
LEMMA FlattenSeqIs ==
  ASSUME NEW X, NEW seqs \in Seq(Seq(X)), seqs # <<>>
  PROVE  \E f \in [1..Len(seqs) -> Seq(X)] :
           /\ \A i \in 1..Len(seqs) : f[i] = IF i = 1 THEN seqs[i] ELSE f[i - 1] \o seqs[i]
           /\ FlattenSeq(seqs) = f[Len(seqs)]
<1>1. PICK g \in [1..Len(seqs) -> Seq(X)] :
        \A i \in 1..Len(seqs) : g[i] = IF i = 1 THEN seqs[i] ELSE g[i - 1] \o seqs[i]
  BY FlattenedExists DEF Flattened
<1>2. g = [i \in 1..Len(seqs) |-> IF i = 1 THEN seqs[i] ELSE g[i - 1] \o seqs[i]]
  BY <1>1
<1> DEFINE h == CHOOSE f : IsFlattening(f, seqs)
<1>3. IsFlattening(h, seqs)
  BY <1>2, Zenon DEF IsFlattening
<1>4. Len(seqs) # 0
  BY EmptySeq
<1>5. FlattenSeq(seqs) = h[Len(seqs)]
  BY <1>4 DEF FlattenSeq, IsFlattening
<1> HIDE DEF h
\* There is only one.
<1>6. h = g
  <2> DEFINE S == {n \in Nat : n \in 1..Len(seqs) => h[n] = g[n]}
  <2>1. 0 \in S
    OBVIOUS
  <2>2. \A i \in 1..Len(seqs) : h[i] = IF i = 1 THEN seqs[i] ELSE h[i - 1] \o seqs[i]
    BY <1>3 DEF IsFlattening
  <2>3. ASSUME NEW n \in Nat, n \in S PROVE n + 1 \in S
    <3>1. SUFFICES ASSUME n + 1 \in 1..Len(seqs) PROVE h[n + 1] = g[n + 1]
      OBVIOUS
    <3>2. CASE n = 0
      <4>1. n + 1 = 1 /\ 1 \in 1..Len(seqs)
        BY <3>1, <3>2
      <4>2. h[1] = seqs[1] /\ g[1] = seqs[1]
        BY <1>1, <2>2, <4>1
      <4> QED BY <4>1, <4>2
    <3>3. CASE n # 0
      <4>1. n \in 1..Len(seqs) /\ (n + 1) - 1 = n /\ n + 1 # 1
        BY <3>1, <3>3
      <4>2. h[n + 1] = h[n] \o seqs[n + 1]
        BY <2>2, <3>1, <4>1
      <4>3. g[n + 1] = g[n] \o seqs[n + 1]
        BY <1>1, <3>1, <4>1
      <4> QED BY <2>3, <4>1, <4>2, <4>3
    <3> QED BY <3>2, <3>3
  <2> HIDE DEF S
  <2>4. \A n \in Nat : n \in S
    BY <2>1, <2>3, Induction
  <2>5. \A n \in 1..Len(seqs) : h[n] = g[n]
    BY <2>4 DEF S
  <2>6. h = [i \in 1..Len(seqs) |-> IF i = 1 THEN seqs[i] ELSE h[i - 1] \o seqs[i]]
    BY <1>3 DEF IsFlattening
  <2>7. DOMAIN h = 1..Len(seqs) /\ h = [i \in DOMAIN h |-> h[i]]
    <3>1. \E e : /\ h = e
                 /\ e = [i \in 1..Len(seqs) |-> IF i = 1 THEN seqs[i] ELSE h[i - 1] \o seqs[i]]
      BY <2>6
    <3> QED BY <3>1, Zenon
  <2> QED BY <2>5, <2>7
<1> QED BY <1>1, <1>5, <1>6

\* Flattening sequences gives a sequence of the same elements.
LEMMA FlattenType ==
  ASSUME NEW X, NEW seqs \in Seq(Seq(X))
  PROVE  FlattenSeq(seqs) \in Seq(X)
<1>1. CASE seqs = <<>>
  <2>1. FlattenSeq(seqs) = seqs
    BY <1>1, EmptySeq DEF FlattenSeq
  <2> QED BY <1>1, <2>1, EmptySeq
<1>2. CASE seqs # <<>>
  <2>1. Len(seqs) \in 1..Len(seqs)
    BY <1>2, EmptySeq
  <2> QED BY <1>2, <2>1, FlattenSeqIs
<1> QED BY <1>1, <1>2

\* If only one of the sequences has any elements, flattening leaves that one.
LEMMA FlattenOne ==
  ASSUME NEW X, NEW seqs \in Seq(Seq(X)), NEW j \in DOMAIN seqs,
         \A i \in DOMAIN seqs \ {j} : seqs[i] = <<>>
  PROVE  FlattenSeq(seqs) = seqs[j]
<1>1. /\ DOMAIN seqs = 1..Len(seqs) /\ Len(seqs) \in Nat /\ j \in 1..Len(seqs)
      /\ seqs[j] \in Seq(X)
  OBVIOUS
<1>2. seqs # <<>>
  BY <1>1
<1>3. PICK f \in [1..Len(seqs) -> Seq(X)] :
        /\ \A i \in 1..Len(seqs) : f[i] = IF i = 1 THEN seqs[i] ELSE f[i - 1] \o seqs[i]
        /\ FlattenSeq(seqs) = f[Len(seqs)]
  BY <1>2, FlattenSeqIs
<1> DEFINE S == {n \in Nat : n \in 1..Len(seqs) => f[n] = IF n < j THEN <<>> ELSE seqs[j]}
<1>4. 0 \in S
  OBVIOUS
<1>5. ASSUME NEW n \in Nat, n \in S PROVE n + 1 \in S
  <2>1. SUFFICES ASSUME n + 1 \in 1..Len(seqs)
                 PROVE  f[n + 1] = IF n + 1 < j THEN <<>> ELSE seqs[j]
    OBVIOUS
  <2>2. CASE n = 0
    <3>1. n + 1 = 1 /\ 1 \in 1..Len(seqs)
      BY <2>1, <2>2
    <3>2. f[1] = seqs[1]
      BY <1>3, <3>1
    <3>3. 1 < j => seqs[1] = <<>>
      <4>1. 1 < j => 1 \in DOMAIN seqs \ {j}
        BY <1>1, <3>1
      <4> QED BY <4>1
    <3>4. ~(1 < j) => j = 1
      BY <1>1
    <3> QED BY <3>1, <3>2, <3>3, <3>4
  <2>3. CASE n # 0
    <3>1. n \in 1..Len(seqs) /\ (n + 1) - 1 = n /\ n + 1 # 1
      BY <1>1, <2>1, <2>3
    <3>2. f[n + 1] = f[n] \o seqs[n + 1]
      BY <1>3, <2>1, <3>1
    <3>3. f[n] = IF n < j THEN <<>> ELSE seqs[j]
      BY <1>5, <3>1
    <3>4. CASE n + 1 = j
      <4>1. f[n] = <<>>
        BY <3>3, <3>4
      <4> QED BY <1>1, <3>2, <3>4, <4>1, ConcatEmptySeq
    <3>5. CASE n + 1 # j
      <4>1. seqs[n + 1] = <<>>
        BY <1>1, <2>1, <3>5
      <4>2. f[n + 1] = f[n]
        BY <3>1, <3>2, <4>1, ConcatEmptySeq
      <4> QED BY <1>1, <3>3, <3>5, <4>2
    <3> QED BY <3>4, <3>5
  <2> QED BY <2>2, <2>3
<1> HIDE DEF S
<1>6. \A n \in Nat : n \in S
  BY <1>4, <1>5, Induction
<1>7. Len(seqs) \in 1..Len(seqs) /\ ~(Len(seqs) < j)
  BY <1>1
<1> QED BY <1>1, <1>3, <1>6, <1>7 DEF S

\* A prefix of the sequences flattens to a prefix of the whole.
LEMMA FlattenPrefixes ==
  ASSUME NEW X, NEW seqs \in Seq(Seq(X))
  PROVE  /\ \A k \in 0..Len(seqs) : FlattenSeq(SubSeq(seqs, 1, k)) \in Seq(X)
         /\ FlattenSeq(SubSeq(seqs, 1, 0)) = <<>>
         /\ \A k \in 1..Len(seqs) :
              FlattenSeq(SubSeq(seqs, 1, k)) = FlattenSeq(SubSeq(seqs, 1, k - 1)) \o seqs[k]
         /\ SubSeq(seqs, 1, Len(seqs)) = seqs
<1> DEFINE pre(k) == SubSeq(seqs, 1, k)
<1>1. Len(seqs) \in Nat /\ DOMAIN seqs = 1..Len(seqs)
  OBVIOUS
<1>2. \A k \in 0..Len(seqs) :
        /\ pre(k) \in Seq(Seq(X)) /\ Len(pre(k)) = k
        /\ \A i \in 1..k : pre(k)[i] = seqs[i]
  BY <1>1
<1>3. pre(Len(seqs)) = seqs
  BY <1>1
<1>4. pre(0) = <<>>
  BY <1>1
<1> HIDE DEF pre
<1>5. \A k \in 0..Len(seqs) : FlattenSeq(pre(k)) \in Seq(X)
  BY <1>2, FlattenType
<1>6. FlattenSeq(pre(0)) = <<>>
  BY <1>4, EmptySeq DEF FlattenSeq
<1>7. ASSUME NEW k \in 1..Len(seqs)
      PROVE  FlattenSeq(pre(k)) = FlattenSeq(pre(k - 1)) \o seqs[k]
  <2>1. k \in Nat /\ k \in 0..Len(seqs) /\ k - 1 \in 0..Len(seqs) /\ seqs[k] \in Seq(X)
    BY <1>1
  <2>2. pre(k) # <<>>
    BY <1>2, <2>1
  <2>3. PICK f \in [1..k -> Seq(X)] :
          /\ \A i \in 1..k : f[i] = IF i = 1 THEN pre(k)[i] ELSE f[i - 1] \o pre(k)[i]
          /\ FlattenSeq(pre(k)) = f[k]
    <3>1. pre(k) \in Seq(Seq(X)) /\ Len(pre(k)) = k
      BY <1>2, <2>1
    <3>2. \E f \in [1..Len(pre(k)) -> Seq(X)] :
            /\ \A i \in 1..Len(pre(k)) :
                 f[i] = IF i = 1 THEN pre(k)[i] ELSE f[i - 1] \o pre(k)[i]
            /\ FlattenSeq(pre(k)) = f[Len(pre(k))]
      BY <2>2, <3>1, FlattenSeqIs, Zenon
    <3> QED BY <3>1, <3>2
  <2>4. CASE k = 1
    <3>1. f[1] = seqs[1] /\ k - 1 = 0
      BY <1>2, <2>1, <2>3, <2>4
    <3> QED BY <1>6, <2>1, <2>3, <2>4, <3>1, ConcatEmptySeq
  <2>5. CASE k # 1
    <3> DEFINE m == k - 1
    <3>1. m \in 1..k /\ m \in Nat /\ m \in 0..Len(seqs) /\ m + 1 = k
      BY <2>1, <2>5
    <3>2. pre(m) # <<>>
      BY <1>2, <3>1
    <3>3. PICK g \in [1..m -> Seq(X)] :
            /\ \A i \in 1..m : g[i] = IF i = 1 THEN pre(m)[i] ELSE g[i - 1] \o pre(m)[i]
            /\ FlattenSeq(pre(m)) = g[m]
      <4>1. pre(m) \in Seq(Seq(X)) /\ Len(pre(m)) = m
        BY <1>2, <3>1
      <4>2. \E g \in [1..Len(pre(m)) -> Seq(X)] :
              /\ \A i \in 1..Len(pre(m)) :
                   g[i] = IF i = 1 THEN pre(m)[i] ELSE g[i - 1] \o pre(m)[i]
              /\ FlattenSeq(pre(m)) = g[Len(pre(m))]
        BY <3>2, <4>1, FlattenSeqIs, Zenon
      <4> QED BY <4>1, <4>2
    <3> DEFINE S == {n \in Nat : n \in 1..m => f[n] = g[n]}
    <3>4. 0 \in S
      OBVIOUS
    <3>5. ASSUME NEW n \in Nat, n \in S PROVE n + 1 \in S
      <4> SUFFICES ASSUME n + 1 \in 1..m PROVE f[n + 1] = g[n + 1]
        OBVIOUS
      <4>1. n + 1 \in 1..k /\ (n + 1) - 1 = n
        BY <3>1
      <4>2. pre(k)[n + 1] = seqs[n + 1] /\ pre(m)[n + 1] = seqs[n + 1]
        BY <1>2, <2>1, <3>1, <4>1
      <4>3. CASE n = 0
        <5>1. n + 1 = 1 /\ 1 \in 1..m /\ 1 \in 1..k
          BY <4>1, <4>3
        <5>2. f[1] = pre(k)[1] /\ g[1] = pre(m)[1]
          BY <2>3, <3>3, <5>1
        <5> QED BY <4>2, <5>1, <5>2
      <4>4. CASE n # 0
        <5>1. n \in 1..m /\ n + 1 # 1
          BY <4>4, <3>1
        <5>2. f[n] = g[n]
          BY <3>5, <5>1
        <5>3. f[n + 1] = f[n] \o pre(k)[n + 1]
          BY <2>3, <4>1, <5>1
        <5>4. g[n + 1] = g[n] \o pre(m)[n + 1]
          BY <3>3, <4>1, <5>1
        <5> QED BY <4>2, <5>2, <5>3, <5>4
      <4> QED BY <4>3, <4>4
    <3> HIDE DEF S
    <3>6. \A n \in Nat : n \in S
      BY <3>4, <3>5, Induction
    <3>7. f[m] = g[m]
      <4>1. m \in 1..m
        BY <3>1, <2>5
      <4> QED BY <3>1, <3>6, <4>1 DEF S
    <3>8. f[k] = f[m] \o seqs[k]
      <4>1. k \in 1..k /\ pre(k)[k] = seqs[k]
        BY <1>2, <2>1
      <4> QED BY <2>3, <2>5, <4>1
    <3> QED BY <2>3, <3>3, <3>7, <3>8
  <2> QED BY <2>4, <2>5
<1> QED BY <1>3, <1>5, <1>6, <1>7 DEF pre

\* Each of the sequences is in the whole, behind those that come before it.
LEMMA FlattenPlaces ==
  ASSUME NEW X, NEW seqs \in Seq(Seq(X)), NEW k \in 1..Len(seqs)
  PROVE  LET before == Len(FlattenSeq(SubSeq(seqs, 1, k - 1)))
             whole == FlattenSeq(seqs)
         IN  /\ before \in Nat /\ Len(FlattenSeq(SubSeq(seqs, 1, k))) = before + Len(seqs[k])
             /\ before + Len(seqs[k]) <= Len(whole)
             /\ \A i \in 1..Len(seqs[k]) : whole[before + i] = seqs[k][i]
<1> DEFINE flat(n) == FlattenSeq(SubSeq(seqs, 1, n))
<1>1. /\ \A n \in 0..Len(seqs) : flat(n) \in Seq(X)
      /\ \A n \in 1..Len(seqs) : flat(n) = flat(n - 1) \o seqs[n]
      /\ flat(Len(seqs)) = FlattenSeq(seqs)
  BY FlattenPrefixes
<1> HIDE DEF flat
<1>2. Len(seqs) \in Nat /\ \A n \in 1..Len(seqs) : seqs[n] \in Seq(X) /\ n - 1 \in 0..Len(seqs)
  OBVIOUS
<1> DEFINE b == Len(flat(k - 1))  e == Len(flat(k))
<1>3. /\ b \in Nat /\ e = b + Len(seqs[k])
      /\ \A i \in 1..Len(seqs[k]) : flat(k)[b + i] = seqs[k][i]
  <2>1. flat(k - 1) \in Seq(X) /\ seqs[k] \in Seq(X) /\ flat(k) = flat(k - 1) \o seqs[k]
    BY <1>1, <1>2
  <2>2. Len(flat(k)) = Len(flat(k - 1)) + Len(seqs[k])
    BY <2>1, ConcatProperties
  <2>3. ASSUME NEW i \in 1..Len(seqs[k]) PROVE flat(k)[b + i] = seqs[k][i]
    <3>1. b \in Nat /\ b + i \in 1..(b + Len(seqs[k])) /\ ~(b + i <= b) /\ (b + i) - b = i
      BY <2>1
    <3> QED BY <2>1, <3>1, ConcatProperties
  <2> QED BY <2>1, <2>2, <2>3
<1> DEFINE S == {n \in Nat : k <= n /\ n <= Len(seqs) =>
                   e <= Len(flat(n)) /\ \A i \in 1..e : flat(n)[i] = flat(k)[i]}
<1>4. 0 \in S
  OBVIOUS
<1>5. ASSUME NEW n \in Nat, n \in S PROVE n + 1 \in S
  <2> SUFFICES ASSUME k <= n + 1, n + 1 <= Len(seqs)
               PROVE  e <= Len(flat(n + 1)) /\ \A i \in 1..e : flat(n + 1)[i] = flat(k)[i]
    OBVIOUS
  <2>1. CASE n + 1 = k
    <3>1. flat(n + 1) = flat(k) /\ Len(flat(k)) \in Nat
      <4>1. flat(k) \in Seq(X)
        BY <1>1, <1>2
      <4>2. flat(n + 1) = flat(k)
        BY <2>1, Zenon
      <4>3. Len(flat(k)) \in Nat
        BY <4>1, LenProperties
      <4> QED BY <4>2, <4>3, Zenon
    <3> QED BY <3>1
  <2>2. CASE n + 1 # k
    <3>1. k <= n /\ n <= Len(seqs) /\ n \in 0..Len(seqs) /\ n + 1 \in 1..Len(seqs)
          /\ (n + 1) - 1 = n
      BY <1>2, <2>2
    <3>2. e <= Len(flat(n)) /\ \A i \in 1..e : flat(n)[i] = flat(k)[i]
      BY <1>5, <3>1
    <3>3. flat(n) \in Seq(X) /\ seqs[n + 1] \in Seq(X) /\ flat(n + 1) = flat(n) \o seqs[n + 1]
      BY <1>1, <1>2, <3>1
    <3> HIDE DEF e, b
    <3>4. /\ Len(flat(n + 1)) = Len(flat(n)) + Len(seqs[n + 1])
          /\ \A i \in 1..Len(flat(n)) : flat(n + 1)[i] = flat(n)[i]
      <4>1. /\ Len(flat(n + 1)) = Len(flat(n)) + Len(seqs[n + 1])
            /\ Len(flat(n)) \in Nat /\ Len(seqs[n + 1]) \in Nat
        BY <3>3, ConcatProperties
      <4>2. ASSUME NEW i \in 1..Len(flat(n)) PROVE flat(n + 1)[i] = flat(n)[i]
        <5>1. i \in 1..(Len(flat(n)) + Len(seqs[n + 1])) /\ i <= Len(flat(n))
          BY <4>1
        <5> QED BY <3>3, <5>1, ConcatProperties
      <4> QED BY <4>1, <4>2
    <3>5. e \in Nat /\ Len(flat(n)) \in Nat /\ Len(seqs[n + 1]) \in Nat
      <4>1. flat(k) \in Seq(X)
        BY <1>1, <1>2
      <4> QED BY <3>2, <3>3, <4>1 DEF e
    <3> QED BY <3>2, <3>4, <3>5
  <2> QED BY <2>1, <2>2
<1> HIDE DEF S
<1>6. \A n \in Nat : n \in S
  BY <1>4, <1>5, Induction
<1>7. e <= Len(FlattenSeq(seqs)) /\ \A i \in 1..e : FlattenSeq(seqs)[i] = flat(k)[i]
  <2>1. k <= Len(seqs) /\ Len(seqs) <= Len(seqs)
    BY <1>2
  <2> QED BY <1>1, <1>2, <1>6, <2>1 DEF S
<1>8. \A i \in 1..Len(seqs[k]) : b + i \in 1..e
  <2>1. Len(seqs[k]) \in Nat
    BY <1>2
  <2> HIDE DEF b, e
  <2> QED BY <1>3, <2>1
<1>9. \A i \in 1..Len(seqs[k]) : FlattenSeq(seqs)[b + i] = seqs[k][i]
  <2> HIDE DEF b, e
  <2> QED BY <1>3, <1>7, <1>8
<1> QED BY <1>3, <1>7, <1>9 DEF flat

-----------------------------------------------------------------------------
\* The value of f at a number, up to n, is made from that at a lesser one.
Follows(f, n, B, base, step, back) ==
  \A i \in 0..n : f[i] = IF i \in B THEN base[i] ELSE step[i][f[back[i]]]

\* A function that is defined by recursion exists up to any number ...
LEMMA RecursionUpTo ==
  ASSUME NEW S, NEW B \in SUBSET Nat, NEW base \in [Nat -> S], NEW step \in [Nat -> [S -> S]],
         NEW back \in [Nat -> Nat], \A n \in Nat \ B : back[n] < n
  PROVE  \A n \in Nat : \E f \in [0..n -> S] : Follows(f, n, B, base, step, back)
<1> DEFINE T == {n \in Nat : \E f \in [0..n -> S] : Follows(f, n, B, base, step, back)}
<1>1. 0 \in T
  <2> DEFINE f == [i \in 0..0 |-> base[0]]
  <2>1. 0 \in B
    BY SMT
  <2>2. f \in [0..0 -> S] /\ \A i \in 0..0 : i = 0 /\ f[i] = base[i]
    OBVIOUS
  <2> HIDE DEF f
  <2>3. Follows(f, 0, B, base, step, back)
    BY <2>1, <2>2 DEF Follows
  <2> QED BY <2>2, <2>3
<1>2. ASSUME NEW n \in Nat, n \in T PROVE n + 1 \in T
  <2>1. PICK f \in [0..n -> S] : Follows(f, n, B, base, step, back)
    BY <1>2
  <2> DEFINE m == n + 1
             next == IF m \in B THEN base[m] ELSE step[m][f[back[m]]]
             g == [i \in 0..m |-> IF i = m THEN next ELSE f[i]]
  <2>2. /\ m \in Nat
        /\ \A i \in 0..m : i \notin B => back[i] \in 0..n /\ back[i] \in 0..m /\ back[i] # m
    OBVIOUS
  <2>3. next \in S
    <3>1. CASE m \in B
      BY <3>1
    <3>2. CASE m \notin B
      <4>1. back[m] \in 0..n
        BY <2>2, <3>2
      <4>2. f[back[m]] \in S /\ step[m] \in [S -> S]
        BY <4>1
      <4> QED BY <3>2, <4>2
    <3> QED BY <3>1, <3>2
  <2>4. /\ g \in [0..m -> S] /\ g[m] = next
        /\ \A i \in 0..n : g[i] = f[i]
    <3> HIDE DEF next
    <3> QED BY <2>3
  <2> HIDE DEF g
  <2>5. ASSUME NEW i \in 0..m
        PROVE  g[i] = IF i \in B THEN base[i] ELSE step[i][g[back[i]]]
    <3>1. i \notin B => g[back[i]] = f[back[i]]
      BY <2>2, <2>4
    <3>2. CASE i = m
      BY <2>4, <3>1, <3>2
    <3>3. CASE i # m
      <4>1. i \in 0..n
        BY <3>3
      <4> QED BY <2>1, <2>4, <3>1, <4>1 DEF Follows
    <3> QED BY <3>2, <3>3
  <2>6. Follows(g, m, B, base, step, back)
    BY <2>5 DEF Follows
  <2> HIDE DEF next
  <2> QED BY <2>2, <2>4, <2>6
<1> HIDE DEF T
<1>3. \A n \in Nat : n \in T
  BY <1>1, <1>2, Induction
<1> QED BY <1>3 DEF T

\* Such a function of all natural numbers
IsRecursive(f, B, base, step, back) ==
  \A n \in Nat : f[n] = IF n \in B THEN base[n] ELSE step[n][f[back[n]]]

\* ... and therefore for all of them: what a recursive definition defines obeys it.
LEMMA Recursion ==
  ASSUME NEW S, NEW B \in SUBSET Nat, NEW base \in [Nat -> S], NEW step \in [Nat -> [S -> S]],
         NEW back \in [Nat -> Nat], \A n \in Nat \ B : back[n] < n
  PROVE  \E f \in [Nat -> S] : IsRecursive(f, B, base, step, back)
<1> DEFINE p == [n \in Nat |-> CHOOSE f \in [0..n -> S] : Follows(f, n, B, base, step, back)]
           r == [n \in Nat |-> p[n][n]]
<1>1. \A n \in Nat : p[n] \in [0..n -> S] /\ Follows(p[n], n, B, base, step, back)
  BY RecursionUpTo
<1>2. r \in [Nat -> S] /\ \A n \in Nat : r[n] = p[n][n]
  <2>1. \A n \in Nat : n \in 0..n
    OBVIOUS
  <2> HIDE DEF p
  <2> QED BY <1>1, <2>1
<1> HIDE DEF p, r
<1> DEFINE T == {n \in Nat : \A i \in 0..n : \A m \in Nat : i <= m => p[m][i] = r[i]}
<1>3. \A m \in Nat : \A i \in 0..m :
        p[m][i] = IF i \in B THEN base[i] ELSE step[i][p[m][back[i]]]
  BY <1>1 DEF Follows
<1>4. 0 \in T
  <2>1. 0 \in B
    BY SMT
  <2>2. \A m \in Nat : p[m][0] = base[0]
    <3>1. \A m \in Nat : 0 \in 0..m
      OBVIOUS
    <3> QED BY <1>3, <2>1, <3>1
  <2>3. r[0] = base[0]
    BY <1>2, <2>2
  <2>4. \A i \in 0..0 : i = 0
    OBVIOUS
  <2> QED BY <2>2, <2>3, <2>4
<1>5. ASSUME NEW n \in Nat, n \in T PROVE n + 1 \in T
  <2> SUFFICES ASSUME NEW i \in 0..(n + 1), NEW m \in Nat, i <= m PROVE p[m][i] = r[i]
    OBVIOUS
  <2>1. CASE i # n + 1
    <3>1. i \in 0..n
      BY <2>1
    <3> QED BY <1>5, <3>1
  <2>2. CASE i = n + 1
    <3>1. i \in Nat /\ i \in 0..m /\ i \in 0..i
      BY <2>2
    <3>2. CASE i \in B
      BY <1>2, <1>3, <3>1, <3>2
    <3>3. CASE i \notin B
      <4> DEFINE j == back[i]
      <4>1. j \in 0..n /\ j <= m /\ j <= i
        BY <2>2, <3>1, <3>3
      <4>2. p[m][j] = r[j] /\ p[i][j] = r[j]
        BY <1>5, <3>1, <4>1
      <4>3. p[m][i] = step[i][p[m][j]]
        BY <1>3, <3>1, <3>3
      <4>4. p[i][i] = step[i][p[i][j]]
        BY <1>3, <3>1, <3>3
      <4>5. r[i] = p[i][i]
        BY <1>2, <3>1
      <4> QED BY <4>2, <4>3, <4>4, <4>5
    <3> QED BY <3>2, <3>3
  <2> QED BY <2>1, <2>2
<1> HIDE DEF T
<1>6. \A n \in Nat : n \in T
  BY <1>4, <1>5, Induction
<1>7. \A m \in Nat : \A i \in 0..m : p[m][i] = r[i]
  <2> TAKE m \in Nat
  <2> TAKE i \in 0..m
  <2>1. i \in Nat /\ i \in 0..i /\ i <= m
    OBVIOUS
  <2> QED BY <1>6, <2>1 DEF T
<1>8. ASSUME NEW n \in Nat
      PROVE  r[n] = IF n \in B THEN base[n] ELSE step[n][r[back[n]]]
  <2>1. n \in 0..n /\ (n \notin B => back[n] \in 0..n)
    OBVIOUS
  <2>2. p[n][n] = IF n \in B THEN base[n] ELSE step[n][p[n][back[n]]]
    BY <1>3, <2>1
  <2> QED BY <1>2, <1>7, <2>1, <2>2
<1> QED BY <1>2, <1>8 DEF IsRecursive
=============================================================================
