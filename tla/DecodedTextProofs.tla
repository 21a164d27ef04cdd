------------------------- MODULE DecodedTextProofs -------------------------
(***************************************************************************)
(* Proofs about the reading of encoded text, for any texts, numbers of     *)
(* iterators and copies of them: that an iterator goes forward within its  *)
(* range, and that it reads what reading the text straight through reads.  *)
(***************************************************************************)
EXTENDS DecodedText, ListLemmas, TLAPS

IsText(t) ==
  /\ t.decoder \in Decoders /\ t.bytes \in Seq(0..255)
  /\ t.decoder \in {"utf-16be", "utf-16le"} => Len(t.bytes) % 2 = 0

EndOf(t) == Len(t.bytes) + 1

-----------------------------------------------------------------------------
(* Base64.                                                                 *)

\* Skipping a line break goes neither back nor over the end.
LEMMA SkippedWithin ==
  ASSUME NEW b, NEW c \in Int, NEW end \in Int, c <= end
  PROVE  SkipNewline(b, c, end) \in c..end
<1> DEFINE after == IF c # end /\ At(b, c) = CR THEN c + 1 ELSE c
<1>1. after \in c..end
  OBVIOUS
<1>2. SkipNewline(b, c, end) = IF after # end /\ At(b, after) = LF THEN after + 1 ELSE after
  BY DEF SkipNewline
<1> HIDE DEF after
<1> QED BY <1>1, <1>2

\* Whatever group was decoded before, the Base64 decoder goes forward within the
\* range.
LEMMA Base64Forward ==
  ASSUME NEW b, NEW last, NEW begin, NEW c \in Int, NEW end \in Int, c < end
  PROVE  Base64(b, last, begin, c, end).c \in (c + 1)..end
<1> DEFINE start == SkipNewline(b, c, end)
           line  == IF start = c /\ c > begin THEN LineBegin(b, begin, c) ELSE start
           delta == (start - line) % 4
           first == start - delta
           new   == [prevC |-> start, buf |-> Group(b, first)]
           known == c - last.prevC
           cut   == start = end \/ end \in (first + 1)..(first + 3)
<1>1. start \in c..end
  BY SkippedWithin
<1>2. Base64(b, last, begin, c, end) =
        CASE known \in 0..2 -> Decoded(last.buf[known + 1], AfterDecoded(c, end, known), last)
          [] known \notin 0..2 /\ cut -> Decoded(Space, end, last)
          [] OTHER -> Decoded(new.buf[delta + 1], AfterDecoded(start, end, delta), new)
  BY Zenon DEF Base64
<1>3. \A d : \A p \in c..end : p # end => AfterDecoded(p, end, d) \in (c + 1)..end
  BY DEF AfterDecoded
<1>4. \A ch, p, l : Decoded(ch, p, l).c = p
  BY DEF Decoded
<1> HIDE DEF start, line, delta, first, new, known, cut
<1>5. CASE known \in 0..2
  <2>1. Base64(b, last, begin, c, end)
          = Decoded(last.buf[known + 1], AfterDecoded(c, end, known), last)
    BY <1>2, <1>5, Zenon
  <2>2. AfterDecoded(c, end, known) \in (c + 1)..end
    BY <1>3
  <2>3. Decoded(last.buf[known + 1], AfterDecoded(c, end, known), last).c
          = AfterDecoded(c, end, known)
    BY <1>4, Zenon
  <2> QED BY <2>1, <2>2, <2>3
<1>6. CASE known \notin 0..2 /\ cut
  <2>1. Base64(b, last, begin, c, end) = Decoded(Space, end, last)
    BY <1>2, <1>6, Zenon
  <2>2. end \in (c + 1)..end
    OBVIOUS
  <2>3. Decoded(Space, end, last).c = end
    BY <1>4
  <2> QED BY <2>1, <2>2, <2>3
<1>7. CASE known \notin 0..2 /\ ~cut
  <2>1. Base64(b, last, begin, c, end)
          = Decoded(new.buf[delta + 1], AfterDecoded(start, end, delta), new)
    BY <1>2, <1>7, Zenon
  <2>2. start # end
    BY <1>7 DEF cut
  <2>3. AfterDecoded(start, end, delta) \in (c + 1)..end
    BY <1>1, <1>3, <2>2
  <2>4. Decoded(new.buf[delta + 1], AfterDecoded(start, end, delta), new).c
          = AfterDecoded(start, end, delta)
    BY <1>4, Zenon
  <2> QED BY <2>1, <2>3, <2>4
<1> QED BY <1>5, <1>6, <1>7

-----------------------------------------------------------------------------
(* Quoted-Printable.                                                       *)

\* The byte at a place is a byte, and 0 beyond the text.
LEMMA AtIsByte ==
  ASSUME NEW b \in Seq(0..255), NEW p
  PROVE  /\ At(b, p) \in 0..255
         /\ p \notin 1..Len(b) => At(b, p) = 0
BY DEF At

\* A byte is on one side of each border.
LEMMA ByteSides ==
  \A n \in 0..255 : /\ n < 128 <=> ~(n >= 128)
                    /\ n < 192 <=> ~(n >= 192)
                    /\ n >= 192 => n >= 128
OBVIOUS

\* The recursive definition has a solution.
LEMMA AfterEqualsExists ==
  ASSUME NEW b, NEW end \in Nat
  PROVE  \E f : f = [p \in 1..end |->
                       IF QuotedAgain(b, p, end) THEN f[SkipNewline(b, p, end) + 1]
                       ELSE Quoted(b, p, end)]
<1> DEFINE S == {Quoted(b, p, end) : p \in Int}
           again(n) == n < end /\ QuotedAgain(b, end - n, end)
           B == {n \in Nat : ~again(n)}
           base == [n \in Nat |-> Quoted(b, end - n, end)]
           step == [n \in Nat |-> [s \in S |-> s]]
           back == [n \in Nat |->
                      IF again(n) THEN end - (SkipNewline(b, end - n, end) + 1) ELSE 0]
<1>1. ASSUME NEW n \in Nat, again(n)
      PROVE  back[n] \in 0..(n - 1)
  <2>1. end - n \in Int /\ end - n <= end /\ QuotedAgain(b, end - n, end)
    BY <1>1
  <2>2. SkipNewline(b, end - n, end) \in (end - n)..end
    BY <2>1, SkippedWithin
  <2>3. SkipNewline(b, end - n, end) # end
    BY <2>1 DEF QuotedAgain
  <2>4. back[n] = end - (SkipNewline(b, end - n, end) + 1)
    BY <1>1
  <2> HIDE DEF back
  <2> QED BY <2>2, <2>3, <2>4
<1>2. B \in SUBSET Nat /\ base \in [Nat -> S] /\ step \in [Nat -> [S -> S]]
  <2>1. \A n \in Nat : end - n \in Int
    OBVIOUS
  <2>2. \A n \in Nat : Quoted(b, end - n, end) \in S
    BY <2>1
  <2> HIDE DEF S
  <2> QED BY <2>2
<1>3. \A n \in Nat : ~again(n) => back[n] = 0
  OBVIOUS
<1>4. back \in [Nat -> Nat]
  <2>1. DOMAIN back = Nat /\ back = [n \in Nat |-> back[n]]
    BY Zenon
  <2>2. \A n \in Nat : back[n] \in Nat
    <3> HIDE DEF back, again
    <3> QED BY <1>1, <1>3
  <2> HIDE DEF back
  <2> QED BY <2>1, <2>2, Zenon
<1>5. \A n \in Nat \ B : back[n] < n
  <2> HIDE DEF back, again
  <2> QED BY <1>1
<1>6. PICK r \in [Nat -> S] : IsRecursive(r, B, base, step, back)
  <2> HIDE DEF back, B, base, step, S
  <2> QED BY <1>2, <1>4, <1>5, Recursion
<1> DEFINE g == [p \in 1..end |-> r[end - p]]
<1>7. ASSUME NEW p \in 1..end
      PROVE  g[p] = IF QuotedAgain(b, p, end) THEN g[SkipNewline(b, p, end) + 1]
                    ELSE Quoted(b, p, end)
  <2> DEFINE n == end - p
  <2>1. n \in Nat /\ end - n = p /\ n < end
    OBVIOUS
  <2>2. g[p] = r[n]
    OBVIOUS
  <2>3. r[n] = IF n \in B THEN base[n] ELSE step[n][r[back[n]]]
    BY <1>6, <2>1 DEF IsRecursive
  <2>4. base[n] = Quoted(b, p, end) /\ step[n] = [s \in S |-> s]
    BY <2>1
  <2>5. n \in B <=> ~QuotedAgain(b, p, end)
    BY <2>1
  <2>6. CASE QuotedAgain(b, p, end)
    <3> DEFINE next == SkipNewline(b, p, end) + 1
    <3>1. back[n] = end - next /\ back[n] \in 0..(n - 1)
      BY <1>1, <2>1, <2>6
    <3>2. SkipNewline(b, p, end) \in p..end
      BY SkippedWithin
    <3>3. next \in 1..end /\ r[back[n]] \in S
      <4> HIDE DEF back
      <4> QED BY <3>1, <3>2
    <3>4. g[next] = r[back[n]]
      <4> HIDE DEF next, back
      <4> QED BY <3>1, <3>3
    <3>5. r[n] = r[back[n]]
      <4> HIDE DEF back, B, base, step, S
      <4>1. step[n][r[back[n]]] = r[back[n]]
        BY <2>4, <3>3
      <4> QED BY <2>3, <2>5, <2>6, <4>1
    <3> HIDE DEF g, n, back
    <3> QED BY <2>2, <2>6, <3>4, <3>5
  <2>7. CASE ~QuotedAgain(b, p, end)
    <3> HIDE DEF back, B, base, step, S, g, n
    <3> QED BY <2>2, <2>3, <2>4, <2>5, <2>7
  <2> QED BY <2>6, <2>7
<1>8. g = [p \in 1..end |-> g[p]]
  BY Zenon
<1> HIDE DEF g
<1>9. g = [p \in 1..end |-> IF QuotedAgain(b, p, end) THEN g[SkipNewline(b, p, end) + 1]
                            ELSE Quoted(b, p, end)]
  BY <1>7, <1>8, Zenon
<1> QED BY <1>9

\* What follows "=" is read as the definition says.
LEMMA AfterEqualsIs ==
  ASSUME NEW b, NEW end \in Nat, NEW p \in 1..end
  PROVE  AfterEquals(b, end)[p] =
           IF QuotedAgain(b, p, end) THEN AfterEquals(b, end)[SkipNewline(b, p, end) + 1]
           ELSE Quoted(b, p, end)
<1> DEFINE f == AfterEquals(b, end)
<1>1. f = [q \in 1..end |-> IF QuotedAgain(b, q, end) THEN f[SkipNewline(b, q, end) + 1]
                            ELSE Quoted(b, q, end)]
  BY AfterEqualsExists, Zenon DEF AfterEquals
<1> HIDE DEF f
<1>2. f[p] = IF QuotedAgain(b, p, end) THEN f[SkipNewline(b, p, end) + 1]
             ELSE Quoted(b, p, end)
  BY <1>1, Zenon
<1> QED BY <1>2 DEF f

\* What is quoted is read within the range.
LEMMA QuotedWithin ==
  ASSUME NEW b, NEW end \in Nat, NEW p \in 1..end
  PROVE  Quoted(b, p, end).c \in p..end
<1> DEFINE next == SkipNewline(b, p, end)
<1>1. next \in p..end
  BY SkippedWithin
<1>2. \A ch, c : Char(ch, c).c = c
  BY DEF Char
<1>3. CASE p = end
  <2>1. Quoted(b, p, end) = Char(Space, p)
    BY <1>3, Zenon DEF Quoted
  <2> QED BY <1>2, <2>1
<1>4. CASE p # end /\ At(b, p) \in {CR, LF}
  <2>1. Quoted(b, p, end)
          = IF next = end THEN Char(Space, next) ELSE Char(At(b, next), next + 1)
    BY <1>4, Zenon DEF Quoted
  <2> HIDE DEF next
  <2> QED BY <1>1, <1>2, <2>1
<1>5. CASE p # end /\ At(b, p) \notin {CR, LF}
  <2>1. Quoted(b, p, end)
          = IF HexValue(At(b, p)) < 0 \/ p + 1 = end THEN Char(Space, p + 1)
            ELSE IF HexValue(At(b, p + 1)) < 0 THEN Char(Space, p + 2)
            ELSE Char(HexValue(At(b, p)) * 16 + HexValue(At(b, p + 1)), p + 2)
    BY <1>5, Zenon DEF Quoted
  <2> DEFINE d == Quoted(b, p, end)
  <2>2. d.c = p + 1 \/ (p + 1 # end /\ d.c = p + 2)
    <3>1. CASE HexValue(At(b, p)) < 0 \/ p + 1 = end
      <4>1. d = Char(Space, p + 1)
        BY <2>1, <3>1, Zenon
      <4> HIDE DEF d
      <4> QED BY <1>2, <4>1
    <3>2. CASE ~(HexValue(At(b, p)) < 0 \/ p + 1 = end)
      <4>1. \E ch : d = Char(ch, p + 2)
        BY <2>1, <3>2, Zenon
      <4> HIDE DEF d
      <4> QED BY <1>2, <3>2, <4>1
    <3> QED BY <3>1, <3>2
  <2> HIDE DEF d
  <2>3. d.c \in p..end
    BY <1>5, <2>2
  <2> QED BY <2>3 DEF d
<1> QED BY <1>3, <1>4, <1>5

\* So is what follows "=".
LEMMA AfterEqualsWithin ==
  ASSUME NEW b, NEW end \in Nat, NEW p \in 1..end
  PROVE  AfterEquals(b, end)[p].c \in p..end
<1> DEFINE f == AfterEquals(b, end)
           T == {n \in Nat : \A q \in 1..end : end - q <= n => f[q].c \in q..end}
<1>1. \A q \in 1..end :
        f[q] = IF QuotedAgain(b, q, end) THEN f[SkipNewline(b, q, end) + 1]
               ELSE Quoted(b, q, end)
  BY AfterEqualsIs
<1>2. ASSUME NEW q \in 1..end, QuotedAgain(b, q, end)
      PROVE  /\ SkipNewline(b, q, end) + 1 \in (q + 1)..end
             /\ f[q] = f[SkipNewline(b, q, end) + 1]
  <2>1. SkipNewline(b, q, end) \in q..end /\ SkipNewline(b, q, end) # end
    BY <1>2, SkippedWithin DEF QuotedAgain
  <2> HIDE DEF f
  <2> QED BY <1>1, <1>2, <2>1
<1>3. ASSUME NEW q \in 1..end, ~QuotedAgain(b, q, end)
      PROVE  f[q].c \in q..end
  <2> HIDE DEF f
  <2> QED BY <1>1, <1>3, QuotedWithin
<1> HIDE DEF f
<1>4. 0 \in T
  <2>1. ASSUME NEW q \in 1..end, end - q <= 0
        PROVE  f[q].c \in q..end
    <3>1. ~QuotedAgain(b, q, end)
      BY <2>1 DEF QuotedAgain
    <3> QED BY <1>3, <3>1
  <2> QED BY <2>1
<1>5. ASSUME NEW n \in Nat, n \in T PROVE n + 1 \in T
  <2>1. ASSUME NEW q \in 1..end, end - q <= n + 1
        PROVE  f[q].c \in q..end
    <3>1. CASE ~QuotedAgain(b, q, end)
      BY <1>3, <3>1
    <3>2. CASE QuotedAgain(b, q, end)
      <4> DEFINE next == SkipNewline(b, q, end) + 1
      <4>1. next \in (q + 1)..end /\ f[q] = f[next]
        BY <1>2, <3>2
      <4> HIDE DEF next
      <4>2. f[next].c \in next..end
        BY <1>5, <2>1, <4>1
      <4> QED BY <4>1, <4>2
    <3> QED BY <3>1, <3>2
  <2> QED BY <2>1
<1> HIDE DEF T
<1>6. \A n \in Nat : n \in T
  BY <1>4, <1>5, Induction
<1>7. end - p \in Nat
  OBVIOUS
<1> QED BY <1>6, <1>7 DEF T, f

\* A line break that is skipped before an earlier end is skipped with that end too.
LEMMA SameBreak ==
  ASSUME NEW b, NEW c \in Int, NEW far \in Int, NEW end \in c..far, end # far,
         At(b, c) \in {CR, LF}, SkipNewline(b, c, far) <= end
  PROVE  c # end /\ SkipNewline(b, c, end) = SkipNewline(b, c, far)
<1>1. CASE At(b, c) = LF
  <2>1. SkipNewline(b, c, far) = c + 1
    BY <1>1 DEF SkipNewline, CR, LF
  <2>2. c # end
    BY <2>1
  <2> QED BY <1>1, <2>1, <2>2 DEF SkipNewline, CR, LF
<1>2. CASE At(b, c) = CR
  <2>1. SkipNewline(b, c, far)
          = IF c + 1 # far /\ At(b, c + 1) = LF THEN c + 2 ELSE c + 1
    BY <1>2 DEF SkipNewline
  <2>2. c # end /\ (c + 1 = end => At(b, c + 1) # LF)
    BY <2>1
  <2>3. SkipNewline(b, c, end)
          = IF c + 1 # end /\ At(b, c + 1) = LF THEN c + 2 ELSE c + 1
    BY <1>2, <2>2 DEF SkipNewline
  <2> QED BY <2>1, <2>2, <2>3
<1> QED BY <1>1, <1>2

\* Where reading on to the end of the text stays before an earlier end, reading
\* on to that end reads the same.
LEMMA SameAfterEquals ==
  ASSUME NEW b, NEW far \in Nat, NEW end \in 1..far, NEW p \in 1..end,
         AfterEquals(b, far)[p].c <= end
  PROVE  AfterEquals(b, end)[p] = AfterEquals(b, far)[p]
<1> DEFINE f == AfterEquals(b, end)
           g == AfterEquals(b, far)
           T == {n \in Nat : \A q \in 1..end : end - q <= n /\ g[q].c <= end => f[q] = g[q]}
<1>1. CASE end = far
  BY <1>1
<1>2. CASE end # far
  <2>1. end \in Nat /\ \A q \in 1..end : q \in 1..far
    OBVIOUS
  <2>2. \A q \in 1..end :
          f[q] = IF QuotedAgain(b, q, end) THEN f[SkipNewline(b, q, end) + 1]
                 ELSE Quoted(b, q, end)
    BY <2>1, AfterEqualsIs
  <2>3. \A q \in 1..far :
          /\ g[q] = IF QuotedAgain(b, q, far) THEN g[SkipNewline(b, q, far) + 1]
                    ELSE Quoted(b, q, far)
          /\ g[q].c \in q..far
    BY AfterEqualsIs, AfterEqualsWithin
  <2> HIDE DEF f, g
  <2>4. ASSUME NEW n \in Nat, NEW q \in 1..end, end - q <= n, g[q].c <= end,
               n # 0 => n - 1 \in T
        PROVE  f[q] = g[q]
    <3> DEFINE next == SkipNewline(b, q, far)
    <3>1. next \in q..far
      BY SkippedWithin
    <3>2. \A ch, c : Char(ch, c).c = c
      BY DEF Char
    <3>3. q \in 1..far /\ q # far
      BY <1>2
    <3>4. CASE At(b, q) \in {CR, LF} /\ QuotedAgain(b, q, far)
      <4>1. g[q] = g[next + 1] /\ next # far /\ At(b, next) = Equals
        BY <2>3, <3>3, <3>4 DEF QuotedAgain
      <4>2. next + 1 \in 1..far
        BY <3>1, <4>1
      <4>3. g[next + 1].c \in (next + 1)..far
        BY <2>3, <4>2
      <4>4. next + 1 \in (q + 1)..end
        <5> HIDE DEF next
        <5> QED BY <2>4, <3>1, <4>1, <4>3
      <4>5. q # end /\ SkipNewline(b, q, end) = next
        <5>1. end \in q..far /\ q \in Int /\ far \in Int /\ SkipNewline(b, q, far) <= end
          <6>1. next <= end
            <7> HIDE DEF next
            <7> QED BY <3>1, <4>4
          <6> QED BY <6>1
        <5> HIDE DEF next
        <5> QED BY <1>2, <3>4, <5>1, SameBreak DEF next
      <4>6. QuotedAgain(b, q, end)
        <5> HIDE DEF next
        <5> QED BY <3>4, <4>1, <4>4, <4>5 DEF QuotedAgain
      <4>7. f[q] = f[next + 1]
        BY <2>2, <4>5, <4>6
      <4> HIDE DEF next
      <4>8. n - 1 \in T /\ n - 1 \in Nat
        BY <2>4, <4>4
      <4>9. f[next + 1] = g[next + 1]
        BY <2>4, <4>1, <4>4, <4>8
      <4> QED BY <4>1, <4>7, <4>9
    <3>5. CASE At(b, q) \in {CR, LF} /\ ~QuotedAgain(b, q, far)
      <4>1. g[q] = IF next = far THEN Char(Space, next) ELSE Char(At(b, next), next + 1)
        <5>1. g[q] = Quoted(b, q, far)
          BY <2>3, <3>3, <3>5
        <5> QED BY <3>3, <3>5, <5>1, Zenon DEF Quoted
      <4> HIDE DEF next
      <4>2. next # far /\ g[q] = Char(At(b, next), next + 1)
        BY <1>2, <2>4, <3>1, <3>2, <4>1
      <4>3. next + 1 \in (q + 1)..end
        BY <2>4, <3>1, <3>2, <4>2
      <4>4. q # end /\ SkipNewline(b, q, end) = next
        <5>1. end \in q..far /\ q \in Int /\ far \in Int /\ next <= end
          BY <3>1, <4>3
        <5> QED BY <1>2, <3>5, <5>1, SameBreak DEF next
      <4>5. next # end /\ At(b, next) # Equals /\ ~QuotedAgain(b, q, end)
        BY <3>3, <3>5, <4>2, <4>3, <4>4 DEF QuotedAgain, next
      <4>6. f[q] = Quoted(b, q, end)
        BY <2>2, <4>5
      <4>7. Quoted(b, q, end) = Char(At(b, next), next + 1)
        BY <3>5, <4>4, <4>5, Zenon DEF Quoted
      <4> QED BY <4>2, <4>6, <4>7
    <3>6. CASE At(b, q) \notin {CR, LF}
      <4>1. f[q] = Quoted(b, q, end) /\ g[q] = Quoted(b, q, far)
        BY <2>2, <2>3, <3>3, <3>6 DEF QuotedAgain
      <4> DEFINE none == HexValue(At(b, q)) < 0
                 half == HexValue(At(b, q + 1)) < 0
                 both == HexValue(At(b, q)) * 16 + HexValue(At(b, q + 1))
      <4>2. /\ none => g[q] = Char(Space, q + 1)
            /\ ~none /\ q + 1 # far =>
                 g[q] = IF half THEN Char(Space, q + 2) ELSE Char(both, q + 2)
        BY <3>3, <3>6, <4>1, Zenon DEF Quoted
      <4>3. /\ q # end /\ none => f[q] = Char(Space, q + 1)
            /\ q # end /\ ~none /\ q + 1 # end =>
                 f[q] = IF half THEN Char(Space, q + 2) ELSE Char(both, q + 2)
        BY <3>6, <4>1, Zenon DEF Quoted
      <4>4. /\ ~none /\ q + 1 = far => g[q] = Char(Space, q + 1)
        BY <3>3, <3>6, <4>1, Zenon DEF Quoted
      <4> HIDE DEF none, half, both
      <4>5. /\ none => g[q].c = q + 1
            /\ ~none /\ q + 1 # far => g[q].c = q + 2
            /\ ~none /\ q + 1 = far => g[q].c = q + 1
        BY <3>2, <4>2, <4>4
      <4>6. q # end /\ q + 1 # far /\ (~none => q + 1 # end)
        BY <1>2, <2>4, <4>5
      <4> QED BY <4>2, <4>3, <4>6
    <3> QED BY <3>4, <3>5, <3>6
  <2>5. 0 \in T
    BY <2>4
  <2>6. ASSUME NEW n \in Nat, n \in T PROVE n + 1 \in T
    <3>1. (n + 1) - 1 = n /\ n + 1 \in Nat
      OBVIOUS
    <3>2. ASSUME NEW q \in 1..end, end - q <= n + 1, g[q].c <= end
          PROVE  f[q] = g[q]
      <4> HIDE DEF T
      <4> QED BY <2>4, <2>6, <3>1, <3>2
    <3> QED BY <3>1, <3>2
  <2> HIDE DEF T
  <2>7. \A n \in Nat : n \in T
    BY <2>5, <2>6, Induction
  <2>8. end - p \in Nat /\ g[p].c <= end
    BY DEF g
  <2>9. f[p] = g[p]
    <3>1. end - p \in T /\ end - p <= end - p
      BY <2>7, <2>8
    <3> QED BY <2>8, <3>1 DEF T
  <2> QED BY <2>9 DEF f, g
<1> QED BY <1>1, <1>2

\* Quoted-printable goes forward, within the range.
LEMMA QuotedPrintableForward ==
  ASSUME NEW b, NEW end \in Nat, NEW c \in 1..end, c < end
  PROVE  QuotedPrintable(b, c, end).c \in (c + 1)..end
<1>1. CASE At(b, c) # Equals
  <2>1. QuotedPrintable(b, c, end) = Char(At(b, c), c + 1)
    BY <1>1 DEF QuotedPrintable
  <2>2. Char(At(b, c), c + 1).c = c + 1
    BY DEF Char
  <2> QED BY <2>1, <2>2
<1>2. CASE At(b, c) = Equals
  <2>1. QuotedPrintable(b, c, end) = AfterEquals(b, end)[c + 1]
    BY <1>2 DEF QuotedPrintable
  <2>2. c + 1 \in 1..end
    OBVIOUS
  <2> QED BY <2>1, <2>2, AfterEqualsWithin
<1> QED BY <1>1, <1>2

\* Quoted-printable reads the same up to a nearer end, if it did not read beyond it.
LEMMA SameQuotedPrintable ==
  ASSUME NEW b, NEW far \in Nat, NEW end \in 1..far, NEW c \in 1..end, c < end,
         QuotedPrintable(b, c, far).c <= end
  PROVE  QuotedPrintable(b, c, end) = QuotedPrintable(b, c, far)
<1>1. CASE At(b, c) # Equals
  BY <1>1 DEF QuotedPrintable
<1>2. CASE At(b, c) = Equals
  <2>1. /\ QuotedPrintable(b, c, far) = AfterEquals(b, far)[c + 1]
        /\ QuotedPrintable(b, c, end) = AfterEquals(b, end)[c + 1]
    BY <1>2 DEF QuotedPrintable
  <2>2. c + 1 \in 1..end
    OBVIOUS
  <2> QED BY <2>1, <2>2, SameAfterEquals
<1> QED BY <1>1, <1>2

-----------------------------------------------------------------------------
(* UTF-8.                                                                  *)

\* There is a first byte of the next character, or the end, and only one.
LEMMA FirstByteIs ==
  ASSUME NEW b \in Seq(0..255), NEW end \in Nat, NEW c \in 0..end
  PROVE  LET IsFirst(p) == /\ p = end \/ At(b, p) >= 192
                           /\ \A q \in c..(p - 1) : At(b, q) < 192
         IN /\ FirstByte(b, c, end) \in c..end /\ IsFirst(FirstByte(b, c, end))
            /\ \A p \in c..end : IsFirst(p) => p = FirstByte(b, c, end)
<1> DEFINE IsFirst(p) == /\ p = end \/ At(b, p) >= 192
                         /\ \A q \in c..(p - 1) : At(b, q) < 192
           S == {p \in c..end : p = end \/ At(b, p) >= 192}
<1>1. PICK p \in S : \A q \in S : p <= q
  <2>1. S \in SUBSET Nat /\ end \in S
    OBVIOUS
  <2> HIDE DEF S
  <2> QED BY <2>1, LeastNumber
<1>2. \A q : At(b, q) \in 0..255
  BY AtIsByte
<1>3. p \in c..end /\ IsFirst(p)
  <2>1. p \in c..end /\ (p = end \/ At(b, p) >= 192)
    BY <1>1
  <2>2. ASSUME NEW q \in c..(p - 1) PROVE At(b, q) < 192
    <3>1. q \in c..end /\ q # end /\ ~(p <= q)
      BY <2>1
    <3>2. ~(At(b, q) >= 192)
      BY <1>1, <3>1
    <3>3. \A n \in 0..255 : ~(n >= 192) => n < 192
      OBVIOUS
    <3> QED BY <1>2, <3>2, <3>3
  <2> QED BY <2>1, <2>2
<1>4. FirstByte(b, c, end) \in c..end /\ IsFirst(FirstByte(b, c, end))
  <2>1. FirstByte(b, c, end) = CHOOSE q \in c..end : IsFirst(q)
    BY Zenon DEF FirstByte
  <2> HIDE DEF IsFirst
  <2> QED BY <1>3, <2>1, Zenon
<1>5. ASSUME NEW q \in c..end, NEW r \in c..end, IsFirst(q), IsFirst(r) PROVE ~(q < r)
  <2> SUFFICES ASSUME q < r PROVE FALSE
    OBVIOUS
  <2>1. q \in c..(r - 1) /\ q # end
    OBVIOUS
  <2>2. At(b, q) < 192 /\ At(b, q) >= 192
    BY <1>5, <2>1
  <2>3. \A n \in 0..255 : ~(n < 192 /\ n >= 192)
    OBVIOUS
  <2> QED BY <1>2, <2>2, <2>3
<1>6. \A q \in c..end : IsFirst(q) => q = FirstByte(b, c, end)
  <2> DEFINE first == FirstByte(b, c, end)
  <2>1. first \in Int
    BY <1>4
  <2> HIDE DEF IsFirst, first
  <2> QED BY <1>4, <1>5, <2>1 DEF first
<1> QED BY <1>4, <1>6

\* The character that begins at a first byte, read up to an end
LEMMA Utf8AtGoesOn ==
  ASSUME NEW b \in Seq(0..255), NEW end \in 1..(Len(b) + 1), NEW first \in 1..(end - 1)
  PROVE  LET d == Utf8At(b, first, LastByte(b, first, end))
         IN /\ d.c \in (first + 1)..end
            /\ d.c = first + 1 \/ d.c = LastByte(b, first, end) + 1
<1>1. TrailingBytes(At(b, first)) \in Nat
  BY DEF TrailingBytes
<1>2. LastByte(b, first, end) \in first..(end - 1)
  BY <1>1 DEF LastByte
<1>3. \A ch, p : Char(ch, p).c = p
  BY DEF Char
<1> DEFINE last == LastByte(b, first, end)
<1>4. CASE At(b, first) >= 254
  <2>1. Utf8At(b, first, last) = Char(Space, first + 1)
    BY <1>4, Zenon DEF Utf8At
  <2> QED BY <1>2, <1>3, <2>1
<1>5. CASE ~(At(b, first) >= 254)
  <2>1. \E ch : Utf8At(b, first, last) = Char(ch, last + 1)
    BY <1>5, Zenon DEF Utf8At
  <2> HIDE DEF last
  <2> QED BY <1>2, <1>3, <2>1 DEF last
<1> QED BY <1>4, <1>5

\* What Utf8 does at a place before an end in the text
LEMMA Utf8Is ==
  ASSUME NEW b \in Seq(0..255), NEW end \in 1..(Len(b) + 1), NEW c \in 1..end
  PROVE  LET first == FirstByte(b, c, end)
         IN /\ At(b, c) < 128 => Utf8(b, c, end) = Char(At(b, c), c + 1)
            /\ At(b, c) >= 128 /\ first = end /\ At(b, end) < 192 =>
                 Utf8(b, c, end) = Char(Space, end)
            /\ At(b, c) >= 128 /\ first # end =>
                 Utf8(b, c, end) = Utf8At(b, first, LastByte(b, first, end))
            /\ At(b, c) >= 128 /\ first = end /\ At(b, end) >= 192 =>
                 Utf8(b, c, end) = Utf8At(b, end, LastByte(b, end, Len(b) + 1))
<1>1. At(b, c) \in 0..255 /\ At(b, end) \in 0..255
  BY AtIsByte
<1>2. /\ ~(At(b, c) < 128 /\ At(b, c) >= 128)
      /\ ~(At(b, end) < 192 /\ At(b, end) >= 192)
  BY <1>1, ByteSides
<1> QED BY <1>2, Zenon DEF Utf8, OutOfSync

\* Up to the end of the text, UTF-8 goes forward.
LEMMA Utf8Forward ==
  ASSUME NEW b \in Seq(0..255), NEW c \in 1..Len(b)
  PROVE  Utf8(b, c, Len(b) + 1).c \in (c + 1)..(Len(b) + 1)
<1> DEFINE end == Len(b) + 1
           first == FirstByte(b, c, end)
<1>1. end \in Nat /\ end \in 1..end /\ c \in 1..end /\ c \in 0..end /\ c < end
  OBVIOUS
<1>2. At(b, c) \in 0..255 /\ At(b, end) = 0
  BY AtIsByte
<1>3. first \in c..end
  BY <1>1, FirstByteIs
<1>4. \A ch, p : Char(ch, p).c = p
  BY DEF Char
<1>5. CASE At(b, c) < 128
  <2>1. Utf8(b, c, end) = Char(At(b, c), c + 1)
    BY <1>1, <1>5, Utf8Is
  <2> QED BY <1>4, <2>1
<1>6. CASE At(b, c) >= 128 /\ first = end
  <2>1. Utf8(b, c, end) = Char(Space, end)
    BY <1>1, <1>2, <1>6, Utf8Is
  <2> QED BY <1>4, <2>1
<1>7. CASE At(b, c) >= 128 /\ first # end
  <2>1. Utf8(b, c, end) = Utf8At(b, first, LastByte(b, first, end))
    BY <1>1, <1>7, Utf8Is
  <2>2. first \in 1..(end - 1)
    BY <1>3, <1>7
  <2>3. Utf8(b, c, end).c \in (first + 1)..end
    <3> HIDE DEF first
    <3> QED BY <1>1, <2>1, <2>2, Utf8AtGoesOn
  <2> HIDE DEF first
  <2> QED BY <1>3, <2>3
<1>8. At(b, c) < 128 \/ At(b, c) >= 128
  BY <1>2, ByteSides
<1> QED BY <1>5, <1>6, <1>7, <1>8

\* Where UTF-8 read up to the end of the text stays before an earlier end, it
\* reads the same up to that end.
LEMMA SameUtf8 ==
  ASSUME NEW b \in Seq(0..255), NEW end \in 1..(Len(b) + 1), NEW c \in 1..end, c < end,
         Utf8(b, c, Len(b) + 1).c <= end
  PROVE  Utf8(b, c, end) = Utf8(b, c, Len(b) + 1)
<1> DEFINE far == Len(b) + 1
           first == FirstByte(b, c, far)
<1>1. /\ far \in Nat /\ far \in 1..far /\ c \in 1..far /\ c \in 0..far
      /\ end \in Nat /\ c \in 0..end
  OBVIOUS
<1>2. At(b, c) \in 0..255 /\ At(b, far) = 0
  BY AtIsByte
<1>3. /\ first \in c..far
      /\ first = far \/ At(b, first) >= 192
      /\ \A q \in c..(first - 1) : At(b, q) < 192
  BY <1>1, FirstByteIs
<1>4. \A ch, p : Char(ch, p).c = p
  BY DEF Char
<1>5. CASE end = far
  BY <1>5
<1>6. CASE At(b, c) < 128
  BY <1>1, <1>6, Utf8Is
<1>7. CASE At(b, c) >= 128 /\ first = far
  <2>1. Utf8(b, c, far) = Char(Space, far)
    BY <1>1, <1>2, <1>7, Utf8Is
  <2>2. far <= end
    BY <1>4, <2>1
  <2> QED BY <1>5, <2>2
<1>8. CASE At(b, c) >= 128 /\ first # far /\ end # far
  <2>1. Utf8(b, c, far) = Utf8At(b, first, LastByte(b, first, far))
    BY <1>1, <1>8, Utf8Is
  <2>2. first \in 1..(far - 1)
    BY <1>3, <1>8
  <2> DEFINE d == Utf8At(b, first, LastByte(b, first, far))
  <2>3. d.c \in (first + 1)..far /\ (d.c = first + 1 \/ d.c = LastByte(b, first, far) + 1)
    <3> HIDE DEF first
    <3> QED BY <1>1, <2>2, Utf8AtGoesOn
  <2>4. d.c <= end
    BY <2>1
  <2> HIDE DEF first, d
  <2>5. first \in 1..(end - 1) /\ first \in c..end
    BY <1>3, <2>2, <2>3, <2>4
  <2>6. FirstByte(b, c, end) = first
    BY <1>1, <1>3, <1>8, <2>5, FirstByteIs
  <2>7. Utf8(b, c, end) = Utf8At(b, first, LastByte(b, first, end))
    BY <1>8, <2>5, <2>6, Utf8Is
  <2>8. CASE At(b, first) >= 254
    BY <2>1, <2>7, <2>8 DEF Utf8At
  <2>9. CASE ~(At(b, first) >= 254)
    <3>1. \A last : Utf8At(b, first, last).c = last + 1
      BY <1>4, <2>9, Zenon DEF Utf8At
    <3>2. LastByte(b, first, far) + 1 <= end
      BY <2>4, <3>1 DEF d
    <3>3. LastByte(b, first, end) = LastByte(b, first, far)
      <4> DEFINE n == TrailingBytes(At(b, first))
      <4>1. /\ LastByte(b, first, far) = IF first + n < far THEN first + n ELSE far - 1
            /\ LastByte(b, first, end) = IF first + n < end THEN first + n ELSE end - 1
        BY DEF LastByte
      <4>2. n \in Nat
        BY DEF TrailingBytes
      <4> HIDE DEF n
      <4> QED BY <1>8, <2>5, <3>2, <4>1, <4>2
    <3> QED BY <2>1, <2>7, <3>3
  <2> QED BY <2>8, <2>9
<1>9. At(b, c) < 128 \/ At(b, c) >= 128
  BY <1>2, ByteSides
<1> QED BY <1>5, <1>6, <1>7, <1>8, <1>9

-----------------------------------------------------------------------------
(* All decoders without a state.                                           *)

\* A place where a character of a text may begin
Begins(t, p) ==
  p \in 1..Len(t.bytes) /\ (t.decoder \in {"utf-16be", "utf-16le"} => p % 2 = 1)

\* What each decoder reads.
LEMMA ReadIs ==
  ASSUME NEW t, NEW c, NEW end
  PROVE  /\ t.decoder = "quoted-printable" => Read(t, c, end) = QuotedPrintable(t.bytes, c, end)
         /\ t.decoder = "utf-8" => Read(t, c, end) = Utf8(t.bytes, c, end)
         /\ t.decoder = "utf-16be" =>
              Read(t, c, end) = Utf16(c, end, At(t.bytes, c), At(t.bytes, c + 1))
         /\ t.decoder = "utf-16le" =>
              Read(t, c, end) = Utf16(c, end, At(t.bytes, c + 1), At(t.bytes, c))
         /\ t.decoder = "none" => Read(t, c, end) = Char(Latin1ToAscii(At(t.bytes, c)), c + 1)
BY Zenon DEF Read

\* Both decoders of UTF-16 take two bytes, whatever the end is.
LEMMA BothUtf16 ==
  ASSUME NEW t, NEW p, t.decoder \in {"utf-16be", "utf-16le"}
  PROVE  \E high, low : \A end : Read(t, p, end) = Utf16(p, end, high, low)
<1>1. CASE t.decoder = "utf-16be"
  <2>1. \A end : Read(t, p, end) = Utf16(p, end, At(t.bytes, p), At(t.bytes, p + 1))
    BY <1>1, ReadIs
  <2> QED BY <2>1, Zenon
<1>2. CASE t.decoder = "utf-16le"
  <2>1. \A end : Read(t, p, end) = Utf16(p, end, At(t.bytes, p + 1), At(t.bytes, p))
    BY <1>2, ReadIs
  <2> QED BY <2>1, Zenon
<1> QED BY <1>1, <1>2

\* A whole character in UTF-16 is two bytes.
LEMMA Utf16Is ==
  ASSUME NEW c \in Int, NEW end \in Int, c + 1 < end, NEW high, NEW low
  PROVE  /\ Utf16(c, end, high, low).c = c + 2
         /\ \A far \in Int : c + 1 < far => Utf16(c, end, high, low) = Utf16(c, far, high, low)
<1>1. \A ch, p : Char(ch, p).c = p
  BY DEF Char
<1>2. \A far \in Int : c + 1 < far => far # c /\ far # c + 1
  OBVIOUS
<1>3. \A far \in Int : c + 1 < far =>
        Utf16(c, far, high, low)
        = Char(IF CharIsSigned /\ low > 127 THEN Space ELSE UnicodeToAscii(high * 256 + low), c + 2)
  BY <1>2, Zenon DEF Utf16
<1> QED BY <1>1, <1>3

\* Up to the end of the text, every decoder goes forward.
LEMMA ReadForward ==
  ASSUME NEW t, IsText(t), t.decoder # "base64", NEW p, Begins(t, p)
  PROVE  /\ Read(t, p, EndOf(t)).c \in (p + 1)..EndOf(t)
         /\ t.decoder \in {"utf-16be", "utf-16le"} => Read(t, p, EndOf(t)).c = p + 2
<1> DEFINE b == t.bytes
           end == EndOf(t)
           both == t.decoder \in {"utf-16be", "utf-16le"}
<1>1. b \in Seq(0..255) /\ Len(b) \in Nat /\ end = Len(b) + 1 /\ p \in 1..Len(b)
  BY DEF IsText, EndOf, Begins
<1>2. CASE t.decoder = "quoted-printable"
  <2>1. end \in Nat /\ p \in 1..end /\ p < end
    BY <1>1
  <2>2. QuotedPrintable(b, p, end).c \in (p + 1)..end
    <3> HIDE DEF b, end
    <3> QED BY <2>1, QuotedPrintableForward
  <2>3. Read(t, p, end) = QuotedPrintable(b, p, end)
    BY <1>2, ReadIs
  <2> QED BY <1>2, <2>2, <2>3
<1>3. CASE t.decoder = "utf-8"
  <2>1. Utf8(b, p, Len(b) + 1).c \in (p + 1)..(Len(b) + 1)
    BY <1>1, Utf8Forward
  <2>2. Read(t, p, end) = Utf8(b, p, end)
    BY <1>3, ReadIs
  <2> QED BY <1>1, <1>3, <2>1, <2>2
<1>4. CASE both
  <2>1. p % 2 = 1 /\ Len(b) % 2 = 0
    BY <1>4 DEF IsText, Begins
  <2>2. p + 1 < end /\ p \in Int /\ end \in Int
    <3>1. p # Len(b)
      <4>1. \A m, n \in Nat : m % 2 = 1 /\ n % 2 = 0 => m # n
        OBVIOUS
      <4> HIDE DEF b
      <4> QED BY <1>1, <2>1, <4>1
    <3> HIDE DEF b, end
    <3> QED BY <1>1, <3>1
  <2>3. \E high, low : Read(t, p, end) = Utf16(p, end, high, low)
    BY <1>4, BothUtf16
  <2>4. Read(t, p, end).c = p + 2
    <3> HIDE DEF end
    <3> QED BY <2>2, <2>3, Utf16Is
  <2> QED BY <1>1, <2>2, <2>4
<1>5. CASE t.decoder = "none"
  <2>1. Read(t, p, end).c = p + 1
    BY <1>5, ReadIs DEF Char
  <2> QED BY <1>1, <1>5, <2>1
<1> QED BY <1>2, <1>3, <1>4, <1>5 DEF IsText, Decoders

\* Reading up to an earlier end, which the character does not go over, reads the
\* same.
LEMMA SameRead ==
  ASSUME NEW t, IsText(t), t.decoder # "base64", NEW p, Begins(t, p),
         NEW end \in 1..EndOf(t), p < end, Read(t, p, EndOf(t)).c <= end
  PROVE  Read(t, p, end) = Read(t, p, EndOf(t))
<1> DEFINE b == t.bytes
           far == EndOf(t)
           both == t.decoder \in {"utf-16be", "utf-16le"}
<1>1. b \in Seq(0..255) /\ Len(b) \in Nat /\ far = Len(b) + 1 /\ p \in 1..Len(b)
  BY DEF IsText, EndOf, Begins
<1>2. /\ far \in Nat /\ end \in 1..far /\ p \in 1..end /\ p \in Int /\ end \in Int
      /\ far \in Int
  BY <1>1
<1>3. CASE t.decoder = "quoted-printable"
  <2>1. \A e : Read(t, p, e) = QuotedPrintable(b, p, e)
    BY <1>3, ReadIs
  <2>2. QuotedPrintable(b, p, far).c <= end
    BY <2>1
  <2> HIDE DEF b, far
  <2>3. QuotedPrintable(b, p, end) = QuotedPrintable(b, p, far)
    BY <1>2, <2>2, SameQuotedPrintable
  <2> QED BY <2>1, <2>3 DEF far
<1>4. CASE t.decoder = "utf-8"
  <2>1. \A e : Read(t, p, e) = Utf8(b, p, e)
    BY <1>4, ReadIs
  <2>2. Utf8(b, p, Len(b) + 1).c <= end
    BY <1>1, <2>1
  <2>3. end \in 1..(Len(b) + 1)
    BY <1>1
  <2> HIDE DEF b, far
  <2>4. Utf8(b, p, end) = Utf8(b, p, far)
    BY <1>1, <1>2, <2>2, <2>3, SameUtf8
  <2> QED BY <2>1, <2>4 DEF far
<1>5. CASE both
  <2>1. Read(t, p, far).c = p + 2
    BY <1>5, ReadForward
  <2>2. p + 1 < end /\ p + 1 < far
    BY <1>2, <2>1
  <2>3. PICK high, low : \A e : Read(t, p, e) = Utf16(p, e, high, low)
    BY <1>5, BothUtf16
  <2> HIDE DEF far
  <2>4. Utf16(p, end, high, low) = Utf16(p, far, high, low)
    BY <1>2, <2>2, Utf16Is
  <2> QED BY <2>3, <2>4 DEF far
<1>6. CASE t.decoder = "none"
  BY <1>6, ReadIs
<1> QED BY <1>3, <1>4, <1>5, <1>6 DEF IsText, Decoders

-----------------------------------------------------------------------------
(* Reading a text straight through.                                        *)

\* Where the character after the one at p begins
Onward(t, p) ==
  LET c == Read(t, p, EndOf(t)).c IN IF c \in (p + 1)..EndOf(t) THEN c ELSE p + 1

\* walk[n] is where the n-th character begins; beyond the end, any place.
IsWalk(t, walk) ==
  /\ walk \in [Nat -> Nat]
  /\ walk[1] = 1
  /\ \A n \in Nat \ {0} : walk[n + 1] = Onward(t, walk[n])

Walk(t) == CHOOSE walk : IsWalk(t, walk)

\* There is a walk through every text.
LEMMA WalkIs ==
  ASSUME NEW t, IsText(t)
  PROVE  IsWalk(t, Walk(t))
<1> DEFINE B == {0, 1}
           base == [n \in Nat |-> 1]
           onward == [p \in Nat |-> Onward(t, p)]
           step == [n \in Nat |-> onward]
           back == [n \in Nat |-> IF n = 0 THEN 0 ELSE n - 1]
<1>1. onward \in [Nat -> Nat]
  <2>1. EndOf(t) \in Nat
    BY DEF IsText, EndOf
  <2>2. \A p \in Nat : Onward(t, p) \in Nat
    BY <2>1 DEF Onward
  <2> QED BY <2>2
<1>2. /\ B \in SUBSET Nat /\ base \in [Nat -> Nat] /\ step \in [Nat -> [Nat -> Nat]]
      /\ back \in [Nat -> Nat] /\ \A n \in Nat \ B : back[n] < n
  <2> HIDE DEF onward
  <2> QED BY <1>1
<1>3. PICK w \in [Nat -> Nat] : IsRecursive(w, B, base, step, back)
  <2> HIDE DEF B, base, step, back
  <2> QED BY <1>2, Recursion
<1>4. w[1] = 1
  <2>1. w[1] = IF 1 \in B THEN base[1] ELSE step[1][w[back[1]]]
    BY <1>3 DEF IsRecursive
  <2> QED BY <2>1
<1>5. ASSUME NEW n \in Nat \ {0} PROVE w[n + 1] = Onward(t, w[n])
  <2>1. w[n + 1] = IF n + 1 \in B THEN base[n + 1] ELSE step[n + 1][w[back[n + 1]]]
    BY <1>3 DEF IsRecursive
  <2>2. n + 1 \notin B /\ back[n + 1] = n /\ step[n + 1] = onward
    <3> HIDE DEF onward
    <3> QED OBVIOUS
  <2>3. onward[w[n]] = Onward(t, w[n])
    BY <1>3
  <2> HIDE DEF B, base, step, back, onward
  <2> QED BY <2>1, <2>2, <2>3
<1>6. IsWalk(t, w)
  BY <1>3, <1>4, <1>5 DEF IsWalk
<1> QED BY <1>6, Zenon DEF Walk

\* A later character begins further on.
LEMMA WalkIncreases ==
  ASSUME NEW t, IsText(t), NEW m \in Nat \ {0}, NEW n \in Nat \ {0}, m < n
  PROVE  Walk(t)[m] < Walk(t)[n]
<1> DEFINE w == Walk(t)
           T == {k \in Nat : w[m] < w[m + k + 1]}
<1>1. /\ w \in [Nat -> Nat] /\ \A k \in Nat \ {0} : w[k + 1] = Onward(t, w[k])
  BY WalkIs DEF IsWalk
<1> HIDE DEF w
<1>2. ASSUME NEW k \in Nat \ {0} PROVE w[k] < w[k + 1]
  <2>1. \A p \in Nat : p < Onward(t, p)
    <3>1. EndOf(t) \in Nat
      BY DEF IsText, EndOf
    <3> QED BY <3>1 DEF Onward
  <2> QED BY <1>1, <2>1
<1>3. 0 \in T
  BY <1>2
<1>4. ASSUME NEW k \in Nat, k \in T PROVE k + 1 \in T
  <2>1. w[m + k + 1] < w[m + k + 1 + 1] /\ w[m] < w[m + k + 1]
    BY <1>2, <1>4
  <2>2. w[m] \in Nat /\ w[m + k + 1] \in Nat /\ w[m + k + 1 + 1] \in Nat
    BY <1>1
  <2>3. w[m] < w[m + k + 1 + 1]
    BY <2>1, <2>2
  <2>4. m + k + 1 + 1 = m + (k + 1) + 1
    OBVIOUS
  <2> QED BY <2>3, <2>4
<1> HIDE DEF T
<1>5. \A k \in Nat : k \in T
  BY <1>3, <1>4, Induction
<1>6. n - m - 1 \in Nat /\ m + (n - m - 1) + 1 = n
  OBVIOUS
<1>7. w[m] < w[n]
  BY <1>5, <1>6 DEF T
<1> QED BY <1>7 DEF w

\* On the walk, within the text, characters may begin.
LEMMA WalkBegins ==
  ASSUME NEW t, IsText(t), t.decoder # "base64", NEW n \in Nat \ {0},
         Walk(t)[n] <= Len(t.bytes)
  PROVE  /\ Begins(t, Walk(t)[n])
         /\ Walk(t)[n + 1] = Read(t, Walk(t)[n], EndOf(t)).c
         /\ Walk(t)[n + 1] \in (Walk(t)[n] + 1)..EndOf(t)
<1> DEFINE w == Walk(t)
           T == {k \in Nat : w[k + 1] <= Len(t.bytes) => Begins(t, w[k + 1])}
<1>1. /\ w \in [Nat -> Nat] /\ w[1] = 1
      /\ \A k \in Nat \ {0} : w[k + 1] = Onward(t, w[k])
  BY WalkIs DEF IsWalk
<1>2. Len(t.bytes) \in Nat
  BY DEF IsText
<1>3. \A k \in Nat \ {0} : w[k] < w[k + 1]
  BY WalkIncreases
<1> HIDE DEF w
<1>4. ASSUME NEW k \in Nat \ {0}, Begins(t, w[k])
      PROVE  /\ w[k + 1] = Read(t, w[k], EndOf(t)).c
             /\ w[k + 1] \in (w[k] + 1)..EndOf(t)
             /\ w[k + 1] <= Len(t.bytes) => Begins(t, w[k + 1])
  <2>1. /\ Read(t, w[k], EndOf(t)).c \in (w[k] + 1)..EndOf(t)
        /\ t.decoder \in {"utf-16be", "utf-16le"} => Read(t, w[k], EndOf(t)).c = w[k] + 2
    BY <1>4, ReadForward
  <2>2. w[k + 1] = Read(t, w[k], EndOf(t)).c
    BY <1>1, <2>1 DEF Onward
  <2>3. w[k + 1] <= Len(t.bytes) => Begins(t, w[k + 1])
    <3>1. w[k] \in 1..Len(t.bytes) /\ w[k + 1] \in Nat /\ w[k + 1] > w[k]
      BY <1>1, <1>3, <1>4 DEF Begins
    <3>2. \A a \in Nat : a % 2 = 1 => (a + 2) % 2 = 1
      OBVIOUS
    <3>3. t.decoder \in {"utf-16be", "utf-16le"} => w[k + 1] % 2 = 1
      BY <1>1, <1>4, <2>1, <2>2, <3>2 DEF Begins
    <3> QED BY <1>2, <3>1, <3>3 DEF Begins
  <2> QED BY <2>1, <2>2, <2>3
<1>5. 0 \in T
  <2>1. 0 + 1 = 1 /\ 1 % 2 = 1
    OBVIOUS
  <2>2. 1 <= Len(t.bytes) => Begins(t, 1)
    BY <1>2, <2>1 DEF Begins
  <2> QED BY <1>1, <2>1, <2>2
<1>6. ASSUME NEW k \in Nat, k \in T PROVE k + 1 \in T
  <2>1. SUFFICES ASSUME w[k + 1 + 1] <= Len(t.bytes) PROVE Begins(t, w[k + 1 + 1])
    OBVIOUS
  <2>2. w[k + 1] <= Len(t.bytes)
    <3>1. w[k + 1] \in Nat /\ w[k + 1 + 1] \in Nat /\ w[k + 1] < w[k + 1 + 1]
      <4>1. k + 1 \in Nat \ {0} /\ k + 1 \in Nat /\ k + 1 + 1 \in Nat
        OBVIOUS
      <4> QED BY <1>1, <1>3, <4>1
    <3> QED BY <1>2, <2>1, <3>1
  <2>3. Begins(t, w[k + 1])
    BY <1>6, <2>2
  <2>4. k + 1 \in Nat \ {0}
    OBVIOUS
  <2> QED BY <1>4, <2>1, <2>3, <2>4
<1> HIDE DEF T
<1>7. \A k \in Nat : k \in T
  BY <1>5, <1>6, Induction
<1>8. n - 1 \in Nat /\ (n - 1) + 1 = n
  OBVIOUS
<1>9. Begins(t, w[n])
  BY <1>7, <1>8 DEF T, w
<1> QED BY <1>4, <1>9 DEF w

-----------------------------------------------------------------------------
(* Iterators.                                                              *)

\* An iterator of a text is on the walk, and its range ends on the walk or with
\* the text; what it has decoded is what reading up to the end of the text reads.
OnWalk(t, it) ==
  /\ it.pos = Walk(t)[it.nth]
  /\ it.end = EndOf(t) \/ \E m \in Nat \ {0} : it.end = Walk(t)[m]
  /\ it.decoded => /\ it.ch = Read(t, it.pos, EndOf(t)).ch
                   /\ it.pos + it.delta = Read(t, it.pos, EndOf(t)).c

InText(t, it) ==
  /\ DOMAIN it = DOMAIN NoIterator
  /\ it.nth \in Nat \ {0} /\ it.pos \in Int /\ it.end \in Int
  /\ 1 <= it.pos /\ it.pos <= it.end /\ it.end <= EndOf(t)
  /\ it.decoded \in BOOLEAN
  /\ it.decoded => it.delta \in Int /\ it.pos + it.delta \in (it.pos + 1)..it.end
  /\ t.decoder # "base64" => OnWalk(t, it)

\* Decoding where an iterator is goes to the next character, within the range.
LEMMA DecodesOn ==
  ASSUME NEW t, IsText(t), NEW it, InText(t, it), it.pos # it.end, NEW last
  PROVE  LET d == Decode(t, last, it.begin, it.pos, it.end)
         IN /\ d.c \in (it.pos + 1)..it.end
            /\ t.decoder # "base64" => /\ d.ch = Read(t, it.pos, EndOf(t)).ch
                                       /\ d.c = Read(t, it.pos, EndOf(t)).c
                                       /\ d.c = Walk(t)[it.nth + 1]
<1> DEFINE d == Decode(t, last, it.begin, it.pos, it.end)
           far == EndOf(t)
<1>1. /\ it.pos \in Int /\ it.end \in Int /\ 1 <= it.pos /\ it.pos < it.end /\ it.end <= far
      /\ far \in Nat /\ far = Len(t.bytes) + 1 /\ it.nth \in Nat \ {0}
  BY DEF InText, IsText, EndOf
<1>2. CASE t.decoder = "base64"
  <2>1. d = Base64(t.bytes, last, it.begin, it.pos, it.end)
    BY <1>2 DEF Decode
  <2>2. d.c \in (it.pos + 1)..it.end
    BY <1>1, <2>1, Base64Forward
  <2> QED BY <1>2, <2>2
<1>3. CASE t.decoder # "base64"
  <2> DEFINE here == Read(t, it.pos, it.end)
             all  == Read(t, it.pos, far)
  <2>1. d.ch = here.ch /\ d.c = here.c
    BY <1>3 DEF Decode, Decoded
  <2>2. /\ it.pos = Walk(t)[it.nth]
        /\ it.end = far \/ \E m \in Nat \ {0} : it.end = Walk(t)[m]
    BY <1>3 DEF InText, OnWalk
  <2>3. Walk(t)[it.nth] <= Len(t.bytes)
    BY <1>1, <2>2
  <2>4. /\ Begins(t, it.pos) /\ Walk(t)[it.nth + 1] = all.c
        /\ Walk(t)[it.nth + 1] \in (it.pos + 1)..far
    BY <1>1, <1>3, <2>2, <2>3, WalkBegins
  <2>5. all.c <= it.end
    <3>1. CASE it.end = far
      BY <2>4, <3>1
    <3>2. ASSUME NEW m \in Nat \ {0}, it.end = Walk(t)[m]
          PROVE  Walk(t)[it.nth + 1] <= it.end
      <4>1. \A a \in Nat \ {0} : Walk(t)[a] \in Nat
        BY WalkIs DEF IsWalk
      <4>2. it.nth < m
        <5>1. m < it.nth => it.end < it.pos
          BY <1>1, <2>2, <3>2, WalkIncreases
        <5>2. m = it.nth => it.end = it.pos
          BY <2>2, <3>2
        <5> QED BY <1>1, <5>1, <5>2
      <4>3. it.nth + 1 \in Nat \ {0} /\ (it.nth + 1 < m \/ it.nth + 1 = m)
        BY <1>1, <4>2
      <4>4. it.nth + 1 < m => Walk(t)[it.nth + 1] < Walk(t)[m]
        BY <4>3, WalkIncreases
      <4> QED BY <3>2, <4>1, <4>3, <4>4
    <3> QED BY <2>2, <2>4, <3>1, <3>2
  <2>6. here = all
    <3>1. it.end \in 1..EndOf(t) /\ it.pos < it.end
      BY <1>1
    <3>2. Read(t, it.pos, EndOf(t)).c <= it.end
      BY <2>5
    <3> HIDE DEF far
    <3> QED BY <1>3, <2>4, <3>1, <3>2, SameRead DEF far
  <2> HIDE DEF d, here, all, far
  <2>7. d.c \in (it.pos + 1)..it.end
    BY <1>1, <2>1, <2>4, <2>5, <2>6
  <2> QED BY <2>1, <2>4, <2>6, <2>7 DEF d, here, all, far
<1> QED BY <1>2, <1>3

\* What is decoded there is what is read there.
LEMMA AsDecodedInText ==
  ASSUME NEW t, IsText(t), NEW it, InText(t, it), it.pos # it.end, NEW last
  PROVE  InText(t, AsDecoded(it, Decode(t, last, it.begin, it.pos, it.end)))
<1> DEFINE d == Decode(t, last, it.begin, it.pos, it.end)
           new == AsDecoded(it, d)
<1>1. /\ d.c \in (it.pos + 1)..it.end
      /\ t.decoder # "base64" => /\ d.ch = Read(t, it.pos, EndOf(t)).ch
                                 /\ d.c = Read(t, it.pos, EndOf(t)).c
  BY DecodesOn
<1> HIDE DEF d
<1>2. /\ DOMAIN new = DOMAIN NoIterator
      /\ new.pos = it.pos /\ new.end = it.end /\ new.nth = it.nth
      /\ new.decoded = TRUE /\ new.ch = d.ch /\ new.delta = d.c - it.pos
  BY DEF AsDecoded, InText, NoIterator
<1> HIDE DEF new
<1>3. it.pos \in Int /\ it.end \in Int
  BY DEF InText
<1>4. new.delta \in Int /\ new.pos + new.delta = d.c
  BY <1>1, <1>2, <1>3
<1>5. t.decoder # "base64" => OnWalk(t, new)
  BY <1>1, <1>2, <1>4 DEF InText, OnWalk
<1>6. InText(t, new)
  BY <1>1, <1>2, <1>4, <1>5 DEF InText
<1> QED BY <1>6 DEF new, d

\* At the next character an iterator is on the walk again.
LEMMA GoneToInText ==
  ASSUME NEW t, IsText(t), NEW it, InText(t, it), NEW c \in (it.pos + 1)..it.end,
         t.decoder # "base64" => c = Walk(t)[it.nth + 1]
  PROVE  InText(t, GoneTo(it, c))
<1> DEFINE new == GoneTo(it, c)
<1>1. /\ DOMAIN new = DOMAIN NoIterator
      /\ new.pos = c /\ new.end = it.end /\ new.nth = it.nth + 1 /\ new.decoded = FALSE
  BY DEF GoneTo, InText, NoIterator
<1> HIDE DEF new
<1>2. t.decoder # "base64" => OnWalk(t, new)
  BY <1>1 DEF InText, OnWalk
<1>3. /\ new.nth \in Nat \ {0} /\ new.pos \in Int /\ new.end \in Int
      /\ 1 <= new.pos /\ new.pos <= new.end /\ new.end <= EndOf(t)
  BY <1>1 DEF InText
<1>4. InText(t, new)
  BY <1>1, <1>2, <1>3 DEF InText
<1> QED BY <1>4 DEF new

\* A range that begins where an iterator is, and ends where another one is or ends
LEMMA BeginOfInText ==
  ASSUME NEW t, IsText(t), NEW pos \in Int, NEW end \in Int, NEW nth \in Nat \ {0},
         1 <= pos, pos <= end, end <= EndOf(t),
         t.decoder # "base64" =>
           /\ pos = Walk(t)[nth]
           /\ end = EndOf(t) \/ \E m \in Nat \ {0} : end = Walk(t)[m]
  PROVE  InText(t, BeginOf(pos, end, nth))
<1> DEFINE new == BeginOf(pos, end, nth)
<1>1. /\ DOMAIN new = DOMAIN NoIterator
      /\ new.pos = pos /\ new.end = end /\ new.nth = nth /\ new.decoded = FALSE
  BY DEF BeginOf, NoIterator
<1> HIDE DEF new
<1>2. t.decoder # "base64" => OnWalk(t, new)
  BY <1>1 DEF OnWalk
<1>3. InText(t, new)
  BY <1>1, <1>2 DEF InText
<1> QED BY <1>3 DEF new

-----------------------------------------------------------------------------
(* The specification.                                                      *)

DecodedInv ==
  /\ text \in Texts \cup {NoText} /\ IsText(text)
  /\ DOMAIN iterators = Iterators
  /\ \A i \in Iterators : iterators[i] # NoIterator => InText(text, iterators[i])

\* There is no iterator at first.
LEMMA DecodedInit ==
  ASSUME Init
  PROVE  DecodedInv
<1>1. IsText(NoText)
  BY DEF IsText, NoText, Decoders
<1> QED BY <1>1 DEF Init, DecodedInv

\* An iterator that has not come to its end is one of the text.
LEMMA ReadsInText ==
  ASSUME DecodedInv, NEW i \in Iterators, Reads(i)
  PROVE  InText(text, iterators[i]) /\ iterators[i].pos # iterators[i].end
<1>1. NoIterator.pos = NoIterator.end
  BY DEF NoIterator
<1> QED BY <1>1 DEF DecodedInv, Reads, AtEnd

\* Where an iterator goes on to
LEMMA GoesOnTo ==
  ASSUME DecodedInv, NEW i \in Iterators, Reads(i), NEW last
  PROVE  LET it == iterators[i]
         IN /\ InText(text, GoneTo(it, DecodeAt(it, last).c))
            /\ InText(text, AsDecoded(it, DecodeAt(it, last)))
            /\ DecodeAt(it, last).c \in (it.pos + 1)..it.end
            /\ it.decoded => /\ it.pos + it.delta \in (it.pos + 1)..it.end
                             /\ InText(text, GoneTo(it, it.pos + it.delta))
<1> DEFINE it == iterators[i]
           d == DecodeAt(it, last)
<1>1. IsText(text) /\ InText(text, it) /\ it.pos # it.end
  BY ReadsInText DEF DecodedInv
<1> HIDE DEF it
<1>2. d = Decode(text, last, it.begin, it.pos, it.end)
  BY DEF DecodeAt
<1>3. /\ d.c \in (it.pos + 1)..it.end
      /\ text.decoder # "base64" => /\ d.c = Walk(text)[it.nth + 1]
                                    /\ d.c = Read(text, it.pos, EndOf(text)).c
  BY <1>1, <1>2, DecodesOn
<1>4. InText(text, AsDecoded(it, d))
  BY <1>1, <1>2, AsDecodedInText
<1> HIDE DEF d
<1>5. InText(text, GoneTo(it, d.c))
  BY <1>1, <1>3, GoneToInText
<1>6. ASSUME it.decoded
      PROVE  /\ it.pos + it.delta \in (it.pos + 1)..it.end
             /\ InText(text, GoneTo(it, it.pos + it.delta))
  <2>1. it.pos + it.delta \in (it.pos + 1)..it.end
    BY <1>1, <1>6 DEF InText
  <2>2. text.decoder # "base64" => it.pos + it.delta = Walk(text)[it.nth + 1]
    BY <1>1, <1>3, <1>6 DEF InText, OnWalk
  <2> QED BY <1>1, <2>1, <2>2, GoneToInText
<1> QED BY <1>3, <1>4, <1>5, <1>6 DEF it, d

\* What iterators become in a step of one, which the others take no part in
LEMMA IncrementGoes ==
  ASSUME DecodedInv, NEW i \in Iterators, Increment(i)
  PROVE  \E c \in (iterators[i].pos + 1)..iterators[i].end :
           /\ InText(text, GoneTo(iterators[i], c))
           /\ iterators' = [iterators EXCEPT ![i] = GoneTo(@, c)]
<1> DEFINE it == iterators[i]
<1>1. Reads(i)
  BY DEF Increment
<1>2. PICK d : /\ d = IF it.decoded THEN Decoded(it.ch, it.pos + it.delta, group)
                      ELSE DecodeAt(it, group)
               /\ iterators' = [iterators EXCEPT ![i] = GoneTo(@, d.c)]
  BY DEF Increment
<1>3. Decoded(it.ch, it.pos + it.delta, group).c = it.pos + it.delta
  BY DEF Decoded
<1>4. d.c \in (it.pos + 1)..it.end /\ InText(text, GoneTo(it, d.c))
  <2>1. CASE it.decoded
    <3>1. d.c = it.pos + it.delta
      BY <1>2, <1>3, <2>1
    <3> QED BY <1>1, <2>1, <3>1, GoesOnTo
  <2>2. CASE ~it.decoded
    <3>1. d = DecodeAt(it, group)
      BY <1>2, <2>2
    <3> QED BY <1>1, <3>1, GoesOnTo
  <2> QED BY <2>1, <2>2
<1> QED BY <1>2, <1>4

\* *c++ takes the iterator forward in its range, and leaves a copy where it was.
LEMMA PostIncrementGoes ==
  ASSUME DecodedInv, NEW i \in Iterators, NEW j \in Iterators, PostIncrement(i, j)
  PROVE  \E new : \E c \in (iterators[i].pos + 1)..iterators[i].end :
           /\ i # j /\ InText(text, GoneTo(iterators[i], c)) /\ InText(text, new)
           /\ iterators' = [iterators EXCEPT ![i] = GoneTo(iterators[i], c), ![j] = new]
<1> DEFINE it == iterators[i]
           first == DecodeAt(it, group)
           again == DecodeAt(it, first.group)
<1>1. /\ Reads(i) /\ i # j
      /\ iterators' = [iterators EXCEPT ![i] = GoneTo(it, first.c), ![j] = AsDecoded(it, again)]
  BY DEF PostIncrement
<1>2. /\ first.c \in (it.pos + 1)..it.end /\ InText(text, GoneTo(it, first.c))
      /\ InText(text, AsDecoded(it, again))
  BY <1>1, GoesOnTo
<1> HIDE DEF first, again
<1> QED BY <1>1, <1>2

\* Begin: the first iterator is at the beginning of a new text.
LEMMA DecodedBegin ==
  ASSUME WholeTexts, NEW t \in Texts, Begin(t)
  PROVE  DecodedInv'
<1>1. IsText(t)
  BY TextAssumption DEF WholeTexts, IsText
<1>2. InText(t, BeginOf(1, Len(t.bytes) + 1, 1))
  <2>1. Walk(t)[1] = 1 /\ EndOf(t) = Len(t.bytes) + 1 /\ Len(t.bytes) \in Nat
    <3>1. Walk(t)[1] = 1
      BY <1>1, WalkIs DEF IsWalk
    <3>2. Len(t.bytes) \in Nat
      BY <1>1 DEF IsText
    <3> QED BY <3>1, <3>2 DEF EndOf
  <2> QED BY <1>1, <2>1, BeginOfInText
<1>3. /\ text' = t
      /\ iterators' = [i \in Iterators |->
           IF i = FirstIterator THEN BeginOf(1, Len(t.bytes) + 1, 1) ELSE NoIterator]
  BY DEF Begin
<1> QED BY <1>1, <1>2, <1>3 DEF DecodedInv

\* Steps of iterators
LEMMA DecodedDereference ==
  ASSUME DecodedInv, NEW i \in Iterators, Dereference(i)
  PROVE  DecodedInv'
<1>1. Reads(i)
  BY DEF Dereference
<1>2. InText(text, AsDecoded(iterators[i], DecodeAt(iterators[i], group)))
  BY <1>1, GoesOnTo
<1>3. /\ iterators' = [iterators EXCEPT ![i] =
                        AsDecoded(iterators[i], DecodeAt(iterators[i], group))]
      /\ text' = text
  BY DEF Dereference
<1> QED BY <1>2, <1>3 DEF DecodedInv

\* A step to the next character stays on the walk.
LEMMA DecodedIncrement ==
  ASSUME DecodedInv, NEW i \in Iterators, Increment(i)
  PROVE  DecodedInv'
<1>1. PICK c : /\ InText(text, GoneTo(iterators[i], c))
               /\ iterators' = [iterators EXCEPT ![i] = GoneTo(@, c)]
  BY IncrementGoes
<1>2. text' = text
  BY DEF Increment
<1> QED BY <1>1, <1>2 DEF DecodedInv

\* So does one that leaves a copy.
LEMMA DecodedPostIncrement ==
  ASSUME DecodedInv, NEW i \in Iterators, NEW j \in Iterators, PostIncrement(i, j)
  PROVE  DecodedInv'
<1>1. PICK c, new : /\ InText(text, GoneTo(iterators[i], c)) /\ InText(text, new)
                    /\ iterators' = [iterators EXCEPT ![i] = GoneTo(iterators[i], c), ![j] = new]
  BY PostIncrementGoes
<1>2. text' = text
  BY DEF PostIncrement
<1> QED BY <1>1, <1>2 DEF DecodedInv

\* A copy, and a range within an iterator's range
LEMMA DecodedCopy ==
  ASSUME DecodedInv, NEW i \in Iterators, NEW j \in Iterators, Copy(i, j)
  PROVE  DecodedInv'
BY DEF DecodedInv, Copy

\* A range between two places of the walk.
LEMMA DecodedRange ==
  ASSUME DecodedInv, NEW i \in Iterators, NEW j \in Iterators, NEW k \in Iterators, NEW end,
         end = iterators[k].end \/ end = iterators[k].pos, RangeFrom(i, end, j)
  PROVE  DecodedInv'
<1> DEFINE it == iterators[i]
           other == iterators[k]
<1>1. /\ it # NoIterator /\ it.pos <= end /\ text' = text
      /\ iterators' = [iterators EXCEPT ![j] = BeginOf(it.pos, end, it.nth)]
  BY DEF RangeFrom
<1>2. InText(text, it) /\ IsText(text)
  BY <1>1 DEF DecodedInv
<1>3. other # NoIterator
  <2>1. NoIterator.pos = 0 /\ NoIterator.end = 0
    BY DEF NoIterator
  <2>2. it.pos \in Int /\ 1 <= it.pos
    BY <1>2 DEF InText
  <2> HIDE DEF it
  <2> QED BY <1>1, <2>1, <2>2
<1>4. InText(text, other)
  BY <1>3 DEF DecodedInv
<1>5. /\ end \in Int /\ end <= EndOf(text)
      /\ text.decoder # "base64" =>
           end = EndOf(text) \/ \E m \in Nat \ {0} : end = Walk(text)[m]
  <2>1. EndOf(text) \in Nat
    BY <1>2 DEF IsText, EndOf
  <2>2. CASE end = other.end
    BY <1>4, <2>2 DEF InText, OnWalk
  <2>3. CASE end = other.pos
    BY <1>4, <2>1, <2>3 DEF InText, OnWalk
  <2> QED BY <2>2, <2>3
<1>6. InText(text, BeginOf(it.pos, end, it.nth))
  <2>1. /\ it.pos \in Int /\ it.nth \in Nat \ {0} /\ 1 <= it.pos
        /\ text.decoder # "base64" => it.pos = Walk(text)[it.nth]
    BY <1>2 DEF InText, OnWalk
  <2> HIDE DEF it
  <2> QED BY <1>1, <1>2, <1>5, <2>1, BeginOfInText
<1> QED BY <1>1, <1>6 DEF DecodedInv

\* The invariant.
LEMMA DecodedStep ==
  ASSUME WholeTexts, DecodedInv, [Next]_vars
  PROVE  DecodedInv'
<1>1. CASE UNCHANGED vars
  BY <1>1 DEF vars, DecodedInv
<1>2. ASSUME NEW t \in Texts, Begin(t) PROVE DecodedInv'
  BY <1>2, DecodedBegin
<1>3. ASSUME NEW i \in Iterators, Dereference(i) \/ Increment(i) PROVE DecodedInv'
  BY <1>3, DecodedDereference, DecodedIncrement
<1>4. ASSUME NEW i \in Iterators, NEW j \in Iterators,
             PostIncrement(i, j) \/ Copy(i, j) \/ RangeFrom(i, iterators[i].end, j)
      PROVE  DecodedInv'
  BY <1>4, DecodedPostIncrement, DecodedCopy, DecodedRange
<1>5. ASSUME NEW i \in Iterators, NEW j \in Iterators, NEW k \in Iterators,
             RangeFrom(i, iterators[k].pos, j)
      PROVE  DecodedInv'
  BY <1>5, DecodedRange
<1> QED BY <1>1, <1>2, <1>3, <1>4, <1>5 DEF Next

\* An iterator that goes on to the next character, in whatever text that has no
\* half characters of UTF-16 (TLC finds that it stays before one), with whatever
\* decoder, goes forward within its range: for any texts, iterators, copies of
\* them and ranges within their ranges.
THEOREM GoesForward ==
  ASSUME WholeTexts
  PROVE  Spec => StepsForward
<1>1. Init => DecodedInv
  BY DecodedInit
<1>2. DecodedInv /\ [Next]_vars => DecodedInv'
  BY DecodedStep
<1>3. DecodedInv /\ [Next]_vars =>
        [\A i \in Iterators : GoesOn(i) =>
           /\ iterators[i].pos < iterators'[i].pos
           /\ iterators'[i].pos <= iterators[i].end]_vars
  <2> SUFFICES ASSUME DecodedInv, NEW i \in Iterators, GoesOn(i)
               PROVE  /\ iterators[i].pos < iterators'[i].pos
                      /\ iterators'[i].pos <= iterators[i].end
    OBVIOUS
  <2> DEFINE it == iterators[i]
  <2>1. \E c \in (it.pos + 1)..it.end :
          InText(text, GoneTo(it, c)) /\ iterators'[i] = GoneTo(it, c)
    <3>1. CASE Increment(i)
      BY <3>1, IncrementGoes DEF DecodedInv
    <3>2. ASSUME NEW j \in Iterators, PostIncrement(i, j)
          PROVE  \E c \in (it.pos + 1)..it.end :
                   InText(text, GoneTo(it, c)) /\ iterators'[i] = GoneTo(it, c)
      BY <3>2, PostIncrementGoes DEF DecodedInv
    <3> QED BY <3>1, <3>2 DEF GoesOn
  <2>2. it.pos \in Int /\ it.end \in Int /\ DOMAIN it = DOMAIN NoIterator
    <3>1. Reads(i)
      BY DEF GoesOn, Increment, PostIncrement
    <3> QED BY <3>1, ReadsInText DEF InText
  <2>3. \A c : GoneTo(it, c).pos = c
    BY <2>2 DEF GoneTo, NoIterator
  <2> HIDE DEF it
  <2> QED BY <2>1, <2>2, <2>3 DEF it
<1> QED BY <1>1, <1>2, <1>3, PTL DEF Spec, StepsForward

-----------------------------------------------------------------------------
(* The characters that were encoded.                                       *)

\* The walk through a text whose characters are known goes to each of them.
LEMMA WalkToChars ==
  ASSUME ReadStraight, NEW t \in Texts, IsText(t), t.known, t.decoder # "base64",
         NEW n \in 1..(Len(t.chars) + 1)
  PROVE  Walk(t)[n] = CharAt(t, n)
<1> DEFINE w == Walk(t)
           T == {k \in Nat : k \in 1..(Len(t.chars) + 1) => w[k] = CharAt(t, k)}
<1>1. /\ HasChars(t)
      /\ t.chars \in Seq([ch : Int, at : Nat]) /\ CharAt(t, 1) = 1
      /\ \A k \in DOMAIN t.chars :
           /\ t.chars[k].at <= Len(t.bytes)
           /\ Read(t, t.chars[k].at, Len(t.bytes) + 1) = Char(t.chars[k].ch, CharAt(t, k + 1))
  BY DEF ReadStraight, HasChars
<1>2. Len(t.chars) \in Nat /\ DOMAIN t.chars = 1..Len(t.chars)
  BY <1>1
<1>3. 0 \in T
  OBVIOUS
<1>4. ASSUME NEW k \in Nat, k \in T PROVE k + 1 \in T
  <2> SUFFICES ASSUME k + 1 \in 1..(Len(t.chars) + 1) PROVE w[k + 1] = CharAt(t, k + 1)
    OBVIOUS
  <2>1. CASE k = 0
    BY <1>1, <2>1, WalkIs DEF IsWalk
  <2>2. CASE k # 0
    <3>1. k \in 1..Len(t.chars) /\ k \in 1..(Len(t.chars) + 1) /\ k \in Nat \ {0}
      BY <1>2, <2>2
    <3>2. w[k] = t.chars[k].at /\ w[k] <= Len(t.bytes)
      <4>1. w[k] = CharAt(t, k)
        BY <1>4, <3>1
      <4>2. CharAt(t, k) = t.chars[k].at
        BY <1>2, <3>1 DEF CharAt
      <4> HIDE DEF w
      <4> QED BY <1>1, <1>2, <3>1, <4>1, <4>2
    <3>3. w[k + 1] = Read(t, w[k], EndOf(t)).c
      BY <3>1, <3>2, WalkBegins
    <3>4. Read(t, w[k], EndOf(t)) = Char(t.chars[k].ch, CharAt(t, k + 1))
      BY <1>1, <1>2, <3>1, <3>2 DEF EndOf
    <3> HIDE DEF w
    <3> QED BY <3>3, <3>4 DEF Char
  <2> QED BY <2>1, <2>2
<1> HIDE DEF T, w
<1>5. \A k \in Nat : k \in T
  BY <1>3, <1>4, Induction
<1> QED BY <1>2, <1>5 DEF T, w

\* Iterators on the walk of a text that is read straight read what was encoded.
LEMMA ReadsEncoded ==
  ASSUME ReadStraight, DecodedInv, text.decoder # "base64"
  PROVE  ReadsWhatWasEncoded
<1> SUFFICES ASSUME NEW i \in Iterators, text.known, iterators[i] # NoIterator
             PROVE  /\ iterators[i].pos = CharAt(text, iterators[i].nth)
                    /\ iterators[i].decoded =>
                         iterators[i].ch = text.chars[iterators[i].nth].ch
  BY DEF ReadsWhatWasEncoded
<1> DEFINE it == iterators[i]
           t == text
           n == it.nth
<1>1. text \in Texts /\ IsText(t) /\ InText(t, it)
  BY DEF DecodedInv, NoText
<1>2. /\ t.chars \in Seq([ch : Int, at : Nat])
      /\ \A k \in DOMAIN t.chars :
           Read(t, t.chars[k].at, Len(t.bytes) + 1) = Char(t.chars[k].ch, CharAt(t, k + 1))
  BY <1>1 DEF ReadStraight, HasChars
<1>3. Len(t.chars) \in Nat /\ DOMAIN t.chars = 1..Len(t.chars) /\ Len(t.bytes) \in Nat
  BY <1>1, <1>2 DEF IsText
<1>4. /\ n \in Nat \ {0} /\ it.pos = Walk(t)[n] /\ it.pos \in Int
      /\ it.pos <= EndOf(t)
      /\ it.decoded => it.pos < EndOf(t) /\ it.ch = Read(t, it.pos, EndOf(t)).ch
  <2>1. EndOf(t) \in Nat
    BY <1>3 DEF EndOf
  <2> HIDE DEF it, t
  <2> QED BY <1>1, <2>1 DEF InText, OnWalk, t
<1>5. \A k \in 1..(Len(t.chars) + 1) : Walk(t)[k] = CharAt(t, k)
  BY <1>1, WalkToChars
<1>6. Walk(t)[Len(t.chars) + 1] = EndOf(t)
  BY <1>3, <1>5 DEF CharAt, EndOf
<1>7. n <= Len(t.chars) + 1
  <2>1. Len(t.chars) + 1 < n => EndOf(t) < it.pos
    BY <1>1, <1>3, <1>4, <1>6, WalkIncreases
  <2>2. EndOf(t) \in Nat
    BY <1>3 DEF EndOf
  <2> QED BY <1>3, <1>4, <2>1, <2>2
<1>8. it.pos = CharAt(t, n)
  BY <1>3, <1>4, <1>5, <1>7
<1>9. ASSUME it.decoded PROVE it.ch = t.chars[n].ch
  <2>1. n \in 1..Len(t.chars)
    <3>1. EndOf(t) \in Nat
      BY <1>3 DEF EndOf
    <3>2. n # Len(t.chars) + 1
      BY <1>4, <1>6, <1>9, <3>1
    <3> QED BY <1>3, <1>4, <1>7, <3>2
  <2>2. it.pos = t.chars[n].at
    BY <1>3, <1>8, <2>1 DEF CharAt
  <2>3. Read(t, it.pos, EndOf(t)) = Char(t.chars[n].ch, CharAt(t, n + 1))
    BY <1>2, <1>3, <2>1, <2>2 DEF EndOf
  <2>4. it.ch = Read(t, it.pos, EndOf(t)).ch
    BY <1>4, <1>9
  <2> HIDE DEF it, t, n
  <2> QED BY <2>3, <2>4 DEF Char
<1> QED BY <1>8, <1>9

-----------------------------------------------------------------------------
(* The characters that were encoded, in Base64.                            *)

\* Where the decoder finds the group it remembers, and where it decodes one
LEMMA Base64Is ==
  ASSUME NEW b, NEW last, NEW begin \in Int, NEW c \in Int, NEW end \in Int
  PROVE  /\ c - last.prevC \in 0..2 =>
              Base64(b, last, begin, c, end)
              = Decoded(last.buf[c - last.prevC + 1], AfterDecoded(c, end, c - last.prevC), last)
         /\ c - last.prevC \notin 0..2 /\ SkipNewline(b, c, end) = end =>
              Base64(b, last, begin, c, end) = Decoded(Space, end, last)
         /\ \A g \in Int :
              /\ c - last.prevC \notin 0..2 /\ SkipNewline(b, c, end) = g /\ g + 3 < end
              /\ g = c /\ c > begin => (g - LineBegin(b, begin, g)) % 4 = 0
              => Base64(b, last, begin, c, end)
                 = LET new == [prevC |-> g, buf |-> Group(b, g)]
                   IN Decoded(new.buf[1], AfterDecoded(g, end, 0), new)
<1> DEFINE start == SkipNewline(b, c, end)
           line  == IF start = c /\ c > begin THEN LineBegin(b, begin, c) ELSE start
           delta == (start - line) % 4
           first == start - delta
           new   == [prevC |-> start, buf |-> Group(b, first)]
           known == c - last.prevC
           cut   == start = end \/ end \in (first + 1)..(first + 3)
<1>1. Base64(b, last, begin, c, end) =
        CASE known \in 0..2 -> Decoded(last.buf[known + 1], AfterDecoded(c, end, known), last)
          [] known \notin 0..2 /\ cut -> Decoded(Space, end, last)
          [] OTHER -> Decoded(new.buf[delta + 1], AfterDecoded(start, end, delta), new)
  BY Zenon DEF Base64
<1>2. ASSUME known \in 0..2
      PROVE  Base64(b, last, begin, c, end)
             = Decoded(last.buf[known + 1], AfterDecoded(c, end, known), last)
  <2> HIDE DEF known, cut, new, delta, start
  <2> QED BY <1>1, <1>2, Zenon
<1>3. ASSUME known \notin 0..2, start = end
      PROVE  Base64(b, last, begin, c, end) = Decoded(Space, end, last)
  <2>1. cut
    BY <1>3
  <2> HIDE DEF known, cut, new, delta, start
  <2> QED BY <1>1, <1>3, <2>1, Zenon
<1>4. ASSUME known \notin 0..2, start \in Int, start + 3 < end,
             start = c /\ c > begin => (start - LineBegin(b, begin, start)) % 4 = 0
      PROVE  Base64(b, last, begin, c, end)
             = LET group1 == [prevC |-> start, buf |-> Group(b, start)]
               IN Decoded(group1.buf[1], AfterDecoded(start, end, 0), group1)
  <2>1. delta = 0
    <3>1. CASE start = c /\ c > begin
      <4>1. line = LineBegin(b, begin, start)
        BY <3>1
      <4> HIDE DEF line, start
      <4> QED BY <1>4, <3>1, <4>1
    <3>2. CASE ~(start = c /\ c > begin)
      <4>1. line = start
        BY <3>2
      <4> HIDE DEF line, start
      <4> QED BY <1>4, <4>1
    <3> QED BY <3>1, <3>2
  <2>2. first = start
    <3> HIDE DEF delta, start
    <3> QED BY <1>4, <2>1
  <2>3. ~cut
    <3> HIDE DEF first, start
    <3> QED BY <1>4, <2>2
  <2>4. delta + 1 = 1
    <3> HIDE DEF delta
    <3> QED BY <2>1
  <2>5. new = [prevC |-> start, buf |-> Group(b, start)]
    <3> HIDE DEF first, start
    <3> QED BY <2>2
  <2>6. Base64(b, last, begin, c, end)
          = Decoded(new.buf[delta + 1], AfterDecoded(start, end, delta), new)
    <3> HIDE DEF known, cut, new, delta, start
    <3> QED BY <1>1, <1>4, <2>3, Zenon
  <2> HIDE DEF new, delta, start
  <2> QED BY <2>1, <2>4, <2>5, <2>6, Zenon
<1> QED BY <1>2, <1>3, <1>4

\* A character of the group decoded last is taken from it.
LEMMA Base64Remembers ==
  ASSUME NEW b, NEW last, NEW begin \in Int, NEW c \in Int, NEW end \in Int, NEW known \in 0..2,
         c - last.prevC = known
  PROVE  Base64(b, last, begin, c, end)
         = Decoded(last.buf[known + 1], AfterDecoded(c, end, known), last)
<1>1. Base64(b, last, begin, c, end)
        = Decoded(last.buf[(c - last.prevC) + 1], AfterDecoded(c, end, c - last.prevC), last)
  <2>1. c - last.prevC \in 0..2
    OBVIOUS
  <2> QED BY <2>1, Base64Is
<1> QED BY <1>1

\* A line break at the end of the range is read as a space.
LEMMA Base64Ends ==
  ASSUME NEW b, NEW last, NEW begin \in Int, NEW c \in Int, NEW end \in Int,
         c - last.prevC \notin 0..2, SkipNewline(b, c, end) = end
  PROVE  Base64(b, last, begin, c, end) = Decoded(Space, end, last)
<1>1. c - last.prevC \notin 0..2 /\ SkipNewline(b, c, end) = end =>
        Base64(b, last, begin, c, end) = Decoded(Space, end, last)
  BY Base64Is
<1> QED BY <1>1

\* At the beginning of another group, that is decoded and becomes the last.
LEMMA Base64Decodes ==
  ASSUME NEW b, NEW last, NEW c \in Int, NEW end \in Int, NEW g \in Int,
         c - last.prevC \notin 0..2, SkipNewline(b, c, end) = g, g + 3 < end,
         g = c /\ c > 1 => (g - LineBegin(b, 1, g)) % 4 = 0
  PROVE  LET new == [prevC |-> g, buf |-> Group(b, g)]
         IN Base64(b, last, 1, c, end) = Decoded(new.buf[1], AfterDecoded(g, end, 0), new)
<1>1. 1 \in Int
  OBVIOUS
<1> QED BY <1>1, Base64Is

\* What is known of the group decoded last where the n-th character is read: from
\* the second character of a group on it is that group, and before its first
\* character nothing of it is taken for that character.
GroupFor(t, n, last) ==
  /\ last.prevC \in Int
  /\ \E k \in Nat :
       LET c == CharAt(t, 3 * k + 1)
           g == SkipNewline(t.bytes, c, EndOf(t))
           isGroup == last.prevC = g /\ last.buf = Group(t.bytes, g)
       IN \/ n = 3 * k + 1 /\ (c - last.prevC \notin 0..2 \/ isGroup)
          \/ n \in {3 * k + 2, 3 * k + 3} /\ isGroup

Ready(t, n, last) == n \in DOMAIN t.chars => GroupFor(t, n, last)

\* What HasChars and InGroup say of one text
Grouped(t) ==
  /\ HasChars(t)
  /\ \A k \in 0..Len(t.chars) : 3 * k + 1 \in DOMAIN t.chars => InGroup(t, k)

\* When the group of a character was decoded last, its three are read from there.
LEMMA GroupReady ==
  ASSUME NEW t, NEW k \in Nat, NEW last, last.prevC \in Int,
         last.prevC = SkipNewline(t.bytes, CharAt(t, 3 * k + 1), EndOf(t)),
         last.buf = Group(t.bytes, last.prevC)
  PROVE  \A i \in 1..3 : Ready(t, 3 * k + i, last)
<1>1. \A i \in 1..3 : i = 1 \/ i = 2 \/ i = 3
  OBVIOUS
<1> QED BY <1>1 DEF Ready, GroupFor

\* The first character of a group, or a line break at the end
LEMMA FirstOfGroup ==
  ASSUME NEW t, IsText(t), t.decoder = "base64", Grouped(t), NEW k \in Nat,
         3 * k + 1 \in DOMAIN t.chars, NEW last, GroupFor(t, 3 * k + 1, last)
  PROVE  LET n == 3 * k + 1
             d == Decode(t, last, 1, CharAt(t, n), EndOf(t))
         IN /\ d.ch = t.chars[n].ch /\ d.c = CharAt(t, n + 1)
            /\ Ready(t, n, d.group) /\ Ready(t, n + 1, d.group)
<1> DEFINE n == 3 * k + 1
           c == CharAt(t, n)
           b == t.bytes
           end == EndOf(t)
           g == SkipNewline(b, c, end)
           new == [prevC |-> g, buf |-> Group(b, g)]
           d == Decode(t, last, 1, c, end)
<1>1. d = Base64(b, last, 1, c, end)
  BY DEF Decode
<1>2. /\ Len(t.chars) \in Nat /\ DOMAIN t.chars = 1..Len(t.chars) /\ n \in Nat
      /\ Len(b) \in Nat /\ end = Len(b) + 1
      /\ t.chars \in Seq([ch : Int, at : Nat])
  BY DEF Grouped, HasChars, IsText, EndOf
<1>3. c \in Nat
  <2>1. n \in DOMAIN t.chars /\ n <= Len(t.chars)
    BY <1>2
  <2> HIDE DEF n
  <2>2. t.chars[n] \in [ch : Int, at : Nat]
    <3>1. \A S, f : f \in Seq(S) => \A j \in DOMAIN f : f[j] \in S
      OBVIOUS
    <3> QED BY <1>2, <2>1, <3>1, Zenon
  <2>3. c = t.chars[n].at
    BY <2>1 DEF CharAt
  <2> QED BY <2>2, <2>3
<1>4. InGroup(t, k)
  <2>1. k \in 0..Len(t.chars)
    BY <1>2
  <2> QED BY <2>1 DEF Grouped
<1>5. c <= Len(b) /\ g \in c..end
  <2>1. c <= Len(b)
    BY <1>4 DEF InGroup
  <2> HIDE DEF c, b, end
  <2> QED BY <1>2, <1>3, <2>1, SkippedWithin
<1>6. last.prevC \in Int /\ (c - last.prevC \notin 0..2 \/ last.prevC = g)
  <2>1. \A i \in Nat : 3 * k + 1 = 3 * i + 1 => i = k
    OBVIOUS
  <2>2. \A i \in Nat : 3 * k + 1 \notin {3 * i + 2, 3 * i + 3}
    OBVIOUS
  <2> QED BY <2>1, <2>2, Zenon DEF GroupFor
<1>7. last.prevC = g /\ ~(c - last.prevC \notin 0..2) => last.buf = Group(b, g)
  <2>1. \A i \in Nat : 3 * k + 1 = 3 * i + 1 => i = k
    OBVIOUS
  <2>2. \A i \in Nat : 3 * k + 1 \notin {3 * i + 2, 3 * i + 3}
    OBVIOUS
  <2> QED BY <2>1, <2>2, Zenon DEF GroupFor
<1>8. \/ g = end /\ Len(t.chars) = n /\ t.chars[n].ch = Space
      \/ /\ g + 3 < end /\ n + 1 <= Len(t.chars)
         /\ g = c /\ c > 1 => (g - LineBegin(b, 1, g)) % 4 = 0
         /\ t.chars[n].ch = Group(b, g)[1] /\ CharAt(t, n + 1) = g + 1
  <2>1. 1 \in 1..3 /\ n + 1 = 3 * k + 2
    OBVIOUS
  <2>2. EndOf(t) = Len(t.bytes) + 1
    BY DEF EndOf
  <2>3. \/ g = end /\ Len(t.chars) = n /\ t.chars[n].ch = Space
        \/ /\ g + 3 <= Len(b) /\ 3 * k + 3 <= Len(t.chars)
           /\ c = g /\ c > 1 => (g - LineBegin(b, 1, g)) % 4 = 0
           /\ \A i \in 1..3 : t.chars[3 * k + i].ch = Group(b, g)[i]
           /\ CharAt(t, 3 * k + 2) = g + 1
    BY <1>4, <2>2, Zenon DEF InGroup
  <2> HIDE DEF g, b, c
  <2>4. g + 3 <= Len(b) => g + 3 < end
    BY <1>2, <1>5
  <2>5. ASSUME \A i \in 1..3 : t.chars[3 * k + i].ch = Group(b, g)[i]
        PROVE  t.chars[n].ch = Group(b, g)[1]
    BY <2>1, <2>5
  <2>6. 3 * k + 3 <= Len(t.chars) => n + 1 <= Len(t.chars)
    BY <1>2
  <2> HIDE DEF n
  <2> QED BY <2>1, <2>3, <2>4, <2>5, <2>6
<1>9. /\ \A ch, p, l : /\ Decoded(ch, p, l).ch = ch /\ Decoded(ch, p, l).c = p
                       /\ Decoded(ch, p, l).group = l
      /\ \A p \in Int : AfterDecoded(p, end, 0) = p + 1
  BY DEF Decoded, AfterDecoded
<1> HIDE DEF d, g
<1>10. CASE c - last.prevC \in 0..2
  <2>1. g = c /\ last.prevC = c /\ c - last.prevC = 0 /\ g + 3 < end
    <3>1. last.prevC = g
      BY <1>6, <1>10
    <3> HIDE DEF c, b, end
    <3>2. g = c /\ c - last.prevC = 0
      BY <1>2, <1>3, <1>5, <1>10, <3>1
    <3>3. g # end
      BY <1>2, <1>5, <3>2
    <3> QED BY <1>8, <3>1, <3>2, <3>3
  <2>2. last.buf = Group(b, g)
    BY <1>7, <1>10, <2>1
  <2>3. d = Decoded(last.buf[1], AfterDecoded(c, end, 0), last)
    <3>1. 0 + 1 = 1 /\ c \in Int /\ end \in Int
      BY <1>2, <1>3
    <3> HIDE DEF c, end, b
    <3>2. 0 \in 0..2
      OBVIOUS
    <3> QED BY <1>1, <2>1, <3>1, <3>2, Base64Remembers
  <2>4. Ready(t, n, last) /\ Ready(t, n + 1, last)
    <3>1. \A i \in 1..3 : Ready(t, 3 * k + i, last)
      BY <1>3, <2>1, <2>2, GroupReady DEF g
    <3>2. 1 \in 1..3 /\ 2 \in 1..3 /\ n + 1 = 3 * k + 2
      OBVIOUS
    <3> QED BY <3>1, <3>2
  <2>5. t.chars[n].ch = last.buf[1] /\ CharAt(t, n + 1) = c + 1
    BY <1>2, <1>8, <2>1, <2>2
  <2>6. d.ch = last.buf[1] /\ d.c = c + 1 /\ d.group = last
    BY <1>3, <1>9, <2>3
  <2> QED BY <2>4, <2>5, <2>6 DEF d
<1>11. CASE c - last.prevC \notin 0..2 /\ g = end
  <2>1. d = Decoded(Space, end, last)
    <3>1. c \in Int /\ end \in Int
      BY <1>2, <1>3
    <3> HIDE DEF c, end, b
    <3> QED BY <1>1, <1>11, <3>1, Base64Ends DEF g
  <2>2. t.chars[n].ch = Space /\ Len(t.chars) = n
    BY <1>2, <1>8, <1>11
  <2>3. CharAt(t, n + 1) = end /\ n + 1 \notin DOMAIN t.chars
    BY <1>2, <2>2 DEF CharAt
  <2>4. d.ch = Space /\ d.c = end /\ d.group = last
    BY <1>9, <2>1
  <2> QED BY <2>2, <2>3, <2>4 DEF d, Ready
<1>12. CASE c - last.prevC \notin 0..2 /\ g # end
  <2>1. g \in Int /\ g + 3 < end /\ (g = c /\ c > 1 => (g - LineBegin(b, 1, g)) % 4 = 0)
    BY <1>5, <1>8, <1>12
  <2>2. d = Decoded(new.buf[1], AfterDecoded(g, end, 0), new)
    <3>1. c \in Int /\ end \in Int
      BY <1>2, <1>3
    <3> HIDE DEF c, end, b
    <3>2. SkipNewline(b, c, end) = g
      BY DEF g
    <3>3. g = c /\ c > 1 => (g - LineBegin(b, 1, g)) % 4 = 0
      BY <2>1
    <3>4. c - last.prevC \notin 0..2 /\ g \in Int /\ g + 3 < end
      BY <1>12, <2>1
    <3>5. Base64(b, last, 1, c, end) = Decoded(new.buf[1], AfterDecoded(g, end, 0), new)
      BY <3>1, <3>2, <3>3, <3>4, Base64Decodes
    <3> HIDE DEF new
    <3> QED BY <1>1, <3>5
  <2>3. new.prevC = g /\ new.buf = Group(b, g)
    OBVIOUS
  <2> HIDE DEF new
  <2>4. Ready(t, n, new) /\ Ready(t, n + 1, new)
    <3>1. \A i \in 1..3 : Ready(t, 3 * k + i, new)
      BY <2>1, <2>3, GroupReady DEF g
    <3>2. 1 \in 1..3 /\ 2 \in 1..3 /\ n + 1 = 3 * k + 2
      OBVIOUS
    <3> QED BY <3>1, <3>2
  <2>5. t.chars[n].ch = new.buf[1] /\ CharAt(t, n + 1) = g + 1
    BY <1>8, <1>12, <2>3
  <2>6. d.ch = new.buf[1] /\ d.c = g + 1 /\ d.group = new
    BY <1>9, <2>1, <2>2
  <2> QED BY <2>4, <2>5, <2>6 DEF d
<1> QED BY <1>10, <1>11, <1>12

\* The second and the third character of a group
LEMMA RestOfGroup ==
  ASSUME NEW t, IsText(t), t.decoder = "base64", Grouped(t), NEW k \in Nat, NEW i \in 2..3,
         3 * k + i \in DOMAIN t.chars, NEW last, GroupFor(t, 3 * k + i, last)
  PROVE  LET n == 3 * k + i
             d == Decode(t, last, 1, CharAt(t, n), EndOf(t))
         IN /\ d.ch = t.chars[n].ch /\ d.c = CharAt(t, n + 1)
            /\ Ready(t, n, d.group) /\ Ready(t, n + 1, d.group)
<1> DEFINE n == 3 * k + i
           c == CharAt(t, n)
           b == t.bytes
           end == EndOf(t)
           g == SkipNewline(b, CharAt(t, 3 * k + 1), end)
           d == Decode(t, last, 1, c, end)
<1>1. d = Base64(b, last, 1, c, end)
  BY DEF Decode
<1>2. /\ Len(t.chars) \in Nat /\ DOMAIN t.chars = 1..Len(t.chars) /\ n \in Nat
      /\ Len(b) \in Nat /\ end = Len(b) + 1
  BY DEF Grouped, HasChars, IsText, EndOf
<1>3. InGroup(t, k)
  <2>1. k \in 0..Len(t.chars) /\ 3 * k + 1 \in DOMAIN t.chars
    BY <1>2
  <2> QED BY <2>1 DEF Grouped
<1>4. last.prevC \in Int /\ last.prevC = g /\ last.buf = Group(b, g)
  <2>1. \A j \in Nat : 3 * k + i \in {3 * j + 2, 3 * j + 3} => j = k
    OBVIOUS
  <2>2. \A j \in Nat : 3 * k + i # 3 * j + 1
    OBVIOUS
  <2> QED BY <2>1, <2>2, Zenon DEF GroupFor
<1>5. /\ g + 3 < end /\ t.chars[n].ch = Group(b, g)[i]
      /\ c = g + i - 1 /\ CharAt(t, n + 1) = IF i = 3 THEN g + 4 ELSE g + 2
  <2>1. i \in 1..3 /\ (i = 2 \/ i = 3) /\ 3 * k + 2 + 1 = 3 * k + 3 /\ 3 * k + 3 + 1 = 3 * k + 4
    OBVIOUS
  <2>2. EndOf(t) = Len(t.bytes) + 1 /\ g \in Int
    BY <1>4 DEF EndOf
  <2>3. Len(t.chars) # 3 * k + 1
    BY <1>2
  <2>4. /\ g + 3 <= Len(b) /\ \A j \in 1..3 : t.chars[3 * k + j].ch = Group(b, g)[j]
        /\ CharAt(t, 3 * k + 2) = g + 1 /\ CharAt(t, 3 * k + 3) = g + 2
        /\ CharAt(t, 3 * k + 4) = g + 4
    <3>1. \/ g = end /\ Len(t.chars) = 3 * k + 1
          \/ /\ g + 3 <= Len(b) /\ \A j \in 1..3 : t.chars[3 * k + j].ch = Group(b, g)[j]
             /\ CharAt(t, 3 * k + 2) = g + 1 /\ CharAt(t, 3 * k + 3) = g + 2
             /\ CharAt(t, 3 * k + 4) = g + 4
      <4>1. /\ g = SkipNewline(t.bytes, CharAt(t, 3 * k + 1), Len(t.bytes) + 1)
            /\ end = Len(t.bytes) + 1
        BY <2>2
      <4> HIDE DEF g, end
      <4> QED BY <1>3, <4>1, Zenon DEF InGroup
    <3> QED BY <2>3, <3>1
  <2> HIDE DEF g, b, end
  <2>5. g + 3 < end
    BY <1>2, <2>2, <2>4
  <2>6. CASE i = 2
    <3>1. c = g + 1 /\ g + 2 - 1 = g + 1 /\ CharAt(t, n + 1) = g + 2
      BY <2>1, <2>2, <2>4, <2>6
    <3> QED BY <2>1, <2>4, <2>5, <2>6, <3>1
  <2>7. CASE i = 3
    <3>1. c = g + 2 /\ g + 3 - 1 = g + 2 /\ CharAt(t, n + 1) = g + 4
      BY <2>1, <2>2, <2>4, <2>7
    <3> QED BY <2>1, <2>4, <2>5, <2>7, <3>1
  <2> QED BY <2>1, <2>6, <2>7
<1> HIDE DEF d, g
<1>6. c - last.prevC = i - 1 /\ i - 1 \in 0..2 /\ c \in Int /\ end \in Int
  BY <1>2, <1>4, <1>5
<1>7. d = Decoded(last.buf[i], AfterDecoded(c, end, i - 1), last)
  <2>1. (i - 1) + 1 = i
    OBVIOUS
  <2> HIDE DEF c, end, b
  <2> QED BY <1>1, <1>6, <2>1, Base64Remembers
<1>8. AfterDecoded(c, end, i - 1) = IF i = 3 THEN c + 2 ELSE c + 1
  <2>1. c + 1 # end /\ (i - 1 = 2 <=> i = 3)
    BY <1>2, <1>4, <1>5
  <2> HIDE DEF c, end
  <2> QED BY <2>1 DEF AfterDecoded
<1>9. d.ch = last.buf[i] /\ d.c = AfterDecoded(c, end, i - 1) /\ d.group = last
  BY <1>7 DEF Decoded
<1>10. d.ch = t.chars[n].ch /\ d.c = CharAt(t, n + 1)
  <2>1. i = 2 \/ i = 3
    OBVIOUS
  <2> HIDE DEF c, end, b, n
  <2> QED BY <1>4, <1>5, <1>8, <1>9, <2>1
<1>11. Ready(t, n, last) /\ Ready(t, n + 1, last)
  <2>1. \A j \in 1..3 : Ready(t, 3 * k + j, last)
    BY <1>4, GroupReady DEF g
  <2>2. CASE i = 2
    <3>1. n + 1 = 3 * k + 3 /\ n = 3 * k + 2 /\ 2 \in 1..3 /\ 3 \in 1..3
      BY <2>2
    <3> QED BY <2>1, <3>1
  <2>3. CASE i = 3
    <3>1. n + 1 = 3 * (k + 1) + 1 /\ n = 3 * k + 3 /\ 3 \in 1..3 /\ k + 1 \in Nat
      BY <2>3
    <3>2. CharAt(t, 3 * (k + 1) + 1) - last.prevC = 4
      <4>1. CharAt(t, n + 1) = g + 4
        BY <1>5, <2>3
      <4> HIDE DEF n
      <4> QED BY <1>4, <3>1, <4>1
    <3>3. GroupFor(t, n + 1, last)
      <4>1. CharAt(t, 3 * (k + 1) + 1) - last.prevC \notin 0..2
        BY <3>2
      <4> HIDE DEF n
      <4> QED BY <1>4, <3>1, <4>1, Zenon DEF GroupFor
    <3> QED BY <2>1, <3>1, <3>3 DEF Ready
  <2> QED BY <2>2, <2>3
<1> QED BY <1>9, <1>10, <1>11 DEF d

\* Where a character is read and the group decoded last is as it should be, the
\* character is right, and the group is as it should be to read it again or the
\* next one.
LEMMA Base64Reads ==
  ASSUME NEW t, IsText(t), t.decoder = "base64", Grouped(t), NEW n \in DOMAIN t.chars,
         NEW last, Ready(t, n, last)
  PROVE  LET d == Decode(t, last, 1, CharAt(t, n), EndOf(t))
         IN /\ d.ch = t.chars[n].ch /\ d.c = CharAt(t, n + 1)
            /\ Ready(t, n, d.group) /\ Ready(t, n + 1, d.group)
<1>1. PICK k \in Nat : n = 3 * k + 1 \/ n \in {3 * k + 2, 3 * k + 3}
  BY Zenon DEF Ready, GroupFor
<1>2. GroupFor(t, n, last)
  BY DEF Ready
<1>3. CASE n = 3 * k + 1
  BY <1>2, <1>3, FirstOfGroup
<1>4. CASE n \in {3 * k + 2, 3 * k + 3}
  <2>1. \E i \in 2..3 : n = 3 * k + i
    <3>1. 2 \in 2..3 /\ 3 \in 2..3
      OBVIOUS
    <3> QED BY <1>4, <3>1
  <2> QED BY <1>2, <2>1, RestOfGroup
<1> QED BY <1>1, <1>3, <1>4

\* Characters have places.
LEMMA CharAtType ==
  ASSUME NEW t, IsText(t), HasChars(t)
  PROVE  /\ Len(t.chars) \in Nat /\ DOMAIN t.chars = 1..Len(t.chars)
         /\ \A n \in Nat \ {0} : CharAt(t, n) \in Nat
         /\ CharAt(t, Len(t.chars) + 1) = EndOf(t)
<1>1. t.chars \in Seq([ch : Int, at : Nat]) /\ Len(t.bytes) \in Nat
  BY DEF HasChars, IsText
<1>2. /\ Len(t.chars) \in Nat /\ DOMAIN t.chars = 1..Len(t.chars)
      /\ \A n \in 1..Len(t.chars) : t.chars[n].at \in Nat
  <2>1. \A f : f \in Seq([ch : Int, at : Nat]) =>
          /\ Len(f) \in Nat /\ DOMAIN f = 1..Len(f)
          /\ \A n \in 1..Len(f) : f[n].at \in Nat
    <3>1. \A S : \A f \in Seq(S) :
            Len(f) \in Nat /\ DOMAIN f = 1..Len(f) /\ \A n \in 1..Len(f) : f[n] \in S
      OBVIOUS
    <3>2. \A r \in [ch : Int, at : Nat] : r.at \in Nat
      OBVIOUS
    <3> QED BY <3>1, <3>2, Zenon
  <2> QED BY <1>1, <2>1, Zenon
<1>3. \A n \in Nat \ {0} : n <= Len(t.chars) => n \in 1..Len(t.chars)
  BY <1>2
<1>4. ~(Len(t.chars) + 1 <= Len(t.chars))
  BY <1>2
<1> QED BY <1>1, <1>2, <1>3, <1>4 DEF CharAt, EndOf

\* What the decoder remembers is a group.
LEMMA GroupStays ==
  ASSUME NEW t, NEW last, NEW begin, NEW c, NEW end, DOMAIN last = DOMAIN NoGroup
  PROVE  DOMAIN Decode(t, last, begin, c, end).group = DOMAIN NoGroup
<1>1. \A ch, p, l : Decoded(ch, p, l).group = l
  BY DEF Decoded
<1>2. CASE t.decoder # "base64"
  <2>1. Decode(t, last, begin, c, end).group = last
    BY <1>1, <1>2 DEF Decode
  <2> QED BY <2>1
<1>3. CASE t.decoder = "base64"
  <2>1. Decode(t, last, begin, c, end) = Base64(t.bytes, last, begin, c, end)
    BY <1>3 DEF Decode
  <2>2. \E ch, p, l : /\ Base64(t.bytes, last, begin, c, end) = Decoded(ch, p, l)
                      /\ l = last \/ \E q, buf : l = [prevC |-> q, buf |-> buf]
    BY Zenon DEF Base64
  <2>3. \A q, buf : DOMAIN [prevC |-> q, buf |-> buf] = DOMAIN NoGroup
    BY DEF NoGroup
  <2> QED BY <1>1, <2>1, <2>2, <2>3
<1> QED BY <1>2, <1>3

AtChar(t, it) ==
  /\ DOMAIN it = DOMAIN NoIterator
  /\ it.nth \in 1..(Len(t.chars) + 1) /\ it.pos = CharAt(t, it.nth)
  /\ it.decoded => it.nth \in DOMAIN t.chars /\ it.ch = t.chars[it.nth].ch

\* The first iterator, which is the only one that reads, is where a character
\* begins, and has the group that is right for it.
ReadsGroups(t, it, last) ==
  /\ AtChar(t, it) /\ it.begin = 1 /\ it.end = EndOf(t)
  /\ Ready(t, it.nth, last)
  /\ it.decoded => /\ it.pos + it.delta = CharAt(t, it.nth + 1)
                   /\ Ready(t, it.nth + 1, last)

GroupInv ==
  /\ DOMAIN group = DOMAIN NoGroup
  /\ text.known /\ text.decoder = "base64" =>
       /\ \A i \in Iterators : iterators[i] # NoIterator => AtChar(text, iterators[i])
       /\ ReadsGroups(text, iterators[FirstIterator], group)

\* Where the first iterator has not come to the end, there is a character.
LEMMA HasMore ==
  ASSUME NEW t, IsText(t), t.decoder = "base64", Grouped(t), NEW it, NEW last,
         ReadsGroups(t, it, last), it.pos # it.end
  PROVE  it.nth \in DOMAIN t.chars
<1>1. it.nth \in 1..(Len(t.chars) + 1) /\ it.pos = CharAt(t, it.nth) /\ it.end = EndOf(t)
  BY DEF ReadsGroups, AtChar
<1>2. /\ Len(t.chars) \in Nat /\ DOMAIN t.chars = 1..Len(t.chars)
      /\ CharAt(t, Len(t.chars) + 1) = EndOf(t)
  BY CharAtType DEF Grouped
<1>3. it.nth # Len(t.chars) + 1
  BY <1>1, <1>2
<1> QED BY <1>1, <1>2, <1>3

\* What the first iterator decodes, and becomes
LEMMA FirstDecodes ==
  ASSUME NEW t, IsText(t), t.decoder = "base64", Grouped(t), NEW it, NEW last, NEW held,
         ReadsGroups(t, it, held), it.pos # it.end, Ready(t, it.nth, last)
  PROVE  LET d == Decode(t, last, it.begin, it.pos, it.end)
         IN /\ ReadsGroups(t, AsDecoded(it, d), d.group)
            /\ ReadsGroups(t, GoneTo(it, d.c), d.group)
            /\ d.c = CharAt(t, it.nth + 1)
            /\ Ready(t, it.nth, d.group) /\ Ready(t, it.nth + 1, d.group)
<1> DEFINE d == Decode(t, last, it.begin, it.pos, it.end)
           n == it.nth
           new == AsDecoded(it, d)
           gone == GoneTo(it, d.c)
<1>1. n \in DOMAIN t.chars
  BY HasMore
<1>2. it.begin = 1 /\ it.pos = CharAt(t, n) /\ it.end = EndOf(t) /\ DOMAIN it = DOMAIN NoIterator
  BY DEF ReadsGroups, AtChar
<1>3. /\ d.ch = t.chars[n].ch /\ d.c = CharAt(t, n + 1)
      /\ Ready(t, n, d.group) /\ Ready(t, n + 1, d.group)
  BY <1>1, <1>2, Base64Reads
<1>4. /\ n \in Nat \ {0} /\ n + 1 \in Nat \ {0} /\ n \in 1..(Len(t.chars) + 1)
      /\ n + 1 \in 1..(Len(t.chars) + 1)
      /\ CharAt(t, n) \in Nat /\ CharAt(t, n + 1) \in Nat
  <2>1. Len(t.chars) \in Nat /\ n \in 1..Len(t.chars)
    BY <1>1, CharAtType DEF Grouped
  <2> HIDE DEF n
  <2>2. /\ n \in Nat \ {0} /\ n + 1 \in Nat \ {0} /\ n \in 1..(Len(t.chars) + 1)
        /\ n + 1 \in 1..(Len(t.chars) + 1)
    BY <2>1
  <2> QED BY <2>2, CharAtType DEF Grouped
<1> HIDE DEF d
<1>5. /\ DOMAIN new = DOMAIN NoIterator
      /\ new.begin = it.begin /\ new.pos = it.pos /\ new.end = it.end /\ new.nth = n
      /\ new.decoded = TRUE /\ new.ch = d.ch /\ new.delta = d.c - it.pos
  BY <1>2 DEF AsDecoded, NoIterator
<1>6. /\ DOMAIN gone = DOMAIN NoIterator
      /\ gone.begin = it.begin /\ gone.pos = d.c /\ gone.end = it.end /\ gone.nth = n + 1
      /\ gone.decoded = FALSE
  BY <1>2 DEF GoneTo, NoIterator
<1> HIDE DEF new, gone, n
<1>7. new.pos + new.delta = CharAt(t, n + 1)
  BY <1>2, <1>3, <1>4, <1>5
<1>8. ReadsGroups(t, new, d.group)
  BY <1>1, <1>2, <1>3, <1>4, <1>5, <1>7 DEF ReadsGroups, AtChar
<1>9. ReadsGroups(t, gone, d.group)
  BY <1>2, <1>3, <1>4, <1>6 DEF ReadsGroups, AtChar
<1> QED BY <1>3, <1>8, <1>9 DEF d, new, gone, n

\* There is no text at first.
LEMMA GroupInit ==
  ASSUME Init
  PROVE  GroupInv
BY DEF Init, GroupInv, NoText

\* A new text is read from its first group: the decoder was reset.
LEMMA GroupBegin ==
  ASSUME WholeTexts, InGroups, GroupInv, NEW t \in Texts, Begin(t)
  PROVE  GroupInv'
<1>1. /\ text' = t /\ group' = [group EXCEPT !.prevC = NoGroup.prevC]
      /\ iterators' = [i \in Iterators |->
           IF i = FirstIterator THEN BeginOf(1, Len(t.bytes) + 1, 1) ELSE NoIterator]
  BY DEF Begin
<1>2. DOMAIN group' = DOMAIN NoGroup /\ group'.prevC = -99
  BY <1>1 DEF GroupInv, NoGroup
<1>3. ASSUME t.known, t.decoder = "base64"
      PROVE  LET it == BeginOf(1, Len(t.bytes) + 1, 1) IN ReadsGroups(t, it, group')
  <2> DEFINE it == BeginOf(1, Len(t.bytes) + 1, 1)
  <2>1. IsText(t) /\ HasChars(t) /\ CharAt(t, 1) = 1
    BY <1>3, TextAssumption DEF WholeTexts, IsText, InGroups, HasChars
  <2>2. /\ DOMAIN it = DOMAIN NoIterator
        /\ it.begin = 1 /\ it.pos = 1 /\ it.end = Len(t.bytes) + 1 /\ it.nth = 1
        /\ it.decoded = FALSE
    BY DEF BeginOf, NoIterator
  <2> HIDE DEF it
  <2>3. 1 \in 1..(Len(t.chars) + 1)
    BY <2>1, CharAtType
  <2>4. AtChar(t, it)
    BY <2>1, <2>2, <2>3 DEF AtChar
  <2>5. Ready(t, 1, group')
    <3>1. 3 * 0 + 1 = 1 /\ 1 - (-99) \notin 0..2 /\ -99 \in Int
      OBVIOUS
    <3>2. CharAt(t, 3 * 0 + 1) - group'.prevC \notin 0..2
      BY <1>2, <2>1, <3>1
    <3>3. 1 = 3 * 0 + 1 /\ 0 \in Nat /\ group'.prevC \in Int
      BY <1>2
    <3> QED BY <3>2, <3>3, Zenon DEF Ready, GroupFor
  <2>6. ReadsGroups(t, it, group')
    BY <2>2, <2>4, <2>5 DEF ReadsGroups, EndOf
  <2> QED BY <2>6 DEF it
<1>4. ASSUME text'.known, text'.decoder = "base64"
      PROVE  /\ \A i \in Iterators : iterators'[i] # NoIterator => AtChar(text', iterators'[i])
             /\ ReadsGroups(text', iterators'[FirstIterator], group')
  <2>1. ReadsGroups(t, BeginOf(1, Len(t.bytes) + 1, 1), group')
    BY <1>1, <1>3, <1>4
  <2> QED BY <1>1, <2>1, TextAssumption DEF ReadsGroups
<1> QED BY <1>2, <1>4 DEF GroupInv

\* What is decoded in a step of the first iterator, when groups are read
LEMMA GroupReads ==
  ASSUME WholeTexts, InGroups, "base64" \notin Copied, DecodedInv, GroupInv,
         text.known, text.decoder = "base64", NEW i \in Iterators, Reads(i)
  PROVE  /\ i = FirstIterator /\ IsText(text) /\ Grouped(text)
         /\ ReadsGroups(text, iterators[i], group)
         /\ iterators[i].pos # iterators[i].end
<1>1. text \in Texts /\ IsText(text)
  BY DEF DecodedInv, NoText
<1> QED BY <1>1, ReadsInText DEF Reads, GroupInv, InGroups, Grouped

\* A character decoded in place.
LEMMA GroupDereference ==
  ASSUME WholeTexts, InGroups, "base64" \notin Copied, DecodedInv, GroupInv,
         NEW i \in Iterators, Dereference(i)
  PROVE  GroupInv'
<1> DEFINE it == iterators[i]
           d == DecodeAt(it, group)
<1>1. /\ Reads(i) /\ text' = text /\ group' = d.group
      /\ iterators' = [iterators EXCEPT ![i] = AsDecoded(it, d)]
  BY DEF Dereference
<1>2. DOMAIN group' = DOMAIN NoGroup
  BY <1>1, GroupStays DEF DecodeAt, GroupInv
<1>3. ASSUME text.known, text.decoder = "base64"
      PROVE  i = FirstIterator /\ ReadsGroups(text, AsDecoded(it, d), d.group)
  <2>1. /\ i = FirstIterator /\ IsText(text) /\ Grouped(text)
        /\ ReadsGroups(text, it, group) /\ it.pos # it.end
    BY <1>1, <1>3, GroupReads
  <2>2. Ready(text, it.nth, group)
    BY <2>1 DEF ReadsGroups
  <2> HIDE DEF it
  <2> QED BY <1>3, <2>1, <2>2, FirstDecodes DEF DecodeAt
<1> HIDE DEF it, d
<1> QED BY <1>1, <1>2, <1>3 DEF GroupInv, DecodedInv, ReadsGroups

\* A step to the next character, which may be in the next group.
LEMMA GroupIncrement ==
  ASSUME WholeTexts, InGroups, "base64" \notin Copied, DecodedInv, GroupInv,
         NEW i \in Iterators, Increment(i)
  PROVE  GroupInv'
<1> DEFINE it == iterators[i]
           held == Decoded(it.ch, it.pos + it.delta, group)
<1>1. PICK d : /\ d = IF it.decoded THEN held ELSE DecodeAt(it, group)
               /\ iterators' = [iterators EXCEPT ![i] = GoneTo(it, d.c)]
               /\ group' = d.group
  BY DEF Increment
<1>2. Reads(i) /\ text' = text /\ held.c = it.pos + it.delta /\ held.group = group
  BY DEF Increment, Decoded
<1>3. DOMAIN group' = DOMAIN NoGroup
  BY <1>1, <1>2, GroupStays DEF DecodeAt, GroupInv
<1>4. ASSUME text.known, text.decoder = "base64"
      PROVE  i = FirstIterator /\ ReadsGroups(text, GoneTo(it, d.c), d.group)
  <2>1. /\ i = FirstIterator /\ IsText(text) /\ Grouped(text)
        /\ ReadsGroups(text, it, group) /\ it.pos # it.end
    BY <1>2, <1>4, GroupReads
  <2>2. Ready(text, it.nth, group)
    BY <2>1 DEF ReadsGroups
  <2> HIDE DEF it, held
  <2>3. CASE ~it.decoded
    <3>1. d = DecodeAt(it, group)
      BY <1>1, <2>3
    <3> QED BY <1>4, <2>1, <2>2, <3>1, FirstDecodes DEF DecodeAt
  <2>4. CASE it.decoded
    <3>1. d.c = CharAt(text, it.nth + 1) /\ d.group = group /\ Ready(text, it.nth + 1, group)
      BY <1>1, <1>2, <2>1, <2>4 DEF ReadsGroups
    <3>2. it.nth + 1 \in 1..(Len(text.chars) + 1)
      <4>1. it.nth \in DOMAIN text.chars
        BY <1>4, <2>1, HasMore
      <4>2. Len(text.chars) \in Nat /\ DOMAIN text.chars = 1..Len(text.chars)
        BY <2>1, CharAtType DEF Grouped
      <4> QED BY <4>1, <4>2
    <3> DEFINE gone == GoneTo(it, d.c)
    <3>3. DOMAIN it = DOMAIN NoIterator /\ it.begin = 1 /\ it.end = EndOf(text)
      BY <2>1 DEF ReadsGroups, AtChar
    <3>4. /\ DOMAIN gone = DOMAIN NoIterator
          /\ gone.begin = it.begin /\ gone.pos = d.c /\ gone.end = it.end
          /\ gone.nth = it.nth + 1 /\ gone.decoded = FALSE
      BY <3>3 DEF GoneTo, NoIterator
    <3> HIDE DEF gone
    <3>5. ReadsGroups(text, gone, d.group)
      BY <3>1, <3>2, <3>3, <3>4 DEF ReadsGroups, AtChar
    <3> QED BY <2>1, <3>5 DEF gone
  <2> QED BY <2>3, <2>4
<1> HIDE DEF it
<1> QED BY <1>1, <1>2, <1>3, <1>4 DEF GroupInv, DecodedInv, ReadsGroups

\* A step that leaves a copy, which decodes the character again from its group.
LEMMA GroupPostIncrement ==
  ASSUME WholeTexts, InGroups, "base64" \notin Copied, DecodedInv, GroupInv,
         NEW i \in Iterators, NEW j \in Iterators, PostIncrement(i, j)
  PROVE  GroupInv'
<1> DEFINE it == iterators[i]
           first == DecodeAt(it, group)
           again == DecodeAt(it, first.group)
<1>1. /\ Reads(i) /\ text' = text /\ group' = again.group /\ j \notin {i, FirstIterator}
      /\ iterators' = [iterators EXCEPT ![i] = GoneTo(it, first.c), ![j] = AsDecoded(it, again)]
  BY DEF PostIncrement
<1>2. DOMAIN group' = DOMAIN NoGroup
  <2>1. DOMAIN first.group = DOMAIN NoGroup
    BY GroupStays DEF DecodeAt, GroupInv
  <2> HIDE DEF first
  <2> QED BY <1>1, <2>1, GroupStays DEF DecodeAt
<1>3. ASSUME text.known, text.decoder = "base64"
      PROVE  /\ i = FirstIterator /\ AtChar(text, AsDecoded(it, again))
             /\ ReadsGroups(text, GoneTo(it, first.c), again.group)
  <2>1. /\ i = FirstIterator /\ IsText(text) /\ Grouped(text)
        /\ ReadsGroups(text, it, group) /\ it.pos # it.end
    BY <1>1, <1>3, GroupReads
  <2>2. Ready(text, it.nth, group)
    BY <2>1 DEF ReadsGroups
  <2> HIDE DEF it
  <2>3. first.c = CharAt(text, it.nth + 1) /\ Ready(text, it.nth, first.group)
    BY <1>3, <2>1, <2>2, FirstDecodes DEF DecodeAt
  <2> HIDE DEF first
  <2>4. /\ ReadsGroups(text, AsDecoded(it, again), again.group)
        /\ ReadsGroups(text, GoneTo(it, again.c), again.group)
        /\ again.c = CharAt(text, it.nth + 1)
    BY <1>3, <2>1, <2>3, FirstDecodes DEF DecodeAt
  <2> HIDE DEF again
  <2> QED BY <2>1, <2>3, <2>4 DEF ReadsGroups
<1>4. /\ i \in DOMAIN iterators /\ j \in DOMAIN iterators
      /\ \A k \in Iterators : k \in DOMAIN iterators
  BY DEF DecodedInv
<1> DEFINE gone == GoneTo(it, first.c)
           copy == AsDecoded(it, again)
<1>5. /\ iterators'[i] = gone /\ iterators'[j] = copy
      /\ \A k \in Iterators \ {i, j} : iterators'[k] = iterators[k]
  <2> HIDE DEF gone, copy
  <2>1. iterators' = [iterators EXCEPT ![i] = gone, ![j] = copy]
    BY <1>1 DEF gone, copy
  <2> QED BY <1>1, <1>4, <2>1
<1>6. ASSUME text'.known, text'.decoder = "base64"
      PROVE  /\ \A k \in Iterators : iterators'[k] # NoIterator => AtChar(text', iterators'[k])
             /\ ReadsGroups(text', iterators'[FirstIterator], group')
  <2>1. i = FirstIterator /\ AtChar(text, copy) /\ ReadsGroups(text, gone, again.group)
    BY <1>1, <1>3, <1>6
  <2> HIDE DEF gone, copy, it, first, again
  <2>2. AtChar(text, gone)
    BY <2>1 DEF ReadsGroups
  <2>3. \A k \in Iterators : iterators[k] # NoIterator => AtChar(text, iterators[k])
    BY <1>1, <1>6 DEF GroupInv
  <2> QED BY <1>1, <1>5, <2>1, <2>2, <2>3
<1> HIDE DEF it, first, again
<1> QED BY <1>2, <1>6 DEF GroupInv

\* A text in Base64 is not copied from.
LEMMA GroupCopy ==
  ASSUME "base64" \notin Copied, GroupInv,
         NEW i \in Iterators, NEW j \in Iterators, NEW end, Copy(i, j) \/ RangeFrom(i, end, j)
  PROVE  GroupInv'
<1>1. text' = text /\ group' = group /\ text.decoder # "base64"
  BY DEF Copy, RangeFrom
<1> QED BY <1>1 DEF GroupInv

\* The invariant about groups.
LEMMA GroupStep ==
  ASSUME WholeTexts, InGroups, "base64" \notin Copied, DecodedInv, GroupInv, [Next]_vars
  PROVE  GroupInv'
<1>1. CASE UNCHANGED vars
  BY <1>1 DEF vars, GroupInv
<1>2. ASSUME NEW t \in Texts, Begin(t) PROVE GroupInv'
  BY <1>2, GroupBegin
<1>3. ASSUME NEW i \in Iterators, Dereference(i) \/ Increment(i) PROVE GroupInv'
  BY <1>3, GroupDereference, GroupIncrement
<1>4. ASSUME NEW i \in Iterators, NEW j \in Iterators,
             PostIncrement(i, j) \/ Copy(i, j) \/ \E end : RangeFrom(i, end, j)
      PROVE  GroupInv'
  BY <1>4, GroupPostIncrement, GroupCopy
<1> QED BY <1>1, <1>2, <1>3, <1>4 DEF Next

-----------------------------------------------------------------------------
(* The theorems.                                                           *)

\* Whatever iterators have read before, and wherever their ranges end, what they
\* read of a text whose characters are known, in any encoding but Base64, is what
\* was encoded there, if reading the text straight through reads it.
THEOREM ReadsAsStraight ==
  ASSUME WholeTexts, ReadStraight
  PROVE  Spec => [](text.decoder # "base64" => ReadsWhatWasEncoded)
<1>1. Init => DecodedInv
  BY DecodedInit
<1>2. DecodedInv /\ [Next]_vars => DecodedInv'
  BY DecodedStep
<1>3. DecodedInv => (text.decoder # "base64" => ReadsWhatWasEncoded)
  BY ReadsEncoded
<1> QED BY <1>1, <1>2, <1>3, PTL DEF Spec

\* So it is in every encoding, as long as a text in Base64 is read by one iterator
\* only, of which copies are no more than dereferenced: otherwise TLC finds that it
\* is not.  The texts in Base64 consist of groups in lines of whole groups.
THEOREM ReadsAsEncoded ==
  ASSUME WholeTexts, ReadStraight, InGroups, "base64" \notin Copied
  PROVE  Spec => []ReadsWhatWasEncoded
<1>1. Init => DecodedInv /\ GroupInv
  BY DecodedInit, GroupInit
<1>2. DecodedInv /\ GroupInv /\ [Next]_vars => DecodedInv' /\ GroupInv'
  BY DecodedStep, GroupStep
<1>3. DecodedInv /\ GroupInv => ReadsWhatWasEncoded
  <2>1. CASE text.decoder # "base64"
    BY <2>1, ReadsEncoded
  <2>2. CASE text.decoder = "base64"
    BY <2>2 DEF GroupInv, AtChar, ReadsWhatWasEncoded
  <2> QED BY <2>1, <2>2
<1> QED BY <1>1, <1>2, <1>3, PTL DEF Spec
=============================================================================
