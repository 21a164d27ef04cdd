--------------------------- MODULE PostingProofs ---------------------------
(***************************************************************************)
(* What holds of a word's list of files for any number of files and        *)
(* occurrences, any ids and all widths of numbers: its entries tell of     *)
(* what occurred, an iterator yields them as they were written, size()     *)
(* counts them, and the first two positions in a file are read back.       *)
(***************************************************************************)
EXTENDS PostingProps, ListLemmas

Occurrence == [file : Nat, pos : Nat, meta : MetaIds \cup {NoMeta}]

\* The types of what is written while files are indexed
ListOK ==
  /\ current \in Nat /\ wordPos \in Nat
  /\ occurs \in Seq(Occurrence) /\ files \in Seq(Entries)

\* No occurrence is in a file that is still to come.
NoneAhead == \A i \in DOMAIN occurs : occurs[i].file <= current

ListInv == ListOK /\ NoneAhead /\ EntriesAreWhatOccurred

-----------------------------------------------------------------------------
\* A sequence with another last element
LEMMA ReplaceLast ==
  ASSUME NEW S, NEW s \in Seq(S), s # <<>>, NEW e \in S
  PROVE  LET t == Append(Front(s), e) IN
         /\ t \in Seq(S) /\ Len(t) = Len(s)
         /\ \A i \in 1..Len(s) : t[i] = IF i = Len(s) THEN e ELSE s[i]
<1>1. Len(s) \in Nat \ {0} /\ DOMAIN s = 1..Len(s)
  OBVIOUS
<1>2. Front(s) = [i \in 1..(Len(s) - 1) |-> s[i]]
  BY <1>1 DEF Front
<1>3. Front(s) \in Seq(S) /\ Len(Front(s)) = Len(s) - 1
  BY <1>1, <1>2, SubSeqProperties DEF Front
<1> DEFINE f == Front(s)  t == Append(f, e)
<1>4. /\ t \in Seq(S) /\ Len(t) = Len(f) + 1
      /\ \A i \in 1..(Len(f) + 1) : t[i] = IF i <= Len(f) THEN f[i] ELSE e
  BY <1>3
<1>5. \A i \in 1..Len(f) : f[i] = s[i]
  BY <1>1, <1>2, <1>3
<1> HIDE DEF f, t
<1>6. t \in Seq(S) /\ Len(t) = Len(s)
  BY <1>1, <1>3, <1>4 DEF f
<1>7. \A i \in 1..Len(s) : t[i] = IF i = Len(s) THEN e ELSE s[i]
  <2>1. Len(f) = Len(s) - 1
    BY <1>3 DEF f
  <2> TAKE i \in 1..Len(s)
  <2>2. CASE i = Len(s)
    BY <2>1, <2>2, <1>1, <1>4
  <2>3. CASE i # Len(s)
    BY <2>1, <2>3, <1>1, <1>4, <1>5
  <2> QED BY <2>2, <2>3
<1> QED BY <1>6, <1>7 DEF t, f

\* The last element of a sequence
LEMMA LastOfList ==
  ASSUME NEW S, NEW s \in Seq(S), s # <<>>
  PROVE  Len(s) \in Nat \ {0} /\ Len(s) \in DOMAIN s /\ Last(s) = s[Len(s)] /\ Last(s) \in S
BY DEF Last

\* What is put in a short is in its range.
LEMMA ShortType ==
  ASSUME NEW n \in Int
  PROVE  ToShort(n) \in ShortRange /\ ToShort(n) \in Int
<1> DEFINE h == ShortMod \div 2
<1>1. ShortMod \in Nat /\ ShortMod > 0 /\ h \in Int /\ ShortMod = 2 * h
  BY PostingAssumption
<1> DEFINE low == (n + h) % ShortMod
<1>2. ToShort(n) = low - h /\ ShortRange = -h..(h - 1)
  BY DEF ToShort, ShortRange
<1> HIDE DEF h
<1>3. low \in 0..(ShortMod - 1)
  BY <1>1
<1> HIDE DEF low
<1> QED BY <1>1, <1>2, <1>3

\* An entry with a position stays an entry, of the same file; a difference
\* is put in a short.
LEMMA EntryWithPos ==
  ASSUME NEW f \in Entries, NEW pos \in Nat, NEW m \in MetaIds \cup {NoMeta}
  PROVE  LET e == WithWordPos(WithMeta(f, m), pos) IN
         /\ e \in Entries
         /\ e.index = f.index /\ e.occurrences = f.occurrences
         /\ e.metas = f.metas \cup ({m} \ {NoMeta})
         /\ Len(e.deltas) = Len(f.deltas) + 1
         /\ e.rank = f.rank /\ (ShortDeltas(f) => ShortDeltas(e))
         /\ e.deltas = Append(f.deltas,
              ToShort(IF f.deltas = <<>> THEN pos ELSE pos - Last(f.deltas)))
<1> DEFINE g == WithMeta(f, m)
<1>1. /\ g \in Entries /\ g.index = f.index /\ g.occurrences = f.occurrences /\ g.rank = f.rank
      /\ g.metas = f.metas \cup ({m} \ {NoMeta}) /\ g.deltas = f.deltas
  BY DEF WithMeta, Entries
<1> DEFINE d == ToShort(IF g.deltas = <<>> THEN pos ELSE pos - Last(g.deltas))
<1>2. d \in Int /\ d \in ShortRange
  <2>1. g.deltas \in Seq(Int)
    BY <1>1 DEF Entries
  <2>2. (IF g.deltas = <<>> THEN pos ELSE pos - Last(g.deltas)) \in Int
    BY <2>1, LastOfList
  <2> QED BY <2>2, ShortType
<1>3. WithWordPos(g, pos) = [g EXCEPT !.deltas = Append(@, d)]
  BY DEF WithWordPos
<1>4. Append(g.deltas, d) \in Seq(Int) /\ Len(Append(g.deltas, d)) = Len(g.deltas) + 1
  BY <1>1, <1>2 DEF Entries
<1> HIDE DEF d, g
<1>5. WithWordPos(g, pos) =
        [index |-> g.index, occurrences |-> g.occurrences, rank |-> g.rank,
         metas |-> g.metas, deltas |-> Append(g.deltas, d)]
  BY <1>1, <1>3 DEF Entries
<1>6. /\ WithWordPos(g, pos) \in Entries
      /\ WithWordPos(g, pos).index = g.index
      /\ WithWordPos(g, pos).occurrences = g.occurrences
      /\ WithWordPos(g, pos).rank = g.rank
      /\ WithWordPos(g, pos).metas = g.metas
      /\ WithWordPos(g, pos).deltas = Append(g.deltas, d)
  BY <1>1, <1>4, <1>5 DEF Entries
<1>7. ShortDeltas(f) => ShortDeltas(WithWordPos(g, pos))
  <2> DEFINE s == f.deltas  t == Append(s, d)
  <2>1. s \in Seq(Int)
    BY DEF Entries
  <2>2. WithWordPos(g, pos).deltas = t
    BY <1>1, <1>6
  <2>3. \A i \in DOMAIN t : (i \in DOMAIN s /\ t[i] = s[i]) \/ t[i] = d
    BY <1>2, <2>1
  <2> HIDE DEF t
  <2> QED BY <1>2, <2>2, <2>3 DEF ShortDeltas
<1>8. WithWordPos(g, pos).deltas =
        Append(f.deltas, ToShort(IF f.deltas = <<>> THEN pos ELSE pos - Last(f.deltas)))
  BY <1>1, <1>6 DEF d
<1> QED BY <1>1, <1>4, <1>6, <1>7, <1>8 DEF g

\* An entry that counts one occurrence more is an entry and tells nothing
\* else that is new.
LEMMA CountedOnceMore ==
  ASSUME NEW f \in Entries
  PROVE  LET e == [f EXCEPT !.occurrences = @ + 1] IN
         /\ e \in Entries /\ e.index = f.index
         /\ e.occurrences = f.occurrences + 1
         /\ e.metas = f.metas /\ e.deltas = f.deltas /\ e.rank = f.rank
<1>1. /\ f.index \in Nat /\ f.occurrences \in Nat /\ f.rank \in Nat
      /\ f.metas \in SUBSET MetaIds /\ f.deltas \in Seq(Int)
  BY DEF Entries
<1>2. [f EXCEPT !.occurrences = @ + 1] =
        [index |-> f.index, occurrences |-> f.occurrences + 1, rank |-> f.rank,
         metas |-> f.metas, deltas |-> f.deltas]
  BY DEF Entries
<1>3. f.occurrences + 1 \in Nat
  BY <1>1
<1> QED BY <1>1, <1>2, <1>3 DEF Entries

\* Ranks leave alone what the invariant is about.
LEMMA RankedList ==
  ASSUME NEW r \in Nat, ListInv, files' = WithRank(files, r),
         UNCHANGED <<occurs, current, wordPos>>
  PROVE  ListInv'
<1>1. files \in Seq(Entries) /\ DOMAIN files = 1..Len(files) /\ Len(files) \in Nat
  BY DEF ListInv, ListOK
<1>2. \A i \in DOMAIN files : files[i] \in Entries
  BY <1>1
<1> DEFINE ranked(i) == [files[i] EXCEPT !.rank = r]
<1>3. \A i \in DOMAIN files :
        /\ ranked(i) \in Entries /\ ranked(i).index = files[i].index
        /\ ranked(i).occurrences = files[i].occurrences
        /\ ranked(i).metas = files[i].metas /\ ranked(i).deltas = files[i].deltas
  BY <1>2 DEF Entries
<1>4. files' = [i \in 1..Len(files) |-> ranked(i)]
  BY <1>1 DEF WithRank
<1> HIDE DEF ranked
<1>5. files' \in Seq(Entries) /\ DOMAIN files' = DOMAIN files
  BY <1>1, <1>3, <1>4
<1>6. \A i \in DOMAIN files : files'[i] = ranked(i)
  BY <1>1, <1>4
<1>7. {files'[i].index : i \in DOMAIN files'} = {files[i].index : i \in DOMAIN files}
  BY <1>3, <1>5, <1>6
<1>8. EntriesAreWhatOccurred'
  <2> USE DEF ListInv, EntriesAreWhatOccurred
  <2>1. \A i, j \in DOMAIN files' : i < j => files'[i].index < files'[j].index
    BY <1>3, <1>5, <1>6
  <2>2. \A i \in DOMAIN files' : TellsOf(files'[i], occurs)
    BY <1>3, <1>5, <1>6 DEF TellsOf
  <2> QED BY <1>7, <2>1, <2>2
<1> QED BY <1>5, <1>8 DEF ListInv, ListOK, NoneAhead

-----------------------------------------------------------------------------
\* One more occurrence, in the current file
LEMMA OneMore ==
  ASSUME ListInv, NEW o \in Occurrence, o.file = current, occurs' = Append(occurs, o)
  PROVE  /\ occurs' \in Seq(Occurrence)
         /\ {occurs'[k].file : k \in DOMAIN occurs'} =
              {occurs[k].file : k \in DOMAIN occurs} \cup {current}
         /\ \A k \in DOMAIN occurs' : occurs'[k].file <= current
         /\ \A index \in Nat \ {current} : In(occurs', index) = In(occurs, index)
         /\ \A k \in DOMAIN occurs : occurs'[k] = occurs[k]
         /\ In(occurs', current) = In(occurs, current) \cup {Len(occurs) + 1}
         /\ IsFiniteSet(In(occurs, current))
         /\ Cardinality(In(occurs', current)) = Cardinality(In(occurs, current)) + 1
         /\ {occurs'[k].meta : k \in In(occurs', current)} =
              {occurs[k].meta : k \in In(occurs, current)} \cup {o.meta}
<1> DEFINE n == Len(occurs)
<1>1. n \in Nat /\ DOMAIN occurs = 1..n /\ occurs \in Seq(Occurrence) /\ current \in Nat
  BY DEF ListInv, ListOK
<1>2. /\ occurs' \in Seq(Occurrence) /\ DOMAIN occurs' = 1..(n + 1)
      /\ \A k \in 1..n : occurs'[k] = occurs[k]
      /\ occurs'[n + 1] = o
  BY <1>1
<1>3. 1..(n + 1) = (1..n) \cup {n + 1} /\ n + 1 \notin 1..n
  BY <1>1
<1> HIDE DEF n
<1>4. /\ {occurs'[k].file : k \in DOMAIN occurs'} =
           {occurs[k].file : k \in DOMAIN occurs} \cup {current}
      /\ \A k \in DOMAIN occurs' : occurs'[k].file <= current
  BY <1>1, <1>2, <1>3 DEF ListInv, NoneAhead
<1>5. \A index \in Nat \ {current} : In(occurs', index) = In(occurs, index)
  BY <1>1, <1>2, <1>3 DEF In
<1>6. In(occurs', current) = In(occurs, current) \cup {n + 1} /\ n + 1 \notin In(occurs, current)
  BY <1>1, <1>2, <1>3 DEF In
<1>7. IsFiniteSet(In(occurs, current))
  <2>1. In(occurs, current) \subseteq 1..n
    BY <1>1 DEF In
  <2>2. IsFiniteSet(1..n)
    BY <1>1, FS_Interval
  <2> HIDE DEF In
  <2> QED BY <2>1, <2>2, FS_Subset
<1>8. Cardinality(In(occurs', current)) = Cardinality(In(occurs, current)) + 1
  BY <1>6, <1>7, FS_AddElement
<1>9. {occurs'[k].meta : k \in In(occurs', current)} =
        {occurs[k].meta : k \in In(occurs, current)} \cup {o.meta}
  <2>1. \A k \in In(occurs, current) : occurs'[k] = occurs[k]
    BY <1>1, <1>2 DEF In
  <2> DEFINE S == In(occurs, current)
  <2>2. \A k \in S : occurs'[k].meta = occurs[k].meta
    BY <2>1
  <2>3. In(occurs', current) = S \cup {n + 1} /\ occurs'[n + 1].meta = o.meta
    BY <1>2, <1>6
  <2> DEFINE old(k) == occurs[k].meta  new(k) == occurs'[k].meta  z == n + 1
  <2>4. (\A k \in S : new(k) = old(k)) /\ new(z) = o.meta /\ In(occurs', current) = S \cup {z}
    BY <2>2, <2>3
  <2> HIDE DEF S, old, new, z
  <2>5. {new(k) : k \in S \cup {z}} = {old(k) : k \in S} \cup {o.meta}
    BY <2>4
  <2>6. {new(k) : k \in In(occurs', current)} = {old(k) : k \in S} \cup {o.meta}
    BY <2>4, <2>5
  <2> QED BY <2>6 DEF S, old, new
<1> QED BY <1>1, <1>2, <1>4, <1>5, <1>6, <1>7, <1>8, <1>9 DEF n

\* All entries are of files up to the current one, and one of the current
\* file is the last.
LEMMA EntriesUpToCurrent ==
  ASSUME ListInv
  PROVE  /\ \A i \in DOMAIN files : files[i].index <= current
         /\ \A i \in DOMAIN files : files[i].index = current => i = Len(files)
         /\ (\A i \in DOMAIN files : files[i].index # current) => In(occurs, current) = {}
<1>1. /\ DOMAIN files = 1..Len(files) /\ Len(files) \in Nat
      /\ \A i \in DOMAIN files : files[i].index \in Nat
  <2>1. files \in Seq(Entries)
    BY DEF ListInv, ListOK
  <2>2. DOMAIN files = 1..Len(files) /\ Len(files) \in Nat
    BY <2>1
  <2>3. \A i \in DOMAIN files : files[i] \in Entries
    BY <2>1
  <2> QED BY <2>2, <2>3 DEF Entries
<1>2. /\ \A i, j \in DOMAIN files : i < j => files[i].index < files[j].index
      /\ \A i \in DOMAIN files : \E k \in DOMAIN occurs : occurs[k].file = files[i].index
      /\ \A k \in DOMAIN occurs : \E i \in DOMAIN files : files[i].index = occurs[k].file
  BY DEF ListInv, EntriesAreWhatOccurred
<1>3. \A i \in DOMAIN files : files[i].index <= current
  BY <1>2 DEF ListInv, NoneAhead
<1>4. \A i \in DOMAIN files : i # Len(files) => files[i].index < files[Len(files)].index
  <2>1. DOMAIN files = 1..Len(files) /\ Len(files) \in Nat
    BY DEF ListInv, ListOK
  <2>2. \A i \in DOMAIN files : i # Len(files) => i < Len(files) /\ Len(files) \in DOMAIN files
    BY <2>1
  <2> QED BY <1>2, <2>2
<1>5. \A i \in DOMAIN files : i # Len(files) => files[i].index # current
  BY <1>1, <1>3, <1>4 DEF ListInv, ListOK
<1>6. (\A i \in DOMAIN files : files[i].index # current) => In(occurs, current) = {}
  BY <1>2 DEF In
<1> QED BY <1>3, <1>5, <1>6

\* One occurrence more in a list of them
LEMMA OccurrenceAdded ==
  ASSUME NEW o \in Seq(Occurrence), NEW q \in Occurrence
  PROVE  LET p == Append(o, q)  n == Len(o) IN
         /\ n \in Nat /\ Len(p) = n + 1 /\ DOMAIN o = 1..n /\ DOMAIN p = 1..(n + 1)
         /\ p[n + 1] = q /\ \A k \in 1..n : p[k] = o[k]
         /\ \A x : In(p, x) = IF x = q.file THEN In(o, x) \cup {n + 1} ELSE In(o, x)
         /\ \A x : In(o, x) \subseteq 1..n
<1> DEFINE p == Append(o, q)  n == Len(o)
<1>1. /\ n \in Nat /\ Len(p) = n + 1 /\ DOMAIN o = 1..n /\ DOMAIN p = 1..(n + 1)
      /\ p[n + 1] = q /\ \A k \in 1..n : p[k] = o[k]
  OBVIOUS
<1>2. 1..(n + 1) = (1..n) \cup {n + 1} /\ n + 1 \notin 1..n
  BY <1>1
<1> HIDE DEF p, n
<1>3. ASSUME NEW x PROVE In(p, x) = IF x = q.file THEN In(o, x) \cup {n + 1} ELSE In(o, x)
  <2>1. In(p, x) = {k \in (1..n) \cup {n + 1} : p[k].file = x}
    BY <1>1, <1>2 DEF In
  <2>2. In(o, x) = {k \in 1..n : p[k].file = x}
    BY <1>1 DEF In
  <2> QED BY <1>1, <2>1, <2>2
<1>4. \A x : In(o, x) \subseteq 1..n
  BY <1>1 DEF In
<1> QED BY <1>1, <1>3, <1>4 DEF p, n

\* An occurrence elsewhere leaves the first ones in a file alone.
LEMMA BeginsKept ==
  ASSUME NEW f \in Entries, NEW o \in Seq(Occurrence), NEW q \in Occurrence, q.file # f.index,
         NEW k \in DOMAIN o, BeginsAt(f, o, k)
  PROVE  BeginsAt(f, Append(o, q), k)
<1> DEFINE p == Append(o, q)  n == Len(o)  d == f.deltas
<1>1. /\ DOMAIN o = 1..n /\ \A j \in 1..n : p[j] = o[j]
      /\ In(p, f.index) = In(o, f.index) /\ In(o, f.index) \subseteq 1..n
  BY OccurrenceAdded
<1>2. d \in Seq(Int)
  BY DEF Entries
<1>3. /\ d # <<>> /\ In(o, f.index) = k..(k + Len(d) - 1)
      /\ d[1] = ToShort(o[k].pos) /\ (Len(d) > 1 => d[2] = ToShort(o[k + 1].pos - d[1]))
  BY DEF BeginsAt
<1> HIDE DEF p, n, d
<1>4. Len(d) > 1 => k + 1 \in 1..n
  <2>1. k \in Int /\ Len(d) \in Nat
    BY <1>1, <1>2
  <2>2. Len(d) > 1 => k + 1 \in k..(k + Len(d) - 1)
    BY <2>1
  <2> QED BY <1>1, <1>3, <2>2
<1>5. p[k] = o[k] /\ (Len(d) > 1 => p[k + 1] = o[k + 1])
  BY <1>1, <1>4
<1>6. d # <<>> /\ In(p, f.index) = k..(k + Len(d) - 1)
  BY <1>1, <1>3
<1>7. d[1] = ToShort(p[k].pos) /\ (Len(d) > 1 => d[2] = ToShort(p[k + 1].pos - d[1]))
  BY <1>3, <1>5
<1> QED BY <1>6, <1>7 DEF BeginsAt, p, d

\* One more in the last file is stored as a difference.
LEMMA BeginsGrown ==
  ASSUME NEW f \in Entries, NEW g \in Entries, NEW o \in Seq(Occurrence), NEW q \in Occurrence,
         NEW k \in DOMAIN o, BeginsAt(f, o, k), EndsAt(f, k, Len(o)),
         q.file = f.index, g.index = f.index,
         g.deltas = Append(f.deltas, ToShort(q.pos - Last(f.deltas)))
  PROVE  BeginsAt(g, Append(o, q), k) /\ EndsAt(g, k, Len(Append(o, q)))
<1> DEFINE p == Append(o, q)  n == Len(o)  d == f.deltas  e == g.deltas
           x == ToShort(q.pos - Last(d))
<1>1. /\ n \in Nat /\ Len(p) = n + 1 /\ DOMAIN o = 1..n /\ p[n + 1] = q
      /\ \A j \in 1..n : p[j] = o[j]
      /\ In(p, f.index) = In(o, f.index) \cup {n + 1} /\ k \in Int
  BY OccurrenceAdded
<1>2. d \in Seq(Int)
  BY DEF Entries
<1>3. /\ d # <<>> /\ In(o, f.index) = k..(k + Len(d) - 1)
      /\ d[1] = ToShort(o[k].pos) /\ (Len(d) > 1 => d[2] = ToShort(o[k + 1].pos - d[1]))
      /\ k + Len(d) - 1 = n
  BY DEF BeginsAt, EndsAt
<1>4. x \in Int /\ Last(d) = d[Len(d)] /\ Len(d) \in Nat \ {0}
  <2>1. Last(d) \in Int /\ Last(d) = d[Len(d)] /\ Len(d) \in Nat \ {0}
    BY <1>2, <1>3, LastOfList
  <2>2. q.pos \in Int
    BY DEF Occurrence
  <2>3. q.pos - Last(d) \in Int
    BY <2>1, <2>2
  <2> QED BY <2>1, <2>3, ShortType
<1> HIDE DEF p, n, d, x
<1>5. e = Append(d, x)
  BY DEF d, x
<1> HIDE DEF e
<1>6. Len(e) = Len(d) + 1 /\ e # <<>> /\ e[1] = d[1] /\ e[2] = IF Len(d) = 1 THEN x ELSE d[2]
  <2>1. /\ Append(d, x) \in Seq(Int) /\ Len(Append(d, x)) = Len(d) + 1
        /\ \A i \in 1..(Len(d) + 1) : Append(d, x)[i] = IF i <= Len(d) THEN d[i] ELSE x
    BY <1>2, <1>4
  <2>2. /\ 1 \in 1..(Len(d) + 1) /\ 2 \in 1..(Len(d) + 1) /\ 1 <= Len(d)
        /\ (2 <= Len(d) <=> Len(d) # 1) /\ Len(d) + 1 # 0
    <3>1. \A a \in Nat \ {0} : /\ 1 \in 1..(a + 1) /\ 2 \in 1..(a + 1) /\ 1 <= a
                               /\ (2 <= a <=> a # 1) /\ a + 1 # 0
      OBVIOUS
    <3> QED BY <1>4, <3>1
  <2>3. e \in Seq(Int) /\ Len(e) # 0
    BY <1>5, <2>1, <2>2
  <2>4. e # <<>>
    BY <2>3
  <2>5. e[1] = d[1]
    BY <1>5, <2>1, <2>2
  <2>6. e[2] = IF 2 <= Len(d) THEN d[2] ELSE x
    BY <1>5, <2>1, <2>2
  <2> QED BY <1>5, <2>1, <2>2, <2>4, <2>5, <2>6
<1>7. In(p, g.index) = k..(k + Len(e) - 1) /\ k + Len(e) - 1 = n + 1
  <2>1. k..n \cup {n + 1} = k..(n + 1)
    BY <1>1
  <2>2. k + Len(e) - 1 = n + 1
    <3>1. k \in Int /\ n \in Int
      BY <1>1
    <3>2. \A a, b \in Int : k + a - 1 = n /\ b = a + 1 => k + b - 1 = n + 1
      BY <3>1
    <3>3. Len(e) \in Int /\ Len(d) \in Int
      BY <1>4, <1>6
    <3> QED BY <1>3, <1>6, <3>2, <3>3
  <2> QED BY <1>1, <1>3, <2>1, <2>2
<1>8. e[1] = ToShort(p[k].pos)
  BY <1>1, <1>3, <1>6
<1>9. e[2] = ToShort(p[k + 1].pos - e[1])
  <2>1. CASE Len(d) = 1
    <3>1. k + 1 = n + 1
      BY <1>1, <1>3, <2>1
    <3>2. x = ToShort(q.pos - d[1])
      BY <1>4, <2>1 DEF x
    <3> QED BY <1>1, <1>6, <2>1, <3>1, <3>2
  <2>2. CASE Len(d) # 1
    <3>1. k + 1 \in 1..n /\ Len(d) > 1
      <4>1. k \in 1..n /\ n \in Nat
        BY <1>1
      <4>2. \A a \in Nat \ {0} : a # 1 /\ k + a - 1 = n => k + 1 \in 1..n /\ a > 1
        BY <4>1
      <4> QED BY <1>3, <1>4, <2>2, <4>2
    <3> QED BY <1>1, <1>3, <1>6, <2>2, <3>1
  <2> QED BY <2>1, <2>2
<1>10. BeginsAt(g, p, k)
  BY <1>6, <1>7, <1>8, <1>9 DEF BeginsAt, e
<1>11. EndsAt(g, k, Len(p))
  BY <1>1, <1>7 DEF EndsAt, e
<1> QED BY <1>10, <1>11 DEF p

\* The first in a file is stored as it is.
LEMMA BeginsNew ==
  ASSUME NEW g \in Entries, NEW o \in Seq(Occurrence), NEW q \in Occurrence,
         g.index = q.file, g.deltas = <<ToShort(q.pos)>>, In(o, q.file) = {}
  PROVE  LET k == Len(o) + 1 IN
         BeginsAt(g, Append(o, q), k) /\ EndsAt(g, k, Len(Append(o, q)))
<1> DEFINE p == Append(o, q)  n == Len(o)
<1>1. n \in Nat /\ Len(p) = n + 1 /\ p[n + 1] = q /\ In(p, g.index) = {n + 1}
  BY OccurrenceAdded
<1>2. Len(g.deltas) = 1 /\ g.deltas # <<>> /\ g.deltas[1] = ToShort(q.pos)
  OBVIOUS
<1>3. (n + 1)..((n + 1) + 1 - 1) = {n + 1} /\ (n + 1) + 1 - 1 = n + 1
  BY <1>1
<1> HIDE DEF p, n
<1>4. BeginsAt(g, p, n + 1)
  BY <1>1, <1>2, <1>3 DEF BeginsAt
<1>5. EndsAt(g, n + 1, Len(p))
  BY <1>1, <1>2, <1>3 DEF EndsAt
<1> QED BY <1>4, <1>5 DEF p, n

\* index_word() counts the occurrence in the last entry or in a new one; the
\* numbers in it still fit.
LEMMA CountedStep ==
  ASSUME ListInv, IndexWord
  PROVE  ListInv' /\ (FitInv => FitInv') /\ (FirstInv => FirstInv')
<1>1. PICK stride \in Strides, m \in MetaIds \cup {NoMeta} :
        /\ wordPos' = wordPos + stride
        /\ files' = Append(Front(Counted(current)),
                       WithWordPos(WithMeta(Last(Counted(current)), m), wordPos + stride))
        /\ occurs' = Append(occurs, [file |-> current, pos |-> wordPos + stride, meta |-> m])
  BY DEF IndexWord
<1> DEFINE pos == wordPos + stride
           o == [file |-> current, pos |-> pos, meta |-> m]
           n == Len(files)
<1>2. current \in Nat /\ wordPos \in Nat /\ pos \in Nat /\ current' = current
  BY PostingAssumption DEF ListInv, ListOK, IndexWord
<1>3. /\ o \in Occurrence /\ o.file = current /\ o.meta = m
      /\ m \in MetaIds \cup {NoMeta}
  BY <1>2 DEF Occurrence
<1>4. files \in Seq(Entries) /\ n \in Nat /\ DOMAIN files = 1..n
  BY DEF ListInv, ListOK
<1>5. \A i \in 1..n : files[i] \in Entries
  BY <1>4
<1>6. /\ \A i, j \in 1..n : i < j => files[i].index < files[j].index
      /\ {files[i].index : i \in 1..n} = {occurs[k].file : k \in DOMAIN occurs}
      /\ \A i \in 1..n : TellsOf(files[i], occurs)
  BY <1>4 DEF ListInv, EntriesAreWhatOccurred
<1> DEFINE grown == occurs'
<1>7. /\ occurs' \in Seq(Occurrence)
      /\ {occurs'[k].file : k \in DOMAIN occurs'} =
           {occurs[k].file : k \in DOMAIN occurs} \cup {current}
      /\ \A k \in DOMAIN occurs' : occurs'[k].file <= current
      /\ \A index \in Nat \ {current} : In(occurs', index) = In(occurs, index)
      /\ \A k \in DOMAIN occurs : occurs'[k] = occurs[k]
      /\ IsFiniteSet(In(occurs, current))
      /\ Cardinality(In(occurs', current)) = Cardinality(In(occurs, current)) + 1
      /\ {occurs'[k].meta : k \in In(occurs', current)} =
           {occurs[k].meta : k \in In(occurs, current)} \cup {m}
  BY <1>1, <1>3, OneMore
<1>8. ListOK' /\ NoneAhead' /\ EntriesAreWhatOccurred' <=>
        files' \in Seq(Entries) /\ EntriesAreWhatOccurred'
  BY <1>1, <1>2, <1>7 DEF ListOK, NoneAhead
<1> HIDE DEF o, pos
<1>20. /\ Len(occurs') = Len(occurs) + 1 /\ Len(occurs) \in Nat /\ Len(occurs) < MaxOccurs
       /\ MaxOccurs \in Nat
  BY <1>1, PostingAssumption DEF ListInv, ListOK, IndexWord
<1>21. ASSUME FitInv, \A i \in DOMAIN files' :
                        \/ i \in DOMAIN files /\ files'[i] = files[i]
                        \/ Fits(files'[i], occurs')
       PROVE  FitInv'
  <2>1. current' = current /\ current < LongMod /\ Len(occurs') <= MaxOccurs
    BY <1>2, <1>20, <1>21 DEF FitInv
  <2>2. ASSUME NEW i \in DOMAIN files, files'[i] = files[i] PROVE Fits(files'[i], occurs')
    <3>1. files[i].occurrences \in Nat
      BY <1>4, <1>5, <2>2 DEF Entries
    <3>2. files[i].occurrences <= Len(occurs')
      BY <1>20, <1>21, <2>2, <3>1 DEF FitInv, Fits
    <3> QED BY <1>21, <2>2, <3>2 DEF FitInv, Fits
  <2> QED BY <1>21, <2>1, <2>2 DEF FitInv
<1>22. /\ occurs' = Append(occurs, o) /\ occurs \in Seq(Occurrence) /\ o.pos = pos
       /\ DOMAIN occurs \subseteq DOMAIN occurs' /\ Len(occurs) + 1 \in DOMAIN occurs'
  BY <1>1, <1>7 DEF ListInv, ListOK, o, pos
<1>23. ASSUME FirstInv, NEW i \in 1..n, files[i].index # current
       PROVE  \E k \in DOMAIN occurs' : BeginsAt(files[i], occurs', k)
  <2>1. PICK k \in DOMAIN occurs : BeginsAt(files[i], occurs, k)
    BY <1>4, <1>23 DEF FirstInv
  <2>2. BeginsAt(files[i], Append(occurs, o), k)
    BY <1>3, <1>5, <1>22, <1>23, <2>1, BeginsKept
  <2> QED BY <1>22, <2>1, <2>2
\* The entries of earlier files tell what they told.
<1>9. \A i \in 1..n : files[i].index # current => TellsOf(files[i], occurs')
  <2> TAKE i \in 1..n
  <2> HAVE files[i].index # current
  <2>1. files[i].index \in Nat \ {current}
    BY <1>5 DEF Entries
  <2>2. In(occurs', files[i].index) = In(occurs, files[i].index)
    BY <1>7, <2>1
  <2>3. \A k \in In(occurs, files[i].index) : occurs'[k].meta = occurs[k].meta
    BY <1>7 DEF In
  <2> QED BY <1>6, <2>2, <2>3 DEF TellsOf
<1>10. CASE n > 0 /\ files[n].index = current
  <2> DEFINE e == [files[n] EXCEPT !.occurrences = @ + 1]
             new == WithWordPos(WithMeta(e, m), pos)
  <2>1. Counted(current) = Append(Front(files), e)
    BY <1>4, <1>10, LastOfList DEF Counted
  <2>2. /\ e \in Entries /\ e.index = current /\ e.occurrences = files[n].occurrences + 1
        /\ e.metas = files[n].metas /\ e.deltas = files[n].deltas /\ e.rank = files[n].rank
    <3>1. files[n] \in Entries
      BY <1>4, <1>5, <1>10
    <3>2. LET g == [files[n] EXCEPT !.occurrences = @ + 1] IN
          /\ g \in Entries /\ g.index = files[n].index
          /\ g.occurrences = files[n].occurrences + 1
          /\ g.metas = files[n].metas /\ g.deltas = files[n].deltas /\ g.rank = files[n].rank
      BY <3>1, CountedOnceMore
    <3> QED BY <1>10, <3>2
  <2> HIDE DEF e
  <2>3. /\ Counted(current) \in Seq(Entries) /\ Len(Counted(current)) = n
        /\ \A i \in 1..n : Counted(current)[i] = IF i = n THEN e ELSE files[i]
    <3>1. files # <<>>
      BY <1>4, <1>10
    <3>2. files \in Seq(Entries) /\ e \in Entries
      BY <1>4, <2>2
    <3>3. LET t == Append(Front(files), e) IN
          /\ t \in Seq(Entries) /\ Len(t) = Len(files)
          /\ \A i \in 1..Len(files) : t[i] = IF i = Len(files) THEN e ELSE files[i]
      BY <3>1, <3>2, ReplaceLast
    <3> QED BY <2>1, <3>3
  <2>4. Last(Counted(current)) = e /\ Counted(current) # <<>>
    BY <1>10, <2>3 DEF Last
  <2>5. /\ new \in Entries /\ new.index = current /\ new.occurrences = files[n].occurrences + 1
        /\ new.metas = files[n].metas \cup ({m} \ {NoMeta})
        /\ Len(new.deltas) = Len(files[n].deltas) + 1
        /\ new.rank = files[n].rank /\ (ShortDeltas(e) => ShortDeltas(new))
        /\ new.deltas = Append(files[n].deltas, ToShort(IF files[n].deltas = <<>> THEN pos
                                                       ELSE pos - Last(files[n].deltas)))
    <3>1. e \in Entries /\ pos \in Nat /\ m \in MetaIds \cup {NoMeta}
      BY <1>2, <1>3, <2>2
    <3>2. LET w == WithWordPos(WithMeta(e, m), pos) IN
          /\ w \in Entries
          /\ w.index = e.index /\ w.occurrences = e.occurrences
          /\ w.metas = e.metas \cup ({m} \ {NoMeta})
          /\ Len(w.deltas) = Len(e.deltas) + 1
          /\ w.rank = e.rank /\ (ShortDeltas(e) => ShortDeltas(w))
          /\ w.deltas = Append(e.deltas,
               ToShort(IF e.deltas = <<>> THEN pos ELSE pos - Last(e.deltas)))
      BY <3>1, EntryWithPos
    <3> QED BY <2>2, <3>2
  <2>6. files' = Append(Front(Counted(current)), new)
    BY <1>1, <2>4 DEF pos
  <2> HIDE DEF new
  <2>7. /\ files' \in Seq(Entries) /\ Len(files') = n
        /\ \A i \in 1..n : files'[i] = IF i = n THEN new ELSE files[i]
    BY <2>3, <2>4, <2>5, <2>6, ReplaceLast
  <2>8. DOMAIN files' = 1..n
    BY <2>7
  <2>9. \A i \in 1..n : files'[i].index = files[i].index
    BY <1>10, <2>5, <2>7
  <2>10. \A i \in 1..n : i # n => files[i].index # current
    BY <1>4, EntriesUpToCurrent
  <2>11. TellsOf(new, occurs')
    <3>1. TellsOf(files[n], occurs)
      BY <1>4, <1>6, <1>10
    <3> QED BY <1>7, <1>10, <2>5, <3>1 DEF TellsOf
  <2>12. \A i \in 1..n : TellsOf(files'[i], occurs')
    BY <1>9, <2>7, <2>10, <2>11
  <2>13. current \in {occurs[k].file : k \in DOMAIN occurs}
    <3>1. n \in 1..n
      BY <1>4, <1>10
    <3>2. current \in {files[i].index : i \in 1..n}
      BY <1>10, <3>1
    <3> QED BY <1>6, <3>2
  <2>14. {files'[i].index : i \in 1..n} = {occurs'[k].file : k \in DOMAIN occurs'}
    <3>1. {files'[i].index : i \in 1..n} = {files[i].index : i \in 1..n}
      BY <2>9
    <3> QED BY <1>6, <1>7, <2>13, <3>1
  <2>15. FitInv => FitInv'
    <3> SUFFICES ASSUME FitInv PROVE FitInv'
      OBVIOUS
    <3>1. Fits(files[n], occurs) /\ files[n].occurrences \in Nat
      <4>1. n \in 1..n
        BY <1>4, <1>10
      <4>2. files[n] \in Entries
        BY <1>5, <4>1
      <4> QED BY <1>4, <4>1, <4>2 DEF FitInv, Entries
    <3>2. Fits(new, occurs')
      <4>1. ShortDeltas(new)
        BY <2>2, <2>5, <3>1 DEF Fits, ShortDeltas
      <4>2. new.occurrences <= Len(occurs')
        BY <1>20, <2>5, <3>1 DEF Fits
      <4>3. new.index < LongMod /\ new.rank < LongMod
        BY <1>10, <2>5, <3>1 DEF Fits
      <4> QED BY <4>1, <4>2, <4>3 DEF Fits
    <3>3. \A i \in DOMAIN files' :
            (i \in DOMAIN files /\ files'[i] = files[i]) \/ files'[i] = new
      BY <1>4, <2>7, <2>8
    <3> QED BY <1>21, <3>2, <3>3
  <2>16. FirstInv => FirstInv'
    <3> SUFFICES ASSUME FirstInv, NEW i \in 1..n
                 PROVE  \E k \in DOMAIN occurs' :
                          /\ BeginsAt(files'[i], occurs', k)
                          /\ i = n => EndsAt(files'[i], k, Len(occurs'))
      BY <2>7, <2>8 DEF FirstInv
    <3>1. CASE i # n
      BY <1>23, <2>7, <2>10, <3>1
    <3>2. CASE i = n
      <4>1. PICK k \in DOMAIN occurs :
              BeginsAt(files[n], occurs, k) /\ EndsAt(files[n], k, Len(occurs))
        BY <1>4, <3>2 DEF FirstInv
      <4>2. files[n].deltas # <<>> /\ files[n] \in Entries
        BY <1>5, <3>2, <4>1 DEF BeginsAt
      <4>3. new.deltas = Append(files[n].deltas, ToShort(o.pos - Last(files[n].deltas)))
        BY <1>22, <2>5, <4>2
      <4>4. BeginsAt(new, Append(occurs, o), k) /\ EndsAt(new, k, Len(Append(occurs, o)))
        BY <1>3, <1>10, <1>22, <2>5, <4>1, <4>2, <4>3, BeginsGrown
      <4> QED BY <1>22, <2>7, <3>2, <4>1, <4>4
    <3> QED BY <3>1, <3>2
  <2> QED
    BY <1>6, <1>8, <2>7, <2>8, <2>9, <2>12, <2>14, <2>15, <2>16
    DEF EntriesAreWhatOccurred, ListInv
<1>11. CASE ~(n > 0 /\ files[n].index = current)
  <2> DEFINE e == NewFile(current)
             new == WithWordPos(WithMeta(e, m), pos)
  <2>1. Counted(current) = Append(files, e)
    BY <1>4, <1>11, LastOfList DEF Counted
  <2>2. /\ e \in Entries /\ e.index = current /\ e.occurrences = 1
        /\ e.metas = {} /\ e.deltas = <<>> /\ e.rank = 0
    BY <1>2 DEF Entries, NewFile
  <2> HIDE DEF e
  <2>3. /\ Counted(current) \in Seq(Entries) /\ Len(Counted(current)) = n + 1
        /\ \A i \in 1..(n + 1) : Counted(current)[i] = IF i = n + 1 THEN e ELSE files[i]
    BY <1>4, <2>1, <2>2
  <2>4. Last(Counted(current)) = e /\ Counted(current) # <<>>
    BY <1>4, <2>3 DEF Last
  <2>5. /\ new \in Entries /\ new.index = current /\ new.occurrences = 1
        /\ new.metas = {m} \ {NoMeta} /\ Len(new.deltas) = 1
        /\ new.rank = 0 /\ (ShortDeltas(e) => ShortDeltas(new))
        /\ new.deltas = <<ToShort(pos)>>
    <3>1. e \in Entries /\ pos \in Nat /\ m \in MetaIds \cup {NoMeta}
      BY <1>2, <1>3, <2>2
    <3>2. LET w == WithWordPos(WithMeta(e, m), pos) IN
          /\ w \in Entries
          /\ w.index = e.index /\ w.occurrences = e.occurrences
          /\ w.metas = e.metas \cup ({m} \ {NoMeta})
          /\ Len(w.deltas) = Len(e.deltas) + 1
          /\ w.rank = e.rank /\ (ShortDeltas(e) => ShortDeltas(w))
          /\ w.deltas = Append(e.deltas,
               ToShort(IF e.deltas = <<>> THEN pos ELSE pos - Last(e.deltas)))
      BY <3>1, EntryWithPos
    <3> QED BY <2>2, <3>2
  <2>6. files' = Append(Front(Counted(current)), new)
    BY <1>1, <2>4 DEF pos
  <2> HIDE DEF new
  <2>7. /\ files' \in Seq(Entries) /\ Len(files') = n + 1
        /\ \A i \in 1..(n + 1) : files'[i] = IF i = n + 1 THEN new ELSE files[i]
    BY <2>3, <2>4, <2>5, <2>6, ReplaceLast
  <2>8. DOMAIN files' = 1..(n + 1) /\ 1..(n + 1) = (1..n) \cup {n + 1} /\ n + 1 \notin 1..n
    BY <1>4, <2>7
  <2>9. \A i \in 1..n : files[i].index # current
    BY <1>4, <1>11, EntriesUpToCurrent
  <2>10. \A i \in 1..n : files[i].index < current
    <3>1. \A i \in 1..n : files[i].index \in Nat
      BY <1>5 DEF Entries
    <3>2. \A i \in 1..n : files[i].index <= current
      BY <1>4, EntriesUpToCurrent
    <3> QED BY <1>2, <2>9, <3>1, <3>2
  <2>11. In(occurs, current) = {}
    BY <1>4, <2>9, EntriesUpToCurrent
  <2>12. TellsOf(new, occurs')
    <3>1. Cardinality({}) = 0 /\ {occurs[k].meta : k \in In(occurs, current)} = {}
      BY <2>11, FS_EmptySet
    <3>2. Cardinality(In(occurs', current)) = 1
      BY <1>7, <2>11, <3>1
    <3> QED BY <1>7, <2>5, <3>1, <3>2 DEF TellsOf
  <2>13. \A i \in DOMAIN files' : TellsOf(files'[i], occurs')
    BY <1>9, <2>7, <2>8, <2>9, <2>12
  <2>14. \A i, j \in DOMAIN files' : i < j => files'[i].index < files'[j].index
    BY <1>4, <1>6, <2>5, <2>7, <2>8, <2>10
  <2>15. {files'[i].index : i \in DOMAIN files'} = {occurs'[k].file : k \in DOMAIN occurs'}
    <3>1. {files'[i].index : i \in DOMAIN files'} = {files[i].index : i \in 1..n} \cup {current}
      BY <2>5, <2>7, <2>8
    <3> QED BY <1>6, <1>7, <3>1
  <2>16. FitInv => FitInv'
    <3> SUFFICES ASSUME FitInv PROVE FitInv'
      OBVIOUS
    <3>1. Fits(new, occurs')
      <4>1. ShortDeltas(new)
        BY <2>2, <2>5 DEF ShortDeltas
      <4>2. new.occurrences <= Len(occurs')
        BY <1>20, <2>5
      <4>3. new.index < LongMod /\ new.rank < LongMod
        BY <2>5, PostingAssumption DEF FitInv
      <4> QED BY <4>1, <4>2, <4>3 DEF Fits
    <3>2. \A i \in DOMAIN files' :
            (i \in DOMAIN files /\ files'[i] = files[i]) \/ files'[i] = new
      BY <1>4, <2>7, <2>8
    <3> QED BY <1>21, <3>1, <3>2
  <2>17. FirstInv => FirstInv'
    <3> SUFFICES ASSUME FirstInv, NEW i \in 1..(n + 1)
                 PROVE  \E k \in DOMAIN occurs' :
                          /\ BeginsAt(files'[i], occurs', k)
                          /\ i = n + 1 => EndsAt(files'[i], k, Len(occurs'))
      BY <2>7, <2>8 DEF FirstInv
    <3>1. CASE i # n + 1
      <4>1. i \in 1..n /\ files'[i] = files[i]
        BY <2>7, <2>8, <3>1
      <4> QED BY <1>23, <2>9, <3>1, <4>1
    <3>2. CASE i = n + 1
      <4> DEFINE k == Len(occurs) + 1
      <4>1. BeginsAt(new, Append(occurs, o), k) /\ EndsAt(new, k, Len(Append(occurs, o)))
        BY <1>3, <1>22, <2>5, <2>11, BeginsNew
      <4>2. files'[i] = new /\ k \in DOMAIN occurs'
        BY <1>22, <2>7, <3>2
      <4> HIDE DEF k
      <4> QED BY <1>22, <4>1, <4>2
    <3> QED BY <3>1, <3>2
  <2> QED BY <1>8, <2>7, <2>13, <2>14, <2>15, <2>16, <2>17 DEF EntriesAreWhatOccurred, ListInv
<1> QED BY <1>10, <1>11

\* The list is what it should be at first ...
LEMMA ListInit == Init => ListInv
<1> SUFFICES ASSUME Init PROVE ListInv
  OBVIOUS
<1>1. occurs = <<>> /\ files = <<>> /\ current = 0 /\ wordPos = 0
  BY DEF Init
<1>2. ListOK
  BY <1>1 DEF ListOK
<1>3. NoneAhead /\ EntriesAreWhatOccurred
  BY <1>1 DEF NoneAhead, EntriesAreWhatOccurred
<1> QED BY <1>2, <1>3 DEF ListInv

\* ... and after every step.
LEMMA ListStep == ListInv /\ [Next]_vars => ListInv'
<1> SUFFICES ASSUME ListInv, [Next]_vars PROVE ListInv'
  OBVIOUS
<1>1. CASE IndexWord
  BY <1>1, CountedStep
<1>2. CASE NextFile
  <2>1. PICK stride \in FileStrides : current' = current + stride
    BY <1>2 DEF NextFile
  <2>2. current' \in Nat /\ current' >= current /\ wordPos' = 0 /\ UNCHANGED <<occurs, files>>
    BY <1>2, <2>1, PostingAssumption DEF NextFile, ListInv, ListOK
  <2>3. ListOK'
    BY <2>2 DEF ListInv, ListOK
  <2>4. NoneAhead'
    <3>1. \A k \in DOMAIN occurs : occurs[k] \in Occurrence
      BY DEF ListInv, ListOK
    <3> QED BY <2>2, <3>1 DEF ListInv, ListOK, NoneAhead, Occurrence
  <2>5. EntriesAreWhatOccurred'
    BY <2>2 DEF ListInv, EntriesAreWhatOccurred
  <2> QED BY <2>3, <2>4, <2>5 DEF ListInv
<1>3. CASE Write
  BY <1>3, RankedList, PostingAssumption DEF Write
<1>4. CASE Merge
  BY <1>4, RankedList, PostingAssumption DEF Merge
<1>5. CASE UNCHANGED <<occurs, current, wordPos, files>>
  BY <1>5 DEF ListInv, ListOK, NoneAhead, EntriesAreWhatOccurred
<1> QED
  BY <1>1, <1>2, <1>3, <1>4, <1>5
  DEF Next, vars, ReachEnd, ReadNumbers, EndEntry, BeginList, ReadNumber, EndList, Finished

\* The entries of a word tell of its occurrences, and of no others, while
\* files are indexed, after the list is written, and after a merge.
THEOREM EntriesTellOfOccurrences == Spec => []EntriesAreWhatOccurred
<1>1. ListInv => EntriesAreWhatOccurred
  BY DEF ListInv
<1> QED BY <1>1, ListInit, ListStep, PTL DEF Spec

\* Ranks leave positions alone.
LEMMA RankedFirst ==
  ASSUME ListInv, FirstInv, NEW r, files' = WithRank(files, r), UNCHANGED occurs
  PROVE  FirstInv'
<1>1. files \in Seq(Entries) /\ DOMAIN files = 1..Len(files) /\ Len(files) \in Nat
  BY DEF ListInv, ListOK
<1>2. /\ DOMAIN files' = DOMAIN files
      /\ \A i \in DOMAIN files : files'[i] = [files[i] EXCEPT !.rank = r]
  BY <1>1 DEF WithRank
<1>3. Len(files') = Len(files)
  BY <1>1, <1>2 DEF WithRank
<1>4. \A i \in DOMAIN files : files'[i].index = files[i].index /\ files'[i].deltas = files[i].deltas
  <2> TAKE i \in DOMAIN files
  <2>1. files[i] \in Entries
    BY <1>1
  <2> QED BY <1>2, <2>1 DEF Entries
<1>5. ASSUME NEW i \in DOMAIN files', NEW k \in DOMAIN occurs, BeginsAt(files[i], occurs, k),
             i = Len(files) => EndsAt(files[i], k, Len(occurs))
      PROVE  /\ BeginsAt(files'[i], occurs, k)
             /\ i = Len(files) => EndsAt(files'[i], k, Len(occurs))
  BY <1>2, <1>4, <1>5 DEF BeginsAt, EndsAt
<1> QED BY <1>2, <1>3, <1>5 DEF FirstInv

\* The first positions are what they should be after every step.
LEMMA FirstStep == ListInv /\ FirstInv /\ [Next]_vars => FirstInv'
<1> SUFFICES ASSUME ListInv, FirstInv, [Next]_vars PROVE FirstInv'
  OBVIOUS
<1>1. CASE IndexWord
  BY <1>1, CountedStep
<1>2. CASE Write
  BY <1>2, RankedFirst DEF Write
<1>3. CASE Merge
  BY <1>3, RankedFirst DEF Merge
<1>4. CASE UNCHANGED <<occurs, files>>
  BY <1>4 DEF FirstInv
<1> QED
  BY <1>1, <1>2, <1>3, <1>4
  DEF Next, vars, NextFile, ReachEnd, ReadNumbers, EndEntry, BeginList, ReadNumber, EndList,
      Finished

-----------------------------------------------------------------------------
(* Numbers of bytes.                                                       *)

\* Division by the number of values of a byte without its highest bit
LEMMA Division ==
  ASSUME NEW n \in Nat, n >= Half
  PROVE  /\ n \div Half \in Nat /\ 0 < n \div Half /\ n \div Half < n
         /\ n % Half \in 0..(Half - 1) /\ n = ((n \div Half) * Half) + (n % Half)
<1>1. Half \in Nat /\ Half > 1
  BY PostingAssumption
<1>2. n = ((n \div Half) * Half) + (n % Half)
  BY <1>1
<1>3. n % Half \in 0..(Half - 1)
  BY <1>1
<1>4. n \div Half \in Nat
  BY <1>1
<1>5. 0 < n \div Half
  BY <1>1
<1>6. n \div Half < n
  BY <1>1
<1> QED BY <1>2, <1>3, <1>4, <1>5, <1>6

\* The bits of a byte without the highest
LEMMA LowBits ==
  ASSUME NEW d \in 0..(Half - 1)
  PROVE  (d + Half) % Half = d /\ d % Half = d
<1>1. Half \in Nat /\ Half > 1
  BY PostingAssumption
<1>2. d % Half = d
  BY <1>1
<1>3. (d + Half) % Half = d
  BY <1>1
<1> QED BY <1>2, <1>3

\* What is put in a short differs from the number by its width, or several.
LEMMA ShortDiffers ==
  ASSUME NEW n \in Int
  PROVE  (ToShort(n) - n) % ShortMod = 0
<1> DEFINE h == ShortMod \div 2  q == (n + h) \div ShortMod
<1>1. ShortMod \in Nat /\ ShortMod > 0 /\ h \in Int
  BY PostingAssumption
<1>2. q \in Int /\ (n + h) % ShortMod = (n + h) - q * ShortMod
  <2> HIDE DEF h
  <2> QED BY <1>1
<1>3. ToShort(n) = ((n + h) % ShortMod) - h
  BY DEF ToShort
<1> HIDE DEF h, q
<1>4. ToShort(n) - n = 0 + (-q) * ShortMod
  BY <1>1, <1>2, <1>3
<1>5. \A a \in Int : (0 + a * ShortMod) % ShortMod = 0
  BY <1>1
<1> QED BY <1>2, <1>4, <1>5

\* A difference within the width of a short is read back from an unsigned long.
LEMMA ShortThroughLong ==
  ASSUME NEW d \in ShortRange
  PROVE  ToShort(ToLong(d)) = d
<1> DEFINE h == ShortMod \div 2  q == LongMod \div ShortMod
<1>1. /\ ShortMod \in Nat /\ LongMod \in Nat /\ ShortMod > 0 /\ LongMod >= ShortMod
      /\ LongMod % ShortMod = 0 /\ ShortMod % 2 = 0
  BY PostingAssumption
<1>2. h \in Nat /\ ShortMod = 2 * h /\ h > 0
  BY <1>1
<1>3. q \in Int /\ LongMod = q * ShortMod
  <2>1. LongMod = ((LongMod \div ShortMod) * ShortMod) + (LongMod % ShortMod)
    BY <1>1
  <2>2. q \in Int
    BY <1>1
  <2> QED BY <1>1, <2>1, <2>2
<1>4. d \in Int /\ -h <= d /\ d <= h - 1
  BY <1>2 DEF ShortRange
<1> HIDE DEF h, q
<1>5. d + h \in 0..(ShortMod - 1)
  BY <1>2, <1>4
<1>6. (d + h) % ShortMod = d + h
  BY <1>1, <1>5
<1>7. ToShort(d) = d
  BY <1>2, <1>4, <1>6 DEF ToShort, h
<1>8. CASE d >= 0
  <2>1. d \in 0..(LongMod - 1)
    BY <1>1, <1>2, <1>4, <1>8
  <2>2. d % LongMod = d
    BY <1>1, <2>1
  <2> QED BY <1>7, <2>2 DEF ToLong
<1>9. CASE d < 0
  <2>1. d + LongMod \in 0..(LongMod - 1)
    BY <1>1, <1>2, <1>4, <1>9
  <2>2. d % LongMod = d + LongMod
    BY <1>1, <1>4, <2>1
  <2>3. ((d + LongMod) + h) % ShortMod = d + h
    <3>1. (d + LongMod) + h = (d + h) + q * ShortMod
      BY <1>2, <1>3, <1>4
    <3>2. ((d + h) + q * ShortMod) % ShortMod = d + h
      BY <1>1, <1>3, <1>5
    <3> QED BY <3>1, <3>2
  <2> QED BY <1>2, <1>4, <2>2, <2>3 DEF ToLong, ToShort, h
<1> QED BY <1>4, <1>8, <1>9

\* digits is defined by its equation.
IsDigits(d) ==
  d = [n \in Nat |-> IF n < Half THEN <<n>> ELSE Append(d[n \div Half], n % Half)]

\* The recursive definition of digits defines them.
LEMMA DigitsAre ==
  \A n \in Nat : digits[n] = IF n < Half THEN <<n>> ELSE Append(digits[n \div Half], n % Half)
<1> DEFINE S == Seq(Nat)
           B == {n \in Nat : n < Half}
           base == [n \in Nat |-> <<n>>]
           step == [n \in Nat |-> [s \in S |-> Append(s, n % Half)]]
           back == [n \in Nat |-> n \div Half]
<1>1. Half \in Nat /\ Half > 1
  BY PostingAssumption
<1>2. B \in SUBSET Nat /\ base \in [Nat -> S]
  OBVIOUS
<1>3. \A n \in Nat : n % Half \in Nat /\ n \div Half \in Nat
  BY <1>1
<1>4. step \in [Nat -> [S -> S]]
  <2>1. ASSUME NEW n \in Nat PROVE [s \in S |-> Append(s, n % Half)] \in [S -> S]
    <3>1. n % Half \in Nat
      BY <1>3
    <3>2. \A s \in S : Append(s, n % Half) \in S
      BY <3>1
    <3> HIDE DEF S
    <3> QED BY <3>2
  <2> HIDE DEF S
  <2> QED BY <2>1
<1>5. back \in [Nat -> Nat] /\ \A n \in Nat \ B : back[n] < n
  <2>1. \A n \in Nat \ B : n \in Nat /\ n >= Half
    BY <1>1
  <2>2. \A n \in Nat : back[n] = n \div Half
    OBVIOUS
  <2>3. back \in [Nat -> Nat]
    BY <1>3
  <2> HIDE DEF B, back
  <2> QED BY <2>1, <2>2, <2>3, Division
<1> HIDE DEF S, B, base, step, back
<1>6. PICK f \in [Nat -> S] : IsRecursive(f, B, base, step, back)
  BY <1>2, <1>4, <1>5, Recursion
<1>7. \A n \in Nat : f[n] = IF n < Half THEN <<n>> ELSE Append(f[n \div Half], n % Half)
  <2> TAKE n \in Nat
  <2>1. n \in B <=> n < Half
    BY DEF B
  <2>2. base[n] = <<n>> /\ back[n] = n \div Half
    BY DEF base, back
  <2>3. f[n \div Half] \in S
    BY <1>3
  <2>4. step[n][f[n \div Half]] = Append(f[n \div Half], n % Half)
    BY <2>3 DEF step
  <2> QED BY <1>6, <2>1, <2>2, <2>4 DEF IsRecursive
<1>8. IsDigits(f)
  BY <1>6, <1>7 DEF IsDigits
<1>9. digits = CHOOSE d : IsDigits(d)
  BY Zenon DEF digits, IsDigits
<1>10. IsDigits(digits)
  BY <1>8, <1>9, Zenon
<1> QED BY <1>10 DEF IsDigits

\* Case by case
LEMMA OneDigit ==
  ASSUME NEW n \in Nat, n < Half
  PROVE  digits[n] = <<n>>
<1>1. digits[n] = IF n < Half THEN <<n>> ELSE Append(digits[n \div Half], n % Half)
  BY DigitsAre, Zenon
<1> QED BY <1>1

\* More digits are those of what remains, and the last one.
LEMMA MoreDigits ==
  ASSUME NEW n \in Nat, n >= Half
  PROVE  digits[n] = Append(digits[n \div Half], n % Half)
<1>1. digits[n] = IF n < Half THEN <<n>> ELSE Append(digits[n \div Half], n % Half)
  BY DigitsAre, Zenon
<1>2. ~(n < Half)
  BY PostingAssumption
<1> QED BY <1>1, <1>2

\* There is at least one digit, the first is 0 only in 0, and all are less than Half.
LEMMA DigitsType ==
  \A n \in Nat : /\ digits[n] \in Seq(0..(Half - 1)) /\ Len(digits[n]) > 0
                 /\ n > 0 => digits[n][1] > 0
                 /\ Len(digits[n]) > 1 => n > 0
<1> DEFINE Good(n) == /\ digits[n] \in Seq(0..(Half - 1)) /\ Len(digits[n]) > 0
                      /\ n > 0 => digits[n][1] > 0
                      /\ Len(digits[n]) > 1 => n > 0
           S == {n \in Nat : \A m \in 0..n : Good(m)}
<1>1. Half \in Nat /\ Half > 1
  BY PostingAssumption
<1>2. ASSUME NEW n \in Nat, n < Half PROVE Good(n)
  <2>1. digits[n] = <<n>> /\ n \in 0..(Half - 1)
    BY <1>1, <1>2, OneDigit
  <2> QED BY <2>1
<1>3. ASSUME NEW n \in Nat, n >= Half, Good(n \div Half) PROVE Good(n)
  <2> DEFINE d == digits[n \div Half]
  <2>1. n \div Half \in Nat /\ n \div Half > 0 /\ n % Half \in 0..(Half - 1)
    BY <1>3, Division
  <2>2. digits[n] = Append(d, n % Half)
    BY <1>3, MoreDigits, Zenon
  <2>3. d \in Seq(0..(Half - 1)) /\ Len(d) > 0 /\ d[1] > 0
    BY <1>3, <2>1
  <2> HIDE DEF d
  <2>4. /\ digits[n] \in Seq(0..(Half - 1)) /\ Len(digits[n]) = Len(d) + 1
        /\ digits[n][1] = d[1]
    BY <2>1, <2>2, <2>3
  <2>5. Len(d) \in Nat /\ n > 0
    BY <1>1, <1>3, <2>3
  <2> QED BY <2>3, <2>4, <2>5
<1> HIDE DEF Good
<1>4. 0 \in S
  <2>1. Good(0)
    BY <1>1, <1>2
  <2>2. \A m \in 0..0 : m = 0
    OBVIOUS
  <2> QED BY <2>1, <2>2
<1>5. ASSUME NEW n \in Nat, n \in S PROVE n + 1 \in S
  <2>1. Good(n + 1)
    <3>1. CASE n + 1 < Half
      BY <1>2, <3>1
    <3>2. CASE n + 1 >= Half
      <4>1. (n + 1) \div Half \in 0..n
        <5>1. n + 1 \in Nat
          OBVIOUS
        <5>2. (n + 1) \div Half \in Nat /\ (n + 1) \div Half < n + 1
          BY <3>2, <5>1, Division
        <5> QED BY <5>2
      <4>2. Good((n + 1) \div Half)
        BY <1>5, <4>1
      <4> QED BY <1>3, <3>2, <4>2
    <3> QED BY <1>1, <3>1, <3>2
  <2>2. \A m \in 0..(n + 1) : m \in 0..n \/ m = n + 1
    OBVIOUS
  <2> QED BY <1>5, <2>1, <2>2
<1> HIDE DEF S
<1>6. \A n \in Nat : n \in S
  BY <1>4, <1>5, Induction
<1>7. \A n \in Nat : n \in 0..n
  OBVIOUS
<1>8. \A n \in Nat : Good(n)
  BY <1>6, <1>7 DEF S
<1> QED BY <1>8 DEF Good

\* The value that Decode() reaches, byte by byte
IsValue(f, p) ==
  f = [q \in 0..Len(bytes) |->
         IF q < p THEN 0 ELSE ((f[q - 1] * Half) + (bytes[q] % Half)) % LongMod]

\* The recursive definition of a decoded value defines one ...
LEMMA ValueExists ==
  ASSUME bytes \in Seq(Nat), NEW p \in Nat \ {0}
  PROVE  \E f \in [0..Len(bytes) -> Nat] : IsValue(f, p)
<1> DEFINE B == {q \in Nat : q < p \/ q > Len(bytes)}
           base == [q \in Nat |-> 0]
           step == [q \in Nat |-> [n \in Nat |->
                     IF q \in B THEN 0 ELSE ((n * Half) + (bytes[q] % Half)) % LongMod]]
           back == [q \in Nat |-> IF q = 0 THEN 0 ELSE q - 1]
<1>1. Half \in Nat /\ Half > 1 /\ LongMod \in Nat /\ LongMod > 0 /\ Len(bytes) \in Nat
  BY PostingAssumption
<1>2. B \in SUBSET Nat /\ base \in [Nat -> Nat] /\ back \in [Nat -> Nat]
  OBVIOUS
<1>3. \A q \in Nat \ B : q \in 1..Len(bytes) /\ bytes[q] \in Nat /\ back[q] = q - 1 /\ back[q] < q
  BY <1>1
<1>4. step \in [Nat -> [Nat -> Nat]]
  <2>1. ASSUME NEW q \in Nat, NEW n \in Nat
        PROVE  (IF q \in B THEN 0 ELSE ((n * Half) + (bytes[q] % Half)) % LongMod) \in Nat
    <3>1. CASE q \in B
      BY <3>1
    <3>2. CASE q \notin B
      <4>1. bytes[q] % Half \in Nat
        BY <1>1, <1>3, <3>2
      <4>2. (n * Half) + (bytes[q] % Half) \in Nat
        BY <1>1, <4>1
      <4>3. ((n * Half) + (bytes[q] % Half)) % LongMod \in Nat
        BY <1>1, <4>2
      <4> QED BY <3>2, <4>3
    <3> QED BY <3>1, <3>2
  <2> HIDE DEF B
  <2> QED BY <2>1
<1>5. \A q \in Nat \ B : back[q] < q
  BY <1>3
<1> HIDE DEF base, step, back
<1>6. PICK g \in [Nat -> Nat] : IsRecursive(g, B, base, step, back)
  <2> HIDE DEF B
  <2> QED BY <1>2, <1>4, <1>5, Recursion
<1> DEFINE f == [q \in 0..Len(bytes) |-> g[q]]
<1>7. \A q \in 0..Len(bytes) :
        f[q] = IF q < p THEN 0 ELSE ((f[q - 1] * Half) + (bytes[q] % Half)) % LongMod
  <2> TAKE q \in 0..Len(bytes)
  <2>1. q \in Nat /\ f[q] = g[q]
    BY <1>1
  <2>2. CASE q < p
    <3>1. q \in B
      BY <2>1, <2>2
    <3> QED BY <1>6, <2>1, <2>2, <3>1 DEF IsRecursive, base
  <2>3. CASE ~(q < p)
    <3>1. q \notin B /\ q - 1 \in Nat /\ q - 1 \in 0..Len(bytes)
      <4>1. q <= Len(bytes) /\ q >= p /\ p >= 1
        BY <1>1, <2>1, <2>3
      <4>2. q - 1 \in Nat /\ q - 1 \in 0..Len(bytes)
        BY <1>1, <2>1, <4>1
      <4>3. ~(q < p) /\ ~(q > Len(bytes))
        BY <1>1, <2>1, <4>1
      <4> QED BY <4>2, <4>3
    <3>2. g[q] = step[q][g[q - 1]]
      <4>1. back[q] = q - 1
        BY <1>3, <2>1, <3>1
      <4> QED BY <1>6, <2>1, <3>1, <4>1 DEF IsRecursive
    <3>3. g[q - 1] \in Nat /\ f[q - 1] = g[q - 1]
      BY <3>1
    <3> HIDE DEF B, f
    <3>4. step[q][g[q - 1]] = ((g[q - 1] * Half) + (bytes[q] % Half)) % LongMod
      BY <2>1, <3>1, <3>3 DEF step
    <3> QED BY <2>1, <2>3, <3>2, <3>3, <3>4
  <2> QED BY <2>2, <2>3
<1>8. f \in [0..Len(bytes) -> Nat]
  BY <1>1
<1> HIDE DEF f
<1>9. IsValue(f, p)
  BY <1>7, <1>8 DEF IsValue
<1> QED BY <1>8, <1>9

\* ... which is a natural number at every place.
LEMMA ValueType ==
  ASSUME bytes \in Seq(Nat), NEW p \in Nat \ {0}, NEW f, IsValue(f, p)
  PROVE  f \in [0..Len(bytes) -> Nat]
<1>1. Half \in Nat /\ LongMod \in Nat /\ LongMod > 0 /\ Len(bytes) \in Nat
  BY PostingAssumption
<1>2. \A q \in 0..Len(bytes) :
        f[q] = IF q < p THEN 0 ELSE ((f[q - 1] * Half) + (bytes[q] % Half)) % LongMod
  BY DEF IsValue
<1> DEFINE S == {q \in Nat : q \in 0..Len(bytes) => f[q] \in Nat}
<1>3. 0 \in S
  BY <1>1, <1>2
<1>4. ASSUME NEW n \in Nat, n \in S PROVE n + 1 \in S
  <2> SUFFICES ASSUME n + 1 \in 0..Len(bytes) PROVE f[n + 1] \in Nat
    OBVIOUS
  <2>1. CASE n + 1 < p
    BY <1>2, <2>1
  <2>2. CASE ~(n + 1 < p)
    <3>1. n \in 0..Len(bytes) /\ (n + 1) - 1 = n /\ n + 1 \in 1..Len(bytes)
      BY <1>1
    <3>2. f[n] \in Nat /\ bytes[n + 1] \in Nat
      BY <1>4, <3>1
    <3>3. f[n + 1] = ((f[n] * Half) + (bytes[n + 1] % Half)) % LongMod
      BY <1>2, <2>2, <3>1
    <3>4. bytes[n + 1] % Half \in Nat
      BY <3>2, PostingAssumption
    <3>5. (f[n] * Half) + (bytes[n + 1] % Half) \in Nat
      <4>1. \A a, b \in Nat : (a * Half) + b \in Nat
        BY <1>1
      <4> QED BY <3>2, <3>4, <4>1
    <3> QED BY <1>1, <3>3, <3>5
  <2> QED BY <2>1, <2>2
<1> HIDE DEF S
<1>5. \A n \in Nat : n \in S
  BY <1>3, <1>4, Induction
<1>6. \A q \in 0..Len(bytes) : f[q] \in Nat
  <2>1. \A q \in 0..Len(bytes) : q \in Nat
    BY <1>1
  <2> QED BY <1>5, <2>1 DEF S
<1>7. \E g : g = f /\ g = [q \in 0..Len(bytes) |->
         IF q < p THEN 0 ELSE ((f[q - 1] * Half) + (bytes[q] % Half)) % LongMod]
  BY DEF IsValue
<1>8. DOMAIN f = 0..Len(bytes) /\ f = [q \in DOMAIN f |-> f[q]]
  BY <1>7, Zenon
<1> QED BY <1>6, <1>8

\* A number's digits have its value.
LEMMA DigitsValue ==
  ASSUME bytes \in Seq(Nat), NEW p \in Nat \ {0}, NEW f \in [0..Len(bytes) -> Nat], IsValue(f, p)
  PROVE  \A n \in 0..(LongMod - 1) :
           /\ p + Len(digits[n]) - 1 <= Len(bytes)
           /\ \A i \in 1..Len(digits[n]) : bytes[p + i - 1] % Half = digits[n][i]
           => f[p + Len(digits[n]) - 1] = n
<1> DEFINE Held(n) == /\ p + Len(digits[n]) - 1 <= Len(bytes)
                      /\ \A i \in 1..Len(digits[n]) : bytes[p + i - 1] % Half = digits[n][i]
           Good(n) == n < LongMod /\ Held(n) => f[p + Len(digits[n]) - 1] = n
           S == {n \in Nat : \A m \in 0..n : Good(m)}
<1>1. Half \in Nat /\ Half > 1 /\ LongMod \in Nat /\ LongMod > 0 /\ Len(bytes) \in Nat
  BY PostingAssumption
<1>2. \A q \in 0..Len(bytes) :
        f[q] = IF q < p THEN 0 ELSE ((f[q - 1] * Half) + (bytes[q] % Half)) % LongMod
  BY DEF IsValue
<1>3. ASSUME NEW n \in Nat, n < Half, n < LongMod, Held(n) PROVE f[p + Len(digits[n]) - 1] = n
  <2>1. digits[n] = <<n>> /\ Len(digits[n]) = 1 /\ digits[n][1] = n
    <3>1. digits[n] = <<n>>
      BY <1>3, OneDigit
    <3> QED BY <3>1
  <2>2. p <= Len(bytes) /\ p + 1 - 1 = p /\ p \in 0..Len(bytes) /\ p - 1 \in 0..Len(bytes)
    BY <1>1, <1>3, <2>1
  <2>3. bytes[p] % Half = n
    BY <1>3, <2>1, <2>2
  <2>4. f[p - 1] = 0
    BY <1>2, <2>2
  <2>5. f[p] = ((0 * Half) + n) % LongMod
    BY <1>2, <2>2, <2>3, <2>4
  <2>6. ((0 * Half) + n) % LongMod = n
    BY <1>1, <1>3
  <2> QED BY <2>1, <2>2, <2>5, <2>6
<1>4. ASSUME NEW n \in Nat, n >= Half, n < LongMod, Held(n), Good(n \div Half)
      PROVE  f[p + Len(digits[n]) - 1] = n
  <2> DEFINE m == n \div Half  d == digits[m]  q == p + Len(d)
  <2>1. m \in Nat /\ m < n /\ n % Half \in 0..(Half - 1) /\ n = (m * Half) + (n % Half)
    BY <1>4, Division
  <2>2. d \in Seq(0..(Half - 1)) /\ Len(d) > 0
    BY <2>1, DigitsType
  <2>3. digits[n] = Append(d, n % Half)
    BY <1>4, MoreDigits, Zenon
  <2> HIDE DEF m, d
  <2>4. /\ Len(digits[n]) = Len(d) + 1 /\ Len(d) \in Nat
        /\ \A i \in 1..Len(d) : digits[n][i] = d[i]
        /\ digits[n][Len(d) + 1] = n % Half
    BY <2>1, <2>2, <2>3
  <2>5. q \in 0..Len(bytes) /\ q - 1 \in 0..Len(bytes) /\ ~(q < p) /\ p + Len(digits[n]) - 1 = q
    <3>1. p + Len(digits[n]) - 1 <= Len(bytes) /\ p \in Nat /\ p > 0
      BY <1>4
    <3>2. Len(d) \in Nat /\ Len(d) > 0
      BY <2>2, <2>4
    <3> DEFINE l == Len(d)  e == Len(bytes)
    <3>3. /\ p + (l + 1) - 1 <= e /\ p \in Nat /\ p > 0 /\ l \in Nat /\ l > 0 /\ e \in Nat
          /\ q = p + l
      BY <1>1, <2>4, <3>1, <3>2
    <3> HIDE DEF l, e, q
    <3>4. q \in 0..e /\ q - 1 \in 0..e /\ ~(q < p) /\ p + (l + 1) - 1 = q
      BY <3>3
    <3> QED BY <2>4, <3>4 DEF l, e
  <2>6. f[q - 1] = m
    <3>1. \A i \in 1..Len(d) : bytes[p + i - 1] % Half = d[i]
      <4> TAKE i \in 1..Len(d)
      <4>1. i \in 1..Len(digits[n])
        BY <2>4
      <4> QED BY <1>4, <2>4, <4>1
    <3>2. p + Len(d) - 1 <= Len(bytes)
      BY <1>1, <2>5, <2>4
    <3> QED BY <1>1, <1>4, <2>1, <3>1, <3>2 DEF m, d
  <2>7. bytes[q] % Half = n % Half
    <3>1. Len(d) + 1 \in 1..Len(digits[n]) /\ p + (Len(d) + 1) - 1 = q
      BY <2>4
    <3> QED BY <1>4, <2>4, <3>1
  <2> HIDE DEF q
  <2>8. f[q] = ((m * Half) + (n % Half)) % LongMod
    BY <1>2, <2>5, <2>6, <2>7
  <2>9. n % LongMod = n
    <3>1. n \in 0..(LongMod - 1)
      BY <1>1, <1>4
    <3> HIDE DEF Held, Good
    <3> QED BY <1>1, <3>1
  <2> QED BY <2>1, <2>5, <2>8, <2>9
<1> HIDE DEF Held
<1>5. 0 \in S
  <2>1. Good(0)
    BY <1>1, <1>3
  <2>2. \A m \in 0..0 : m = 0
    OBVIOUS
  <2> HIDE DEF Good
  <2> QED BY <2>1, <2>2
<1>6. ASSUME NEW n \in Nat, n \in S PROVE n + 1 \in S
  <2>1. Good(n + 1)
    <3>1. CASE n + 1 < Half
      BY <1>3, <3>1
    <3>2. CASE n + 1 >= Half
      <4>1. (n + 1) \div Half \in 0..n
        <5>1. n + 1 \in Nat
          OBVIOUS
        <5>2. (n + 1) \div Half \in Nat /\ (n + 1) \div Half < n + 1
          BY <3>2, <5>1, Division
        <5> QED BY <5>2
      <4>2. Good((n + 1) \div Half)
        BY <1>6, <4>1
      <4> QED BY <1>4, <3>2, <4>2
    <3> QED BY <1>1, <3>1, <3>2
  <2>2. \A m \in 0..(n + 1) : m \in 0..n \/ m = n + 1
    OBVIOUS
  <2> HIDE DEF Good
  <2> QED BY <1>6, <2>1, <2>2
<1> HIDE DEF S
<1>7. \A n \in Nat : n \in S
  BY <1>5, <1>6, Induction
<1>8. \A n \in Nat : Good(n)
  <2>1. \A n \in Nat : n \in 0..n
    OBVIOUS
  <2> HIDE DEF Good
  <2> QED BY <1>7, <2>1 DEF S
<1> QED BY <1>1, <1>8 DEF Held

\* What the bytes of a number are
LEMMA EncodedNumber ==
  ASSUME NEW n \in Int
  PROVE  LET l == ToLong(n)  e == Encode(n)  d == digits[l] IN
         /\ l \in 0..(LongMod - 1)
         /\ e \in Seq(Nat) /\ Len(e) = Len(d) /\ Len(e) > 0
         /\ \A i \in 1..Len(e) : e[i] % Half = d[i] /\ (e[i] < Half <=> i = Len(e))
         /\ e[1] # Half
<1> DEFINE l == ToLong(n)  e == Encode(n)  d == digits[l]
<1>1. Half \in Nat /\ Half > 1 /\ LongMod \in Nat /\ LongMod > 0
  BY PostingAssumption
<1>2. l \in 0..(LongMod - 1) /\ l \in Nat
  BY <1>1 DEF ToLong
<1>3. d \in Seq(0..(Half - 1)) /\ Len(d) > 0 /\ (Len(d) > 1 => d[1] > 0)
  BY <1>2, DigitsType
<1>4. DOMAIN d = 1..Len(d) /\ Len(d) \in Nat /\ \A i \in 1..Len(d) : d[i] \in 0..(Half - 1)
  <2>1. DOMAIN d = 1..Len(d) /\ Len(d) \in Nat
    BY <1>3, LenProperties, ElementOfSeq
  <2> HIDE DEF d
  <2>2. \A i \in 1..Len(d) : d[i] \in 0..(Half - 1)
    BY <1>3, ElementOfSeq
  <2> QED BY <2>1, <2>2
<1>5. e = [i \in 1..Len(d) |-> IF i < Len(d) THEN d[i] + Half ELSE d[i]]
  BY <1>4 DEF Encode
<1> HIDE DEF l, e, d
<1>6. e \in Seq(Nat) /\ Len(e) = Len(d)
  BY <1>1, <1>4, <1>5
<1>7. ASSUME NEW i \in 1..Len(e)
      PROVE  e[i] % Half = d[i] /\ (e[i] < Half <=> i = Len(e))
  <2>1. d[i] \in 0..(Half - 1) /\ e[i] = IF i < Len(d) THEN d[i] + Half ELSE d[i]
    BY <1>4, <1>5, <1>6
  <2>2. (d[i] + Half) % Half = d[i] /\ d[i] % Half = d[i]
    BY <2>1, LowBits
  <2>3. CASE i < Len(d)
    <3>1. e[i] = d[i] + Half /\ i # Len(e)
      <4>1. e[i] = d[i] + Half
        BY <2>1, <2>3
      <4>2. Len(d) \in Nat /\ Len(e) = Len(d)
        BY <1>4, <1>6
      <4>3. i # Len(e)
        BY <2>3, <4>2
      <4> QED BY <4>1, <4>3
    <3>2. ~(d[i] + Half < Half)
      BY <1>1, <2>1
    <3> QED BY <2>2, <3>1, <3>2
  <2>4. CASE i = Len(d)
    <3>1. e[i] = d[i] /\ d[i] < Half /\ i = Len(e)
      BY <1>1, <1>4, <1>6, <2>1, <2>4
    <3> QED BY <2>2, <3>1
  <2>5. i < Len(d) \/ i = Len(d)
    <3>1. i \in 1..Len(d) /\ Len(d) \in Nat
      BY <1>4, <1>6
    <3> HIDE DEF d
    <3> QED BY <3>1
  <2> QED BY <2>3, <2>4, <2>5
<1>8. e[1] # Half
  <2>1. d[1] \in 0..(Half - 1) /\ e[1] = IF 1 < Len(d) THEN d[1] + Half ELSE d[1]
    BY <1>3, <1>4, <1>5
  <2> QED BY <1>1, <1>3, <1>4, <2>1
<1> QED BY <1>2, <1>3, <1>6, <1>7, <1>8 DEF l, e, d

-----------------------------------------------------------------------------
(* Places in the bytes.                                                    *)

\* Some bytes are at a place.
Stands(p, s) == p + Len(s) - 1 <= Len(bytes) /\ \A i \in 1..Len(s) : bytes[p + i - 1] = s[i]

\* What is put together of two parts is at a place if they are, one behind the other.
LEMMA StandsBoth ==
  ASSUME NEW X, NEW s \in Seq(X), NEW t \in Seq(X), NEW p \in Nat \ {0}, Stands(p, s \o t)
  PROVE  Stands(p, s) /\ Stands(p + Len(s), t) /\ Len(s \o t) = Len(s) + Len(t)
<1> DEFINE j == s \o t  m == Len(s)  n == Len(t)
<1>1. /\ m \in Nat /\ n \in Nat /\ Len(j) = m + n /\ Len(bytes) = Len(bytes)
      /\ \A i \in 1..m : j[i] = s[i]
      /\ \A i \in 1..n : j[m + i] = t[i]
  <2>1. m \in Nat /\ n \in Nat /\ Len(j) = m + n
    BY ConcatProperties
  <2>2. ASSUME NEW i \in 1..m PROVE j[i] = s[i]
    <3>1. i \in 1..(m + n) /\ i <= m
      BY <2>1
    <3> QED BY <3>1, ConcatProperties
  <2>3. ASSUME NEW i \in 1..n PROVE j[m + i] = t[i]
    <3>1. m + i \in 1..(m + n) /\ ~(m + i <= m) /\ (m + i) - m = i
      BY <2>1
    <3> QED BY <3>1, ConcatProperties
  <2> QED BY <2>1, <2>2, <2>3
<1>2. p + Len(j) - 1 <= Len(bytes) /\ \A i \in 1..Len(j) : bytes[p + i - 1] = j[i]
  BY DEF Stands
<1> HIDE DEF j, m, n
<1>3. \A i \in 1..m : bytes[p + i - 1] = s[i]
  <2> TAKE i \in 1..m
  <2>1. i \in 1..Len(j)
    BY <1>1
  <2> QED BY <1>1, <1>2, <2>1
<1>4. \A i \in 1..n : bytes[(p + m) + i - 1] = t[i]
  <2> TAKE i \in 1..n
  <2>1. m + i \in 1..Len(j) /\ p + (m + i) - 1 = (p + m) + i - 1
    BY <1>1
  <2> QED BY <1>1, <1>2, <2>1
<1>5. (p + m) + n - 1 = p + Len(j) - 1
  BY <1>1
<1>6. Len(bytes) \in Int => p + m - 1 <= Len(bytes)
  BY <1>1, <1>2
<1> QED BY <1>1, <1>2, <1>3, <1>4, <1>5, <1>6 DEF Stands, j, m, n

\* A number that is at a place is read there, whatever comes after it.
LEMMA NumberRead ==
  ASSUME bytes \in Seq(Nat), NEW p \in Nat \ {0}, NEW n \in Int, Stands(p, Encode(n))
  PROVE  /\ Past(p) = p + Len(Encode(n)) /\ Decode(p) = ToLong(n)
         /\ bytes[p] # StopMarker
<1> DEFINE e == Encode(n)  l == ToLong(n)  d == digits[l]  last == p + Len(e) - 1
<1>1. /\ l \in 0..(LongMod - 1) /\ e \in Seq(Nat) /\ Len(e) = Len(d) /\ Len(e) > 0
      /\ \A i \in 1..Len(e) : e[i] % Half = d[i] /\ (e[i] < Half <=> i = Len(e))
      /\ e[1] # Half
  BY EncodedNumber
<1>2. last <= Len(bytes) /\ \A i \in 1..Len(e) : bytes[p + i - 1] = e[i]
  BY DEF Stands
<1>3. Len(bytes) \in Nat /\ Len(e) \in Nat /\ \A q \in 1..Len(bytes) : bytes[q] \in Nat
  <2>1. Len(e) \in Nat
    BY <1>1
  <2> HIDE DEF e
  <2> QED BY <2>1
<1> HIDE DEF e, d, l
<1>4. bytes[p] = e[1] /\ 1 \in 1..Len(e)
  <2>1. 1 \in 1..Len(e) /\ p + 1 - 1 = p
    BY <1>1, <1>3
  <2> QED BY <1>2, <2>1
<1>5. \A q \in p..last : bytes[q] < Half <=> q = last
  <2> TAKE q \in p..last
  <2> DEFINE i == q - p + 1
  <2>1. i \in 1..Len(e) /\ p + i - 1 = q /\ (i = Len(e) <=> q = last)
    BY <1>3
  <2> HIDE DEF i, last
  <2> QED BY <1>1, <1>2, <2>1
<1>6. last \in p..Len(bytes) /\ last \in Nat
  BY <1>1, <1>2, <1>3
<1> DEFINE IsLast(q) == bytes[q] < Half /\ \A r \in p..(q - 1) : bytes[r] >= Half
<1>7. IsLast(last)
  <2>1. bytes[last] < Half
    BY <1>5, <1>6
  <2>2. ASSUME NEW r \in p..(last - 1) PROVE bytes[r] >= Half
    <3>1. r \in p..last /\ r # last /\ r \in 1..Len(bytes)
      BY <1>6
    <3>2. ~(bytes[r] < Half)
      BY <1>5, <3>1
    <3> HIDE DEF last
    <3> QED BY <1>3, <3>1, <3>2, PostingAssumption
  <2> QED BY <2>1, <2>2
<1>8. ASSUME NEW q \in p..Len(bytes), IsLast(q) PROVE q = last
  <2>1. CASE q <= last
    BY <1>5, <1>6, <1>8, <2>1
  <2>2. CASE q > last
    <3>1. last \in p..(q - 1)
      BY <1>6, <2>2
    <3>2. bytes[last] >= Half /\ bytes[last] < Half /\ bytes[last] \in Nat
      BY <1>3, <1>6, <1>7, <1>8, <3>1
    <3> HIDE DEF last
    <3> QED BY <3>2, PostingAssumption
  <2> QED BY <1>6, <2>1, <2>2
<1>9. LastOf(p) = last
  <2>1. LastOf(p) = CHOOSE q \in p..Len(bytes) : IsLast(q)
    BY DEF LastOf
  <2> HIDE DEF IsLast, last
  <2> QED BY <1>6, <1>7, <1>8, <2>1
<1>10. Past(p) = p + Len(e)
  BY <1>3, <1>9 DEF Past
<1>11. Decode(p) = l
  <2> DEFINE f == CHOOSE f : IsValue(f, p)
  <2>1. \E g : IsValue(g, p)
    BY ValueExists
  <2>2. IsValue(f, p)
    BY <2>1, Zenon
  <2>3. Decode(p) = f[last]
    BY <1>9, Zenon DEF Decode, IsValue
  <2> HIDE DEF f
  <2>4. f \in [0..Len(bytes) -> Nat]
    BY <2>2, ValueType
  <2>5. \A i \in 1..Len(d) : bytes[p + i - 1] % Half = d[i]
    BY <1>1, <1>2
  <2>6. p + Len(d) - 1 <= Len(bytes) /\ last = p + Len(d) - 1
    BY <1>1, <1>2
  <2>7. f[p + Len(d) - 1] = l
    <3> HIDE DEF last
    <3> QED BY <1>1, <2>2, <2>4, <2>5, <2>6, DigitsValue DEF d
  <2> QED BY <2>3, <2>6, <2>7
<1>12. bytes[p] # StopMarker
  BY <1>1, <1>4 DEF StopMarker
<1> QED BY <1>10, <1>11, <1>12 DEF e, l

\* The bytes of several numbers
LEMMA EncodedNumbers ==
  ASSUME NEW numbers \in Seq(Int)
  PROVE  /\ Encoded(numbers) \in Seq(Seq(Nat)) /\ Len(Encoded(numbers)) = Len(numbers)
         /\ \A i \in 1..Len(numbers) : Encoded(numbers)[i] = Encode(numbers[i])
<1>1. DOMAIN numbers = 1..Len(numbers) /\ Len(numbers) \in Nat
  OBVIOUS
<1>2. \A i \in 1..Len(numbers) : Encode(numbers[i]) \in Seq(Nat)
  <2> TAKE i \in 1..Len(numbers)
  <2>1. numbers[i] \in Int
    BY <1>1
  <2> QED BY <2>1, EncodedNumber
<1>3. Encoded(numbers) = [i \in 1..Len(numbers) |-> Encode(numbers[i])]
  BY <1>1 DEF Encoded
<1> QED BY <1>1, <1>2, <1>3

\* A list of numbers is bytes.
LEMMA NumberListType ==
  ASSUME NEW numbers \in Seq(Int), NEW marker \in Nat
  PROVE  NumberList(marker, numbers) \in Seq(Nat)
<1>1. CASE numbers = <<>>
  BY <1>1 DEF NumberList
<1>2. CASE numbers # <<>>
  <2> DEFINE flat == FlattenSeq(Encoded(numbers))
  <2>1. flat \in Seq(Nat)
    BY EncodedNumbers, FlattenType
  <2>2. NumberList(marker, numbers) = <<marker>> \o flat \o <<StopMarker>>
    BY <1>2 DEF NumberList, Encoded
  <2>3. <<marker>> \in Seq(Nat) /\ <<StopMarker>> \in Seq(Nat)
    BY PostingAssumption DEF StopMarker
  <2> HIDE DEF flat
  <2>4. <<marker>> \o flat \in Seq(Nat)
    BY <2>1, <2>3, ConcatProperties
  <2> QED BY <2>2, <2>3, <2>4, ConcatProperties
<1> QED BY <1>1, <1>2

\* A list of numbers at a place: its marker, each number behind those before it,
\* and the marker at its end.
LEMMA ListPlaces ==
  ASSUME bytes \in Seq(Nat), NEW numbers \in Seq(Int), numbers # <<>>, NEW marker \in Nat,
         NEW p \in Nat \ {0}, Stands(p, NumberList(marker, numbers))
  PROVE  /\ bytes[p] = marker
         /\ \A i \in 0..Len(numbers) : Extent(Encoded(numbers), i) \in Nat
         /\ Extent(Encoded(numbers), 0) = 0
         /\ \A i \in 1..Len(numbers) :
              /\ Stands(p + 1 + Extent(Encoded(numbers), i - 1), Encode(numbers[i]))
              /\ Extent(Encoded(numbers), i) =
                   Extent(Encoded(numbers), i - 1) + Len(Encode(numbers[i]))
         /\ bytes[p + 1 + Extent(Encoded(numbers), Len(numbers))] = StopMarker
         /\ p + Len(NumberList(marker, numbers))
              = p + 2 + Extent(Encoded(numbers), Len(numbers))
<1> DEFINE s == Encoded(numbers)  n == Len(numbers)  flat == FlattenSeq(s)  x(i) == Extent(s, i)
<1>1. /\ s \in Seq(Seq(Nat)) /\ Len(s) = n /\ n \in Nat
      /\ \A i \in 1..n : s[i] = Encode(numbers[i]) /\ s[i] \in Seq(Nat)
  <2>1. s \in Seq(Seq(Nat)) /\ Len(s) = n /\ n \in Nat
    BY EncodedNumbers
  <2>2. \A i \in 1..n : s[i] = Encode(numbers[i])
    BY EncodedNumbers
  <2> HIDE DEF s, n
  <2>3. \A i \in 1..n : s[i] \in Seq(Nat)
    BY <2>1
  <2> QED BY <2>1, <2>2, <2>3
<1>2. NumberList(marker, numbers) = (<<marker>> \o flat) \o <<StopMarker>>
  BY DEF NumberList, Encoded
<1>3. Len(bytes) \in Nat
  OBVIOUS
<1> HIDE DEF s, n, flat
<1>4. /\ flat \in Seq(Nat) /\ x(n) = Len(flat) /\ x(0) = 0
      /\ \A i \in 0..n : x(i) \in Nat
  <2>1. flat \in Seq(Nat)
    BY <1>1, FlattenType DEF flat
  <2>2. SubSeq(s, 1, n) = s /\ FlattenSeq(SubSeq(s, 1, 0)) = <<>>
    BY <1>1, FlattenPrefixes
  <2>3. ASSUME NEW i \in 0..n PROVE x(i) \in Nat
    <3>1. FlattenSeq(SubSeq(s, 1, i)) \in Seq(Nat)
      BY <1>1, FlattenPrefixes
    <3> QED BY <3>1 DEF Extent
  <2>4. x(n) = Len(flat)
    BY <2>2 DEF Extent, flat
  <2>5. x(0) = 0
    BY <2>2 DEF Extent
  <2> QED BY <2>1, <2>3, <2>4, <2>5
<1> DEFINE first == <<marker>>  stop == <<StopMarker>>  front == first \o flat
<1>5. /\ first \in Seq(Nat) /\ stop \in Seq(Nat) /\ Len(first) = 1 /\ Len(stop) = 1
      /\ first[1] = marker /\ stop[1] = StopMarker
  BY PostingAssumption DEF StopMarker
<1>6. NumberList(marker, numbers) = front \o stop
  BY <1>2
<1> HIDE DEF first, stop, x
<1>7. front \in Seq(Nat)
  BY <1>4, <1>5, ConcatProperties
<1> HIDE DEF front
<1>8. /\ Stands(p, front) /\ Stands(p + Len(front), stop)
      /\ Len(NumberList(marker, numbers)) = Len(front) + 1
  <2>1. Stands(p, front \o stop)
    BY <1>6
  <2>2. Stands(p, front) /\ Stands(p + Len(front), stop)
        /\ Len(front \o stop) = Len(front) + Len(stop)
    BY <1>5, <1>7, <2>1, StandsBoth
  <2> QED BY <1>5, <1>6, <2>2
<1>9. Stands(p, first) /\ Stands(p + 1, flat) /\ Len(front) = 1 + Len(flat)
  <2>1. Stands(p, first \o flat)
    BY <1>8 DEF front
  <2>2. Stands(p, first) /\ Stands(p + Len(first), flat)
        /\ Len(first \o flat) = Len(first) + Len(flat)
    BY <1>4, <1>5, <2>1, StandsBoth
  <2> QED BY <1>5, <2>2 DEF front
<1>10. bytes[p] = marker /\ bytes[p + 1 + x(n)] = StopMarker
  <2>1. p + 1 - 1 = p /\ 1 \in 1..1
    OBVIOUS
  <2>2. bytes[p] = marker
    BY <1>5, <1>9, <2>1 DEF Stands
  <2>3. p + Len(front) = p + 1 + x(n) /\ (p + Len(front)) + 1 - 1 = p + Len(front)
    <3>1. x(n) \in Nat /\ Len(front) = 1 + x(n)
      BY <1>1, <1>4, <1>9
    <3>2. \A a \in Nat : /\ p + (1 + a) = p + 1 + a
                         /\ (p + (1 + a)) + 1 - 1 = p + (1 + a)
      OBVIOUS
    <3> QED BY <3>1, <3>2
  <2>4. bytes[p + Len(front)] = StopMarker
    BY <1>5, <1>8, <2>1, <2>3 DEF Stands
  <2> QED BY <2>2, <2>3, <2>4
<1>11. ASSUME NEW i \in 1..n
       PROVE  x(i) = x(i - 1) + Len(s[i]) /\ Stands(p + 1 + x(i - 1), s[i])
  <2> DEFINE at == x(i - 1)  t == s[i]
  <2>1. /\ at \in Nat /\ x(i) = at + Len(t) /\ at + Len(t) <= Len(flat)
        /\ \A j \in 1..Len(t) : flat[at + j] = t[j]
    BY <1>1, FlattenPlaces DEF Extent, flat, x
  <2>2. Len(t) \in Nat /\ Len(flat) \in Nat
    BY <1>1, <1>4
  <2>3. /\ (p + 1) + Len(flat) - 1 <= Len(bytes)
        /\ \A j \in 1..Len(flat) : bytes[(p + 1) + j - 1] = flat[j]
    BY <1>9 DEF Stands
  <2> HIDE DEF at, t
  <2>4. ASSUME NEW j \in 1..Len(t) PROVE bytes[(p + 1 + at) + j - 1] = t[j]
    <3>1. at + j \in 1..Len(flat) /\ (p + 1) + (at + j) - 1 = (p + 1 + at) + j - 1
      BY <2>1, <2>2
    <3> QED BY <2>1, <2>3, <3>1
  <2>5. (p + 1 + at) + Len(t) - 1 <= Len(bytes)
    BY <1>3, <2>1, <2>2, <2>3
  <2>6. Stands(p + 1 + at, t)
    BY <2>4, <2>5 DEF Stands
  <2> QED BY <2>1, <2>6 DEF at, t
<1>12. p + Len(NumberList(marker, numbers)) = p + 2 + x(n)
  <2>1. x(n) \in Nat /\ Len(NumberList(marker, numbers)) = (1 + x(n)) + 1
    BY <1>1, <1>4, <1>8, <1>9
  <2> QED BY <2>1
<1> QED BY <1>1, <1>4, <1>10, <1>11, <1>12 DEF s, n, x

-----------------------------------------------------------------------------
(* Places of entries.                                                      *)

\* The ids of meta data as a sequence
LEMMA MetaIdsListed ==
  ASSUME NEW S \in SUBSET MetaIds
  PROVE  LET ids == SetToSeq(S) IN
         /\ ids \in Seq(S) /\ ids \in Seq(Int)
         /\ {ids[i] : i \in 1..Len(ids)} = S
         /\ ids = <<>> <=> S = {}
<1> DEFINE h == ShortMod \div 2
<1>1. h \in Nat /\ MetaIds \subseteq 0..(h - 1)
  BY PostingAssumption
<1> HIDE DEF h
<1>2. IsFiniteSet(0..(h - 1))
  BY <1>1, FS_Interval
<1>3. IsFiniteSet(S)
  BY <1>1, <1>2, FS_Subset
<1> DEFINE n == Cardinality(S)
<1>4. n \in Nat /\ \E f \in Bijection(1..n, S) : TRUE
  <2>1. n \in Nat /\ ExistsBijection(1..n, S)
    BY <1>3, FS_CardinalityType
  <2> QED BY <2>1 DEF ExistsBijection
<1> HIDE DEF n
<1> DEFINE f == SetToSeq(S)
<1>5. f \in [1..n -> S] /\ IsInjective(f)
  <2>1. PICK g \in Bijection(1..n, S) : TRUE
    BY <1>4
  <2>2. g \in [1..n -> S] /\ IsInjective(g)
    BY <2>1 DEF Bijection, Injection
  <2>3. f = CHOOSE k \in [1..n -> S] : IsInjective(k)
    BY DEF SetToSeq, n
  <2> HIDE DEF f
  <2> QED BY <2>2, <2>3
<1> HIDE DEF f
<1>6. f \in Surjection(1..n, S)
  <2>1. IsFiniteSet(1..n) /\ Cardinality(1..n) = Cardinality(S)
    BY <1>4, CardinalityUpTo DEF n
  <2>2. f \in Injection(1..n, S)
    BY <1>5 DEF Injection
  <2> QED BY <1>3, <2>1, <2>2, FS_Injection
<1>7. f \in Seq(S) /\ Len(f) = n
  BY <1>4, <1>5
<1>8. {f[i] : i \in 1..n} = S
  <2>1. \A x \in S : \E i \in 1..n : f[i] = x
    BY <1>6 DEF Surjection
  <2> QED BY <1>5, <2>1
<1>9. f \in Seq(Int)
  <2>1. \A x \in S : x \in Int
    <3>1. \A x \in 0..(h - 1) : x \in Int
      BY <1>1
    <3> QED BY <1>1, <3>1
  <2>2. \A i \in 1..n : f[i] \in Int
    BY <1>5, <2>1
  <2> QED BY <1>4, <1>5, <2>2
<1>10. f = <<>> <=> S = {}
  <2>1. f = <<>> <=> n = 0
    BY <1>4, <1>7, EmptySeq
  <2>2. n = 0 <=> S = {}
    BY <1>3, FS_EmptySet DEF n
  <2> QED BY <2>1, <2>2
<1> QED BY <1>7, <1>8, <1>9, <1>10 DEF f

\* The parts of an entry at a place
LEMMA EntryParts ==
  ASSUME NEW e \in Entries
  PROVE  /\ MetaList(e) \in Seq(Nat) /\ PosList(e) \in Seq(Nat)
         /\ Numbers(e) \in Seq(Nat) /\ EntryBytes(e) \in Seq(Nat)
         /\ Encode(e.index) \in Seq(Nat) /\ Encode(e.occurrences) \in Seq(Nat)
         /\ Encode(e.rank) \in Seq(Nat)
         /\ EntryBytes(e) = (Numbers(e) \o MetaList(e)) \o PosList(e)
<1>1. /\ e.index \in Nat /\ e.occurrences \in Nat /\ e.rank \in Nat
      /\ e.metas \in SUBSET MetaIds /\ e.deltas \in Seq(Int)
  BY DEF Entries
<1>2. /\ Encode(e.index) \in Seq(Nat) /\ Encode(e.occurrences) \in Seq(Nat)
      /\ Encode(e.rank) \in Seq(Nat)
  <2>1. \A x \in Nat : Encode(x) \in Seq(Nat)
    <3> TAKE x \in Nat
    <3>1. x \in Int
      OBVIOUS
    <3> QED BY <3>1, EncodedNumber
  <2> QED BY <1>1, <2>1
<1>3. MetaList(e) \in Seq(Nat)
  <2>1. SetToSeq(e.metas) \in Seq(Int)
    BY <1>1, MetaIdsListed
  <2> QED BY <2>1, NumberListType DEF MetaList, MetaListMarker
<1>4. PosList(e) \in Seq(Nat)
  BY <1>1, NumberListType DEF PosList, WordPosListMarker
<1>5. Numbers(e) \in Seq(Nat)
  <2>1. Encode(e.index) \o Encode(e.occurrences) \in Seq(Nat)
    BY <1>2, ConcatProperties
  <2> QED BY <1>2, <2>1, ConcatProperties DEF Numbers
<1>6. EntryBytes(e) = (Numbers(e) \o MetaList(e)) \o PosList(e)
  BY DEF EntryBytes, Numbers, MetaList, PosList
<1>7. Numbers(e) \o MetaList(e) \in Seq(Nat)
  BY <1>3, <1>5, ConcatProperties
<1>8. EntryBytes(e) \in Seq(Nat)
  BY <1>4, <1>6, <1>7, ConcatProperties
<1> QED BY <1>2, <1>3, <1>4, <1>5, <1>6, <1>8

\* Where, in an entry, its numbers and lists are
LEMMA EntryPlaces ==
  ASSUME NEW e \in Entries, NEW p \in Nat \ {0}, Stands(p, EntryBytes(e))
  PROVE  LET second == p + Len(Encode(e.index))
             third == second + Len(Encode(e.occurrences))
             metas == p + Len(Numbers(e))
             positions == metas + Len(MetaList(e))
         IN /\ Stands(p, Encode(e.index)) /\ Stands(second, Encode(e.occurrences))
            /\ Stands(third, Encode(e.rank)) /\ metas = third + Len(Encode(e.rank))
            /\ second \in Nat \ {0} /\ third \in Nat \ {0}
            /\ metas \in Nat \ {0} /\ positions \in Nat \ {0}
            /\ Stands(metas, MetaList(e)) /\ Stands(positions, PosList(e))
            /\ p + Len(EntryBytes(e)) = positions + Len(PosList(e))
<1> DEFINE a == Encode(e.index)  b == Encode(e.occurrences)  d == Encode(e.rank)
           m == MetaList(e)  o == PosList(e)
<1>1. a \in Seq(Nat) /\ b \in Seq(Nat) /\ d \in Seq(Nat) /\ m \in Seq(Nat) /\ o \in Seq(Nat)
  BY EntryParts
<1>2. EntryBytes(e) = (((a \o b) \o d) \o m) \o o /\ Numbers(e) = (a \o b) \o d
  BY EntryParts DEF Numbers
<1> HIDE DEF a, b, d, m, o
<1>3. a \o b \in Seq(Nat)
  BY <1>1, ConcatProperties
<1>4. (a \o b) \o d \in Seq(Nat)
  BY <1>1, <1>3, ConcatProperties
<1>5. ((a \o b) \o d) \o m \in Seq(Nat)
  BY <1>1, <1>4, ConcatProperties
<1> DEFINE ab == a \o b  abd == ab \o d  abdm == abd \o m  all == abdm \o o
<1>6. ab \in Seq(Nat) /\ abd \in Seq(Nat) /\ abdm \in Seq(Nat)
  BY <1>3, <1>4, <1>5
<1>7. EntryBytes(e) = all /\ Numbers(e) = abd
  BY <1>2
<1>8. /\ Len(a) \in Nat /\ Len(b) \in Nat /\ Len(d) \in Nat /\ Len(m) \in Nat /\ Len(o) \in Nat
      /\ Len(ab) = Len(a) + Len(b) /\ Len(abd) = Len(ab) + Len(d)
      /\ Len(abdm) = Len(abd) + Len(m) /\ Len(all) = Len(abdm) + Len(o)
  <2> HIDE DEF all, abdm, abd, ab
  <2>1. Len(ab) = Len(a) + Len(b)
    BY <1>1, ConcatProperties DEF ab
  <2>2. Len(abd) = Len(ab) + Len(d)
    BY <1>1, <1>6, ConcatProperties DEF abd
  <2>3. Len(abdm) = Len(abd) + Len(m)
    BY <1>1, <1>6, ConcatProperties DEF abdm
  <2>4. Len(all) = Len(abdm) + Len(o)
    BY <1>1, <1>6, ConcatProperties DEF all
  <2> QED BY <1>1, <2>1, <2>2, <2>3, <2>4, LenProperties
<1> HIDE DEF all, abdm, abd, ab
<1>9. Stands(p, abdm) /\ Stands(p + Len(abdm), o)
  BY <1>1, <1>6, <1>7, StandsBoth DEF all
<1>10. Stands(p, abd) /\ Stands(p + Len(abd), m)
  BY <1>1, <1>6, <1>9, StandsBoth DEF abdm
<1>11. Stands(p, ab) /\ Stands(p + Len(ab), d)
  BY <1>1, <1>6, <1>10, StandsBoth DEF abd
<1>12. Stands(p, a) /\ Stands(p + Len(a), b)
  BY <1>1, <1>11, StandsBoth DEF ab
<1>13. /\ p + Len(ab) = p + Len(a) + Len(b) /\ p + Len(abd) = p + Len(a) + Len(b) + Len(d)
       /\ p + Len(abdm) = p + Len(abd) + Len(m) /\ p + Len(all) = p + Len(abd) + Len(m) + Len(o)
       /\ p + Len(a) \in Nat \ {0} /\ p + Len(a) + Len(b) \in Nat \ {0}
       /\ p + Len(abd) \in Nat \ {0} /\ p + Len(abd) + Len(m) \in Nat \ {0}
  BY <1>8
<1> QED BY <1>7, <1>9, <1>10, <1>11, <1>12, <1>13 DEF a, b, d, m, o

\* Where the k + 1st entry is, and what comes after it
LEMMA ListPlaced ==
  ASSUME files \in Seq(Entries), files # <<>>, bytes = ListBytes(files)
  PROVE  /\ bytes \in Seq(Nat) /\ Len(files) > 0
         /\ EntryAt(0) = 1
         /\ \A k \in 0..(Len(files) - 1) :
              /\ files[k + 1] \in Entries
              /\ EntryAt(k) \in Nat \ {0} /\ EndAt(k) \in Nat \ {0}
              /\ Stands(EntryAt(k), EntryBytes(files[k + 1]))
              /\ k + 1 = Len(files) => bytes[EndAt(k)] = StopMarker /\ EndAt(k) = Len(bytes)
              /\ k + 1 < Len(files) =>
                   bytes[EndAt(k)] = ContinuesMarker /\ EntryAt(k + 1) = EndAt(k) + 1
<1> DEFINE s == Pieces  n == Len(files)  whole == FlattenSeq(s)  x(k) == Extent(s, k)
           stop == <<StopMarker>>  more == <<ContinuesMarker>>  e(k) == EntryBytes(files[k])
<1>1. /\ n \in Nat /\ n > 0 /\ DOMAIN files = 1..n
      /\ \A k \in 1..n : files[k] \in Entries
  OBVIOUS
<1>2. \A k \in 1..n : e(k) \in Seq(Nat)
  BY <1>1, EntryParts
<1>3. /\ stop \in Seq(Nat) /\ Len(stop) = 1 /\ stop[1] = StopMarker
      /\ more \in Seq(Nat) /\ Len(more) = 1 /\ more[1] = ContinuesMarker
  BY PostingAssumption DEF StopMarker, ContinuesMarker
<1>4. /\ \A k \in 1..n : Announced(files, k) \in Seq(Nat)
      /\ Announced(files, 1) = e(1)
      /\ \A k \in 2..n : Announced(files, k) = more \o e(k)
  <2> HIDE DEF e, more
  <2>1. 1 \in 1..n
    BY <1>1
  <2>2. Announced(files, 1) = <<>> \o e(1)
    BY DEF Announced, e
  <2>3. Announced(files, 1) = e(1)
    BY <1>2, <2>1, <2>2, ConcatEmptySeq
  <2>4. ASSUME NEW k \in 2..n PROVE k \in 1..n /\ Announced(files, k) = more \o e(k)
    BY <1>1 DEF Announced, e, more
  <2>5. ASSUME NEW k \in 1..n PROVE Announced(files, k) \in Seq(Nat)
    <3>1. CASE k = 1
      BY <1>2, <2>1, <2>3, <3>1
    <3>2. CASE k # 1
      <4>1. k \in 2..n
        BY <1>1, <3>2
      <4> QED BY <1>2, <1>3, <2>4, <4>1, ConcatProperties
    <3> QED BY <3>1, <3>2
  <2> QED BY <2>3, <2>4, <2>5
<1>5. s \in Seq(Seq(Nat)) /\ Len(s) = n /\ \A k \in 1..n : s[k] = Announced(files, k)
  <2>1. s = [k \in 1..n |-> Announced(files, k)]
    BY <1>1 DEF Pieces
  <2> HIDE DEF s
  <2> QED BY <1>1, <1>4, <2>1
<1>6. bytes = whole \o stop
  BY DEF ListBytes, Pieces
<1>7. \A k \in 0..(n - 1) : EntryAt(k) = x(k) + (IF k = 0 THEN 1 ELSE 2)
  BY DEF EntryAt
<1> HIDE DEF s, n, whole, stop, more, e
<1>8. /\ whole \in Seq(Nat) /\ x(n) = Len(whole) /\ x(0) = 0
      /\ \A k \in 0..n : x(k) \in Nat
  <2>1. whole \in Seq(Nat)
    BY <1>5, FlattenType DEF whole
  <2>2. SubSeq(s, 1, n) = s /\ FlattenSeq(SubSeq(s, 1, 0)) = <<>>
    BY <1>5, FlattenPrefixes
  <2>3. ASSUME NEW k \in 0..n PROVE x(k) \in Nat
    <3>1. FlattenSeq(SubSeq(s, 1, k)) \in Seq(Nat)
      BY <1>5, FlattenPrefixes
    <3> QED BY <3>1 DEF Extent
  <2>4. x(n) = Len(whole)
    BY <2>2 DEF Extent, whole
  <2>5. x(0) = 0
    BY <2>2 DEF Extent
  <2> QED BY <2>1, <2>3, <2>4, <2>5
<1> HIDE DEF x
<1>9. /\ bytes \in Seq(Nat) /\ Len(bytes) = Len(whole) + 1 /\ Len(whole) \in Nat
      /\ \A i \in 1..Len(whole) : bytes[i] = whole[i]
      /\ bytes[Len(whole) + 1] = StopMarker
  <2>1. bytes \in Seq(Nat) /\ Len(bytes) = Len(whole) + 1 /\ Len(whole) \in Nat
    <3>1. Len(whole) \in Nat
      BY <1>8
    <3>2. whole \o stop \in Seq(Nat) /\ Len(whole \o stop) = Len(whole) + Len(stop)
      BY <1>3, <1>8, ConcatProperties
    <3> QED BY <1>3, <1>6, <3>1, <3>2
  <2>2. ASSUME NEW i \in 1..Len(whole) PROVE bytes[i] = whole[i]
    <3>1. i \in 1..(Len(whole) + Len(stop)) /\ i <= Len(whole)
      BY <1>3, <2>1
    <3> QED BY <1>3, <1>6, <1>8, <3>1, ConcatProperties
  <2>3. bytes[Len(whole) + 1] = StopMarker
    <3>1. /\ Len(whole) + 1 \in 1..(Len(whole) + Len(stop)) /\ ~(Len(whole) + 1 <= Len(whole))
          /\ (Len(whole) + 1) - Len(whole) = 1
      BY <1>3, <2>1
    <3>2. (whole \o stop)[Len(whole) + 1] = stop[(Len(whole) + 1) - Len(whole)]
      BY <1>3, <1>8, <3>1, ConcatProperties
    <3> QED BY <1>3, <1>6, <3>1, <3>2
  <2> QED BY <2>1, <2>2, <2>3
<1>10. ASSUME NEW k \in 1..n
       PROVE  x(k) = x(k - 1) + Len(s[k]) /\ Stands(x(k - 1) + 1, s[k])
  <2> DEFINE at == x(k - 1)  t == s[k]
  <2>1. /\ at \in Nat /\ x(k) = at + Len(t) /\ at + Len(t) <= Len(whole)
        /\ \A j \in 1..Len(t) : whole[at + j] = t[j]
    BY <1>5, FlattenPlaces DEF Extent, whole, x
  <2>2. Len(t) \in Nat
    BY <1>5
  <2> HIDE DEF at, t
  <2>3. ASSUME NEW j \in 1..Len(t) PROVE bytes[(at + 1) + j - 1] = t[j]
    <3>1. at + j \in 1..Len(whole) /\ (at + 1) + j - 1 = at + j
      BY <1>9, <2>1, <2>2
    <3> QED BY <1>9, <2>1, <3>1
  <2>4. (at + 1) + Len(t) - 1 <= Len(bytes)
    BY <1>9, <2>1, <2>2
  <2>5. Stands(at + 1, t)
    BY <2>3, <2>4 DEF Stands
  <2> QED BY <2>1, <2>5 DEF at, t
<1>11. ASSUME NEW k \in 0..(n - 1)
       PROVE  /\ EntryAt(k) \in Nat \ {0} /\ Stands(EntryAt(k), e(k + 1))
              /\ EntryAt(k) + Len(e(k + 1)) = x(k + 1) + 1
              /\ k > 0 => bytes[x(k) + 1] = ContinuesMarker
  <2> DEFINE at == x(k)  t == e(k + 1)
  <2>1. k + 1 \in 1..n /\ (k + 1) - 1 = k /\ k \in 0..n
    BY <1>1
  <2>2. x(k + 1) = at + Len(s[k + 1]) /\ Stands(at + 1, s[k + 1]) /\ at \in Nat
    BY <1>8, <1>10, <2>1
  <2>3. s[k + 1] = Announced(files, k + 1) /\ t \in Seq(Nat)
    BY <1>2, <1>5, <2>1
  <2>4. EntryAt(k) = at + (IF k = 0 THEN 1 ELSE 2)
    BY <1>7
  <2>5. Len(t) \in Nat
    BY <2>3, LenProperties
  <2> HIDE DEF at, t
  <2>6. CASE k = 0
    <3>1. s[k + 1] = t
      BY <1>4, <2>3, <2>6 DEF t
    <3>2. EntryAt(k) = at + 1
      BY <2>4, <2>6
    <3>3. (at + 1) + Len(t) = (at + Len(t)) + 1 /\ at + 1 \in Nat \ {0}
      BY <2>2, <2>5
    <3> QED BY <2>2, <2>6, <3>1, <3>2, <3>3 DEF at, t
  <2>7. CASE k > 0
    <3>1. k + 1 \in 2..n
      BY <1>1, <2>7
    <3>2. s[k + 1] = more \o t
      BY <1>4, <2>3, <3>1 DEF t
    <3>3. EntryAt(k) = at + 2
      BY <2>4, <2>7
    <3>4. at + 1 \in Nat \ {0} /\ (at + 1) + 1 = at + 2 /\ (at + 1) + 1 - 1 = at + 1
      BY <2>2
    <3>5. /\ Stands(at + 1, more) /\ Stands((at + 1) + Len(more), t)
          /\ Len(s[k + 1]) = Len(more) + Len(t)
      <4>1. Stands(at + 1, more \o t)
        BY <2>2, <3>2
      <4>2. /\ Stands(at + 1, more) /\ Stands((at + 1) + Len(more), t)
            /\ Len(more \o t) = Len(more) + Len(t)
        BY <1>3, <2>3, <3>4, <4>1, StandsBoth
      <4> QED BY <3>2, <4>2
    <3>6. bytes[at + 1] = ContinuesMarker
      <4>1. 1 \in 1..Len(more)
        BY <1>3
      <4> QED BY <1>3, <3>4, <3>5, <4>1 DEF Stands
    <3>7. at + 2 \in Nat \ {0} /\ (at + 2) + Len(t) = (at + (1 + Len(t))) + 1
      BY <2>2, <2>5
    <3> QED BY <1>3, <2>2, <3>3, <3>4, <3>5, <3>6, <3>7 DEF at, t
  <2>8. k = 0 \/ k > 0
    BY <1>1
  <2> QED BY <2>6, <2>7, <2>8
<1>12. ASSUME NEW k \in 0..(n - 1) PROVE EndAt(k) = x(k + 1) + 1 /\ EndAt(k) \in Nat \ {0}
  <2>1. k + 1 \in 1..n /\ k + 1 \in 0..n
    BY <1>1
  <2>2. files[k + 1] \in Entries
    BY <1>1, <2>1
  <2>3. EntryAt(k) \in Nat \ {0} /\ Stands(EntryAt(k), EntryBytes(files[k + 1]))
        /\ EntryAt(k) + Len(EntryBytes(files[k + 1])) = x(k + 1) + 1
    BY <1>11 DEF e
  <2>4. EndAt(k) = EntryAt(k) + Len(EntryBytes(files[k + 1]))
    BY <2>2, <2>3, EntryPlaces DEF EndAt, PositionsAt, MetasAt
  <2>5. x(k + 1) \in Nat
    BY <1>8, <2>1
  <2> QED BY <2>3, <2>4, <2>5
<1>13. EntryAt(0) = 1
  <2>1. 0 \in 0..(n - 1)
    BY <1>1
  <2> QED BY <1>7, <1>8, <2>1
<1>14. ASSUME NEW k \in 0..(n - 1)
       PROVE  /\ k + 1 = n => bytes[EndAt(k)] = StopMarker /\ EndAt(k) = Len(bytes)
              /\ k + 1 < n => bytes[EndAt(k)] = ContinuesMarker /\ EntryAt(k + 1) = EndAt(k) + 1
  <2>1. ASSUME k + 1 = n PROVE bytes[EndAt(k)] = StopMarker /\ EndAt(k) = Len(bytes)
    BY <1>8, <1>9, <1>12, <2>1
  <2>2. ASSUME k + 1 < n
        PROVE  bytes[EndAt(k)] = ContinuesMarker /\ EntryAt(k + 1) = EndAt(k) + 1
    <3>1. k + 1 \in 0..(n - 1) /\ k + 1 > 0 /\ k + 1 # 0 /\ k + 1 \in 0..n
      BY <1>1, <2>2
    <3>2. bytes[x(k + 1) + 1] = ContinuesMarker
      BY <1>11, <3>1
    <3>3. EntryAt(k + 1) = x(k + 1) + 2 /\ x(k + 1) \in Nat
      BY <1>7, <1>8, <3>1
    <3>4. EndAt(k) = x(k + 1) + 1
      BY <1>12
    <3> HIDE DEF x
    <3> QED BY <3>2, <3>3, <3>4
  <2> QED BY <2>1, <2>2
<1>15. \A k \in 0..(n - 1) : files[k + 1] \in Entries
  BY <1>1
<1> QED BY <1>1, <1>9, <1>11, <1>12, <1>13, <1>14, <1>15 DEF n, e

-----------------------------------------------------------------------------
(* What calc_size() counts.                                                *)

\* The turns of its loops, up to the n-th and all of them
TurnsUpTo(t, n) ==
  t = [i \in 0..n |-> IF i = 0 THEN Sizing("entry", 1, 0) ELSE SizeTurn(t[i - 1])]
IsTurns(t) ==
  t = [i \in Nat |-> IF i = 0 THEN Sizing("entry", 1, 0) ELSE SizeTurn(t[i - 1])]

\* The recursive definition of the turns defines them.
LEMMA TurnsExist == \E t : IsTurns(t)
<1> DEFINE S == {n \in Nat : \E f : TurnsUpTo(f, n)}
           p == [n \in Nat |-> CHOOSE f : TurnsUpTo(f, n)]
           r == [n \in Nat |-> p[n][n]]
<1>1. 0 \in S
  <2> DEFINE f == [i \in 0..0 |-> Sizing("entry", 1, 0)]
  <2>1. f = [i \in 0..0 |-> IF i = 0 THEN Sizing("entry", 1, 0) ELSE SizeTurn(f[i - 1])]
    BY \A i \in 0..0 : i = 0, Zenon
  <2>2. TurnsUpTo(f, 0)
    BY <2>1, Zenon DEF TurnsUpTo
  <2> QED BY <2>2
<1>2. ASSUME NEW n \in Nat, n \in S PROVE n + 1 \in S
  <2>1. PICK f : TurnsUpTo(f, n)
    BY <1>2
  <2> DEFINE g == [i \in 0..(n + 1) |-> IF i = n + 1 THEN SizeTurn(f[n]) ELSE f[i]]
  <2>2. \A i \in 0..n : f[i] = IF i = 0 THEN Sizing("entry", 1, 0) ELSE SizeTurn(f[i - 1])
    BY <2>1, Zenon DEF TurnsUpTo
  <2>3. /\ \A i \in 0..n : i \in 0..(n + 1) /\ i # n + 1
        /\ n + 1 # 0 /\ (n + 1) - 1 = n /\ n \in 0..n /\ n + 1 \in 0..(n + 1)
        /\ \A i \in 0..(n + 1) : i \in 0..n \/ i = n + 1
        /\ \A i \in 0..n : i # 0 => i - 1 \in 0..n
    OBVIOUS
  <2>4. g[n + 1] = SizeTurn(f[n]) /\ \A i \in 0..n : g[i] = f[i]
    BY <2>3, Zenon
  <2>5. DOMAIN g = 0..(n + 1) /\ g = [i \in DOMAIN g |-> g[i]]
    BY Zenon
  <2> HIDE DEF g
  <2>6. ASSUME NEW i \in 0..(n + 1)
        PROVE  g[i] = IF i = 0 THEN Sizing("entry", 1, 0) ELSE SizeTurn(g[i - 1])
    <3>1. CASE i = n + 1
      BY <2>3, <2>4, <3>1, Zenon
    <3>2. CASE i \in 0..n
      <4>1. CASE i = 0
        BY <2>2, <2>4, <3>2, <4>1, Zenon
      <4>2. CASE i # 0
        BY <2>2, <2>3, <2>4, <3>2, <4>2, Zenon
      <4> QED BY <4>1, <4>2
    <3> QED BY <2>3, <3>1, <3>2
  <2>7. TurnsUpTo(g, n + 1)
    BY <2>5, <2>6, Zenon DEF TurnsUpTo
  <2> QED BY <2>7
<1>3. \A n \in Nat : n \in S
  <2> HIDE DEF S
  <2> QED BY <1>1, <1>2, Induction
<1>4. \A n \in Nat : TurnsUpTo(p[n], n)
  BY <1>3, Zenon
<1>5. \A n \in Nat : r[n] = p[n][n]
  <2> HIDE DEF p
  <2> QED BY Zenon
<1>6. DOMAIN r = Nat /\ r = [n \in DOMAIN r |-> r[n]]
  <2> HIDE DEF p
  <2> QED BY Zenon
<1> HIDE DEF p, r
<1>7. \A n \in Nat : \A i \in 0..n :
        p[n][i] = IF i = 0 THEN Sizing("entry", 1, 0) ELSE SizeTurn(p[n][i - 1])
  BY <1>4, Zenon DEF TurnsUpTo
\* They are the same up to any number.
<1> DEFINE T == {i \in Nat : \A m \in Nat : i <= m => p[m][i] = r[i]}
<1>8. 0 \in T
  <2>1. \A m \in Nat : 0 \in 0..m
    OBVIOUS
  <2>2. \A m \in Nat : p[m][0] = Sizing("entry", 1, 0)
    BY <1>7, <2>1, Zenon
  <2> QED BY <1>5, <2>2
<1>9. ASSUME NEW i \in Nat, i \in T PROVE i + 1 \in T
  <2>1. (i + 1) - 1 = i /\ i + 1 # 0 /\ i + 1 \in Nat
    OBVIOUS
  <2>2. ASSUME NEW m \in Nat, i + 1 <= m PROVE p[m][i + 1] = SizeTurn(r[i])
    <3>1. i + 1 \in 0..m /\ i <= m
      BY <2>2
    <3>2. p[m][i] = r[i]
      BY <1>9, <3>1
    <3> QED BY <1>7, <2>1, <3>1, <3>2, Zenon
  <2>3. r[i + 1] = SizeTurn(r[i])
    <3>1. i + 1 <= i + 1
      OBVIOUS
    <3> QED BY <1>5, <2>1, <2>2, <3>1, Zenon
  <2> QED BY <2>1, <2>2, <2>3
<1>10. \A i \in Nat : i \in T
  <2> HIDE DEF T
  <2> QED BY <1>8, <1>9, Induction
<1>11. ASSUME NEW n \in Nat
       PROVE  r[n] = IF n = 0 THEN Sizing("entry", 1, 0) ELSE SizeTurn(r[n - 1])
  <2>1. n \in 0..n
    OBVIOUS
  <2>2. CASE n = 0
    BY <1>5, <1>7, <2>1, <2>2, Zenon
  <2>3. CASE n # 0
    <3>1. n - 1 \in Nat /\ n - 1 <= n
      BY <2>3
    <3>2. p[n][n - 1] = r[n - 1]
      BY <1>10, <3>1
    <3>3. p[n][n] = SizeTurn(p[n][n - 1])
      BY <1>7, <2>1, <2>3, Zenon
    <3> QED BY <1>5, <2>3, <3>2, <3>3, Zenon
  <2> QED BY <2>2, <2>3
<1>12. IsTurns(r)
  BY <1>6, <1>11, Zenon DEF IsTurns
<1> QED BY <1>12

\* What a turn does
LEMMA SizeTurns ==
  ASSUME NEW p, NEW size
  PROVE  /\ SizeTurn(Sizing("entry", p, size)) = Sizing("marker", Past(Past(Past(p))), size + 1)
         /\ bytes[p] = StopMarker => SizeTurn(Sizing("marker", p, size)) = Sizing("end", p, size)
         /\ bytes[p] = ContinuesMarker =>
              SizeTurn(Sizing("marker", p, size)) = Sizing("entry", p + 1, size)
         /\ bytes[p] \in {MetaListMarker, WordPosListMarker} =>
              SizeTurn(Sizing("marker", p, size)) = Sizing("list", p + 1, size)
         /\ bytes[p] = StopMarker =>
              SizeTurn(Sizing("list", p, size)) = Sizing("marker", p + 1, size)
         /\ bytes[p] # StopMarker =>
              SizeTurn(Sizing("list", p, size)) = Sizing("list", Past(p), size)
         /\ SizeTurn(Sizing("end", p, size)) = Sizing("end", p, size)
<1> DEFINE at(a) == Sizing(a, p, size)
<1>1. \A a : at(a).at = a /\ at(a).p = p /\ at(a).size = size
  BY DEF Sizing
<1>2. /\ StopMarker # ContinuesMarker
      /\ MetaListMarker \notin {StopMarker, ContinuesMarker}
      /\ WordPosListMarker \notin {StopMarker, ContinuesMarker}
  BY PostingAssumption DEF StopMarker, ContinuesMarker, MetaListMarker, WordPosListMarker
<1>3. bytes[p] \in {MetaListMarker, WordPosListMarker} =>
        bytes[p] \notin {StopMarker, ContinuesMarker}
  BY <1>2
<1> HIDE DEF at
<1>4. SizeTurn(at("entry")) = Sizing("marker", Past(Past(Past(p))), size + 1)
  BY <1>1, SMTT(30) DEF SizeTurn
<1>5. bytes[p] = StopMarker => SizeTurn(at("marker")) = Sizing("end", p, size)
  BY <1>1, <1>2, Zenon DEF SizeTurn
<1>6. bytes[p] = ContinuesMarker => SizeTurn(at("marker")) = Sizing("entry", p + 1, size)
  BY <1>1, <1>2, Zenon DEF SizeTurn
<1>7. bytes[p] \notin {StopMarker, ContinuesMarker} =>
        SizeTurn(at("marker")) = Sizing("list", p + 1, size)
  BY <1>1, <1>2, SMTT(30) DEF SizeTurn
<1>8. bytes[p] = StopMarker => SizeTurn(at("list")) = Sizing("marker", p + 1, size)
  BY <1>1, SMTT(30) DEF SizeTurn
<1>9. bytes[p] # StopMarker => SizeTurn(at("list")) = Sizing("list", Past(p), size)
  BY <1>1, SMTT(30) DEF SizeTurn
<1>10. SizeTurn(at("end")) = at("end")
  BY <1>1, SMTT(30) DEF SizeTurn
<1> QED BY <1>3, <1>4, <1>5, <1>6, <1>7, <1>8, <1>9, <1>10 DEF at

\* It has come to a place, in no more turns than there are bytes before it.
Reached(t, at, p, size) == \E n \in Nat : n < p /\ t[n] = Sizing(at, p, size)

\* A turn leads from one place to one behind it.
LEMMA TurnTo ==
  ASSUME NEW t, IsTurns(t), NEW at, NEW p \in Nat, NEW size, Reached(t, at, p, size),
         NEW next, NEW q \in Nat, q > p, NEW more,
         SizeTurn(Sizing(at, p, size)) = Sizing(next, q, more)
  PROVE  Reached(t, next, q, more)
<1>1. PICK n \in Nat : n < p /\ t[n] = Sizing(at, p, size)
  BY DEF Reached
<1>2. n + 1 \in Nat /\ n + 1 # 0 /\ (n + 1) - 1 = n /\ n + 1 < q
  BY <1>1
<1>3. t[n + 1] = SizeTurn(t[n])
  BY <1>2, Zenon DEF IsTurns
<1> QED BY <1>1, <1>2, <1>3 DEF Reached

\* From the marker of a list, or where there is none, to what is behind it
LEMMA ListSkipped ==
  ASSUME bytes \in Seq(Nat), NEW numbers \in Seq(Int),
         NEW marker \in {MetaListMarker, WordPosListMarker},
         NEW p \in Nat \ {0}, Stands(p, NumberList(marker, numbers)),
         NEW t, IsTurns(t), NEW size, Reached(t, "marker", p, size)
  PROVE  Reached(t, "marker", p + Len(NumberList(marker, numbers)), size)
<1>1. CASE numbers = <<>>
  <2>1. NumberList(marker, numbers) = <<>>
    BY <1>1, Zenon DEF NumberList
  <2>2. Len(<<>>) = 0 /\ p + 0 = p
    OBVIOUS
  <2> QED BY <2>1, <2>2
<1>2. CASE numbers # <<>>
  <2> DEFINE x(i) == Extent(Encoded(numbers), i)  n == Len(numbers)  b(i) == p + 1 + x(i)
             S == {i \in Nat : i <= n => Reached(t, "list", b(i), size)}
  <2>1. marker \in Nat /\ n \in Nat
    BY DEF MetaListMarker, WordPosListMarker
  <2>2. /\ bytes[p] = marker /\ \A i \in 0..n : x(i) \in Nat
        /\ x(0) = 0
        /\ \A i \in 1..n : /\ Stands(b(i - 1), Encode(numbers[i]))
                           /\ x(i) = x(i - 1) + Len(Encode(numbers[i]))
        /\ bytes[b(n)] = StopMarker
        /\ p + Len(NumberList(marker, numbers)) = p + 2 + x(n)
    BY <1>2, <2>1, ListPlaces
  <2> HIDE DEF x, n
  <2>3. \A i \in 0..n : b(i) \in Nat \ {0}
    BY <2>2
  <2>4. 0 \in S
    <3>1. b(0) = p + 1 /\ p + 1 \in Nat /\ p + 1 > p
      BY <2>2
    <3>2. SizeTurn(Sizing("marker", p, size)) = Sizing("list", p + 1, size)
      BY <2>2, SizeTurns
    <3> HIDE DEF b
    <3>3. Reached(t, "list", b(0), size)
      BY <3>1, <3>2, TurnTo
    <3> QED BY <3>3
  <2>5. ASSUME NEW i \in Nat, i \in S PROVE i + 1 \in S
    <3> SUFFICES ASSUME i + 1 <= n PROVE Reached(t, "list", b(i + 1), size)
      OBVIOUS
    <3>1. i + 1 \in 1..n /\ (i + 1) - 1 = i /\ i \in 0..n /\ i <= n /\ i + 1 \in 0..n
      BY <2>1
    <3>2. Reached(t, "list", b(i), size)
      BY <2>5, <3>1
    <3> DEFINE e == Encode(numbers[i + 1])
    <3>3. Stands(b(i), e) /\ x(i + 1) = x(i) + Len(e) /\ x(i) \in Nat
      BY <2>2, <3>1
    <3>4. numbers[i + 1] \in Int
      BY <3>1 DEF n
    <3>5. Len(e) \in Nat /\ Len(e) > 0
      <4>1. e \in Seq(Nat) /\ Len(e) > 0
        BY <3>4, EncodedNumber
      <4> HIDE DEF e
      <4> QED BY <4>1
    <3> HIDE DEF e
    <3>6. b(i + 1) = b(i) + Len(e) /\ b(i + 1) > b(i)
      BY <3>3, <3>5
    <3>7. Past(b(i)) = b(i) + Len(e) /\ bytes[b(i)] # StopMarker
      BY <2>3, <3>1, <3>3, <3>4, NumberRead DEF e
    <3>8. b(i) \in Nat /\ b(i + 1) \in Nat
      BY <2>3, <3>1
    <3> HIDE DEF b
    <3>9. SizeTurn(Sizing("list", b(i), size)) = Sizing("list", b(i + 1), size)
      BY <3>6, <3>7, SizeTurns
    <3> QED BY <3>2, <3>6, <3>8, <3>9, TurnTo
  <2>6. \A i \in Nat : i \in S
    <3> HIDE DEF S
    <3> QED BY <2>4, <2>5, Induction
  <2>7. Reached(t, "list", b(n), size) /\ b(n) \in Nat /\ b(n) + 1 = p + 2 + x(n)
    <3>1. n \in 0..n /\ n <= n
      BY <2>1
    <3> QED BY <2>1, <2>2, <2>3, <2>6, <3>1
  <2> HIDE DEF b
  <2>8. SizeTurn(Sizing("list", b(n), size)) = Sizing("marker", b(n) + 1, size)
    BY <2>2, SizeTurns
  <2>9. Reached(t, "marker", b(n) + 1, size)
    <3>1. b(n) + 1 \in Nat /\ b(n) + 1 > b(n)
      BY <2>7
    <3> QED BY <2>7, <2>8, <3>1, TurnTo
  <2> QED BY <2>2, <2>7, <2>9
<1> QED BY <1>1, <1>2

\* From an entry to what is behind it, one is counted.
LEMMA EntrySized ==
  ASSUME bytes \in Seq(Nat), NEW e \in Entries, NEW p \in Nat \ {0}, Stands(p, EntryBytes(e)),
         NEW t, IsTurns(t), NEW size, Reached(t, "entry", p, size)
  PROVE  Reached(t, "marker", p + Len(EntryBytes(e)), size + 1)
<1> DEFINE second == p + Len(Encode(e.index))
           third == second + Len(Encode(e.occurrences))
           metas == p + Len(Numbers(e))
           positions == metas + Len(MetaList(e))
           ids == SetToSeq(e.metas)
<1>1. /\ Stands(p, Encode(e.index)) /\ Stands(second, Encode(e.occurrences))
      /\ Stands(third, Encode(e.rank)) /\ metas = third + Len(Encode(e.rank))
      /\ second \in Nat \ {0} /\ third \in Nat \ {0}
      /\ metas \in Nat \ {0} /\ positions \in Nat \ {0}
      /\ Stands(metas, MetaList(e)) /\ Stands(positions, PosList(e))
      /\ p + Len(EntryBytes(e)) = positions + Len(PosList(e))
  BY EntryPlaces
<1>2. /\ e.index \in Int /\ e.occurrences \in Int /\ e.rank \in Int
      /\ e.metas \in SUBSET MetaIds /\ e.deltas \in Seq(Int)
  BY DEF Entries
<1>3. ids \in Seq(Int)
  BY <1>2, MetaIdsListed
<1>4. /\ Len(Encode(e.index)) \in Nat \ {0} /\ Len(Encode(e.occurrences)) \in Nat \ {0}
      /\ Len(Encode(e.rank)) \in Nat \ {0}
  <2>1. ASSUME NEW n \in Int PROVE Len(Encode(n)) \in Nat \ {0}
    <3>1. Encode(n) \in Seq(Nat) /\ Len(Encode(n)) > 0
      BY EncodedNumber
    <3>2. Len(Encode(n)) \in Nat
      BY <3>1, LenProperties
    <3> QED BY <3>1, <3>2
  <2> QED BY <1>2, <2>1
<1>5. Past(Past(Past(p))) = metas /\ metas > p
  <2>1. Past(p) = second
    BY <1>1, <1>2, NumberRead
  <2>2. Past(second) = third
    BY <1>1, <1>2, NumberRead
  <2>3. Past(third) = metas
    BY <1>1, <1>2, NumberRead
  <2> QED BY <1>1, <1>4, <2>1, <2>2, <2>3
<1>6. Reached(t, "marker", metas, size + 1)
  <2>1. SizeTurn(Sizing("entry", p, size)) = Sizing("marker", metas, size + 1)
    BY <1>5, SizeTurns
  <2> HIDE DEF metas
  <2> QED BY <1>1, <1>5, <2>1, TurnTo
<1>7. Reached(t, "marker", positions, size + 1)
  <2>1. MetaList(e) = NumberList(MetaListMarker, ids)
    BY DEF MetaList
  <2> HIDE DEF metas, ids
  <2> QED BY <1>1, <1>3, <1>6, <2>1, ListSkipped
<1>8. Reached(t, "marker", positions + Len(PosList(e)), size + 1)
  <2>1. PosList(e) = NumberList(WordPosListMarker, e.deltas)
    BY DEF PosList
  <2> HIDE DEF positions
  <2> QED BY <1>1, <1>2, <1>7, <2>1, ListSkipped
<1> QED BY <1>1, <1>8

\* calc_size() counts the entries of a list that was written.
LEMMA ListSized ==
  ASSUME files \in Seq(Entries), files # <<>>, bytes = ListBytes(files)
  PROVE  CalcSize = Len(files)
<1> DEFINE n == Len(files)  t == CHOOSE t : IsTurns(t)
           S == {k \in Nat : k < n => Reached(t, "entry", EntryAt(k), k)}
<1>1. IsTurns(t)
  BY TurnsExist, Zenon
<1>2. CalcSize = t[Len(bytes)].size
  BY Zenon DEF CalcSize, IsTurns
<1> HIDE DEF t
<1>3. /\ n \in Nat /\ n > 0
      /\ bytes \in Seq(Nat) /\ EntryAt(0) = 1
      /\ \A k \in 0..(n - 1) :
           /\ files[k + 1] \in Entries
           /\ EntryAt(k) \in Nat \ {0} /\ EndAt(k) \in Nat \ {0}
           /\ Stands(EntryAt(k), EntryBytes(files[k + 1]))
           /\ k + 1 = n => bytes[EndAt(k)] = StopMarker /\ EndAt(k) = Len(bytes)
           /\ k + 1 < n => bytes[EndAt(k)] = ContinuesMarker /\ EntryAt(k + 1) = EndAt(k) + 1
  <2>1. n \in Nat
    OBVIOUS
  <2> QED BY <2>1, ListPlaced
<1> HIDE DEF n
\* From an entry to what is behind it
<1>4. ASSUME NEW k \in 0..(n - 1), Reached(t, "entry", EntryAt(k), k)
      PROVE  Reached(t, "marker", EndAt(k), k + 1)
  <2>1. EndAt(k) = EntryAt(k) + Len(EntryBytes(files[k + 1]))
    BY <1>3, EntryPlaces DEF EndAt, PositionsAt, MetasAt
  <2> QED BY <1>1, <1>3, <1>4, <2>1, EntrySized
<1>5. 0 \in S
  <2>1. t[0] = Sizing("entry", 1, 0)
    BY <1>1, Zenon DEF IsTurns
  <2>2. Reached(t, "entry", 1, 0)
    BY <2>1 DEF Reached
  <2> QED BY <1>3, <2>2
<1>6. ASSUME NEW k \in Nat, k \in S PROVE k + 1 \in S
  <2> SUFFICES ASSUME k + 1 < n PROVE Reached(t, "entry", EntryAt(k + 1), k + 1)
    OBVIOUS
  <2>1. k \in 0..(n - 1) /\ k < n
    BY <1>3
  <2>2. Reached(t, "marker", EndAt(k), k + 1)
    BY <1>4, <1>6, <2>1
  <2>3. bytes[EndAt(k)] = ContinuesMarker /\ EntryAt(k + 1) = EndAt(k) + 1 /\ EndAt(k) \in Nat
    BY <1>3, <2>1
  <2>4. SizeTurn(Sizing("marker", EndAt(k), k + 1)) = Sizing("entry", EntryAt(k + 1), k + 1)
    BY <2>3, SizeTurns
  <2>5. EntryAt(k + 1) \in Nat /\ EntryAt(k + 1) > EndAt(k)
    BY <2>3
  <2> QED BY <1>1, <2>2, <2>3, <2>4, <2>5, TurnTo
<1>7. \A k \in Nat : k \in S
  <2> HIDE DEF S
  <2> QED BY <1>5, <1>6, Induction
\* The last one
<1> DEFINE last == n - 1  m == Len(bytes)
<1>8. /\ last \in Nat /\ last \in 0..(n - 1) /\ last < n /\ last + 1 = n
      /\ bytes[m] = StopMarker /\ EndAt(last) = m /\ m \in Nat
  BY <1>3
<1>9. Reached(t, "marker", m, n)
  BY <1>4, <1>7, <1>8
<1> HIDE DEF last, m
<1>10. PICK i \in Nat : i < m /\ t[i] = Sizing("marker", m, n)
  BY <1>9 DEF Reached
<1> DEFINE end == Sizing("end", m, n)
           T == {j \in Nat : i < j => t[j] = end}
<1>11. \A j \in Nat : t[j + 1] = SizeTurn(t[j])
  <2> TAKE j \in Nat
  <2>1. j + 1 \in Nat /\ j + 1 # 0 /\ (j + 1) - 1 = j
    OBVIOUS
  <2> QED BY <1>1, <2>1, Zenon DEF IsTurns
<1>12. 0 \in T
  OBVIOUS
<1>13. ASSUME NEW j \in Nat, j \in T PROVE j + 1 \in T
  <2>1. CASE j = i
    <3>1. t[j + 1] = SizeTurn(Sizing("marker", m, n))
      BY <1>10, <1>11, <2>1
    <3>2. SizeTurn(Sizing("marker", m, n)) = end
      BY <1>8, SizeTurns
    <3> QED BY <3>1, <3>2
  <2>2. CASE i < j
    <3>1. t[j + 1] = SizeTurn(end)
      BY <1>11, <1>13, <2>2
    <3>2. SizeTurn(end) = end
      BY SizeTurns
    <3> QED BY <3>1, <3>2
  <2>3. CASE j < i
    BY <2>3
  <2> QED BY <2>1, <2>2, <2>3
<1>14. t[m] = end
  <2> HIDE DEF T, end
  <2>1. \A j \in Nat : j \in T
    BY <1>12, <1>13, Induction
  <2> QED BY <1>8, <1>10, <2>1 DEF T
<1>15. end.size = n
  BY DEF Sizing
<1> QED BY <1>2, <1>14, <1>15 DEF n, m

-----------------------------------------------------------------------------
(* What an iterator reads.                                                 *)

\* Before the first of any sequences there is nothing.
LEMMA NoExtent ==
  ASSUME NEW s
  PROVE  Extent(s, 0) = 0
<1>1. SubSeq(s, 1, 0) = <<>>
  OBVIOUS
<1>2. FlattenSeq(<<>>) = <<>>
  BY EmptySeq, Zenon DEF FlattenSeq
<1>3. Len(<<>>) = 0
  OBVIOUS
<1> QED BY <1>1, <1>2, <1>3 DEF Extent

\* The entry that is read next, or being read, and the places in it
LEMMA EntryHere ==
  ASSUME ListInv, ReaderInv, pc # "indexing", Len(seen) < Len(files)
  PROVE  LET k == Len(seen)  f == Reading IN
         /\ k \in Nat /\ k \in 0..(Len(files) - 1) /\ Len(files) \in Nat
         /\ f \in Entries /\ Fits(f, occurs) /\ bytes \in Seq(Nat)
         /\ EntryAt(k) \in Nat \ {0} /\ Stands(EntryAt(k), EntryBytes(f))
         /\ MetasAt(k) \in Nat \ {0} /\ Stands(MetasAt(k), MetaList(f))
         /\ PositionsAt(k) \in Nat \ {0} /\ Stands(PositionsAt(k), PosList(f))
         /\ PositionsAt(k) = MetasAt(k) + Len(MetaList(f))
         /\ EndAt(k) = PositionsAt(k) + Len(PosList(f))
         /\ EndAt(k) \in Nat \ {0}
         /\ k + 1 = Len(files) => bytes[EndAt(k)] = StopMarker
         /\ k + 1 < Len(files) => bytes[EndAt(k)] = ContinuesMarker /\ EntryAt(k + 1) = EndAt(k) + 1
<1> DEFINE k == Len(seen)
<1>1. files \in Seq(Entries) /\ files # <<>> /\ bytes = ListBytes(files) /\ seen \in Seq(Entries)
  BY DEF ListInv, ListOK, ReaderInv, WrittenInv, SeenInv
<1>2. k \in Nat /\ k \in 0..(Len(files) - 1) /\ Len(files) \in Nat /\ k + 1 \in DOMAIN files
  BY <1>1
<1>3. Reading = files[k + 1] /\ Fits(files[k + 1], occurs)
  BY <1>2 DEF Reading, ReaderInv, FitInv
<1> HIDE DEF k
<1>4. /\ bytes \in Seq(Nat) /\ files[k + 1] \in Entries
      /\ EntryAt(k) \in Nat \ {0} /\ EndAt(k) \in Nat \ {0}
      /\ Stands(EntryAt(k), EntryBytes(files[k + 1]))
      /\ k + 1 = Len(files) => bytes[EndAt(k)] = StopMarker
      /\ k + 1 < Len(files) => bytes[EndAt(k)] = ContinuesMarker /\ EntryAt(k + 1) = EndAt(k) + 1
  BY <1>1, <1>2, ListPlaced
<1> DEFINE p == EntryAt(k)  f == files[k + 1]
<1>5. p \in Nat \ {0} /\ f \in Entries /\ Stands(p, EntryBytes(f))
  BY <1>4
<1>6. /\ MetasAt(k) = p + Len(Numbers(f)) /\ PositionsAt(k) = MetasAt(k) + Len(MetaList(f))
      /\ EndAt(k) = PositionsAt(k) + Len(PosList(f))
  BY DEF MetasAt, PositionsAt, EndAt
<1> HIDE DEF p, f
<1>7. LET metas == p + Len(Numbers(f))  positions == metas + Len(MetaList(f)) IN
      /\ metas \in Nat \ {0} /\ positions \in Nat \ {0}
      /\ Stands(metas, MetaList(f)) /\ Stands(positions, PosList(f))
  BY <1>4, <1>5, EntryPlaces
<1>8. /\ MetasAt(k) \in Nat \ {0} /\ PositionsAt(k) \in Nat \ {0}
      /\ Stands(MetasAt(k), MetaList(f)) /\ Stands(PositionsAt(k), PosList(f))
  BY <1>6, <1>7
<1> QED BY <1>2, <1>3, <1>4, <1>6, <1>8 DEF k, p, f

\* The three numbers of the entry are read as they are.
LEMMA NumbersHere ==
  ASSUME ListInv, ReaderInv, pc # "indexing", Len(seen) < Len(files), c = EntryAt(Len(seen))
  PROVE  LET second == Past(c)  third == Past(second) IN
         /\ Decode(c) = Reading.index /\ Decode(second) = Reading.occurrences
         /\ Decode(third) = Reading.rank /\ Past(third) = MetasAt(Len(seen))
<1> DEFINE k == Len(seen)  f == Reading
           second == c + Len(Encode(f.index))  third == second + Len(Encode(f.occurrences))
<1>1. /\ f \in Entries /\ Fits(f, occurs) /\ bytes \in Seq(Nat)
      /\ c \in Nat \ {0} /\ Stands(c, EntryBytes(f))
  BY EntryHere
<1>2. /\ f.index \in Nat /\ f.occurrences \in Nat /\ f.rank \in Nat
      /\ f.index \in Int /\ f.occurrences \in Int /\ f.rank \in Int
  BY <1>1 DEF Entries
<1>3. MetasAt(k) = c + Len(Numbers(f))
  BY DEF MetasAt, Reading
<1>4. Len(occurs) \in Nat /\ Len(occurs) < LongMod
  <2>1. Len(occurs) \in Nat /\ Len(occurs) <= MaxOccurs
    BY DEF ListInv, ListOK, ReaderInv, FitInv
  <2> QED BY <2>1, PostingAssumption
<1>5. ASSUME NEW n \in Nat, n < LongMod PROVE ToLong(n) = n
  BY <1>5, PostingAssumption DEF ToLong
<1>6. /\ ToLong(f.index) = f.index /\ ToLong(f.occurrences) = f.occurrences
      /\ ToLong(f.rank) = f.rank
  <2>1. f.index < LongMod /\ f.rank < LongMod
    BY <1>1 DEF Fits
  <2>2. f.occurrences < LongMod
    BY <1>1, <1>2, <1>4, PostingAssumption DEF Fits
  <2> QED BY <1>2, <1>5, <2>1, <2>2
<1> HIDE DEF f
<1>7. /\ Stands(c, Encode(f.index)) /\ Stands(second, Encode(f.occurrences))
      /\ Stands(third, Encode(f.rank))
      /\ c + Len(Numbers(f)) = third + Len(Encode(f.rank))
      /\ second \in Nat \ {0} /\ third \in Nat \ {0}
  BY <1>1, EntryPlaces
<1> HIDE DEF second, third
<1>8. Past(c) = second /\ Decode(c) = f.index
  BY <1>1, <1>2, <1>6, <1>7, NumberRead DEF second
<1>9. Past(second) = third /\ Decode(second) = f.occurrences
  BY <1>1, <1>2, <1>6, <1>7, NumberRead DEF third
<1>10. Past(third) = MetasAt(k) /\ Decode(third) = f.rank
  BY <1>1, <1>2, <1>3, <1>6, <1>7, NumberRead
<1> QED BY <1>8, <1>9, <1>10 DEF f, k

\* A list that is not empty begins with its marker.
LEMMA MarkerFirst ==
  ASSUME bytes \in Seq(Nat), NEW numbers \in Seq(Int), numbers # <<>>, NEW marker \in Nat,
         NEW p \in Nat \ {0}, Stands(p, NumberList(marker, numbers))
  PROVE  bytes[p] = marker
BY ListPlaces

\* What there is at a marker
LEMMA AtMarker ==
  ASSUME ListInv, ReaderInv, pc = "marker"
  PROVE  LET k == Len(seen)  f == Reading IN
         \/ /\ f.metas # {} /\ c = MetasAt(k) /\ ReadSoFar({}, <<>>)
            /\ bytes[c] = MetaListMarker
         \/ /\ f.deltas # <<>> /\ c = PositionsAt(k) /\ ReadSoFar(f.metas, <<>>)
            /\ bytes[c] = WordPosListMarker
         \/ /\ c = EndAt(k) /\ ReadSoFar(f.metas, IF knowsPos THEN f.deltas ELSE <<>>)
            /\ k + 1 = Len(files) => bytes[c] = StopMarker
            /\ k + 1 < Len(files) => bytes[c] = ContinuesMarker /\ EntryAt(k + 1) = c + 1
<1> DEFINE k == Len(seen)  f == Reading
<1>1. Len(seen) < Len(files) /\ BeforeMarker
  BY DEF ReaderInv, PlaceInv
<1>2. /\ f \in Entries /\ bytes \in Seq(Nat)
      /\ MetasAt(k) \in Nat \ {0} /\ Stands(MetasAt(k), MetaList(f))
      /\ PositionsAt(k) \in Nat \ {0} /\ Stands(PositionsAt(k), PosList(f))
      /\ PositionsAt(k) = MetasAt(k) + Len(MetaList(f))
      /\ EndAt(k) = PositionsAt(k) + Len(PosList(f))
      /\ EndAt(k) \in Nat \ {0}
      /\ k + 1 = Len(files) => bytes[EndAt(k)] = StopMarker
      /\ k + 1 < Len(files) => bytes[EndAt(k)] = ContinuesMarker /\ EntryAt(k + 1) = EndAt(k) + 1
  BY <1>1, EntryHere
<1>3. f.metas \in SUBSET MetaIds /\ f.deltas \in Seq(Int)
  BY <1>2 DEF Entries
<1> DEFINE ids == SetToSeq(f.metas)
<1>4. ids \in Seq(Int) /\ (ids = <<>> <=> f.metas = {})
  BY <1>3, MetaIdsListed
<1>5. /\ MetaList(f) = NumberList(MetaListMarker, ids)
      /\ PosList(f) = NumberList(WordPosListMarker, f.deltas)
  BY DEF MetaList, PosList
<1>6. \/ c = MetasAt(k) /\ ReadSoFar({}, <<>>)
      \/ c = PositionsAt(k) /\ ReadSoFar(f.metas, <<>>)
      \/ c = EndAt(k) /\ ReadSoFar(f.metas, IF knowsPos THEN f.deltas ELSE <<>>)
  BY <1>1 DEF BeforeMarker
<1>7. f.metas # {} => bytes[MetasAt(k)] = MetaListMarker
  <2>1. MetaListMarker \in Nat
    BY DEF MetaListMarker
  <2> HIDE DEF ids, f, k
  <2> SUFFICES ASSUME f.metas # {} PROVE bytes[MetasAt(k)] = MetaListMarker
    OBVIOUS
  <2>2. /\ bytes \in Seq(Nat) /\ ids \in Seq(Int) /\ ids # <<>> /\ MetasAt(k) \in Nat \ {0}
        /\ Stands(MetasAt(k), NumberList(MetaListMarker, ids))
    BY <1>2, <1>4, <1>5
  <2> QED BY <2>1, <2>2, MarkerFirst
<1>8. f.deltas # <<>> => bytes[PositionsAt(k)] = WordPosListMarker
  <2>1. WordPosListMarker \in Nat
    BY DEF WordPosListMarker
  <2> HIDE DEF ids, f, k
  <2> SUFFICES ASSUME f.deltas # <<>> PROVE bytes[PositionsAt(k)] = WordPosListMarker
    OBVIOUS
  <2>2. /\ bytes \in Seq(Nat) /\ f.deltas \in Seq(Int) /\ PositionsAt(k) \in Nat \ {0}
        /\ Stands(PositionsAt(k), NumberList(WordPosListMarker, f.deltas))
    BY <1>2, <1>3, <1>5
  <2> QED BY <2>1, <2>2, MarkerFirst
<1>9. f.metas = {} => MetasAt(k) = PositionsAt(k)
  <2>1. f.metas = {} => MetaList(f) = <<>>
    BY <1>4, <1>5 DEF NumberList
  <2> HIDE DEF f, k
  <2> QED BY <1>2, <2>1
<1>10. f.deltas = <<>> => PositionsAt(k) = EndAt(k)
  <2>1. f.deltas = <<>> => PosList(f) = <<>>
    BY <1>5 DEF NumberList
  <2> HIDE DEF f, k
  <2> QED BY <1>2, <2>1
<1> HIDE DEF f, k, ids
<1>11. CASE c = MetasAt(k) /\ ReadSoFar({}, <<>>) /\ f.metas # {}
  BY <1>7, <1>11 DEF f, k
<1>12. CASE c = PositionsAt(k) /\ ReadSoFar(f.metas, <<>>) /\ f.deltas # <<>>
  BY <1>8, <1>12 DEF f, k
<1>13. CASE c = EndAt(k) /\ ReadSoFar(f.metas, IF knowsPos THEN f.deltas ELSE <<>>)
  BY <1>2, <1>13 DEF f, k
<1>14. CASE c = PositionsAt(k) /\ ReadSoFar(f.metas, <<>>) /\ f.deltas = <<>>
  <2>1. (IF knowsPos THEN f.deltas ELSE <<>>) = <<>>
    BY <1>14
  <2> QED BY <1>10, <1>13, <1>14, <2>1
<1>15. CASE c = MetasAt(k) /\ ReadSoFar({}, <<>>) /\ f.metas = {}
  BY <1>9, <1>12, <1>14, <1>15
<1> QED BY <1>6, <1>11, <1>12, <1>13, <1>14, <1>15

\* What a reader does not change, and where things are
LEMMA Unmoved ==
  ASSUME ReaderInv, UNCHANGED <<occurs, current, files, bytes>>, pc # "indexing"
  PROVE  FitInv' /\ WrittenInv' /\ Pieces' = Pieces
<1>1. FitInv'
  BY DEF ReaderInv, FitInv
<1>2. WrittenInv'
  BY DEF ReaderInv, WrittenInv
<1>3. Pieces' = Pieces
  BY DEF Pieces
<1> QED BY <1>1, <1>2, <1>3

\* The places in the entry that is read
LEMMA SamePlaces ==
  ASSUME UNCHANGED <<files, seen>>, Pieces' = Pieces
  PROVE  /\ EntryAt(Len(seen))' = EntryAt(Len(seen))
         /\ MetasAt(Len(seen))' = MetasAt(Len(seen))
         /\ PositionsAt(Len(seen))' = PositionsAt(Len(seen))
         /\ EndAt(Len(seen))' = EndAt(Len(seen))
         /\ Reading' = Reading
BY DEF EntryAt, MetasAt, PositionsAt, EndAt, Reading

\* The three numbers of an entry are read.
LEMMA ReadNumbersStep ==
  ASSUME ListInv, ReaderInv, ReadNumbers
  PROVE  ReaderInv'
<1>1. /\ pc = "next" /\ pc' = "marker"
      /\ UNCHANGED <<occurs, current, files, bytes, knowsPos, seen>>
      /\ v' = [index |-> Decode(c), occurrences |-> Decode(Past(c)),
               rank |-> Decode(Past(Past(c))), metas |-> {}, deltas |-> <<>>]
      /\ c' = Past(Past(Past(c)))
  BY DEF ReadNumbers
<1>2. c # EndValue
  BY DEF ReadNumbers, EndValue
<1>3. Len(seen) < Len(files) /\ c = EntryAt(Len(seen))
  BY <1>1, <1>2 DEF ReaderInv, PlaceInv
<1>4. /\ Decode(c) = Reading.index /\ Decode(Past(c)) = Reading.occurrences
      /\ Decode(Past(Past(c))) = Reading.rank /\ c' = MetasAt(Len(seen))
  BY <1>1, <1>3, NumbersHere
<1>5. Reading \in Entries
  BY <1>1, <1>3, EntryHere
<1>6. v' = [index |-> Reading.index, occurrences |-> Reading.occurrences,
            rank |-> Reading.rank, metas |-> {}, deltas |-> <<>>]
  BY <1>1, <1>4
<1>7. FitInv' /\ WrittenInv' /\ Pieces' = Pieces
  BY <1>1, Unmoved
<1>8. BeforeMarker'
  <2>1. MetasAt(Len(seen))' = MetasAt(Len(seen)) /\ Reading' = Reading
    BY <1>1, <1>7, SamePlaces
  <2>2. ReadSoFar({}, <<>>)'
    BY <1>6, <2>1 DEF ReadSoFar
  <2>3. c' = MetasAt(Len(seen))'
    BY <1>4, <2>1
  <2> QED BY <2>2, <2>3 DEF BeforeMarker
<1>9. PlaceInv'
  BY <1>1, <1>3, <1>8 DEF PlaceInv
<1>10. SeenInv'
  BY <1>1 DEF ReaderInv, SeenInv, AsRead
<1> QED BY <1>7, <1>9, <1>10 DEF ReaderInv

\* What an iterator yields, with the lists a reader has
LEMMA EntryAsRead ==
  ASSUME NEW f \in Entries, knowsPos \in BOOLEAN
  PROVE  /\ AsRead(f) = [index |-> f.index, occurrences |-> f.occurrences, rank |-> f.rank,
                        metas |-> f.metas, deltas |-> IF knowsPos THEN f.deltas ELSE <<>>]
         /\ AsRead(f) \in Entries
<1>1. /\ f.index \in Nat /\ f.occurrences \in Nat /\ f.rank \in Nat
      /\ f.metas \in SUBSET MetaIds /\ f.deltas \in Seq(Int)
      /\ f = [index |-> f.index, occurrences |-> f.occurrences, rank |-> f.rank,
              metas |-> f.metas, deltas |-> f.deltas]
  BY DEF Entries
<1>2. [f EXCEPT !.deltas = <<>>] =
        [index |-> f.index, occurrences |-> f.occurrences, rank |-> f.rank,
         metas |-> f.metas, deltas |-> <<>>]
  BY DEF Entries
<1>3. <<>> \in Seq(Int)
  OBVIOUS
<1>4. [f EXCEPT !.deltas = <<>>] \in Entries
  BY <1>1, <1>2, <1>3 DEF Entries
<1> QED BY <1>1, <1>2, <1>4 DEF AsRead

\* The iterator is dereferenced to the whole entry, and then is at the next one
\* or at the end.
LEMMA EndEntryStep ==
  ASSUME ListInv, ReaderInv, EndEntry
  PROVE  ReaderInv'
<1> DEFINE k == Len(seen)  f == Reading
<1>1. /\ pc = "marker" /\ pc' = "next" /\ UNCHANGED <<occurs, current, files, bytes, knowsPos, v>>
      /\ bytes[c] \in {StopMarker, ContinuesMarker}
      /\ c' = (IF bytes[c] = StopMarker THEN EndValue ELSE c + 1) /\ seen' = Append(seen, v)
  BY DEF EndEntry
<1>2. StopMarker > 2 /\ StopMarker # ContinuesMarker
  BY PostingAssumption DEF StopMarker, ContinuesMarker
<1>3. bytes[c] # MetaListMarker /\ bytes[c] # WordPosListMarker
  BY <1>1, <1>2 DEF MetaListMarker, WordPosListMarker, ContinuesMarker
<1>4. /\ c = EndAt(k) /\ ReadSoFar(f.metas, IF knowsPos THEN f.deltas ELSE <<>>)
      /\ k + 1 = Len(files) => bytes[c] = StopMarker
      /\ k + 1 < Len(files) => bytes[c] = ContinuesMarker /\ EntryAt(k + 1) = c + 1
  BY <1>1, <1>3, AtMarker
<1>5. k < Len(files)
  BY <1>1 DEF ReaderInv, PlaceInv
<1>6. f \in Entries /\ k \in Nat /\ Len(files) \in Nat /\ EndAt(k) \in Nat \ {0}
  BY <1>1, <1>5, EntryHere
<1>7. seen \in Seq(Entries) /\ knowsPos \in BOOLEAN
      /\ \A i \in DOMAIN seen : i <= Len(files) /\ seen[i] = AsRead(files[i])
  BY DEF ReaderInv, SeenInv
<1>8. v = AsRead(f) /\ v \in Entries /\ f = files[k + 1]
  <2>1. v = [index |-> f.index, occurrences |-> f.occurrences, rank |-> f.rank,
             metas |-> f.metas, deltas |-> IF knowsPos THEN f.deltas ELSE <<>>]
    BY <1>4 DEF ReadSoFar
  <2>2. f = files[k + 1]
    BY DEF Reading
  <2> HIDE DEF f
  <2> QED BY <1>6, <1>7, <2>1, <2>2, EntryAsRead
<1>9. FitInv' /\ WrittenInv' /\ Pieces' = Pieces
  BY <1>1, Unmoved
<1> HIDE DEF f
<1>10. seen' \in Seq(Entries) /\ Len(seen') = k + 1 /\ DOMAIN seen' = 1..(k + 1)
       /\ \A i \in 1..(k + 1) : seen'[i] = IF i = k + 1 THEN v ELSE seen[i]
  BY <1>1, <1>7, <1>8
<1>11. SeenInv'
  <2>1. ASSUME NEW i \in DOMAIN seen' PROVE i <= Len(files) /\ seen'[i] = AsRead(files[i])
    <3>1. CASE i = k + 1
      BY <1>5, <1>6, <1>8, <1>10, <3>1
    <3>2. CASE i # k + 1
      <4>1. i \in DOMAIN seen
        BY <1>7, <1>10, <3>2
      <4> QED BY <1>7, <1>10, <3>2, <4>1
    <3> QED BY <3>1, <3>2
  <2> QED BY <1>1, <1>7, <1>10, <2>1 DEF SeenInv, AsRead
<1>12. PlaceInv'
  <2>1. CASE k + 1 = Len(files)
    <3>1. c' = EndValue
      BY <1>1, <1>4, <2>1
    <3> QED BY <1>1, <1>10, <2>1, <3>1 DEF PlaceInv
  <2>2. CASE k + 1 < Len(files)
    <3>1. c' = EntryAt(k + 1) /\ c' # EndValue
      BY <1>1, <1>2, <1>4, <1>6, <2>2 DEF EndValue
    <3>2. EntryAt(Len(seen))' = EntryAt(k + 1)
      BY <1>9, <1>10 DEF EntryAt
    <3> QED BY <1>1, <1>10, <2>2, <3>1, <3>2 DEF PlaceInv
  <2> QED BY <1>5, <1>6, <2>1, <2>2
<1> QED BY <1>9, <1>11, <1>12 DEF ReaderInv

\* A list begins.
LEMMA BeginListStep ==
  ASSUME ListInv, ReaderInv, BeginList
  PROVE  ReaderInv'
<1> DEFINE k == Len(seen)  f == Reading
<1>1. /\ pc = "marker" /\ UNCHANGED <<occurs, current, files, bytes, knowsPos, v, seen>>
      /\ bytes[c] \notin {StopMarker, ContinuesMarker} /\ c' = c + 1
  BY DEF BeginList
<1>2. /\ bytes[c] = MetaListMarker => pc' = "metas"
      /\ bytes[c] = WordPosListMarker => pc' = IF knowsPos THEN "positions" ELSE "unknown"
  <2>1. pc' = CASE bytes[c] = MetaListMarker -> "metas"
                [] bytes[c] = WordPosListMarker /\ knowsPos -> "positions"
                [] OTHER -> "unknown"
    BY DEF BeginList
  <2>2. MetaListMarker # WordPosListMarker
    BY DEF MetaListMarker, WordPosListMarker
  <2>3. ASSUME bytes[c] = MetaListMarker PROVE pc' = "metas"
    <3>1. bytes[c] # WordPosListMarker
      BY <2>2, <2>3
    <3> QED BY <2>1, <2>3, <3>1, Zenon
  <2>4. ASSUME bytes[c] = WordPosListMarker
        PROVE  pc' = IF knowsPos THEN "positions" ELSE "unknown"
    <3>1. bytes[c] # MetaListMarker
      BY <2>2, <2>4
    <3>2. CASE knowsPos
      BY <2>1, <2>4, <3>1, <3>2, Zenon
    <3>3. CASE ~knowsPos
      BY <2>1, <2>4, <3>1, <3>3, Zenon
    <3> QED BY <3>2, <3>3
  <2> QED BY <2>3, <2>4
<1>3. k < Len(files)
  BY <1>1 DEF ReaderInv, PlaceInv
<1>4. f \in Entries /\ k \in Nat /\ MetasAt(k) \in Nat \ {0} /\ PositionsAt(k) \in Nat \ {0}
      /\ Len(files) \in Nat
  BY <1>1, <1>3, EntryHere
<1>5. \/ f.metas # {} /\ c = MetasAt(k) /\ ReadSoFar({}, <<>>) /\ bytes[c] = MetaListMarker
      \/ /\ f.deltas # <<>> /\ c = PositionsAt(k) /\ ReadSoFar(f.metas, <<>>)
         /\ bytes[c] = WordPosListMarker
  <2>1. ~(/\ k + 1 = Len(files) => bytes[c] = StopMarker
          /\ k + 1 < Len(files) => bytes[c] = ContinuesMarker /\ EntryAt(k + 1) = c + 1)
    BY <1>1, <1>3, <1>4
  <2> QED BY <1>1, <2>1, AtMarker
<1>6. FitInv' /\ WrittenInv' /\ Pieces' = Pieces
  BY <1>1, Unmoved
<1>7. /\ MetasAt(Len(seen))' = MetasAt(k) /\ PositionsAt(Len(seen))' = PositionsAt(k)
      /\ Reading' = f
  BY <1>1, <1>6, SamePlaces
<1>8. SeenInv'
  BY <1>1 DEF ReaderInv, SeenInv, AsRead
<1> HIDE DEF f
<1>9. CASE f.metas # {} /\ c = MetasAt(k) /\ ReadSoFar({}, <<>>) /\ bytes[c] = MetaListMarker
  <2>1. pc' = "metas"
    BY <1>2, <1>9
  <2>10. PICK ids : ids = SetToSeq(f.metas)
    OBVIOUS
  <2>2. ids \in Seq(Int)
    BY <1>4, <2>10, MetaIdsListed DEF Entries
  <2>3. 0 \in 0..Len(ids) /\ FirstOf(ids, 0) = {}
    BY <2>2 DEF FirstOf
  <2>4. c' = MetasAt(k) + 1 + Extent(Encoded(ids), 0)
    <3>1. Extent(Encoded(ids), 0) = 0
      BY NoExtent
    <3> QED BY <1>1, <1>4, <1>9, <3>1
  <2>5. WithinList(MetasAt(Len(seen)), ids, 0)'
    BY <1>7, <2>4 DEF WithinList
  <2>6. ReadSoFar(FirstOf(ids, 0), <<>>)'
    <3>1. v' = [index |-> f.index, occurrences |-> f.occurrences, rank |-> f.rank,
               metas |-> {}, deltas |-> <<>>]
      BY <1>1, <1>9 DEF ReadSoFar, f
    <3> QED BY <1>7, <2>3, <3>1 DEF ReadSoFar
  <2>7. AmongMetas'
    BY <1>7, <1>9, <2>3, <2>5, <2>6, <2>10 DEF AmongMetas
  <2>8. PlaceInv'
    BY <1>1, <1>3, <2>1, <2>7 DEF PlaceInv
  <2> QED BY <1>6, <1>8, <2>8 DEF ReaderInv
<1>10. CASE /\ f.deltas # <<>> /\ c = PositionsAt(k) /\ ReadSoFar(f.metas, <<>>)
            /\ bytes[c] = WordPosListMarker
  <2>1. pc' = IF knowsPos THEN "positions" ELSE "unknown"
    BY <1>2, <1>10
  <2>10. PICK deltas : deltas = f.deltas
    OBVIOUS
  <2>2. deltas \in Seq(Int)
    BY <1>4, <2>10 DEF Entries
  <2>3. 0 \in 0..Len(deltas) /\ SubSeq(deltas, 1, 0) = <<>>
    BY <2>2
  <2>4. c' = PositionsAt(k) + 1 + Extent(Encoded(deltas), 0)
    <3>1. Extent(Encoded(deltas), 0) = 0
      BY NoExtent
    <3> QED BY <1>1, <1>4, <1>10, <3>1
  <2>5. WithinList(PositionsAt(Len(seen)), deltas, 0)'
    BY <1>7, <2>4 DEF WithinList
  <2>6. ReadSoFar(Reading.metas, IF knowsPos THEN SubSeq(deltas, 1, 0) ELSE <<>>)'
    <3>1. v' = [index |-> f.index, occurrences |-> f.occurrences, rank |-> f.rank,
               metas |-> f.metas, deltas |-> <<>>]
      BY <1>1, <1>10 DEF ReadSoFar, f
    <3> QED BY <1>7, <2>3, <3>1 DEF ReadSoFar
  <2>7. AmongPositions'
    <3>1. knowsPos \in BOOLEAN
      BY DEF ReaderInv, SeenInv
    <3>2. pc' = "positions" <=> knowsPos'
      BY <1>1, <2>1, <3>1
    <3> QED BY <1>7, <1>10, <2>3, <2>5, <2>6, <2>10, <3>2 DEF AmongPositions
  <2>8. PlaceInv'
    BY <1>1, <1>3, <2>1, <2>7 DEF PlaceInv
  <2> QED BY <1>6, <1>8, <2>8 DEF ReaderInv
<1> QED BY <1>5, <1>9, <1>10

\* What there is at a place in a list
LEMMA InList ==
  ASSUME bytes \in Seq(Nat), NEW numbers \in Seq(Int), numbers # <<>>, NEW marker \in Nat,
         NEW p \in Nat \ {0}, Stands(p, NumberList(marker, numbers)),
         NEW i \in 0..Len(numbers), WithinList(p, numbers, i)
  PROVE  /\ c \in Nat
         /\ i < Len(numbers) => /\ bytes[c] # StopMarker
                                /\ Past(c) = p + 1 + Extent(Encoded(numbers), i + 1)
                                /\ Decode(c) = ToLong(numbers[i + 1])
         /\ i = Len(numbers) => /\ bytes[c] = StopMarker
                                /\ c + 1 = p + Len(NumberList(marker, numbers))
<1> DEFINE x(n) == Extent(Encoded(numbers), n)
<1>1. /\ \A n \in 0..Len(numbers) : x(n) \in Nat
      /\ \A n \in 1..Len(numbers) :
           Stands(p + 1 + x(n - 1), Encode(numbers[n])) /\ x(n) = x(n - 1) + Len(Encode(numbers[n]))
      /\ bytes[p + 1 + x(Len(numbers))] = StopMarker
      /\ p + Len(NumberList(marker, numbers)) = p + 2 + x(Len(numbers))
  BY ListPlaces
<1>2. c = p + 1 + x(i)
  BY DEF WithinList
<1> HIDE DEF x
<1>3. x(i) \in Nat /\ c \in Nat \ {0}
  <2>1. x(i) \in Nat
    BY <1>1
  <2> QED BY <1>2, <2>1
<1>4. ASSUME i < Len(numbers)
      PROVE  /\ bytes[c] # StopMarker /\ Past(c) = p + 1 + x(i + 1)
             /\ Decode(c) = ToLong(numbers[i + 1])
  <2>1. i + 1 \in 1..Len(numbers) /\ (i + 1) - 1 = i /\ i + 1 \in 0..Len(numbers)
    BY <1>4
  <2> DEFINE m == numbers[i + 1]
  <2>2. m \in Int /\ Stands(c, Encode(m)) /\ x(i + 1) = x(i) + Len(Encode(m))
    <3>1. m \in Int
      BY <2>1
    <3> HIDE DEF m
    <3>2. /\ Stands(p + 1 + x((i + 1) - 1), Encode(m))
          /\ x(i + 1) = x((i + 1) - 1) + Len(Encode(m))
      BY <1>1, <2>1 DEF m
    <3>3. Stands(p + 1 + x(i), Encode(m)) /\ x(i + 1) = x(i) + Len(Encode(m))
      BY <2>1, <3>2
    <3> QED BY <1>2, <3>1, <3>3
  <2> HIDE DEF m
  <2>3. Past(c) = c + Len(Encode(m)) /\ Decode(c) = ToLong(m) /\ bytes[c] # StopMarker
    BY <1>3, <2>2, NumberRead
  <2>4. x(i) \in Nat /\ x(i + 1) \in Nat
    BY <1>1, <2>1
  <2>5. Len(Encode(m)) \in Nat
    BY <2>2, EncodedNumber
  <2> QED BY <1>2, <2>2, <2>3, <2>4, <2>5 DEF m
<1>5. ASSUME i = Len(numbers)
      PROVE  bytes[c] = StopMarker /\ c + 1 = p + Len(NumberList(marker, numbers))
  <2>1. x(i) \in Nat
    BY <1>1
  <2> QED BY <1>1, <1>2, <1>5, <2>1
<1> QED BY <1>3, <1>4, <1>5 DEF x

\* The list of ids that is read
LEMMA MetasHere ==
  ASSUME ListInv, ReaderInv, pc = "metas"
  PROVE  LET f == Reading  ids == SetToSeq(f.metas)  place == MetasAt(Len(seen)) IN
         /\ Len(seen) < Len(files) /\ bytes \in Seq(Nat)
         /\ place \in Nat \ {0} /\ Stands(place, NumberList(MetaListMarker, ids))
         /\ place + Len(NumberList(MetaListMarker, ids)) = PositionsAt(Len(seen))
         /\ ids \in Seq(Int) /\ ids \in Seq(MetaIds) /\ ids # <<>> /\ f.metas # {}
         /\ FirstOf(ids, Len(ids)) = f.metas
         /\ \E i \in 0..Len(ids) :
              WithinList(place, ids, i) /\ ReadSoFar(FirstOf(ids, i), <<>>)
<1> DEFINE f == Reading  ids == SetToSeq(f.metas)  k == Len(seen)
<1>1. k < Len(files) /\ AmongMetas
  BY DEF ReaderInv, PlaceInv
<1>2. /\ f \in Entries /\ bytes \in Seq(Nat)
      /\ MetasAt(k) \in Nat \ {0} /\ Stands(MetasAt(k), MetaList(f))
      /\ PositionsAt(k) = MetasAt(k) + Len(MetaList(f))
  BY <1>1, EntryHere
<1>3. f.metas \in SUBSET MetaIds /\ f.metas # {}
  BY <1>1, <1>2 DEF AmongMetas, Entries
<1>4. MetaList(f) = NumberList(MetaListMarker, ids)
  BY DEF MetaList
<1>5. ids \in Seq(f.metas) /\ ids \in Seq(Int) /\ ids # <<>> /\ FirstOf(ids, Len(ids)) = f.metas
  BY <1>3, MetaIdsListed DEF FirstOf
<1>6. ids \in Seq(MetaIds)
  <2> HIDE DEF f, ids
  <2> QED BY <1>3, <1>5
<1>7. \E i \in 0..Len(ids) :
        WithinList(MetasAt(k), ids, i) /\ ReadSoFar(FirstOf(ids, i), <<>>)
  BY <1>1 DEF AmongMetas
<1> QED BY <1>1, <1>2, <1>3, <1>4, <1>5, <1>6, <1>7

\* The list of positions that is read, or skipped
LEMMA PositionsHere ==
  ASSUME ListInv, ReaderInv, pc \in {"positions", "unknown"}
  PROVE  LET f == Reading  deltas == f.deltas  place == PositionsAt(Len(seen)) IN
         /\ Len(seen) < Len(files) /\ bytes \in Seq(Nat) /\ (pc = "positions" <=> knowsPos)
         /\ place \in Nat \ {0} /\ Stands(place, NumberList(WordPosListMarker, deltas))
         /\ place + Len(NumberList(WordPosListMarker, deltas)) = EndAt(Len(seen))
         /\ deltas \in Seq(Int) /\ deltas # <<>>
         /\ \A i \in 1..Len(deltas) : deltas[i] \in ShortRange
         /\ \E i \in 0..Len(deltas) :
              /\ WithinList(place, deltas, i)
              /\ ReadSoFar(f.metas, IF knowsPos THEN SubSeq(deltas, 1, i) ELSE <<>>)
<1> DEFINE f == Reading  deltas == f.deltas  k == Len(seen)
<1>1. k < Len(files) /\ AmongPositions
  BY DEF ReaderInv, PlaceInv
<1>2. /\ f \in Entries /\ Fits(f, occurs) /\ bytes \in Seq(Nat)
      /\ PositionsAt(k) \in Nat \ {0} /\ Stands(PositionsAt(k), PosList(f))
      /\ EndAt(k) = PositionsAt(k) + Len(PosList(f))
  BY <1>1, EntryHere
<1>3. PosList(f) = NumberList(WordPosListMarker, deltas)
  BY DEF PosList
<1>4. /\ deltas # <<>> /\ (pc = "positions" <=> knowsPos)
      /\ \E i \in 0..Len(deltas) :
           /\ WithinList(PositionsAt(k), deltas, i)
           /\ ReadSoFar(f.metas, IF knowsPos THEN SubSeq(deltas, 1, i) ELSE <<>>)
  BY <1>1 DEF AmongPositions
<1>5. deltas \in Seq(Int) /\ \A i \in 1..Len(deltas) : deltas[i] \in ShortRange
  <2>1. deltas \in Seq(Int)
    BY <1>2 DEF Entries
  <2> QED BY <1>2, <2>1 DEF Fits, ShortDeltas
<1> QED BY <1>1, <1>2, <1>3, <1>4, <1>5

\* One more number of a list is read.
LEMMA ReadNumberStep ==
  ASSUME ListInv, ReaderInv, ReadNumber
  PROVE  ReaderInv'
<1>1. /\ pc' = pc /\ UNCHANGED <<occurs, current, files, bytes, knowsPos, seen>>
      /\ pc \in {"metas", "positions", "unknown"} /\ bytes[c] # StopMarker /\ c' = Past(c)
  BY DEF ReadNumber
<1>2. /\ pc = "metas" => v' = [v EXCEPT !.metas = v.metas \cup {ToShort(Decode(c))}]
      /\ pc = "positions" => v' = [v EXCEPT !.deltas = Append(v.deltas, ToShort(Decode(c)))]
      /\ pc = "unknown" => v' = v
  <2>1. v' = CASE pc = "metas" -> [v EXCEPT !.metas = v.metas \cup {ToShort(Decode(c))}]
               [] pc = "positions" -> [v EXCEPT !.deltas = Append(v.deltas, ToShort(Decode(c)))]
               [] OTHER -> v
    BY DEF ReadNumber
  <2>2. CASE pc = "metas"
    <3>1. pc # "positions" /\ pc # "unknown"
      BY <2>2
    <3> QED BY <2>1, <2>2, <3>1, Zenon
  <2>3. CASE pc = "positions"
    <3>1. pc # "metas" /\ pc # "unknown"
      BY <2>3
    <3> QED BY <2>1, <2>3, <3>1, Zenon
  <2>4. CASE pc = "unknown"
    <3>1. pc # "metas" /\ pc # "positions"
      BY <2>4
    <3> QED BY <2>1, <2>4, <3>1, Zenon
  <2> QED BY <1>1, <2>2, <2>3, <2>4
<1>3. FitInv' /\ WrittenInv' /\ Pieces' = Pieces
  BY <1>1, Unmoved
<1>4. PICK f, metas, positions :
        f = Reading /\ metas = MetasAt(Len(seen)) /\ positions = PositionsAt(Len(seen))
  OBVIOUS
<1>5. MetasAt(Len(seen))' = metas /\ PositionsAt(Len(seen))' = positions /\ Reading' = f
  BY <1>1, <1>3, <1>4, SamePlaces
<1>6. SeenInv'
  BY <1>1 DEF ReaderInv, SeenInv, AsRead
<1>7. CASE pc = "metas"
  <2>1. PICK ids : ids = SetToSeq(f.metas)
    OBVIOUS
  <2>2. /\ Len(seen) < Len(files) /\ bytes \in Seq(Nat) /\ metas \in Nat \ {0}
        /\ Stands(metas, NumberList(MetaListMarker, ids))
        /\ ids \in Seq(Int) /\ ids \in Seq(MetaIds) /\ ids # <<>> /\ f.metas # {}
        /\ \E i \in 0..Len(ids) :
             WithinList(metas, ids, i) /\ ReadSoFar(FirstOf(ids, i), <<>>)
    BY <1>4, <1>7, <2>1, MetasHere
  <2>3. PICK i \in 0..Len(ids) : WithinList(metas, ids, i) /\ ReadSoFar(FirstOf(ids, i), <<>>)
    BY <2>2
  <2>4. MetaListMarker \in Nat
    BY DEF MetaListMarker
  <2>5. /\ i < Len(ids) => Past(c) = metas + 1 + Extent(Encoded(ids), i + 1)
                           /\ Decode(c) = ToLong(ids[i + 1])
        /\ i = Len(ids) => bytes[c] = StopMarker
    BY <2>2, <2>3, <2>4, InList
  <2>6. i < Len(ids) /\ i + 1 \in 0..Len(ids) /\ i + 1 \in 1..Len(ids) /\ i \in Nat
    BY <1>1, <2>2, <2>5
  <2>7. ToShort(Decode(c)) = ids[i + 1]
    <3>1. ids[i + 1] \in MetaIds
      BY <2>2, <2>6
    <3>2. ids[i + 1] \in ShortRange
      <4> DEFINE h == ShortMod \div 2
      <4>1. h \in Nat /\ MetaIds \subseteq 0..(h - 1)
        BY PostingAssumption
      <4>2. ShortRange = -h..(h - 1)
        BY DEF ShortRange
      <4> HIDE DEF h
      <4>3. ids[i + 1] \in 0..(h - 1)
        BY <3>1, <4>1
      <4> QED BY <4>1, <4>2, <4>3
    <3> QED BY <2>5, <2>6, <3>2, ShortThroughLong
  <2>8. FirstOf(ids, i + 1) = FirstOf(ids, i) \cup {ids[i + 1]}
    <3>1. 1..(i + 1) = (1..i) \cup {i + 1}
      BY <2>6
    <3> QED BY <3>1 DEF FirstOf
  <2>9. v = [index |-> f.index, occurrences |-> f.occurrences, rank |-> f.rank,
             metas |-> FirstOf(ids, i), deltas |-> <<>>]
    BY <1>4, <2>3 DEF ReadSoFar
  <2>10. v' = [index |-> f.index, occurrences |-> f.occurrences, rank |-> f.rank,
               metas |-> FirstOf(ids, i + 1), deltas |-> <<>>]
    BY <1>2, <1>7, <2>7, <2>8, <2>9
  <2>11. ReadSoFar(FirstOf(ids, i + 1), <<>>)'
    BY <1>5, <2>10 DEF ReadSoFar
  <2>12. WithinList(MetasAt(Len(seen)), ids, i + 1)'
    BY <1>1, <1>5, <2>5, <2>6 DEF WithinList
  <2>13. AmongMetas'
    BY <1>5, <2>1, <2>2, <2>6, <2>11, <2>12 DEF AmongMetas
  <2>14. PlaceInv'
    BY <1>1, <1>7, <2>2, <2>13 DEF PlaceInv
  <2> QED BY <1>3, <1>6, <2>14 DEF ReaderInv
<1>8. CASE pc \in {"positions", "unknown"}
  <2>1. PICK deltas : deltas = f.deltas
    OBVIOUS
  <2>2. /\ Len(seen) < Len(files) /\ bytes \in Seq(Nat) /\ positions \in Nat \ {0}
        /\ Stands(positions, NumberList(WordPosListMarker, deltas))
        /\ deltas \in Seq(Int) /\ deltas # <<>> /\ (pc = "positions" <=> knowsPos)
        /\ \A i \in 1..Len(deltas) : deltas[i] \in ShortRange
        /\ \E i \in 0..Len(deltas) :
              /\ WithinList(positions, deltas, i)
              /\ ReadSoFar(f.metas, IF knowsPos THEN SubSeq(deltas, 1, i) ELSE <<>>)
    BY <1>4, <1>8, <2>1, PositionsHere
  <2>3. PICK i \in 0..Len(deltas) :
          /\ WithinList(positions, deltas, i)
          /\ ReadSoFar(f.metas, IF knowsPos THEN SubSeq(deltas, 1, i) ELSE <<>>)
    BY <2>2
  <2>4. WordPosListMarker \in Nat
    BY DEF WordPosListMarker
  <2>5. /\ i < Len(deltas) => Past(c) = positions + 1 + Extent(Encoded(deltas), i + 1)
                              /\ Decode(c) = ToLong(deltas[i + 1])
        /\ i = Len(deltas) => bytes[c] = StopMarker
    BY <2>2, <2>3, <2>4, InList
  <2>6. i < Len(deltas) /\ i + 1 \in 0..Len(deltas) /\ i + 1 \in 1..Len(deltas) /\ i \in Nat
    BY <1>1, <2>2, <2>5
  <2>7. ToShort(Decode(c)) = deltas[i + 1]
    BY <2>2, <2>5, <2>6, ShortThroughLong
  <2> DEFINE sofar(n) == IF knowsPos THEN SubSeq(deltas, 1, n) ELSE <<>>
  <2>8. SubSeq(deltas, 1, i + 1) = Append(SubSeq(deltas, 1, i), deltas[i + 1])
    BY <2>2, <2>6
  <2>9. v = [index |-> f.index, occurrences |-> f.occurrences, rank |-> f.rank,
             metas |-> f.metas, deltas |-> sofar(i)]
    BY <1>4, <2>3 DEF ReadSoFar
  <2>10. v' = [index |-> f.index, occurrences |-> f.occurrences, rank |-> f.rank,
               metas |-> f.metas, deltas |-> sofar(i + 1)]
    <3>1. CASE pc = "positions"
      <4>1. knowsPos
        BY <2>2, <3>1
      <4>2. /\ v.deltas = SubSeq(deltas, 1, i)
            /\ sofar(i + 1) = Append(SubSeq(deltas, 1, i), deltas[i + 1])
        BY <2>8, <2>9, <4>1
      <4>3. v' = [v EXCEPT !.deltas = sofar(i + 1)]
        BY <1>2, <2>7, <3>1, <4>2
      <4> HIDE DEF sofar
      <4> QED BY <2>9, <4>3
    <3>2. CASE pc = "unknown"
      <4>1. ~knowsPos /\ v' = v
        BY <1>2, <2>2, <3>2
      <4>2. sofar(i) = <<>> /\ sofar(i + 1) = <<>>
        BY <4>1
      <4> HIDE DEF sofar
      <4> QED BY <2>9, <4>1, <4>2
    <3> QED BY <1>8, <3>1, <3>2
  <2>11. ReadSoFar(Reading.metas, IF knowsPos THEN SubSeq(deltas, 1, i + 1) ELSE <<>>)'
    BY <1>1, <1>5, <2>10 DEF ReadSoFar
  <2>12. WithinList(PositionsAt(Len(seen)), deltas, i + 1)'
    BY <1>1, <1>5, <2>5, <2>6 DEF WithinList
  <2>13. AmongPositions'
    BY <1>1, <1>5, <2>1, <2>2, <2>6, <2>11, <2>12 DEF AmongPositions
  <2>14. PlaceInv'
    BY <1>1, <1>8, <2>2, <2>13 DEF PlaceInv
  <2> QED BY <1>3, <1>6, <2>14 DEF ReaderInv
<1> QED BY <1>1, <1>7, <1>8

\* A list is read to its end.
LEMMA EndListStep ==
  ASSUME ListInv, ReaderInv, EndList
  PROVE  ReaderInv'
<1>1. /\ pc' = "marker" /\ UNCHANGED <<occurs, current, files, bytes, knowsPos, v, seen>>
      /\ pc \in {"metas", "positions", "unknown"} /\ bytes[c] = StopMarker /\ c' = c + 1
  BY DEF EndList
<1>2. FitInv' /\ WrittenInv' /\ Pieces' = Pieces
  BY <1>1, Unmoved
<1>3. PICK f, metas, positions, end :
        /\ f = Reading /\ metas = MetasAt(Len(seen)) /\ positions = PositionsAt(Len(seen))
        /\ end = EndAt(Len(seen))
  OBVIOUS
<1>4. PositionsAt(Len(seen))' = positions /\ EndAt(Len(seen))' = end /\ Reading' = f
  BY <1>1, <1>2, <1>3, SamePlaces
<1>5. SeenInv'
  BY <1>1 DEF ReaderInv, SeenInv, AsRead
<1>6. CASE pc = "metas"
  <2>1. PICK ids : ids = SetToSeq(f.metas)
    OBVIOUS
  <2>2. /\ Len(seen) < Len(files) /\ bytes \in Seq(Nat) /\ metas \in Nat \ {0}
        /\ Stands(metas, NumberList(MetaListMarker, ids))
        /\ metas + Len(NumberList(MetaListMarker, ids)) = positions
        /\ ids \in Seq(Int) /\ ids # <<>>
        /\ FirstOf(ids, Len(ids)) = f.metas
        /\ \E i \in 0..Len(ids) :
             WithinList(metas, ids, i) /\ ReadSoFar(FirstOf(ids, i), <<>>)
    BY <1>3, <1>6, <2>1, MetasHere
  <2>3. PICK i \in 0..Len(ids) : WithinList(metas, ids, i) /\ ReadSoFar(FirstOf(ids, i), <<>>)
    BY <2>2
  <2>4. MetaListMarker \in Nat
    BY DEF MetaListMarker
  <2>5. /\ i < Len(ids) => bytes[c] # StopMarker
        /\ i = Len(ids) => c + 1 = metas + Len(NumberList(MetaListMarker, ids))
    BY <2>2, <2>3, <2>4, InList
  <2>6. i = Len(ids)
    BY <1>1, <2>2, <2>5
  <2>7. c' = positions
    BY <1>1, <2>2, <2>5, <2>6
  <2>8. v = [index |-> f.index, occurrences |-> f.occurrences, rank |-> f.rank,
             metas |-> f.metas, deltas |-> <<>>]
    BY <1>3, <2>2, <2>3, <2>6 DEF ReadSoFar
  <2>9. ReadSoFar(Reading.metas, <<>>)'
    BY <1>1, <1>4, <2>8 DEF ReadSoFar
  <2>10. BeforeMarker'
    BY <1>4, <2>7, <2>9 DEF BeforeMarker
  <2>11. PlaceInv'
    BY <1>1, <2>2, <2>10 DEF PlaceInv
  <2> QED BY <1>2, <1>5, <2>11 DEF ReaderInv
<1>7. CASE pc \in {"positions", "unknown"}
  <2>1. PICK deltas : deltas = f.deltas
    OBVIOUS
  <2>2. /\ Len(seen) < Len(files) /\ bytes \in Seq(Nat) /\ positions \in Nat \ {0}
        /\ Stands(positions, NumberList(WordPosListMarker, deltas))
        /\ positions + Len(NumberList(WordPosListMarker, deltas)) = end
        /\ deltas \in Seq(Int) /\ deltas # <<>>
        /\ \E i \in 0..Len(deltas) :
              /\ WithinList(positions, deltas, i)
              /\ ReadSoFar(f.metas, IF knowsPos THEN SubSeq(deltas, 1, i) ELSE <<>>)
    BY <1>3, <1>7, <2>1, PositionsHere
  <2>3. PICK i \in 0..Len(deltas) :
          /\ WithinList(positions, deltas, i)
          /\ ReadSoFar(f.metas, IF knowsPos THEN SubSeq(deltas, 1, i) ELSE <<>>)
    BY <2>2
  <2>4. WordPosListMarker \in Nat
    BY DEF WordPosListMarker
  <2>5. /\ i < Len(deltas) => bytes[c] # StopMarker
        /\ i = Len(deltas) => c + 1 = positions + Len(NumberList(WordPosListMarker, deltas))
    BY <2>2, <2>3, <2>4, InList
  <2>6. i = Len(deltas)
    BY <1>1, <2>2, <2>5
  <2>7. c' = end
    BY <1>1, <2>2, <2>5, <2>6
  <2>8. SubSeq(deltas, 1, i) = deltas
    BY <2>2, <2>6
  <2>9. ReadSoFar(f.metas, IF knowsPos THEN deltas ELSE <<>>)
    BY <2>3, <2>8
  <2>10. v = [index |-> f.index, occurrences |-> f.occurrences, rank |-> f.rank,
              metas |-> f.metas, deltas |-> IF knowsPos THEN deltas ELSE <<>>]
    BY <1>3, <2>9 DEF ReadSoFar
  <2>11. ReadSoFar(Reading.metas, IF knowsPos THEN Reading.deltas ELSE <<>>)'
    BY <1>1, <1>4, <2>1, <2>10 DEF ReadSoFar
  <2>12. BeforeMarker'
    BY <1>4, <2>7, <2>11 DEF BeforeMarker
  <2>13. PlaceInv'
    BY <1>1, <2>2, <2>12 DEF PlaceInv
  <2> QED BY <1>2, <1>5, <2>13 DEF ReaderInv
<1> QED BY <1>1, <1>6, <1>7

\* A new list is at its first entry.
LEMMA AtFirst ==
  ASSUME pc' = "next", c' = 1, seen' = <<>>, files' # <<>>, files' \in Seq(Entries)
  PROVE  PlaceInv'
<1>1. Len(seen') = 0 /\ Len(files') > 0
  BY DEF Entries
<1>2. EntryAt(Len(seen))' = 1
  <2>1. Extent(Pieces', 0) = 0
    BY NoExtent
  <2> QED BY <1>1, <2>1 DEF EntryAt
<1>3. c' # EndValue
  BY DEF EndValue
<1> QED BY <1>1, <1>2, <1>3 DEF PlaceInv

\* With a rank that fits, entries fit.
LEMMA RankFits ==
  ASSUME ListInv, FitInv, NEW r \in Nat, r < LongMod, files' = WithRank(files, r),
         UNCHANGED <<occurs, current>>
  PROVE  FitInv'
<1>1. files \in Seq(Entries) /\ DOMAIN files = 1..Len(files) /\ Len(files) \in Nat
  BY DEF ListInv, ListOK
<1>2. \A i \in DOMAIN files : files[i] \in Entries /\ Fits(files[i], occurs)
  BY <1>1 DEF FitInv
<1>3. ASSUME NEW f \in Entries, Fits(f, occurs) PROVE Fits([f EXCEPT !.rank = r], occurs)
  <2> DEFINE g == [f EXCEPT !.rank = r]
  <2>1. g.index = f.index /\ g.occurrences = f.occurrences /\ g.rank = r /\ g.deltas = f.deltas
    BY DEF Entries
  <2> HIDE DEF g
  <2>2. Fits(g, occurs)
    BY <1>3, <2>1 DEF Fits, ShortDeltas
  <2> QED BY <2>2 DEF g
<1>4. /\ DOMAIN files' = DOMAIN files
      /\ \A i \in DOMAIN files : files'[i] = [files[i] EXCEPT !.rank = r]
  BY <1>1 DEF WithRank
<1>5. \A i \in DOMAIN files' : Fits(files'[i], occurs)
  BY <1>2, <1>3, <1>4
<1> QED BY <1>5 DEF FitInv

\* The list is written.
LEMMA WriteStep ==
  ASSUME ListInv, ReaderInv, Write
  PROVE  ReaderInv'
<1>1. /\ pc = "indexing" /\ files # <<>> /\ pc' = "next" /\ c' = 1
      /\ UNCHANGED <<occurs, current, knowsPos, seen>>
  BY DEF Write
<1>2. PICK r \in Ranks \cup {0} :
        files' = WithRank(files, r) /\ bytes' = ListBytes(WithRank(files, r))
  BY DEF Write
<1>3. r \in Nat /\ r < LongMod
  BY PostingAssumption
<1>4. ListInv'
  BY <1>2, <1>3, RankedList DEF Write
<1>5. FitInv'
  BY <1>1, <1>2, <1>3, RankFits DEF ReaderInv
<1>6. files' # <<>> /\ files' \in Seq(Entries)
  <2>1. files' \in Seq(Entries)
    BY <1>4 DEF ListInv, ListOK
  <2>2. files \in Seq(Entries) /\ Len(files) # 0
    BY <1>1 DEF ListInv, ListOK
  <2>3. 1 \in DOMAIN files /\ DOMAIN files' = DOMAIN files
    BY <1>2, <2>2 DEF WithRank
  <2> QED BY <2>1, <2>3
<1>7. WrittenInv'
  BY <1>2, <1>6 DEF WrittenInv
<1>8. seen = <<>>
  BY <1>1 DEF ReaderInv, PlaceInv
<1>9. PlaceInv'
  BY <1>1, <1>6, <1>8, AtFirst
<1>10. SeenInv'
  BY <1>1, <1>8 DEF ReaderInv, SeenInv
<1> QED BY <1>5, <1>7, <1>9, <1>10 DEF ReaderInv

\* What a merge reads is all that was written, and it writes that.
LEMMA MergeStep ==
  ASSUME ListInv, ReaderInv, Merge
  PROVE  ReaderInv'
<1>1. /\ pc = "read" /\ pc' = "next" /\ c' = 1 /\ seen' = <<>> /\ knowsPos
      /\ knowsPos' \in Readers /\ UNCHANGED <<occurs, current, wordPos>>
  BY DEF Merge
<1>2. PICK r \in Ranks : files' = WithRank(files, r) /\ bytes' = ListBytes(WithRank(seen, r))
  BY DEF Merge
<1>3. r \in Nat /\ r < LongMod
  BY PostingAssumption
<1>4. ListInv'
  BY <1>1, <1>2, <1>3, RankedList
<1>5. FitInv'
  BY <1>1, <1>2, <1>3, RankFits DEF ReaderInv
<1>6. files \in Seq(Entries) /\ files # <<>>
  BY <1>1 DEF ListInv, ListOK, ReaderInv, WrittenInv
<1>7. seen = files
  <2>1. seen \in Seq(Entries) /\ Len(seen) = Len(files)
        /\ \A i \in DOMAIN seen : seen[i] = AsRead(files[i])
    BY <1>1 DEF ReaderInv, SeenInv, PlaceInv
  <2>2. \A i \in DOMAIN seen : seen[i] = files[i]
    BY <1>1, <2>1 DEF AsRead
  <2> QED BY <1>6, <2>1, <2>2
<1>8. files' # <<>> /\ files' \in Seq(Entries)
  <2>1. files' \in Seq(Entries)
    BY <1>4 DEF ListInv, ListOK
  <2>2. 1 \in DOMAIN files /\ DOMAIN files' = DOMAIN files
    BY <1>2, <1>6 DEF WithRank
  <2> QED BY <2>1, <2>2
<1>9. WrittenInv'
  BY <1>2, <1>7, <1>8 DEF WrittenInv
<1>10. PlaceInv'
  BY <1>1, <1>8, AtFirst
<1>11. SeenInv'
  <2>1. knowsPos' \in BOOLEAN
    BY <1>1, PostingAssumption
  <2> QED BY <1>1, <2>1 DEF SeenInv
<1> QED BY <1>5, <1>9, <1>10, <1>11 DEF ReaderInv

\* While files are indexed, nothing is read.
LEMMA NothingRead ==
  ASSUME ReaderInv, FitInv', pc = "indexing", UNCHANGED <<pc, readerVars>>
  PROVE  ReaderInv'
<1>1. pc' = "indexing" /\ seen = <<>> /\ seen' = <<>> /\ knowsPos' = knowsPos
  BY DEF readerVars, ReaderInv, PlaceInv
<1>2. WrittenInv'
  BY <1>1 DEF WrittenInv
<1>3. PlaceInv'
  BY <1>1 DEF PlaceInv
<1>4. SeenInv'
  BY <1>1 DEF ReaderInv, SeenInv
<1> QED BY <1>2, <1>3, <1>4 DEF ReaderInv

\* The iterator has reached the end.
LEMMA ReachEndStep ==
  ASSUME ListInv, ReaderInv, ReachEnd
  PROVE  ReaderInv'
<1>1. /\ pc = "next" /\ c = EndValue /\ pc' = "read"
      /\ UNCHANGED <<occurs, current, files, bytes, knowsPos, seen>>
  BY DEF ReachEnd
<1>2. FitInv' /\ WrittenInv'
  BY <1>1, Unmoved
<1>3. PlaceInv'
  BY <1>1 DEF ReaderInv, PlaceInv
<1>4. SeenInv'
  BY <1>1 DEF ReaderInv, SeenInv, AsRead
<1> QED BY <1>2, <1>3, <1>4 DEF ReaderInv

\* A reader is at its place at first ...
LEMMA ReaderInit == Init => ReaderInv
<1> SUFFICES ASSUME Init PROVE ReaderInv
  OBVIOUS
<1>1. /\ occurs = <<>> /\ current = 0 /\ files = <<>> /\ pc = "indexing" /\ knowsPos \in Readers
      /\ seen = <<>>
  BY DEF Init
<1>2. FitInv
  BY <1>1, PostingAssumption DEF FitInv
<1>3. WrittenInv /\ PlaceInv
  BY <1>1 DEF WrittenInv, PlaceInv
<1>4. SeenInv
  BY <1>1, PostingAssumption DEF SeenInv
<1> QED BY <1>2, <1>3, <1>4 DEF ReaderInv

\* ... and after every step.
LEMMA ReaderStep == ListInv /\ ReaderInv /\ [Next]_vars => ReaderInv'
<1> SUFFICES ASSUME ListInv, ReaderInv, [Next]_vars PROVE ReaderInv'
  OBVIOUS
<1>1. CASE IndexWord
  <2>1. FitInv'
    BY <1>1, CountedStep DEF ReaderInv
  <2> QED BY <1>1, <2>1, NothingRead DEF IndexWord
<1>2. CASE NextFile
  <2>1. FitInv'
    BY <1>2 DEF NextFile, ReaderInv, FitInv
  <2> QED BY <1>2, <2>1, NothingRead DEF NextFile
<1>3. CASE Write
  BY <1>3, WriteStep
<1>4. CASE ReachEnd
  BY <1>4, ReachEndStep
<1>5. CASE ReadNumbers
  BY <1>5, ReadNumbersStep
<1>6. CASE EndEntry
  BY <1>6, EndEntryStep
<1>7. CASE BeginList
  BY <1>7, BeginListStep
<1>8. CASE ReadNumber
  BY <1>8, ReadNumberStep
<1>9. CASE EndList
  BY <1>9, EndListStep
<1>10. CASE Merge
  BY <1>10, MergeStep
<1>11. CASE UNCHANGED vars
  <2>1. UNCHANGED <<occurs, current, wordPos, files, bytes, pc, knowsPos, c, v, seen, merged>>
    BY <1>11 DEF vars
  <2>2. FitInv' /\ WrittenInv' /\ SeenInv'
    BY <2>1 DEF ReaderInv, FitInv, WrittenInv, SeenInv, AsRead
  <2>3. Pieces' = Pieces
    BY <2>1 DEF Pieces
  <2>4. /\ EntryAt(Len(seen))' = EntryAt(Len(seen)) /\ MetasAt(Len(seen))' = MetasAt(Len(seen))
        /\ PositionsAt(Len(seen))' = PositionsAt(Len(seen))
        /\ EndAt(Len(seen))' = EndAt(Len(seen)) /\ Reading' = Reading
    BY <2>1, <2>3, SamePlaces
  <2>5. (BeforeMarker' <=> BeforeMarker) /\ (AmongMetas' <=> AmongMetas)
        /\ (AmongPositions' <=> AmongPositions)
    BY <2>1, <2>4 DEF BeforeMarker, AmongMetas, AmongPositions, ReadSoFar, WithinList
  <2>6. PlaceInv'
    BY <2>1, <2>4, <2>5 DEF ReaderInv, PlaceInv
  <2> QED BY <2>2, <2>6 DEF ReaderInv
<1>12. CASE Finished
  BY <1>11, <1>12 DEF Finished
<1> QED
  BY <1>1, <1>2, <1>3, <1>4, <1>5, <1>6, <1>7, <1>8, <1>9, <1>10, <1>11, <1>12 DEF Next

\* For any numbers, ids and lists, in any widths that hold them: what an iterator
\* has yielded are the first of the entries that were written, and at the end all.
THEOREM EntriesReadBack == Spec => []ReadsWhatWasWritten
<1>1. ReaderInv => ReadsWhatWasWritten
  BY DEF ReaderInv, SeenInv, PlaceInv, ReadsWhatWasWritten
<1> QED BY <1>1, ListInit, ListStep, ReaderInit, ReaderStep, PTL DEF Spec

\* For any entries, and all widths of numbers: size(), which decodes none of them
\* (file_list.cpp:36-72), is the number of entries an iterator has yielded.
THEOREM SizeCounts == Spec => []SizeIsNumberOfEntries
<1>1. ListInv /\ ReaderInv => SizeIsNumberOfEntries
  <2> SUFFICES ASSUME ListInv, ReaderInv, pc = "read" PROVE CalcSize = Len(seen)
    BY DEF SizeIsNumberOfEntries
  <2>1. files \in Seq(Entries) /\ files # <<>> /\ bytes = ListBytes(files)
    BY DEF ListInv, ListOK, ReaderInv, WrittenInv
  <2>2. Len(seen) = Len(files)
    BY DEF ReaderInv, PlaceInv
  <2> QED BY <2>1, <2>2, ListSized
<1> QED BY <1>1, ListInit, ListStep, ReaderInit, ReaderStep, PTL DEF Spec

\* Positions as they are added up
IsSum(f, d) == f = [i \in 0..Len(d) |-> IF i = 0 THEN 0 ELSE f[i - 1] + d[i]]

\* The recursive definition of a sum defines it.
LEMMA SumExists ==
  ASSUME NEW d \in Seq(Int)
  PROVE  \E f : IsSum(f, d)
<1> DEFINE B == {i \in Nat : i = 0 \/ i > Len(d)}
           base == [i \in Nat |-> 0]
           step == [i \in Nat |-> [x \in Int |-> IF i \in B THEN 0 ELSE x + d[i]]]
           back == [i \in Nat |-> IF i = 0 THEN 0 ELSE i - 1]
<1>1. Len(d) \in Nat
  OBVIOUS
<1>2. B \in SUBSET Nat /\ base \in [Nat -> Int] /\ back \in [Nat -> Nat]
  OBVIOUS
<1>3. \A i \in Nat \ B : i \in 1..Len(d) /\ d[i] \in Int /\ back[i] = i - 1 /\ back[i] < i
  BY <1>1
<1>4. step \in [Nat -> [Int -> Int]]
  <2>1. ASSUME NEW i \in Nat, NEW x \in Int PROVE (IF i \in B THEN 0 ELSE x + d[i]) \in Int
    BY <1>3
  <2> HIDE DEF B
  <2> QED BY <2>1
<1>5. \A i \in Nat \ B : back[i] < i
  BY <1>3
<1> HIDE DEF base, step, back
<1>6. PICK g \in [Nat -> Int] : IsRecursive(g, B, base, step, back)
  <2> HIDE DEF B
  <2> QED BY <1>2, <1>4, <1>5, Recursion
<1> DEFINE f == [i \in 0..Len(d) |-> g[i]]
<1>7. \A i \in 0..Len(d) : f[i] = IF i = 0 THEN 0 ELSE f[i - 1] + d[i]
  <2> TAKE i \in 0..Len(d)
  <2>1. i \in Nat /\ f[i] = g[i]
    BY <1>1
  <2>2. CASE i = 0
    BY <1>6, <2>1, <2>2 DEF IsRecursive, base
  <2>3. CASE i # 0
    <3>1. i \notin B /\ i - 1 \in Nat /\ i - 1 \in 0..Len(d)
      BY <1>1, <2>1, <2>3
    <3>2. g[i] = step[i][g[i - 1]] /\ g[i - 1] \in Int
      BY <1>3, <1>6, <2>1, <3>1 DEF IsRecursive
    <3>3. f[i - 1] = g[i - 1]
      BY <3>1
    <3> HIDE DEF B, f
    <3> QED BY <2>1, <2>3, <3>1, <3>2, <3>3 DEF step
  <2> QED BY <2>2, <2>3
<1>8. DOMAIN f = 0..Len(d) /\ f = [i \in DOMAIN f |-> f[i]]
  OBVIOUS
<1> HIDE DEF f
<1>9. IsSum(f, d)
  BY <1>7, <1>8, Zenon DEF IsSum
<1> QED BY <1>9

\* The first two positions that near_node adds up
LEMMA PositionsAdded ==
  ASSUME NEW f, f.deltas \in Seq(Int)
  PROVE  /\ 1 \in DOMAIN f.deltas => PositionsIn(f)[1] = f.deltas[1]
         /\ 2 \in DOMAIN f.deltas => PositionsIn(f)[2] = f.deltas[1] + f.deltas[2]
<1> DEFINE d == f.deltas  sum == CHOOSE g : IsSum(g, d)
<1>1. IsSum(sum, d)
  BY SumExists, Zenon
<1>2. PositionsIn(f) = [i \in DOMAIN d |-> sum[i]]
  BY Zenon DEF PositionsIn, IsSum
<1>3. d \in Seq(Int) /\ DOMAIN d = 1..Len(d) /\ Len(d) \in Nat
  OBVIOUS
<1> HIDE DEF sum, d
<1>4. \A i \in 0..Len(d) : sum[i] = IF i = 0 THEN 0 ELSE sum[i - 1] + d[i]
  BY <1>1, Zenon DEF IsSum
<1>5. ASSUME 1 \in DOMAIN d PROVE sum[1] = d[1] /\ d[1] \in Int
  <2>1. 0 \in 0..Len(d) /\ 1 \in 0..Len(d) /\ 1 - 1 = 0 /\ d[1] \in Int
    BY <1>3, <1>5
  <2>2. sum[0] = 0 /\ sum[1] = sum[0] + d[1]
    BY <1>4, <2>1
  <2> QED BY <2>1, <2>2
<1>6. ASSUME 2 \in DOMAIN d PROVE sum[2] = d[1] + d[2]
  <2>1. 1 \in DOMAIN d /\ 2 \in 0..Len(d) /\ 2 - 1 = 1 /\ d[2] \in Int
    BY <1>3, <1>6
  <2>2. sum[2] = sum[1] + d[2]
    BY <1>4, <2>1
  <2> QED BY <1>5, <2>1, <2>2
<1> QED BY <1>2, <1>5, <1>6 DEF d

\* Where the i-th occurrence in a file is, when they are one after another
LEMMA OccurrencesFrom ==
  ASSUME NEW index, NEW k \in Nat, NEW n \in Nat, In(occurs, index) = k..(k + n - 1),
         NEW i \in 1..n
  PROVE  TruePositions(index)[i] = occurs[k + i - 1].pos
<1> DEFINE In_ == In(occurs, index)  upTo(j) == {x \in In_ : x <= j}
<1>1. In_ = k..(k + n - 1) /\ k + n - 1 \in Int
  OBVIOUS
<1>2. Cardinality(In_) = n
  <2>1. Cardinality(k..(k + n - 1)) = IF k > k + n - 1 THEN 0 ELSE (k + n - 1) - k + 1
    BY <1>1, FS_Interval
  <2>2. (IF k > k + n - 1 THEN 0 ELSE (k + n - 1) - k + 1) = n
    OBVIOUS
  <2> QED BY <2>1, <2>2
<1>3. ASSUME NEW j \in In_ PROVE Cardinality(upTo(j)) = j - k + 1
  <2>1. j \in Int /\ k <= j /\ upTo(j) = k..j
    BY <1>1
  <2>2. Cardinality(k..j) = IF k > j THEN 0 ELSE j - k + 1
    BY <2>1, FS_Interval
  <2>3. ~(k > j)
    BY <2>1
  <2> HIDE DEF upTo
  <2> QED BY <2>1, <2>2, <2>3, Zenon
<1> DEFINE m == k + i - 1
<1>4. /\ m \in In_ /\ m - k + 1 = i
      /\ \A j \in In_ : j - k + 1 = i => j = m
  BY <1>1
<1>5. OccurrenceIn(index, i) = CHOOSE j \in In_ : Cardinality(upTo(j)) = i
  BY DEF OccurrenceIn
<1> HIDE DEF In_, upTo, m
<1>6. OccurrenceIn(index, i) = m
  BY <1>3, <1>4, <1>5
<1>7. TruePositions(index)[i] = occurs[OccurrenceIn(index, i)].pos
  BY <1>2 DEF TruePositions, In_
<1> QED BY <1>6, <1>7 DEF m

\* For any occurrences, and all widths of numbers: what is read back of the first
\* two positions in a file, also after a merge, are those positions, but for what
\* a short does not hold (word_info.h:98-111, query_node.cpp:249-290).
THEOREM FirstTwoReadBack == Spec => []FirstPositionsReadBack
<1>1. Init => FirstInv
  BY DEF Init, FirstInv
<1>2. ListInv /\ ReaderInv /\ FirstInv => FirstPositionsReadBack
  <2> SUFFICES ASSUME ListInv, ReaderInv, FirstInv, NEW a \in DOMAIN seen, knowsPos,
                      NEW i \in DOMAIN seen[a].deltas, i <= 2
               PROVE  (PositionsIn(seen[a])[i] - TruePositions(seen[a].index)[i]) % ShortMod = 0
    BY DEF FirstPositionsReadBack
  <2> DEFINE f == files[a]  d == f.deltas
  <2>1. seen \in Seq(Entries) /\ a <= Len(files) /\ seen[a] = f
    BY DEF ReaderInv, SeenInv, AsRead
  <2>2. files \in Seq(Entries) /\ occurs \in Seq(Occurrence)
    BY DEF ListInv, ListOK
  <2>3. a \in DOMAIN files /\ f \in Entries
    BY <2>1, <2>2
  <2>4. d \in Seq(Int) /\ DOMAIN d = 1..Len(d) /\ Len(d) \in Nat
    BY <2>3 DEF Entries
  <2>5. PICK k \in DOMAIN occurs : BeginsAt(f, occurs, k)
    BY <2>3 DEF FirstInv
  <2>6. /\ In(occurs, f.index) = k..(k + Len(d) - 1) /\ d[1] = ToShort(occurs[k].pos)
        /\ Len(d) > 1 => d[2] = ToShort(occurs[k + 1].pos - d[1])
    BY <2>5 DEF BeginsAt
  <2> HIDE DEF f, d
  <2>7. i \in 1..Len(d) /\ k \in Nat /\ i \in {1, 2}
    BY <2>1, <2>2, <2>4 DEF d
  <2>8. TruePositions(f.index)[i] = occurs[k + i - 1].pos
    BY <2>4, <2>6, <2>7, OccurrencesFrom
  <2>9. PositionsIn(f)[i] = IF i = 1 THEN d[1] ELSE d[1] + d[2]
    BY <2>4, <2>7, PositionsAdded DEF d
  <2>10. k + i - 1 \in DOMAIN occurs
    <3>1. k + i - 1 \in In(occurs, f.index)
      BY <2>4, <2>6, <2>7
    <3> QED BY <3>1 DEF In
  <2>11. occurs[k + i - 1].pos \in Int /\ d[1] \in Int
    <3>1. occurs[k + i - 1] \in Occurrence
      BY <2>2, <2>10
    <3> QED BY <2>4, <2>7, <3>1 DEF Occurrence
  <2>12. CASE i = 1
    <3> DEFINE x == occurs[k].pos
    <3>1. k + i - 1 = k
      BY <2>7, <2>12
    <3>2. x \in Int /\ PositionsIn(f)[i] = ToShort(x) /\ TruePositions(f.index)[i] = x
      BY <2>6, <2>8, <2>9, <2>11, <2>12, <3>1
    <3>3. (ToShort(x) - x) % ShortMod = 0
      BY <3>2, ShortDiffers
    <3> QED BY <2>1, <3>2, <3>3
  <2>13. CASE i = 2
    <3> DEFINE x == occurs[k + 1].pos  y == x - d[1]
    <3>1. k + i - 1 = k + 1 /\ Len(d) > 1
      BY <2>4, <2>7, <2>13
    <3>2. x \in Int /\ TruePositions(f.index)[i] = x /\ d[2] = ToShort(y)
      BY <2>6, <2>8, <2>11, <3>1
    <3>3. PositionsIn(f)[i] = d[1] + ToShort(y)
      BY <2>9, <2>13, <3>2
    <3>4. y \in Int /\ (ToShort(y) - y) % ShortMod = 0 /\ ToShort(y) \in Int
      BY <2>11, <3>2, ShortDiffers, ShortType
    <3> HIDE DEF x
    <3>5. (d[1] + ToShort(y)) - x = ToShort(y) - y
      BY <2>11, <3>2, <3>4
    <3> QED BY <2>1, <3>2, <3>3, <3>4, <3>5
  <2> QED BY <2>7, <2>12, <2>13
<1> QED
  BY <1>1, <1>2, ListInit, ListStep, ReaderInit, ReaderStep, FirstStep, PTL DEF Spec
=============================================================================
