-------------------------- MODULE IndexBuildProofs --------------------------
(***************************************************************************)
(* Proofs about the building of an index, for any words, documents, walks  *)
(* and numbers of partial indices: the types, the order of the words, the  *)
(* agreement of the two phases of the merge, and that no file is indexed   *)
(* twice; and that building an index implements what an index is           *)
(* (IndexStore), as long as no more than two partial indices are merged:   *)
(* with three, TLC finds that it does not.                                 *)
(***************************************************************************)
EXTENDS IndexBuildProps, ListLemmas

-----------------------------------------------------------------------------
(* No file is indexed twice, by any number of runs over any number of      *)
(* files, if every name comes with a directory and the first walk comes to *)
(* each file once.  Without the first condition TLC finds that it is.      *)

WithDirectory == \A r \in DOMAIN Walks : \A k \in DOMAIN Walks[r] : ~Walks[r][k].bare
FirstWalkOnce == IsInjective(Walks[1])

\* The lists of files and names and, in the first run, which does not look at the
\* names it has seen, that those still to come are new.
FilesInv ==
  /\ run \in DOMAIN Walks
  /\ todo \in Seq(Names) /\ \A k \in DOMAIN todo : ~todo[k].bare
  /\ files \in Seq(Docs) /\ IsInjective(files)
  /\ disk.files \in Seq(Docs) /\ IsInjective(disk.files)
  /\ seen = {Reloaded(files[k]) : k \in DOMAIN files}
  /\ run = 1 => /\ IsInjective(todo)
                /\ \A k \in DOMAIN todo : todo[k] \notin seen

\* A sequence stays free of repetitions when something new is appended.
LEMMA NewElementAppended ==
  ASSUME NEW S, NEW s \in Seq(S), NEW e \in S, IsInjective(s),
         \A k \in DOMAIN s : s[k] # e
  PROVE  IsInjective(Append(s, e))
<1>1. /\ Append(s, e) \in Seq(S)
      /\ DOMAIN Append(s, e) = 1..Len(s) + 1
      /\ \A k \in 1..Len(s) : Append(s, e)[k] = s[k]
      /\ Append(s, e)[Len(s) + 1] = e
      /\ DOMAIN s = 1..Len(s) /\ Len(s) \in Nat
  OBVIOUS
<1>2. ASSUME NEW a \in DOMAIN Append(s, e), NEW b \in DOMAIN Append(s, e),
             Append(s, e)[a] = Append(s, e)[b]
      PROVE  a = b
  <2>1. CASE a \in 1..Len(s) /\ b \in 1..Len(s)
    BY <1>1, <1>2, <2>1 DEF IsInjective
  <2>2. CASE a = Len(s) + 1 /\ b = Len(s) + 1
    BY <2>2
  <2>3. CASE a \in 1..Len(s) /\ b = Len(s) + 1
    BY <1>1, <1>2, <2>3
  <2>4. CASE a = Len(s) + 1 /\ b \in 1..Len(s)
    BY <1>1, <1>2, <2>4
  <2>5. QED
    BY <1>1, <2>1, <2>2, <2>3, <2>4
<1>3. QED
  BY <1>1, <1>2 DEF IsInjective

\* The rest of a sequence.
LEMMA TailFacts ==
  ASSUME NEW S, NEW s \in Seq(S), s # <<>>
  PROVE  /\ Head(s) \in S /\ Head(s) = s[1] /\ 1 \in DOMAIN s
         /\ Tail(s) \in Seq(S)
         /\ \A k \in DOMAIN Tail(s) : k + 1 \in DOMAIN s /\ Tail(s)[k] = s[k + 1]
         /\ \A k \in DOMAIN Tail(s) : k + 1 # 1
  OBVIOUS

\* ... stays free of repetitions, and has no more of its head.
LEMMA TailInjective ==
  ASSUME NEW S, NEW s \in Seq(S), s # <<>>, IsInjective(s)
  PROVE  /\ IsInjective(Tail(s))
         /\ \A k \in DOMAIN Tail(s) : Tail(s)[k] # Head(s)
<1>1. /\ Head(s) = s[1] /\ 1 \in DOMAIN s
      /\ \A k \in DOMAIN Tail(s) :
           k \in Nat /\ k + 1 \in DOMAIN s /\ k + 1 # 1 /\ Tail(s)[k] = s[k + 1]
  OBVIOUS
<1>2. \A k \in DOMAIN Tail(s) : Tail(s)[k] # Head(s)
  BY <1>1 DEF IsInjective
<1>3. ASSUME NEW a \in DOMAIN Tail(s), NEW b \in DOMAIN Tail(s),
             Tail(s)[a] = Tail(s)[b]
      PROVE  a = b
  <2>1. a + 1 = b + 1
    BY <1>1, <1>3 DEF IsInjective
  <2>2. QED
    BY <1>1, <2>1
<1>4. QED
  BY <1>2, <1>3 DEF IsInjective

\* FilesInv holds at first.
LEMMA FilesInit ==
  ASSUME WithDirectory, FirstWalkOnce, Init
  PROVE  FilesInv
<1>1. 1 \in DOMAIN Walks /\ Walks[1] \in Seq(Names)
  BY WalksAssumption
<1>2. /\ <<>> \in Seq(Docs) /\ IsInjective(<<>>)
      /\ DOMAIN <<>> = {}
  BY DEF IsInjective
<1>3. disk.files = <<>>
  BY DEF Init, NoIndex
<1>4. QED
  BY <1>1, <1>2, <1>3 DEF Init, FilesInv, WithDirectory, FirstWalkOnce

\* Every step keeps FilesInv.
LEMMA FilesStep ==
  ASSUME WithDirectory, FilesInv, [Next]_vars
  PROVE  FilesInv'
<1> USE DEF FilesInv
<1>1. CASE SkipSeen
  <2>1. run # 1
    BY <1>1 DEF SkipSeen, IsKnown, Incremental
  <2>2. /\ Tail(todo) \in Seq(Names)
        /\ \A k \in DOMAIN Tail(todo) : ~Tail(todo)[k].bare
    BY <1>1, TailFacts DEF SkipSeen
  <2>3. QED
    BY <1>1, <2>1, <2>2 DEF SkipSeen
<1>2. CASE DoFile
  <2> DEFINE name == Head(todo)
  <2>1. /\ todo # <<>> /\ todo' = Tail(todo) /\ ~IsKnown(name)
        /\ files' = Append(files, name.doc)
        /\ seen' = seen \cup {name}
        /\ run' = run /\ disk' = disk
    BY <1>2 DEF DoFile
  <2>2. /\ name \in Names /\ ~name.bare
        /\ name = todo[1] /\ 1 \in DOMAIN todo
        /\ Tail(todo) \in Seq(Names)
        /\ \A k \in DOMAIN Tail(todo) : ~Tail(todo)[k].bare
    BY <2>1, TailFacts
  <2>3. name = Reloaded(name.doc) /\ name.doc \in Docs
    BY <2>2 DEF Reloaded, Names
  <2>4. name \notin seen
    <3>1. CASE run = 1
      BY <2>2, <3>1
    <3>2. CASE run # 1
      BY <2>1, <3>2, WalksAssumption DEF IsKnown, Incremental
    <3>3. QED
      BY <3>1, <3>2
  <2>5. \A k \in DOMAIN files : files[k] # name.doc
    BY <2>3, <2>4
  <2>6. files' \in Seq(Docs) /\ IsInjective(files')
    <3>1. files \in Seq(Docs) /\ IsInjective(files) /\ name.doc \in Docs
      BY <2>3
    <3>2. IsInjective(Append(files, name.doc))
      BY <3>1, <2>5, NewElementAppended
    <3>3. QED
      BY <2>1, <3>1, <3>2
  <2>7. seen' = {Reloaded(files'[k]) : k \in DOMAIN files'}
    <3>1. /\ DOMAIN files' = DOMAIN files \cup {Len(files) + 1}
          /\ files'[Len(files) + 1] = name.doc
          /\ \A k \in DOMAIN files : files'[k] = files[k]
      BY <2>1, <2>3
    <3>2. QED
      BY <3>1, <2>1, <2>3
  <2>8. run = 1 => /\ IsInjective(Tail(todo))
                   /\ \A k \in DOMAIN Tail(todo) : Tail(todo)[k] \notin seen'
    <3>1. SUFFICES ASSUME run = 1
                   PROVE  /\ IsInjective(Tail(todo))
                          /\ \A k \in DOMAIN Tail(todo) : Tail(todo)[k] \notin seen'
      OBVIOUS
    <3>2. /\ IsInjective(Tail(todo))
          /\ \A k \in DOMAIN Tail(todo) : Tail(todo)[k] # name
      BY <2>1, <3>1, TailInjective
    <3>3. \A k \in DOMAIN Tail(todo) : Tail(todo)[k] \notin seen
      BY <2>1, <3>1, TailFacts
    <3>4. QED
      BY <2>1, <3>2, <3>3
  <2>9. QED
    BY <2>1, <2>2, <2>6, <2>7, <2>8
<1>3. CASE WriteFull
  <2>1. disk'.files = files \/ disk'.files = <<>>
    BY <1>3 DEF WriteFull, Written, NoIndex
  <2>2. <<>> \in Seq(Docs) /\ IsInjective(<<>>)
    BY DEF IsInjective
  <2>3. disk'.files \in Seq(Docs) /\ IsInjective(disk'.files)
    BY <2>1, <2>2
  <2>4. QED
    BY <1>3, <2>3 DEF WriteFull
<1>4. CASE CopyRest
  <2>1. disk'.files = files
    BY <1>4 DEF CopyRest, Written
  <2>2. QED
    BY <1>4, <2>1 DEF CopyRest, walkVars
<1>5. CASE RunAgain
  <2>1. run' \in DOMAIN Walks /\ run' # 1
    BY <1>5, WalksAssumption DEF RunAgain
  <2>2. Walks[run'] \in Seq(Names)
    BY <2>1, WalksAssumption
  <2>3. \A k \in DOMAIN Walks[run'] : ~Walks[run'][k].bare
    BY <2>1 DEF WithDirectory
  <2>4. seen' = {Reloaded(disk.files[k]) : k \in DOMAIN disk.files}
    BY <1>5 DEF RunAgain, ToSet
  <2>5. QED
    BY <1>5, <2>1, <2>2, <2>3, <2>4 DEF RunAgain
<1>6. CASE OpenPartial \/ CountWord \/ CountDone \/ MergeWord \/ MergeDone
  <2>1. UNCHANGED <<run, todo, files, seen, disk>>
    BY <1>6 DEF OpenPartial, CountWord, CountDone, MergeWord, MergeDone, walkVars
  <2>2. QED
    BY <2>1
<1>7. CASE UNCHANGED vars
  BY <1>7 DEF vars
<1>8. QED
  BY <1>1, <1>2, <1>3, <1>4, <1>5, <1>6, <1>7 DEF Next, Step

\* An incremental run adds no file that the index has, nor does the first run
\* index a file twice (do_file.cpp:97-107, file_info.h:116-118, index.cpp:590-643).
THEOREM FilesIndexedOnce ==
  ASSUME WithDirectory, FirstWalkOnce
  PROVE  Spec => []NoFileTwice
<1>1. Init => FilesInv
  BY FilesInit
<1>2. FilesInv /\ [Next]_vars => FilesInv'
  BY FilesStep
<1>3. FilesInv => NoFileTwice
  BY DEF FilesInv, NoFileTwice
<1>4. QED
  BY <1>1, <1>2, <1>3, PTL DEF Spec

-----------------------------------------------------------------------------
(* Sets of numbers, and the words that are chosen.                         *)

\* The values of a function on a finite set are finitely many.
LEMMA FiniteRange ==
  ASSUME NEW f, f = [x \in DOMAIN f |-> f[x]], IsFiniteSet(DOMAIN f)
  PROVE  /\ IsFiniteSet({f[x] : x \in DOMAIN f})
         /\ Cardinality({f[x] : x \in DOMAIN f}) <= Cardinality(DOMAIN f)
         /\ IsInjective(f) =>
              Cardinality({f[x] : x \in DOMAIN f}) = Cardinality(DOMAIN f)
<1> DEFINE T == {f[x] : x \in DOMAIN f}
<1>1. f \in Surjection(DOMAIN f, T)
  BY DEF Surjection
<1>2. IsInjective(f) => f \in Injection(DOMAIN f, T)
  BY DEF Injection
<1> HIDE DEF T
<1>3. IsFiniteSet(T) /\ Cardinality(T) <= Cardinality(DOMAIN f)
      /\ (Cardinality(T) = Cardinality(DOMAIN f) <=> f \in Injection(DOMAIN f, T))
  BY <1>1, FS_Surjection
<1> QED BY <1>2, <1>3 DEF T

\* InOrder() lists a finite set of numbers in ascending order.
LEMMA InOrderFacts ==
  ASSUME NEW S \in SUBSET Nat, IsFiniteSet(S)
  PROVE  /\ InOrder(S) \in Seq(S) /\ Len(InOrder(S)) = Cardinality(S)
         /\ \A k, m \in DOMAIN InOrder(S) : k < m => InOrder(S)[k] < InOrder(S)[m]
         /\ {InOrder(S)[k] : k \in DOMAIN InOrder(S)} = S
<1> DEFINE N == Cardinality(S)
           Below(n) == {m \in S : m < n}
           rank == [n \in S |-> Cardinality(Below(n))]
<1>1. N \in Nat
  BY FS_CardinalityType
<1>2. ASSUME NEW n \in S PROVE IsFiniteSet(Below(n)) /\ rank[n] \in 0..(N - 1)
  <2>1. Below(n) \in SUBSET (S \ {n})
    OBVIOUS
  <2>2. IsFiniteSet(S \ {n}) /\ Cardinality(S \ {n}) = N - 1
    BY FS_RemoveElement
  <2>3. IsFiniteSet(Below(n)) /\ Cardinality(Below(n)) <= N - 1
    BY <2>1, <2>2, FS_Subset
  <2>4. Cardinality(Below(n)) \in Nat
    BY <2>3, FS_CardinalityType
  <2> HIDE DEF Below
  <2> QED BY <1>1, <2>3, <2>4
<1>3. ASSUME NEW a \in S, NEW b \in S, a < b PROVE rank[a] < rank[b]
  <2>1. Below(a) \in SUBSET (Below(b) \ {a}) /\ a \in Below(b)
    <3>1. \A m \in S : m < a => m < b /\ m # a
      BY <1>3
    <3> QED BY <1>3, <3>1
  <2>2. IsFiniteSet(Below(b) \ {a}) /\ Cardinality(Below(b) \ {a}) = Cardinality(Below(b)) - 1
    BY <1>2, <2>1, FS_RemoveElement
  <2>3. Cardinality(Below(a)) <= Cardinality(Below(b)) - 1
    BY <2>1, <2>2, FS_Subset
  <2>4. rank[a] = Cardinality(Below(a)) /\ rank[b] = Cardinality(Below(b))
    OBVIOUS
  <2>5. rank[a] \in Nat /\ rank[b] \in Nat
    BY <1>2
  <2> HIDE DEF rank, Below
  <2> QED BY <2>3, <2>4, <2>5
<1>4. rank \in Injection(S, 0..(N - 1))
  <2>1. rank \in [S -> 0..(N - 1)]
    BY <1>2
  <2>2. ASSUME NEW a \in S, NEW b \in S, rank[a] = rank[b] PROVE a = b
    <3>1. ~(rank[a] < rank[b]) /\ ~(rank[b] < rank[a])
      BY <1>2, <2>2
    <3>2. ~(a < b) /\ ~(b < a)
      BY <1>3, <3>1
    <3> QED BY <3>2
  <2> HIDE DEF rank
  <2>3. DOMAIN rank = S
    BY <2>1
  <2> QED BY <2>1, <2>2, <2>3 DEF Injection, IsInjective
<1>5. rank \in Surjection(S, 0..(N - 1))
  <2>1. IsFiniteSet(0..(N - 1)) /\ Cardinality(0..(N - 1)) = N
    <3>1. 0 \in Int /\ N - 1 \in Int /\ (IF 0 > N - 1 THEN 0 ELSE (N - 1) - 0 + 1) = N
      BY <1>1
    <3> HIDE DEF N
    <3> QED BY <3>1, FS_Interval
  <2> HIDE DEF rank
  <2> QED BY <1>4, <2>1, FS_Injection
<1>6. ASSUME NEW k \in 1..N PROVE InOrder(S)[k] \in S /\ rank[InOrder(S)[k]] = k - 1
  <2>1. k - 1 \in 0..(N - 1)
    BY <1>1
  <2>2. \E n \in S : rank[n] = k - 1
    <3> HIDE DEF rank
    <3> QED BY <1>5, <2>1 DEF Surjection
  <2>3. \E n \in S : Cardinality(Below(n)) = k - 1
    BY <2>2
  <2>4. InOrder(S)[k] = CHOOSE n \in S : Cardinality(Below(n)) = k - 1
    BY DEF InOrder
  <2>5. InOrder(S)[k] \in S /\ Cardinality(Below(InOrder(S)[k])) = k - 1
    <3> HIDE DEF Below
    <3> QED BY <2>3, <2>4
  <2> QED BY <2>5
<1>7. DOMAIN InOrder(S) = 1..N
  BY DEF InOrder
<1>8. InOrder(S) \in Seq(S) /\ Len(InOrder(S)) = N
  <2>1. InOrder(S) = [k \in 1..N |-> InOrder(S)[k]]
    <3> DEFINE nth(k) == CHOOSE n \in S : Cardinality({m \in S : m < n}) = k - 1
    <3>1. InOrder(S) = [k \in 1..N |-> nth(k)]
      BY DEF InOrder
    <3> HIDE DEF nth
    <3> QED BY <3>1
  <2>2. InOrder(S) \in [1..N -> S]
    BY <1>6, <2>1
  <2> QED BY <1>1, <2>2
<1>9. ASSUME NEW k \in 1..N, NEW m \in 1..N, k < m PROVE InOrder(S)[k] < InOrder(S)[m]
  <2> DEFINE a == InOrder(S)[k]
             b == InOrder(S)[m]
  <2>1. a \in S /\ b \in S /\ rank[a] = k - 1 /\ rank[b] = m - 1
    BY <1>6
  <2> HIDE DEF a, b, rank
  <2>2. a # b /\ ~(rank[b] < rank[a])
    BY <1>1, <1>9, <2>1
  <2>3. ~(b < a)
    BY <1>3, <2>1, <2>2
  <2>4. a < b
    BY <2>1, <2>2, <2>3
  <2> QED BY <2>4 DEF a, b
<1>10. ASSUME NEW n \in S PROVE \E k \in 1..N : InOrder(S)[k] = n
  <2> DEFINE k == rank[n] + 1
  <2>1. k \in 1..N /\ k - 1 = rank[n]
    <3>1. rank[n] \in 0..(N - 1)
      BY <1>2
    <3> HIDE DEF rank
    <3> QED BY <1>1, <3>1
  <2>2. InOrder(S)[k] \in S /\ rank[InOrder(S)[k]] = rank[n]
    BY <1>6, <2>1
  <2>3. InOrder(S)[k] = n
    <3>1. DOMAIN rank = S
      OBVIOUS
    <3> HIDE DEF rank, k
    <3> QED BY <1>4, <2>2, <3>1 DEF Injection, IsInjective
  <2> QED BY <2>1, <2>3
<1> HIDE DEF rank
<1> QED BY <1>6, <1>7, <1>8, <1>9, <1>10

-----------------------------------------------------------------------------
\* The positions that OffStopWords() and Least() choose exist.
LEMMA OffStopWordsFacts ==
  ASSUME NEW at, NEW j, at[j] \in 1..(Len(partial[j]) + 1), Len(partial[j]) \in Nat
  PROVE  LET p == OffStopWords(at, j)
         IN  /\ p \in at[j]..(Len(partial[j]) + 1)
             /\ p <= Len(partial[j]) => partial[j][p].word \notin stop
             /\ \A q \in at[j]..(p - 1) : partial[j][q].word \in stop
<1> DEFINE L == Len(partial[j])
           S == {p \in at[j]..(L + 1) : p <= L => partial[j][p].word \notin stop}
           Off(p) == /\ p <= L => partial[j][p].word \notin stop
                     /\ \A q \in at[j]..(p - 1) : partial[j][q].word \in stop
<1>1. L + 1 \in S /\ S \in SUBSET Nat
  OBVIOUS
<1>2. PICK p \in S : \A q \in S : p <= q
  <2> HIDE DEF S
  <2> QED BY <1>1, LeastNumber
<1>3. \A q \in at[j]..(p - 1) : q \in at[j]..(L + 1) /\ ~(p <= q)
  BY <1>2
<1>4. \A q \in at[j]..(p - 1) : q \notin S
  BY <1>2, <1>3
<1>5. \A q \in at[j]..(p - 1) : partial[j][q].word \in stop
  BY <1>3, <1>4
<1>6. p \in at[j]..(L + 1) /\ Off(p)
  BY <1>2, <1>5
<1>7. OffStopWords(at, j) = CHOOSE q \in at[j]..(L + 1) : Off(q)
  BY DEF OffStopWords
<1>8. OffStopWords(at, j) \in at[j]..(L + 1) /\ Off(OffStopWords(at, j))
  <2> HIDE DEF Off
  <2> QED BY <1>6, <1>7
<1> QED BY <1>8

\* Least() is the first of the partial indices that are at the least word.
LEMMA LeastFacts ==
  ASSUME NEW at, partial \in Seq(Seq(Entries)), Words \subseteq Nat, Live(at) # {},
         \A j \in Live(at) : at[j] \in Nat \ {0}
  PROVE  /\ Least(at) \in Live(at)
         /\ \A j \in Live(at) : /\ WordAt(at, j) \in Words
                                /\ WordAt(at, Least(at)) <= WordAt(at, j)
<1> DEFINE first(i) == \A j \in Live(at) :
                         \/ WordAt(at, i) < WordAt(at, j)
                         \/ WordAt(at, i) = WordAt(at, j) /\ i <= j
           W == {WordAt(at, j) : j \in Live(at)}
<1>1. ASSUME NEW j \in Live(at) PROVE WordAt(at, j) \in Words /\ j \in Nat
  <2>1. j \in 1..Len(partial) /\ at[j] <= Len(partial[j])
    BY DEF Live
  <2>2. partial[j] \in Seq(Entries)
    BY <2>1
  <2>3. at[j] \in 1..Len(partial[j])
    BY <2>1, <2>2
  <2>4. partial[j][at[j]] \in Entries
    BY <2>2, <2>3
  <2> QED BY <2>1, <2>4 DEF Entries, WordAt
<1>2. PICK w \in W : \A v \in W : w <= v
  <2>1. W \in SUBSET Nat /\ W # {}
    BY <1>1
  <2> HIDE DEF W
  <2> QED BY <2>1, LeastNumber
<1> DEFINE I == {j \in Live(at) : WordAt(at, j) = w}
<1>3. PICK i \in I : \A j \in I : i <= j
  <2>1. I \in SUBSET Nat /\ I # {}
    BY <1>1, <1>2
  <2> HIDE DEF I
  <2> QED BY <2>1, LeastNumber
<1>4. ASSUME NEW j \in Live(at)
      PROVE  \/ WordAt(at, i) < WordAt(at, j)
             \/ WordAt(at, i) = WordAt(at, j) /\ i <= j
  <2>1. WordAt(at, j) \in W /\ WordAt(at, j) \in Nat /\ w \in Nat
    BY <1>1, <1>2
  <2>2. w <= WordAt(at, j) /\ WordAt(at, i) = w
    BY <1>2, <1>3, <2>1
  <2>3. WordAt(at, j) = w => i <= j
    BY <1>3
  <2> QED BY <2>1, <2>2, <2>3
<1>5. i \in Live(at) /\ first(i)
  BY <1>3, <1>4
<1>6. Least(at) = CHOOSE k \in Live(at) : first(k)
  BY DEF Least
<1>7. Least(at) \in Live(at) /\ first(Least(at))
  <2> HIDE DEF first
  <2> QED BY <1>5, <1>6
<1>8. ASSUME NEW j \in Live(at) PROVE WordAt(at, Least(at)) <= WordAt(at, j)
  <2>1. \/ WordAt(at, Least(at)) < WordAt(at, j)
        \/ WordAt(at, Least(at)) = WordAt(at, j)
    BY <1>7
  <2>2. WordAt(at, Least(at)) \in Nat /\ WordAt(at, j) \in Nat
    BY <1>1, <1>7
  <2> QED BY <2>1, <2>2
<1> QED BY <1>1, <1>7, <1>8

-----------------------------------------------------------------------------
(* The lists of words, and positions in them.                              *)

\* The words in memory as an index: each once, in order, with its list of files.
LEMMA WordIndexFacts ==
  ASSUME NEW map, map \in [DOMAIN map -> Seq(FileEntries)], DOMAIN map \subseteq Words
  PROVE  /\ WordIndex(map) \in Seq(Entries) /\ Ascending(WordIndex(map))
         /\ WordsIn(WordIndex(map)) = DOMAIN map
         /\ Len(WordIndex(map)) = Cardinality(DOMAIN map)
         /\ Cardinality(DOMAIN map) \in Nat
<1> DEFINE sorted == InOrder(DOMAIN map)
           N == Cardinality(DOMAIN map)
<1>1. IsFiniteSet(DOMAIN map) /\ DOMAIN map \in SUBSET Nat /\ N \in Nat
  <2>1. IsFiniteSet(DOMAIN map)
    BY ConstantsAssumption, FS_Subset
  <2> QED BY <2>1, ConstantsAssumption, FS_CardinalityType
<1>2. /\ sorted \in Seq(DOMAIN map) /\ Len(sorted) = N
      /\ \A k, m \in DOMAIN sorted : k < m => sorted[k] < sorted[m]
      /\ {sorted[k] : k \in DOMAIN sorted} = DOMAIN map
  BY <1>1, InOrderFacts
<1> HIDE DEF sorted
<1>3. DOMAIN sorted = 1..N /\ \A k \in 1..N : sorted[k] \in DOMAIN map
  <2>1. DOMAIN sorted = 1..Len(sorted)
    BY <1>2
  <2> QED BY <1>2, <2>1
<1> DEFINE entry(k) == [word |-> sorted[k], files |-> map[sorted[k]]]
<1>4. WordIndex(map) = [k \in 1..N |-> entry(k)]
  BY <1>3 DEF WordIndex, sorted
<1>5. \A k \in 1..N : entry(k) \in Entries
  BY <1>3 DEF Entries
<1> HIDE DEF entry
<1>6. WordIndex(map) \in [1..N -> Entries]
  BY <1>4, <1>5
<1>7. WordIndex(map) \in Seq(Entries) /\ Len(WordIndex(map)) = N
  <2> HIDE DEF N
  <2> QED BY <1>1, <1>6
<1>8. DOMAIN WordIndex(map) = 1..N /\ \A k \in 1..N : WordIndex(map)[k].word = sorted[k]
  BY <1>4 DEF entry
<1>9. Ascending(WordIndex(map))
  BY <1>2, <1>3, <1>8 DEF Ascending
<1>10. WordsIn(WordIndex(map)) = DOMAIN map
  BY <1>2, <1>3, <1>8 DEF WordsIn
<1> QED BY <1>1, <1>7, <1>9, <1>10

\* The words of a document are words of the index, with its number.
LEMMA WithWordsFacts ==
  ASSUME TypeOK, ListsInv, NEW doc \in Docs, NEW i \in Nat
  PROVE  /\ DOMAIN WithWordsOf(doc, i) \subseteq DOMAIN words \cup (Words \ stop)
         /\ DOMAIN WithWordsOf(doc, i) \subseteq Words
         /\ WithWordsOf(doc, i) \in [DOMAIN WithWordsOf(doc, i) -> Seq(FileEntries)]
<1> DEFINE found == {w \in Words \ stop : text[doc][w] > 0}
           entry(w) == [file |-> i, occurs |-> text[doc][w]]
           before(w) == IF w \in DOMAIN words THEN words[w] ELSE <<>>
           list(w) == IF w \in found THEN Append(before(w), entry(w)) ELSE words[w]
<1>1. WithWordsOf(doc, i) = [w \in DOMAIN words \cup found |-> list(w)]
  BY DEF WithWordsOf
<1>2. ASSUME NEW w \in DOMAIN words \cup found PROVE list(w) \in Seq(FileEntries)
  <2>1. before(w) \in Seq(FileEntries)
    BY EmptySeq DEF ListsInv
  <2>2. CASE w \in found
    <3>1. w \in Words /\ text[doc] \in [Words -> 0..MaxOccurs] /\ MaxOccurs \in Nat
      BY <2>2, ConstantsAssumption DEF TypeOK
    <3>2. entry(w) \in FileEntries
      BY <3>1 DEF FileEntries
    <3> HIDE DEF before, entry, found
    <3>3. Append(before(w), entry(w)) \in Seq(FileEntries)
      BY <2>1, <3>2, AppendProperties
    <3> QED BY <2>2, <3>3
  <2>3. CASE w \notin found
    BY <1>2, <2>3 DEF ListsInv
  <2> QED BY <2>2, <2>3
<1>3. found \subseteq Words \ stop /\ DOMAIN words \subseteq Words
  BY DEF TypeOK
<1> HIDE DEF list, found
<1> QED BY <1>1, <1>2, <1>3

-----------------------------------------------------------------------------
\* Entries from positions on are finitely many.
LEMMA AheadFacts ==
  ASSUME NEW X, NEW indices \in Seq(Seq(X)), NEW at,
         \A j \in DOMAIN indices : at[j] \in Nat \ {0}
  PROVE  /\ IsFiniteSet(Ahead(indices, at)) /\ Cardinality(Ahead(indices, at)) \in Nat
         /\ \A e : e \in Ahead(indices, at) <=>
              \E j \in DOMAIN indices : \E k \in at[j]..Len(indices[j]) : e = <<j, k>>
<1> DEFINE f == [j \in DOMAIN indices |-> {j} \X (at[j]..Len(indices[j]))]
<1>1. DOMAIN indices = 1..Len(indices) /\ Len(indices) \in Nat
      /\ \A j \in DOMAIN indices : Len(indices[j]) \in Nat
  <2>1. \A j \in DOMAIN indices : indices[j] \in Seq(X)
    OBVIOUS
  <2> QED BY <2>1
<1>2. IsFiniteSet({f[j] : j \in DOMAIN f})
  <2>1. DOMAIN f = DOMAIN indices /\ f = [j \in DOMAIN f |-> f[j]]
    OBVIOUS
  <2>2. IsFiniteSet(DOMAIN f)
    BY <1>1, <2>1, FS_Interval
  <2> HIDE DEF f
  <2> QED BY <2>1, <2>2, FiniteRange
<1>3. ASSUME NEW T \in {f[j] : j \in DOMAIN f} PROVE IsFiniteSet(T)
  <2>1. PICK j \in DOMAIN indices : T = {j} \X (at[j]..Len(indices[j]))
    OBVIOUS
  <2>2. IsFiniteSet(at[j]..Len(indices[j])) /\ IsFiniteSet({j})
    <3>1. at[j] \in Int /\ Len(indices[j]) \in Int
      BY <1>1, <2>1
    <3> QED BY <3>1, FS_Interval, FS_Singleton
  <2> QED BY <2>1, <2>2, FS_Product
<1>4. Ahead(indices, at) = UNION {f[j] : j \in DOMAIN f}
  BY DEF Ahead
<1>5. IsFiniteSet(Ahead(indices, at))
  <2> HIDE DEF f
  <2> QED BY <1>2, <1>3, <1>4, FS_UNION
<1>6. ASSUME NEW e
      PROVE  e \in Ahead(indices, at) <=>
              \E j \in DOMAIN indices : \E k \in at[j]..Len(indices[j]) : e = <<j, k>>
  BY DEF Ahead
<1> QED BY <1>5, <1>6, FS_CardinalityType

\* Positions in the partial indices
IsPosition(at) ==
  /\ DOMAIN at = DOMAIN partial
  /\ \A j \in DOMAIN partial : at[j] \in 1..(Len(partial[j]) + 1)

\* ... the partial indices themselves
LEMMA PartialFacts ==
  ASSUME TypeOK
  PROVE  /\ DOMAIN partial = 1..Len(partial) /\ Len(partial) \in Nat
         /\ \A j \in DOMAIN partial :
              /\ partial[j] \in Seq(Entries) /\ Len(partial[j]) \in Nat
              /\ DOMAIN partial[j] = 1..Len(partial[j])
              /\ \A k \in 1..Len(partial[j]) :
                   /\ partial[j][k] \in Entries
                   /\ partial[j][k].word \in Words /\ partial[j][k].word \in Nat
                   /\ partial[j][k].files \in Seq(FileEntries)
<1>1. partial \in Seq(Seq(Entries))
  BY DEF TypeOK
<1>2. \A j \in DOMAIN partial : partial[j] \in Seq(Entries)
  BY <1>1
<1>3. \A j \in DOMAIN partial : \A k \in 1..Len(partial[j]) : partial[j][k] \in Entries
  BY <1>2
<1>4. \A e \in Entries : e.word \in Words /\ e.word \in Nat /\ e.files \in Seq(FileEntries)
  BY ConstantsAssumption DEF Entries
<1> QED BY <1>1, <1>2, <1>3, <1>4

\* The positions where the phases start
LEMMA StartsFacts ==
  ASSUME NEW indices \in Seq(Seq(Entries))
  PROVE  /\ DOMAIN Starts(indices) = DOMAIN indices
         /\ \A j \in DOMAIN indices : /\ Starts(indices)[j] = 1
                                      /\ Starts(indices)[j] \in 1..(Len(indices[j]) + 1)
                                      /\ Starts(indices)[j] \in Nat \ {0}
<1>1. \A j \in DOMAIN indices : Len(indices[j]) \in Nat
  <2>1. \A j \in DOMAIN indices : indices[j] \in Seq(Entries)
    OBVIOUS
  <2> QED BY <2>1
<1> QED BY <1>1 DEF Starts

\* The word that comes next, and the partial indices that are at it
LEMMA NextWordFacts ==
  ASSUME TypeOK, NEW at, IsPosition(at), Live(at) # {}
  PROVE  /\ Least(at) \in Same(at) /\ Same(at) \subseteq Live(at)
         /\ Live(at) \subseteq DOMAIN partial
         /\ IsFiniteSet(Same(at)) /\ Cardinality(Same(at)) \in Nat \ {0}
         /\ WordAt(at, Least(at)) \in Words
         /\ \A j \in Live(at) : /\ WordAt(at, j) \in Nat
                                /\ WordAt(at, Least(at)) <= WordAt(at, j)
         /\ FilesOf(at, Same(at)) \in Seq(FileEntries)
<1>1. /\ Least(at) \in Live(at)
      /\ \A j \in Live(at) : /\ WordAt(at, j) \in Words
                             /\ WordAt(at, Least(at)) <= WordAt(at, j)
  <2>1. \A j \in Live(at) : at[j] \in Nat \ {0}
    <3>1. \A j \in Live(at) : j \in DOMAIN partial
      BY DEF Live
    <3> QED BY <3>1 DEF IsPosition
  <2>2. partial \in Seq(Seq(Entries)) /\ Words \subseteq Nat
    BY ConstantsAssumption DEF TypeOK
  <2> QED BY <2>1, <2>2, LeastFacts
<1>2. Least(at) \in Same(at) /\ Same(at) \subseteq Live(at) /\ Live(at) \subseteq DOMAIN partial
  BY <1>1 DEF Same, Live
<1>3. IsFiniteSet(Same(at)) /\ Cardinality(Same(at)) \in Nat \ {0}
  <2>1. IsFiniteSet(DOMAIN partial)
    BY PartialFacts, FS_Interval
  <2>2. IsFiniteSet(Same(at))
    BY <1>2, <2>1, FS_Subset
  <2> QED BY <1>2, <2>2, FS_CardinalityType, FS_EmptySet
<1>4. FilesOf(at, Same(at)) \in Seq(FileEntries)
  <2> DEFINE part(j) == IF j \in Same(at) THEN partial[j][at[j]].files ELSE <<>>
             lists == [j \in DOMAIN partial |-> part(j)]
  <2>1. ASSUME NEW j \in DOMAIN partial PROVE part(j) \in Seq(FileEntries)
    <3>1. CASE j \in Same(at)
      <4>1. at[j] \in 1..Len(partial[j])
        BY <1>2, <3>1, PartialFacts DEF Live, IsPosition
      <4> QED BY <3>1, <4>1, PartialFacts
    <3>2. CASE j \notin Same(at)
      BY <3>2, EmptySeq
    <3> QED BY <3>1, <3>2
  <2> HIDE DEF part
  <2>2. lists \in [1..Len(partial) -> Seq(FileEntries)] /\ Len(partial) \in Nat
    BY <2>1, PartialFacts
  <2>3. lists \in Seq(Seq(FileEntries))
    <3> HIDE DEF lists
    <3> QED BY <2>2
  <2>4. FilesOf(at, Same(at)) = FlattenSeq(lists)
    BY DEF FilesOf, part
  <2> QED BY <2>3, <2>4, FlattenType
<1> QED BY <1>1, <1>2, <1>3, <1>4, ConstantsAssumption

\* The positions after it
LEMMA PastFacts ==
  ASSUME TypeOK, NEW at, IsPosition(at), NEW same, same \subseteq Live(at)
  PROVE  /\ IsPosition(Past(at, same))
         /\ Ahead(partial, Past(at, same)) \subseteq Ahead(partial, at)
         /\ \A e \in Ahead(partial, at) :
              e \in Ahead(partial, Past(at, same)) <=> ~(e[1] \in same /\ e[2] = at[e[1]])
         /\ Cardinality(Ahead(partial, Past(at, same))) \in Nat
         /\ Cardinality(Ahead(partial, at)) \in Nat
         /\ Cardinality(Ahead(partial, Past(at, same))) =
              Cardinality(Ahead(partial, at)) - Cardinality(same)
<1> DEFINE next == Past(at, same)
           gone == {<<j, at[j]>> : j \in same}
<1>1. \A j \in DOMAIN partial : next[j] = IF j \in same THEN at[j] + 1 ELSE at[j]
  BY DEF Past, IsPosition
<1>2. DOMAIN next = DOMAIN partial
  BY DEF Past, IsPosition
<1>3. \A j \in same : j \in DOMAIN partial /\ at[j] \in 1..Len(partial[j])
  <2>1. \A j \in same : j \in DOMAIN partial /\ at[j] <= Len(partial[j])
    BY DEF Live
  <2> QED BY <2>1, PartialFacts DEF IsPosition
<1>4. IsPosition(next)
  <2>1. ASSUME NEW j \in DOMAIN partial PROVE next[j] \in 1..(Len(partial[j]) + 1)
    <3>1. at[j] \in 1..(Len(partial[j]) + 1) /\ Len(partial[j]) \in Nat
      BY PartialFacts DEF IsPosition
    <3> HIDE DEF next
    <3> QED BY <1>1, <1>3, <3>1
  <2> QED BY <1>2, <2>1 DEF IsPosition
<1> HIDE DEF next
<1>5. partial \in Seq(Seq(Entries))
  BY DEF TypeOK
<1>6. \A j \in DOMAIN partial : at[j] \in Nat \ {0} /\ next[j] \in Nat \ {0}
  <2>1. \A j \in DOMAIN partial : \A n \in 1..(Len(partial[j]) + 1) : n \in Nat \ {0}
    OBVIOUS
  <2> QED BY <1>4, <2>1 DEF IsPosition
<1>7. /\ IsFiniteSet(Ahead(partial, at)) /\ Cardinality(Ahead(partial, at)) \in Nat
      /\ \A e : e \in Ahead(partial, at) <=>
           \E j \in DOMAIN partial : \E k \in at[j]..Len(partial[j]) : e = <<j, k>>
  BY <1>5, <1>6, AheadFacts
<1>8. /\ Cardinality(Ahead(partial, next)) \in Nat
      /\ \A e : e \in Ahead(partial, next) <=>
           \E j \in DOMAIN partial : \E k \in next[j]..Len(partial[j]) : e = <<j, k>>
  BY <1>5, <1>6, AheadFacts
<1>9. ASSUME NEW j \in DOMAIN partial, NEW k
      PROVE  k \in next[j]..Len(partial[j]) <=>
               k \in at[j]..Len(partial[j]) /\ ~(j \in same /\ k = at[j])
  BY <1>1, <1>6, <1>9, PartialFacts
<1>10. gone \subseteq Ahead(partial, at)
  <2>1. ASSUME NEW j \in same PROVE <<j, at[j]>> \in Ahead(partial, at)
    <3>1. j \in DOMAIN partial /\ at[j] \in at[j]..Len(partial[j])
      BY <1>3, PartialFacts
    <3> QED BY <1>7, <3>1
  <2> QED BY <2>1
<1>11. Ahead(partial, next) = Ahead(partial, at) \ gone
  <2>1. ASSUME NEW e, e \in Ahead(partial, next) PROVE e \in Ahead(partial, at) \ gone
    <3>1. PICK j \in DOMAIN partial : \E k \in next[j]..Len(partial[j]) : e = <<j, k>>
      BY <1>8, <2>1
    <3>2. PICK k \in next[j]..Len(partial[j]) : e = <<j, k>>
      BY <3>1
    <3>3. k \in at[j]..Len(partial[j]) /\ ~(j \in same /\ k = at[j])
      BY <1>9, <3>2
    <3> QED BY <1>7, <3>2, <3>3
  <2>2. ASSUME NEW e, e \in Ahead(partial, at) \ gone PROVE e \in Ahead(partial, next)
    <3>1. PICK j \in DOMAIN partial : \E k \in at[j]..Len(partial[j]) : e = <<j, k>>
      BY <1>7, <2>2
    <3>2. PICK k \in at[j]..Len(partial[j]) : e = <<j, k>>
      BY <3>1
    <3>3. ~(j \in same /\ k = at[j])
      BY <2>2, <3>2
    <3>4. k \in next[j]..Len(partial[j])
      BY <1>9, <3>2, <3>3
    <3> QED BY <1>8, <3>2, <3>4
  <2> QED BY <2>1, <2>2
<1>12. \A e \in Ahead(partial, at) :
         e \in Ahead(partial, next) <=> ~(e[1] \in same /\ e[2] = at[e[1]])
  <2>1. ASSUME NEW e \in Ahead(partial, at)
        PROVE  e \in gone <=> e[1] \in same /\ e[2] = at[e[1]]
    <3>1. PICK j \in DOMAIN partial : \E k \in at[j]..Len(partial[j]) : e = <<j, k>>
      BY <1>7
    <3>2. PICK k \in at[j]..Len(partial[j]) : e = <<j, k>>
      BY <3>1
    <3> QED BY <3>2
  <2> QED BY <1>11, <2>1
<1>13. IsFiniteSet(gone) /\ Cardinality(gone) = Cardinality(same)
  <2> DEFINE f == [j \in same |-> <<j, at[j]>>]
  <2>1. DOMAIN f = same /\ f = [j \in DOMAIN f |-> f[j]] /\ IsInjective(f)
    BY DEF IsInjective
  <2>2. {f[j] : j \in DOMAIN f} = gone
    OBVIOUS
  <2>3. IsFiniteSet(same)
    <3>1. IsFiniteSet(DOMAIN partial)
      BY PartialFacts, FS_Interval
    <3>2. same \in SUBSET DOMAIN partial
      BY <1>3
    <3> QED BY <3>1, <3>2, FS_Subset
  <2> HIDE DEF f, gone
  <2> QED BY <2>1, <2>2, <2>3, FiniteRange
<1>14. Cardinality(Ahead(partial, next)) = Cardinality(Ahead(partial, at)) - Cardinality(same)
  <2>1. Ahead(partial, at) \cap gone = gone
    BY <1>10
  <2> HIDE DEF gone
  <2>2. Cardinality(Ahead(partial, at) \ gone)
          = Cardinality(Ahead(partial, at)) - Cardinality(Ahead(partial, at) \cap gone)
    BY <1>7, FS_Difference
  <2> QED BY <1>11, <1>13, <2>1, <2>2
<1> QED BY <1>4, <1>7, <1>8, <1>11, <1>12, <1>14 DEF next

\* The positions where the second phase finds the next word
LEMMA SkippedFacts ==
  ASSUME TypeOK, NEW at, IsPosition(at)
  PROVE  /\ IsPosition(Skipped(at))
         /\ \A j \in DOMAIN partial :
              /\ Skipped(at)[j] >= at[j]
              /\ \A k \in at[j]..(Skipped(at)[j] - 1) : partial[j][k].word \in stop
         /\ \A j \in DOMAIN partial :
              Len(partial) <= 2 /\ Skipped(at)[j] <= Len(partial[j]) =>
                partial[j][Skipped(at)[j]].word \notin stop
<1> DEFINE off == [j \in DOMAIN at |-> OffStopWords(at, j)]
           found(j) == {k \in Live(off) : k < j}
<1>1. Skipped(at) = [j \in DOMAIN at |-> IF Cardinality(found(j)) < 2 THEN off[j] ELSE at[j]]
  BY DEF Skipped
<1>2. ASSUME NEW j \in DOMAIN partial
      PROVE  /\ off[j] \in at[j]..(Len(partial[j]) + 1) /\ at[j] \in 1..(Len(partial[j]) + 1)
             /\ Len(partial[j]) \in Nat
             /\ off[j] <= Len(partial[j]) => partial[j][off[j]].word \notin stop
             /\ \A k \in at[j]..(off[j] - 1) : partial[j][k].word \in stop
  <2>1. at[j] \in 1..(Len(partial[j]) + 1) /\ Len(partial[j]) \in Nat
    BY PartialFacts DEF IsPosition
  <2>2. off[j] = OffStopWords(at, j)
    BY DEF IsPosition
  <2> HIDE DEF off
  <2> QED BY <2>1, <2>2, OffStopWordsFacts
<1>3. ASSUME NEW j \in DOMAIN partial
      PROVE  Skipped(at)[j] = IF Cardinality(found(j)) < 2 THEN off[j] ELSE at[j]
  BY <1>1 DEF IsPosition
<1>4. DOMAIN Skipped(at) = DOMAIN partial
  BY <1>1 DEF IsPosition
<1>5. ASSUME NEW j \in DOMAIN partial, Len(partial) <= 2 PROVE Cardinality(found(j)) < 2
  <2>1. found(j) \in SUBSET {1}
    <3>1. ASSUME NEW k \in found(j) PROVE k = 1
      <4>1. k \in DOMAIN partial /\ k < j
        BY DEF Live
      <4> QED BY <1>5, <4>1, PartialFacts
    <3> QED BY <3>1
  <2>2. IsFiniteSet({1}) /\ Cardinality({1}) = 1
    BY FS_Singleton
  <2> HIDE DEF found
  <2>3. IsFiniteSet(found(j)) /\ Cardinality(found(j)) <= 1
    BY <2>1, <2>2, FS_Subset
  <2> QED BY <2>3, FS_CardinalityType
<1> HIDE DEF off, found
<1>6. ASSUME NEW j \in DOMAIN partial
      PROVE  /\ Skipped(at)[j] \in 1..(Len(partial[j]) + 1)
             /\ Skipped(at)[j] >= at[j]
             /\ \A k \in at[j]..(Skipped(at)[j] - 1) : partial[j][k].word \in stop
  <2>1. CASE Skipped(at)[j] = off[j]
    BY <1>2, <2>1
  <2>2. CASE Skipped(at)[j] = at[j]
    BY <1>2, <2>2
  <2> QED BY <1>3, <2>1, <2>2
<1>7. IsPosition(Skipped(at))
  BY <1>4, <1>6 DEF IsPosition
<1>8. ASSUME NEW j \in DOMAIN partial, Len(partial) <= 2, Skipped(at)[j] <= Len(partial[j])
      PROVE  partial[j][Skipped(at)[j]].word \notin stop
  BY <1>2, <1>3, <1>5, <1>8
<1> QED BY <1>6, <1>7, <1>8

-----------------------------------------------------------------------------
(* What is written: entries in order.                                      *)

\* One sequence of entries in order behind another
LEMMA AscendingConcat ==
  ASSUME NEW s \in Seq(Entries), NEW t \in Seq(Entries), Ascending(s), Ascending(t),
         \A k \in DOMAIN s, m \in DOMAIN t : s[k].word < t[m].word
  PROVE  /\ s \o t \in Seq(Entries) /\ Ascending(s \o t)
         /\ WordsIn(s \o t) = WordsIn(s) \cup WordsIn(t)
<1>1. /\ s \o t \in Seq(Entries)
      /\ DOMAIN s = 1..Len(s) /\ DOMAIN t = 1..Len(t) /\ Len(s) \in Nat /\ Len(t) \in Nat
      /\ DOMAIN (s \o t) = 1..(Len(s) + Len(t))
      /\ \A i \in 1..(Len(s) + Len(t)) :
           (s \o t)[i] = IF i <= Len(s) THEN s[i] ELSE t[i - Len(s)]
  BY ConcatProperties
<1>2. ASSUME NEW i \in 1..(Len(s) + Len(t))
      PROVE  \/ i \in DOMAIN s /\ (s \o t)[i] = s[i]
             \/ /\ i > Len(s) /\ i - Len(s) \in DOMAIN t /\ (s \o t)[i] = t[i - Len(s)]
  BY <1>1
<1>3. ASSUME NEW k \in DOMAIN (s \o t), NEW m \in DOMAIN (s \o t), k < m
      PROVE  (s \o t)[k].word < (s \o t)[m].word
  <2>1. k \in 1..(Len(s) + Len(t)) /\ m \in 1..(Len(s) + Len(t)) /\ k \in Nat /\ m \in Nat
    BY <1>1
  <2>2. CASE m \in DOMAIN s
    <3>1. k \in DOMAIN s /\ (s \o t)[k] = s[k] /\ (s \o t)[m] = s[m]
      BY <1>1, <1>3, <2>1, <2>2
    <3> QED BY <1>3, <2>2, <3>1 DEF Ascending
  <2>3. CASE m \notin DOMAIN s /\ k \in DOMAIN s
    <3>1. m - Len(s) \in DOMAIN t /\ (s \o t)[m] = t[m - Len(s)]
      BY <1>2, <2>1, <2>3
    <3>2. (s \o t)[k] = s[k]
      BY <1>1, <2>1, <2>3
    <3> QED BY <2>3, <3>1, <3>2
  <2>4. CASE m \notin DOMAIN s /\ k \notin DOMAIN s
    <3>1. m - Len(s) \in DOMAIN t /\ (s \o t)[m] = t[m - Len(s)]
      BY <1>2, <2>1, <2>4
    <3>2. k - Len(s) \in DOMAIN t /\ (s \o t)[k] = t[k - Len(s)]
      BY <1>2, <2>1, <2>4
    <3>3. k - Len(s) < m - Len(s)
      BY <1>1, <1>3, <2>1
    <3> QED BY <3>1, <3>2, <3>3 DEF Ascending
  <2> QED BY <2>2, <2>3, <2>4
<1>4. WordsIn(s \o t) \subseteq WordsIn(s) \cup WordsIn(t)
  BY <1>1, <1>2 DEF WordsIn
<1>5. ASSUME NEW k \in DOMAIN s PROVE s[k].word \in WordsIn(s \o t)
  <2>1. k \in DOMAIN (s \o t) /\ (s \o t)[k] = s[k]
    BY <1>1
  <2> QED BY <2>1, Zenon DEF WordsIn
<1>6. ASSUME NEW k \in DOMAIN t PROVE t[k].word \in WordsIn(s \o t)
  <2>1. k + Len(s) \in DOMAIN (s \o t) /\ (s \o t)[k + Len(s)] = t[k]
    <3>1. k + Len(s) \in 1..(Len(s) + Len(t)) /\ ~(k + Len(s) <= Len(s))
          /\ (k + Len(s)) - Len(s) = k
      BY <1>1
    <3> QED BY <1>1, <3>1
  <2> QED BY <2>1, Zenon DEF WordsIn
<1>7. WordsIn(s) \cup WordsIn(t) \subseteq WordsIn(s \o t)
  BY <1>5, <1>6 DEF WordsIn
<1> QED BY <1>1, <1>3, <1>4, <1>7 DEF Ascending

\* One more entry
LEMMA AscendingAppend ==
  ASSUME NEW s \in Seq(Entries), NEW e \in Entries, Ascending(s),
         \A k \in DOMAIN s : s[k].word < e.word
  PROVE  /\ Append(s, e) \in Seq(Entries) /\ Ascending(Append(s, e))
         /\ WordsIn(Append(s, e)) = WordsIn(s) \cup {e.word}
<1>1. /\ Append(s, e) \in Seq(Entries)
      /\ DOMAIN s = 1..Len(s) /\ Len(s) \in Nat /\ DOMAIN Append(s, e) = 1..(Len(s) + 1)
      /\ \A i \in 1..Len(s) : Append(s, e)[i] = s[i]
      /\ Append(s, e)[Len(s) + 1] = e
  BY AppendProperties
<1>2. ASSUME NEW k \in DOMAIN Append(s, e), NEW m \in DOMAIN Append(s, e), k < m
      PROVE  Append(s, e)[k].word < Append(s, e)[m].word
  <2>1. k \in DOMAIN s /\ Append(s, e)[k] = s[k]
    BY <1>1, <1>2
  <2>2. CASE m = Len(s) + 1
    BY <1>1, <2>1, <2>2
  <2>3. CASE m # Len(s) + 1
    <3>1. m \in DOMAIN s /\ Append(s, e)[m] = s[m]
      BY <1>1, <2>3
    <3> QED BY <1>2, <2>1, <3>1 DEF Ascending
  <2> QED BY <2>2, <2>3
<1>3. WordsIn(Append(s, e)) = WordsIn(s) \cup {e.word}
  <2>1. DOMAIN Append(s, e) = DOMAIN s \cup {Len(s) + 1}
    BY <1>1
  <2> QED BY <1>1, <2>1 DEF WordsIn
<1> QED BY <1>1, <1>2, <1>3 DEF Ascending

\* Entries in order have as many words as there are entries.
LEMMA AscendingCount ==
  ASSUME NEW s \in Seq(Entries), Ascending(s)
  PROVE  IsFiniteSet(WordsIn(s)) /\ Cardinality(WordsIn(s)) = Len(s) /\ Len(s) \in Nat
<1> DEFINE f == [k \in DOMAIN s |-> s[k].word]
<1>1. /\ DOMAIN s = 1..Len(s) /\ Len(s) \in Nat
      /\ \A k \in DOMAIN s : s[k].word \in Nat
  <2>1. \A k \in DOMAIN s : s[k] \in Entries
    OBVIOUS
  <2>2. \A e \in Entries : e.word \in Nat
    BY ConstantsAssumption DEF Entries
  <2> QED BY <2>1, <2>2
<1>2. IsInjective(f)
  <2>1. ASSUME NEW a \in DOMAIN s, NEW b \in DOMAIN s, s[a].word = s[b].word PROVE a = b
    <3>1. ~(s[a].word < s[b].word) /\ ~(s[b].word < s[a].word)
      BY <1>1, <2>1
    <3>2. ~(a < b) /\ ~(b < a)
      BY <3>1 DEF Ascending
    <3> QED BY <1>1, <3>2
  <2> QED BY <2>1 DEF IsInjective
<1>3. DOMAIN f = DOMAIN s /\ f = [k \in DOMAIN f |-> f[k]] /\ {f[k] : k \in DOMAIN f} = WordsIn(s)
  BY DEF WordsIn
<1>4. IsFiniteSet(DOMAIN s) /\ Cardinality(DOMAIN s) = Len(s)
  BY <1>1, CardinalityUpTo
<1> HIDE DEF f
<1> QED BY <1>1, <1>2, <1>3, <1>4, FiniteRange

\* What is left of a partial index, without the stop words
LEMMA RestFacts ==
  ASSUME TypeOK, WordsInOrder, IsPosition(cursor), NEW j \in DOMAIN partial
  PROVE  /\ Rest(j) \in Seq(Entries) /\ Ascending(Rest(j))
         /\ WordsIn(Rest(j)) =
              {partial[j][k].word : k \in cursor[j]..Len(partial[j])} \ stop
         /\ j \notin Live(cursor) => Rest(j) = <<>>
         /\ \A m \in DOMAIN Rest(j) :
              \E k \in cursor[j]..Len(partial[j]) : Rest(j)[m] = partial[j][k]
<1> DEFINE S == {k \in cursor[j]..Len(partial[j]) : partial[j][k].word \notin stop}
           left == InOrder(S)
<1>1. cursor[j] \in Nat \ {0} /\ Len(partial[j]) \in Nat /\ DOMAIN partial[j] = 1..Len(partial[j])
      /\ cursor[j]..Len(partial[j]) \subseteq DOMAIN partial[j]
      /\ \A k \in DOMAIN partial[j] : partial[j][k] \in Entries
  <2>1. cursor[j] \in Nat \ {0} /\ Len(partial[j]) \in Nat
    BY PartialFacts DEF IsPosition
  <2>2. cursor[j]..Len(partial[j]) \subseteq 1..Len(partial[j])
    BY <2>1
  <2> QED BY <2>1, <2>2, PartialFacts
<1>2. S \in SUBSET Nat /\ IsFiniteSet(S)
  <2>1. IsFiniteSet(cursor[j]..Len(partial[j]))
    BY <1>1, FS_Interval
  <2>2. S \subseteq cursor[j]..Len(partial[j]) /\ S \in SUBSET Nat
    BY <1>1
  <2> HIDE DEF S
  <2> QED BY <2>1, <2>2, FS_Subset
<1>3. /\ left \in Seq(S) /\ Len(left) = Cardinality(S) /\ DOMAIN left = 1..Len(left)
      /\ Len(left) \in Nat
      /\ \A k, m \in DOMAIN left : k < m => left[k] < left[m]
      /\ {left[k] : k \in DOMAIN left} = S
  <2>1. /\ left \in Seq(S) /\ Len(left) = Cardinality(S)
        /\ \A k, m \in DOMAIN left : k < m => left[k] < left[m]
        /\ {left[k] : k \in DOMAIN left} = S
    <3> HIDE DEF S
    <3> QED BY <1>2, InOrderFacts
  <2> HIDE DEF left
  <2> QED BY <2>1
<1> HIDE DEF left
<1>4. Rest(j) = [k \in DOMAIN left |-> partial[j][left[k]]]
  BY DEF Rest, left
<1>5. \A k \in DOMAIN left : left[k] \in S /\ left[k] \in DOMAIN partial[j]
  BY <1>1, <1>3
<1>6. Rest(j) \in Seq(Entries)
  <2>1. Rest(j) \in [1..Len(left) -> Entries]
    BY <1>1, <1>3, <1>4, <1>5
  <2> QED BY <1>3, <2>1, FunctionIsSeq
<1>7. DOMAIN Rest(j) = DOMAIN left /\ \A k \in DOMAIN left : Rest(j)[k] = partial[j][left[k]]
  BY <1>4
<1>8. Ascending(Rest(j))
  <2>1. ASSUME NEW k \in DOMAIN left, NEW m \in DOMAIN left, k < m
        PROVE  partial[j][left[k]].word < partial[j][left[m]].word
    <3>1. left[k] < left[m]
      BY <1>3, <2>1
    <3>2. Ascending(partial[j])
      BY DEF WordsInOrder
    <3> QED BY <1>5, <3>1, <3>2 DEF Ascending
  <2> QED BY <1>7, <2>1 DEF Ascending
<1>9. WordsIn(Rest(j)) = {partial[j][k].word : k \in S}
  <2>1. WordsIn(Rest(j)) = {partial[j][left[k]].word : k \in DOMAIN left}
    BY <1>7 DEF WordsIn
  <2>2. ASSUME NEW k \in S PROVE \E i \in DOMAIN left : left[i] = k
    <3>1. k \in {left[i] : i \in DOMAIN left}
      BY <1>3
    <3> QED BY <3>1
  <2> HIDE DEF S
  <2> QED BY <1>5, <2>1, <2>2
<1>10. {partial[j][k].word : k \in S}
        = {partial[j][k].word : k \in cursor[j]..Len(partial[j])} \ stop
  OBVIOUS
<1>11. ASSUME j \notin Live(cursor) PROVE Rest(j) = <<>>
  <2>1. ~(cursor[j] <= Len(partial[j]))
    BY <1>11 DEF Live
  <2>2. S = {}
    BY <1>1, <2>1
  <2>3. Len(left) = 0
    BY <1>3, <2>2, FS_EmptySet
  <2>4. Len(Rest(j)) = 0
    BY <1>3, <1>4, <1>6, <2>3
  <2> QED BY <1>6, <2>4, EmptySeq
<1>12. \A m \in DOMAIN Rest(j) : \E k \in cursor[j]..Len(partial[j]) : Rest(j)[m] = partial[j][k]
  BY <1>5, <1>7
<1> QED BY <1>6, <1>8, <1>9, <1>10, <1>11, <1>12

\* At most one partial index is not exhausted when the rest is copied: what is
\* copied is in order, and it is all that is left.
LEMMA CopyFacts ==
  ASSUME TypeOK, WordsInOrder, IsPosition(cursor), Cardinality(Live(cursor)) < 2
  PROVE  LET tail == FlattenSeq([j \in DOMAIN partial |-> Rest(j)])
         IN  /\ tail \in Seq(Entries) /\ Ascending(tail)
             /\ WordsIn(tail) = WordsAt(Ahead(partial, cursor)) \ stop
             /\ \A m \in DOMAIN tail :
                  \E e \in Ahead(partial, cursor) : tail[m] = partial[e[1]][e[2]]
<1> DEFINE rests == [j \in DOMAIN partial |-> Rest(j)]
           tail == FlattenSeq(rests)
           Words_(j) == {partial[j][k].word : k \in cursor[j]..Len(partial[j])}
<1>1. rests \in Seq(Seq(Entries)) /\ DOMAIN rests = DOMAIN partial
      /\ \A j \in DOMAIN partial : rests[j] = Rest(j)
  <2>1. rests \in [1..Len(partial) -> Seq(Entries)] /\ Len(partial) \in Nat
    BY PartialFacts, RestFacts
  <2>2. rests \in Seq(Seq(Entries))
    <3> HIDE DEF rests
    <3> QED BY <2>1
  <2> QED BY <2>2
<1> HIDE DEF rests
<1>2. \A j \in DOMAIN partial : cursor[j] \in Nat \ {0}
  BY PartialFacts DEF IsPosition
<1>3. /\ IsFiniteSet(Ahead(partial, cursor)) /\ Cardinality(Ahead(partial, cursor)) \in Nat
      /\ \A e : e \in Ahead(partial, cursor) <=>
           \E j \in DOMAIN partial : \E k \in cursor[j]..Len(partial[j]) : e = <<j, k>>
  <2>1. partial \in Seq(Seq(Entries))
    BY DEF TypeOK
  <2> QED BY <1>2, <2>1, AheadFacts
<1>4. WordsAt(Ahead(partial, cursor)) = UNION {Words_(j) : j \in DOMAIN partial}
  <2>1. ASSUME NEW w \in WordsAt(Ahead(partial, cursor))
        PROVE  \E j \in DOMAIN partial : w \in Words_(j)
    <3>1. PICK e \in Ahead(partial, cursor) : w = partial[e[1]][e[2]].word
      BY <2>1 DEF WordsAt
    <3>2. PICK j \in DOMAIN partial : \E k \in cursor[j]..Len(partial[j]) : e = <<j, k>>
      BY <1>3, <3>1
    <3> QED BY <3>1, <3>2
  <2>2. ASSUME NEW j \in DOMAIN partial, NEW k \in cursor[j]..Len(partial[j])
        PROVE  partial[j][k].word \in WordsAt(Ahead(partial, cursor))
    <3>1. <<j, k>> \in Ahead(partial, cursor)
      BY <1>3
    <3>2. <<j, k>>[1] = j /\ <<j, k>>[2] = k
      OBVIOUS
    <3> QED BY <3>1, <3>2, Zenon DEF WordsAt
  <2> QED BY <2>1, <2>2
<1>5. \A j \in DOMAIN partial : j \notin Live(cursor) => Words_(j) = {}
  <2>1. ASSUME NEW j \in DOMAIN partial, j \notin Live(cursor) PROVE Words_(j) = {}
    <3>1. ~(cursor[j] <= Len(partial[j])) /\ Len(partial[j]) \in Nat
      BY <2>1, PartialFacts DEF Live
    <3> QED BY <1>2, <3>1
  <2> QED BY <2>1
<1> HIDE DEF Words_
<1>6. Live(cursor) \subseteq DOMAIN partial /\ IsFiniteSet(Live(cursor))
  <2>1. Live(cursor) \subseteq DOMAIN partial
    BY DEF Live
  <2>2. IsFiniteSet(DOMAIN partial)
    BY PartialFacts, FS_Interval
  <2> QED BY <2>1, <2>2, FS_Subset
<1>7. CASE Live(cursor) = {}
  <2>1. \A j \in DOMAIN partial : Rest(j) = <<>>
    BY <1>7, RestFacts
  <2>2. tail = <<>>
    <3>1. CASE DOMAIN partial = {}
      <4>1. Len(rests) = 0
        BY <1>1, <3>1
      <4>2. rests = <<>>
        BY <1>1, <4>1, EmptySeq
      <4>3. FlattenSeq(rests) = rests
        BY <4>1 DEF FlattenSeq
      <4> QED BY <4>2, <4>3
    <3>2. CASE DOMAIN partial # {}
      <4>1. PICK j \in DOMAIN partial : TRUE
        BY <3>2
      <4>2. tail = rests[j]
        BY <1>1, <2>1, <4>1, FlattenOne
      <4> QED BY <1>1, <2>1, <4>2
    <3> QED BY <3>1, <3>2
  <2>3. WordsAt(Ahead(partial, cursor)) = {}
    BY <1>4, <1>5, <1>7
  <2>4. <<>> \in Seq(Entries) /\ DOMAIN <<>> = {}
    BY EmptySeq
  <2>5. Ascending(<<>>) /\ WordsIn(<<>>) = {}
    BY <2>4 DEF Ascending, WordsIn
  <2>6. \A m \in DOMAIN tail : \E e \in Ahead(partial, cursor) : tail[m] = partial[e[1]][e[2]]
    BY <2>2, <2>4
  <2> QED BY <2>2, <2>3, <2>4, <2>5, <2>6 DEF rests
<1>8. CASE Live(cursor) # {}
  <2>1. PICK j : Live(cursor) = {j}
    <3>1. Cardinality(Live(cursor)) = 1
      BY <1>6, <1>8, FS_CardinalityType, FS_EmptySet
    <3> QED BY <1>6, <3>1, FS_Singleton
  <2>2. j \in DOMAIN partial
    BY <1>6, <2>1
  <2>3. \A i \in DOMAIN partial \ {j} : Rest(i) = <<>> /\ Words_(i) = {}
    BY <1>5, <2>1, RestFacts
  <2>4. tail = Rest(j)
    <3>1. \A i \in DOMAIN rests \ {j} : rests[i] = <<>>
      BY <1>1, <2>3
    <3> QED BY <1>1, <2>2, <3>1, FlattenOne
  <2>5. WordsAt(Ahead(partial, cursor)) = Words_(j)
    BY <1>4, <2>2, <2>3
  <2>6. WordsIn(Rest(j)) = Words_(j) \ stop /\ Rest(j) \in Seq(Entries) /\ Ascending(Rest(j))
    BY <2>2, RestFacts DEF Words_
  <2>7. ASSUME NEW m \in DOMAIN Rest(j)
        PROVE  \E e \in Ahead(partial, cursor) : Rest(j)[m] = partial[e[1]][e[2]]
    <3>1. PICK k \in cursor[j]..Len(partial[j]) : Rest(j)[m] = partial[j][k]
      BY <2>2, RestFacts
    <3>2. <<j, k>> \in Ahead(partial, cursor)
      BY <1>3, <2>2
    <3>3. <<j, k>>[1] = j /\ <<j, k>>[2] = k
      OBVIOUS
    <3> QED BY <3>1, <3>2, <3>3, Zenon
  <2> QED BY <2>4, <2>5, <2>6, <2>7 DEF rests
<1> QED BY <1>7, <1>8

-----------------------------------------------------------------------------
(* The types, and the order of the words (BuildInv).                       *)

\* The entries from positions on, and their words
LEMMA AheadEntries ==
  ASSUME TypeOK, NEW at, IsPosition(at)
  PROVE  /\ IsFiniteSet(Ahead(partial, at)) /\ Cardinality(Ahead(partial, at)) \in Nat
         /\ \A j, k : <<j, k>> \in Ahead(partial, at) <=>
              j \in DOMAIN partial /\ k \in at[j]..Len(partial[j])
         /\ \A e \in Ahead(partial, at) :
              /\ e = <<e[1], e[2]>> /\ e[1] \in DOMAIN partial
              /\ at[e[1]] \in Nat \ {0}
              /\ e[2] \in at[e[1]]..Len(partial[e[1]])
              /\ e[2] \in 1..Len(partial[e[1]])
              /\ partial[e[1]][e[2]].word \in Words /\ partial[e[1]][e[2]].word \in Nat
<1>1. partial \in Seq(Seq(Entries))
  BY DEF TypeOK
<1>2. \A j \in DOMAIN partial : at[j] \in Nat \ {0}
  BY PartialFacts DEF IsPosition
<1>3. /\ IsFiniteSet(Ahead(partial, at)) /\ Cardinality(Ahead(partial, at)) \in Nat
      /\ \A e : e \in Ahead(partial, at) <=>
           \E j \in DOMAIN partial : \E k \in at[j]..Len(partial[j]) : e = <<j, k>>
  BY <1>1, <1>2, AheadFacts
<1>4. \A j, k : <<j, k>> \in Ahead(partial, at) <=>
        j \in DOMAIN partial /\ k \in at[j]..Len(partial[j])
  BY <1>3
<1>5. ASSUME NEW e \in Ahead(partial, at)
      PROVE  /\ e = <<e[1], e[2]>> /\ e[1] \in DOMAIN partial
             /\ at[e[1]] \in Nat \ {0}
             /\ e[2] \in at[e[1]]..Len(partial[e[1]])
             /\ e[2] \in 1..Len(partial[e[1]])
             /\ partial[e[1]][e[2]].word \in Words /\ partial[e[1]][e[2]].word \in Nat
  <2>1. PICK j \in DOMAIN partial : \E k \in at[j]..Len(partial[j]) : e = <<j, k>>
    BY <1>3
  <2>2. PICK k \in at[j]..Len(partial[j]) : e = <<j, k>>
    BY <2>1
  <2>3. k \in 1..Len(partial[j])
    BY <1>2, PartialFacts
  <2>4. partial[j][k].word \in Words /\ partial[j][k].word \in Nat
    BY <2>3, PartialFacts
  <2> QED BY <1>2, <2>2, <2>3, <2>4
<1> QED BY <1>3, <1>4, <1>5

\* What is ahead of the next word comes after it, and what is passed is that word.
LEMMA NextIsLess ==
  ASSUME TypeOK, WordsInOrder, NEW at, IsPosition(at), Live(at) # {}
  PROVE  /\ \A e \in Ahead(partial, Past(at, Same(at))) :
              WordAt(at, Least(at)) < partial[e[1]][e[2]].word
         /\ \A e \in Ahead(partial, at) \ Ahead(partial, Past(at, Same(at))) :
              partial[e[1]][e[2]].word = WordAt(at, Least(at))
         /\ <<Least(at), at[Least(at)]>> \in Ahead(partial, at)
                                              \ Ahead(partial, Past(at, Same(at)))
<1> DEFINE same == Same(at)
           word == WordAt(at, Least(at))
<1>1. /\ same \subseteq Live(at) /\ Live(at) \subseteq DOMAIN partial /\ Least(at) \in same
      /\ \A j \in Live(at) : WordAt(at, j) \in Nat /\ word <= WordAt(at, j)
  BY NextWordFacts
<1>2. /\ Ahead(partial, Past(at, same)) \subseteq Ahead(partial, at)
      /\ \A e \in Ahead(partial, at) :
           e \in Ahead(partial, Past(at, same)) <=> ~(e[1] \in same /\ e[2] = at[e[1]])
  BY <1>1, PastFacts
<1>3. \A j \in DOMAIN partial : j \in Live(at) <=> at[j] <= Len(partial[j])
  BY DEF Live
<1>4. ASSUME NEW e \in Ahead(partial, at), ~(e[1] \in same /\ e[2] = at[e[1]])
      PROVE  word < partial[e[1]][e[2]].word
  <2> DEFINE j == e[1]
             k == e[2]
  <2>1. j \in DOMAIN partial /\ at[j] \in Nat \ {0} /\ k \in at[j]..Len(partial[j])
        /\ k \in 1..Len(partial[j]) /\ partial[j][k].word \in Nat
    BY AheadEntries
  <2>2. j \in Live(at)
    BY <1>3, <2>1
  <2>3. word <= WordAt(at, j) /\ WordAt(at, j) \in Nat /\ word \in Nat
    BY <1>1, <2>2
  <2>4. WordAt(at, j) = partial[j][at[j]].word
    BY DEF WordAt
  <2>5. CASE k = at[j]
    <3>1. j \notin same
      BY <1>4, <2>5
    <3>2. WordAt(at, j) # word
      BY <2>2, <3>1 DEF Same
    <3> QED BY <2>3, <2>4, <2>5, <3>2
  <2>6. CASE k # at[j]
    <3>1. at[j] \in 1..Len(partial[j]) /\ at[j] < k
      BY <2>1, <2>6, PartialFacts
    <3>2. partial[j][at[j]].word < partial[j][k].word
      BY <2>1, <3>1, PartialFacts DEF WordsInOrder, Ascending
    <3> QED BY <2>1, <2>3, <2>4, <3>2
  <2> QED BY <2>5, <2>6
<1>5. ASSUME NEW e \in Ahead(partial, at), e[1] \in same /\ e[2] = at[e[1]]
      PROVE  partial[e[1]][e[2]].word = word
  BY <1>5 DEF Same, WordAt
<1>6. <<Least(at), at[Least(at)]>> \in Ahead(partial, at)
  <2>1. Least(at) \in DOMAIN partial /\ at[Least(at)] \in at[Least(at)]..Len(partial[Least(at)])
    <3>1. Least(at) \in DOMAIN partial /\ at[Least(at)] <= Len(partial[Least(at)])
      BY <1>1, <1>3
    <3> QED BY <3>1, PartialFacts DEF IsPosition
  <2> QED BY <2>1, AheadEntries
<1>7. <<Least(at), at[Least(at)]>> \notin Ahead(partial, Past(at, same))
  BY <1>1, <1>2, <1>6
<1> HIDE DEF same, word
<1> QED BY <1>2, <1>4, <1>5, <1>6, <1>7 DEF same, word

\* Only stop words are stepped over, and with no more than two partial indices
\* none of those stepped to is one.
LEMMA SkippedAhead ==
  ASSUME TypeOK, NEW at, IsPosition(at)
  PROVE  /\ Ahead(partial, Skipped(at)) \subseteq Ahead(partial, at)
         /\ \A e \in Ahead(partial, at) \ Ahead(partial, Skipped(at)) :
              partial[e[1]][e[2]].word \in stop
<1> DEFINE next == Skipped(at)
<1>1. /\ IsPosition(next)
      /\ \A j \in DOMAIN partial :
           /\ next[j] >= at[j]
           /\ \A k \in at[j]..(next[j] - 1) : partial[j][k].word \in stop
  BY SkippedFacts
<1> HIDE DEF next
<1>2. \A j \in DOMAIN partial :
        at[j] \in Nat \ {0} /\ next[j] \in Nat \ {0} /\ Len(partial[j]) \in Nat
  BY <1>1, PartialFacts DEF IsPosition
<1>3. ASSUME NEW e \in Ahead(partial, next) PROVE e \in Ahead(partial, at)
  <2>1. /\ e = <<e[1], e[2]>> /\ e[1] \in DOMAIN partial
        /\ e[2] \in next[e[1]]..Len(partial[e[1]])
    BY <1>1, AheadEntries
  <2>2. e[2] \in at[e[1]]..Len(partial[e[1]])
    BY <1>1, <1>2, <2>1
  <2> QED BY <2>1, <2>2, AheadEntries
<1>4. ASSUME NEW e \in Ahead(partial, at), e \notin Ahead(partial, next)
      PROVE  partial[e[1]][e[2]].word \in stop
  <2>1. /\ e = <<e[1], e[2]>> /\ e[1] \in DOMAIN partial
        /\ e[2] \in at[e[1]]..Len(partial[e[1]])
    BY AheadEntries
  <2>2. e[2] \notin next[e[1]]..Len(partial[e[1]])
    BY <1>1, <1>4, <2>1, AheadEntries
  <2>3. e[2] \in at[e[1]]..(next[e[1]] - 1)
    BY <1>2, <2>1, <2>2
  <2> QED BY <1>1, <2>1, <2>3
<1> QED BY <1>3, <1>4 DEF next

-----------------------------------------------------------------------------
\* BuildInv: at first
LEMMA BuildInit == Init => BuildInv
<1> SUFFICES ASSUME Init PROVE BuildInv
  OBVIOUS
<1>1. <<>> \in Seq(Entries) /\ <<>> \in Seq(Docs) /\ <<>> \in Seq(Seq(Entries)) /\ DOMAIN <<>> = {}
  BY EmptySeq
<1>2. Walks[1] \in Seq(Names) /\ 1 \in 1..Len(Walks)
  BY WalksAssumption
<1>3. Ascending(<<>>)
  BY <1>1 DEF Ascending
<1>4. TypeOK
  BY <1>1, <1>2, ConstantsAssumption DEF Init, TypeOK
<1>5. WordsInOrder
  BY <1>1, <1>3 DEF Init, WordsInOrder
<1>6. ListsInv
  BY <1>1 DEF Init, ListsInv
<1>7. OldIndexInv
  BY <1>1, <1>3, ConstantsAssumption DEF Init, OldIndexInv, NoIndex
<1>8. CountingInv /\ MergingInv
  BY <1>1 DEF Init, CountingInv, MergingInv
<1> QED BY <1>4, <1>5, <1>6, <1>7, <1>8 DEF BuildInv

\* A partial index more
LEMMA PartialWritten ==
  ASSUME BuildInv, NEW map, map \in [DOMAIN map -> Seq(FileEntries)], DOMAIN map \subseteq Words
  PROVE  /\ WritePartial(map) \in Seq(Seq(Entries))
         /\ \A j \in DOMAIN WritePartial(map) : Ascending(WritePartial(map)[j])
<1>1. WordIndex(map) \in Seq(Entries) /\ Ascending(WordIndex(map))
  BY WordIndexFacts
<1>2. partial \in Seq(Seq(Entries)) /\ \A j \in DOMAIN partial : Ascending(partial[j])
  BY DEF BuildInv, TypeOK, WordsInOrder
<1>3. /\ Append(partial, WordIndex(map)) \in Seq(Seq(Entries))
      /\ DOMAIN Append(partial, WordIndex(map)) = 1..(Len(partial) + 1)
      /\ DOMAIN partial = 1..Len(partial) /\ Len(partial) \in Nat
      /\ \A j \in 1..Len(partial) : Append(partial, WordIndex(map))[j] = partial[j]
      /\ Append(partial, WordIndex(map))[Len(partial) + 1] = WordIndex(map)
  BY <1>1, <1>2, AppendProperties
<1>4. ASSUME NEW j \in 1..(Len(partial) + 1) PROVE Ascending(Append(partial, WordIndex(map))[j])
  <2>1. j \in 1..Len(partial) \/ j = Len(partial) + 1
    BY <1>3
  <2> QED BY <1>1, <1>2, <1>3, <2>1
<1> QED BY <1>3, <1>4 DEF WritePartial

\* ... and after each step: a file's words collected
LEMMA BuildDoFile == BuildInv /\ DoFile => BuildInv'
<1> SUFFICES ASSUME BuildInv, DoFile PROVE BuildInv'
  OBVIOUS
<1> DEFINE doc == Head(todo).doc
           map == WithWordsOf(doc, Len(files'))
<1>1. /\ pc = "walk" /\ todo # <<>> /\ todo' = Tail(todo)
      /\ files' = Append(files, doc) /\ seen' = seen \cup {Head(todo)}
      /\ UNCHANGED <<text, run, pc, stop, cursor, unique, out, disk>>
  BY DEF DoFile
<1>2. \/ partial' = WritePartial(map) /\ words' = <<>>
      \/ words' = map /\ partial' = partial
  BY DEF DoFile
<1>3. TypeOK /\ ListsInv /\ WordsInOrder
  BY DEF BuildInv
<1>4. Head(todo) \in Names /\ Tail(todo) \in Seq(Names) /\ doc \in Docs
  <2>1. todo \in Seq(Names) /\ todo # <<>>
    BY <1>1, <1>3 DEF TypeOK
  <2>2. Head(todo) \in Names /\ Tail(todo) \in Seq(Names)
    BY <2>1, HeadTailProperties
  <2> QED BY <2>2 DEF Names
<1>5. files' \in Seq(Docs) /\ Len(files') \in Nat
  <2>1. files \in Seq(Docs)
    BY <1>3 DEF TypeOK
  <2>2. files' \in Seq(Docs)
    BY <1>1, <1>4, <2>1, AppendProperties
  <2> QED BY <2>2
<1>6. map \in [DOMAIN map -> Seq(FileEntries)] /\ DOMAIN map \subseteq Words
  BY <1>3, <1>4, <1>5, WithWordsFacts
<1> HIDE DEF map, doc
<1>7. /\ partial' \in Seq(Seq(Entries))
      /\ \A j \in DOMAIN partial' : Ascending(partial'[j])
  <2>1. CASE partial' = WritePartial(map)
    BY <1>6, <2>1, PartialWritten
  <2>2. CASE partial' = partial
    BY <1>3, <2>2 DEF TypeOK, WordsInOrder
  <2> QED BY <1>2, <2>1, <2>2
<1>8. words' \in [DOMAIN words' -> Seq(FileEntries)] /\ DOMAIN words' \subseteq Words
  <2>1. CASE words' = <<>>
    <3>1. <<>> \in [DOMAIN <<>> -> Seq(FileEntries)] /\ DOMAIN <<>> = {}
      OBVIOUS
    <3> QED BY <2>1, <3>1
  <2>2. CASE words' = map
    BY <1>6, <2>2
  <2> QED BY <1>2, <2>1, <2>2
<1>9. TypeOK'
  <2>1. seen' \subseteq Names
    BY <1>1, <1>3, <1>4 DEF TypeOK
  <2> QED BY <1>1, <1>3, <1>4, <1>5, <1>7, <1>8, <2>1 DEF TypeOK
<1>10. WordsInOrder'
  BY <1>1, <1>3, <1>7 DEF WordsInOrder
<1>11. ListsInv'
  BY <1>8 DEF ListsInv
<1>12. OldIndexInv'
  BY <1>1 DEF BuildInv, OldIndexInv
<1>13. CountingInv' /\ MergingInv'
  BY <1>1 DEF BuildInv, CountingInv, MergingInv
<1> QED BY <1>9, <1>10, <1>11, <1>12, <1>13 DEF BuildInv

\* ... all the words written at once
LEMMA BuildWriteFull == BuildInv /\ WriteFull => BuildInv'
<1> SUFFICES ASSUME BuildInv, WriteFull PROVE BuildInv'
  OBVIOUS
<1> DEFINE kept == Restrict(words, DOMAIN words \ FrequentWords)
<1>1. /\ pc = "walk" /\ partial = <<>> /\ pc' = "done"
      /\ stop' = stop \cup FrequentWords
      /\ words' = kept /\ unique' = Cardinality(DOMAIN kept) /\ out' = WordIndex(kept)
      /\ disk' = IF unique' = 0 THEN NoIndex ELSE Written(out', unique', stop')
      /\ UNCHANGED <<text, run, todo, files, seen, partial, cursor>>
  BY DEF WriteFull
<1>2. TypeOK /\ ListsInv /\ WordsInOrder
  BY DEF BuildInv
<1>3. kept \in [DOMAIN kept -> Seq(FileEntries)] /\ DOMAIN kept \subseteq Words
  <2>1. DOMAIN kept \subseteq DOMAIN words /\ \A w \in DOMAIN kept : kept[w] = words[w]
    BY DEF Restrict
  <2>2. kept = [w \in DOMAIN words \ FrequentWords |-> words[w]]
    BY DEF Restrict
  <2>3. DOMAIN words \subseteq Words /\ \A w \in DOMAIN words : words[w] \in Seq(FileEntries)
    BY <1>2 DEF TypeOK, ListsInv
  <2> QED BY <2>1, <2>2, <2>3
<1>4. out' \in Seq(Entries) /\ Ascending(out') /\ unique' \in Nat
  <2> HIDE DEF kept
  <2> QED BY <1>1, <1>3, WordIndexFacts
<1>5. stop' \subseteq Words
  BY <1>1, <1>2 DEF TypeOK, FrequentWords
<1>6. TypeOK'
  <2> HIDE DEF kept
  <2> QED BY <1>1, <1>2, <1>3, <1>4, <1>5 DEF TypeOK
<1>7. WordsInOrder'
  BY <1>1, <1>2, <1>4 DEF WordsInOrder
<1>8. ListsInv'
  <2> HIDE DEF kept
  <2> QED BY <1>1, <1>3 DEF ListsInv
<1>9. OldIndexInv'
  <2>1. <<>> \in Seq(Entries) /\ <<>> \in Seq(Docs) /\ DOMAIN <<>> = {}
    BY EmptySeq
  <2>2. Ascending(<<>>) /\ GivenStop \subseteq Words
    BY <2>1, ConstantsAssumption DEF Ascending
  <2>3. CASE disk' = NoIndex
    BY <2>1, <2>2, <2>3 DEF OldIndexInv, NoIndex
  <2>4. CASE disk' = Written(out', unique', stop')
    <3>1. disk'.words = out' /\ disk'.stop = stop' /\ disk'.files = files
      BY <2>4 DEF Written
    <3> QED BY <1>2, <1>4, <1>5, <3>1 DEF OldIndexInv, TypeOK
  <2> QED BY <1>1, <2>3, <2>4
<1>10. CountingInv' /\ MergingInv'
  BY <1>1 DEF CountingInv, MergingInv
<1> QED BY <1>6, <1>7, <1>8, <1>9, <1>10 DEF BuildInv

\* ... the partial indices opened
LEMMA BuildOpenPartial == BuildInv /\ OpenPartial => BuildInv'
<1> SUFFICES ASSUME BuildInv, OpenPartial PROVE BuildInv'
  OBVIOUS
<1>1. /\ pc = "walk" /\ pc' = "count" /\ words' = <<>>
      /\ partial' = (IF words = <<>> THEN partial ELSE WritePartial(words))
      /\ unique' = unique + Cardinality(AllEntries(partial'))
      /\ cursor' = Starts(partial')
      /\ UNCHANGED <<text, run, todo, files, seen, stop, out, disk>>
  BY DEF OpenPartial
<1>2. TypeOK /\ ListsInv /\ WordsInOrder
  BY DEF BuildInv
<1>3. /\ partial' \in Seq(Seq(Entries))
      /\ \A j \in DOMAIN partial' : Ascending(partial'[j])
  <2>1. CASE partial' = partial
    BY <1>2, <2>1 DEF TypeOK, WordsInOrder
  <2>2. CASE partial' = WritePartial(words)
    <3>1. words \in [DOMAIN words -> Seq(FileEntries)] /\ DOMAIN words \subseteq Words
      BY <1>2 DEF TypeOK, ListsInv
    <3> QED BY <2>2, <3>1, PartialWritten
  <2> QED BY <1>1, <2>1, <2>2
<1>4. /\ DOMAIN cursor' = DOMAIN partial'
      /\ \A j \in DOMAIN partial' : /\ cursor'[j] \in 1..(Len(partial'[j]) + 1)
                                    /\ cursor'[j] \in Nat \ {0}
  BY <1>1, <1>3, StartsFacts
<1>5. Cardinality(Ahead(partial', cursor')) \in Nat
  BY <1>3, <1>4, AheadFacts
<1>6. unique \in Nat /\ unique' = unique + Cardinality(Ahead(partial', cursor'))
  BY <1>1, <1>2 DEF TypeOK, AllEntries
<1>7. TypeOK'
  <2>1. DOMAIN words' = {}
    BY <1>1
  <2>2. unique' \in Nat
    BY <1>5, <1>6
  <2> QED BY <1>1, <1>2, <1>3, <1>4, <2>1, <2>2 DEF TypeOK
<1>8. WordsInOrder'
  BY <1>1, <1>2, <1>3 DEF WordsInOrder
<1>9. ListsInv'
  BY <1>1 DEF ListsInv
<1>10. OldIndexInv'
  BY <1>1 DEF BuildInv, OldIndexInv
<1>11. CountingInv'
  BY <1>5, <1>6 DEF CountingInv
<1>12. MergingInv'
  BY <1>1 DEF BuildInv, MergingInv
<1> QED BY <1>7, <1>8, <1>9, <1>10, <1>11, <1>12 DEF BuildInv

\* ... a word counted: no more is taken off than entries are passed
LEMMA BuildCountWord == BuildInv /\ CountWord => BuildInv'
<1> SUFFICES ASSUME BuildInv, CountWord PROVE BuildInv'
  OBVIOUS
<1> DEFINE same == Same(cursor)
           word == WordAt(cursor, Least(cursor))
           frequent == TooFrequent(Len(FilesOf(cursor, same)))
<1>1. /\ pc = "count" /\ Cardinality(Live(cursor)) >= 2
      /\ stop' = IF frequent THEN stop \cup {word} ELSE stop
      /\ unique' = unique - NotUnique(same, frequent)
      /\ cursor' = Past(cursor, same)
      /\ UNCHANGED <<text, run, pc, todo, files, seen, words, partial, out, disk>>
  BY DEF CountWord, walkVars
<1>2. TypeOK /\ ListsInv /\ WordsInOrder
  BY DEF BuildInv
<1>3. IsPosition(cursor) /\ Live(cursor) # {}
  <2>1. IsPosition(cursor)
    BY <1>1, <1>2 DEF TypeOK, IsPosition
  <2>2. Live(cursor) # {}
    BY <1>1, FS_EmptySet
  <2> QED BY <2>1, <2>2
<1>4. same \subseteq Live(cursor) /\ Cardinality(same) \in Nat \ {0} /\ word \in Words
  BY <1>2, <1>3, NextWordFacts
<1> HIDE DEF same, word, frequent
<1>5. /\ IsPosition(cursor') /\ Cardinality(Ahead(partial, cursor')) \in Nat
      /\ Cardinality(Ahead(partial, cursor)) \in Nat
      /\ Cardinality(Ahead(partial, cursor')) =
           Cardinality(Ahead(partial, cursor)) - Cardinality(same)
  BY <1>1, <1>2, <1>3, <1>4, PastFacts
<1>6. unique' \in Nat /\ unique' >= Cardinality(Ahead(partial, cursor'))
  <2>1. unique >= Cardinality(Ahead(partial, cursor)) /\ unique \in Nat
    BY <1>1, <1>2 DEF BuildInv, CountingInv, TypeOK
  <2>2. NotUnique(same, frequent) \in {Cardinality(same) - 1, Cardinality(same)}
    BY <1>4 DEF NotUnique
  <2>3. unique' = unique - (Cardinality(same) - 1) \/ unique' = unique - Cardinality(same)
    BY <1>1, <2>2
  <2> QED BY <1>4, <1>5, <2>1, <2>3
<1>7. TypeOK'
  <2>1. stop' \subseteq Words
    BY <1>1, <1>2, <1>4 DEF TypeOK
  <2>2. /\ DOMAIN cursor' = DOMAIN partial
        /\ \A j \in DOMAIN partial : cursor'[j] \in 1..(Len(partial[j]) + 1)
    BY <1>5 DEF IsPosition
  <2> QED BY <1>1, <1>2, <1>6, <2>1, <2>2 DEF TypeOK
<1>8. WordsInOrder' /\ ListsInv' /\ OldIndexInv'
  BY <1>1 DEF BuildInv, WordsInOrder, ListsInv, OldIndexInv
<1>9. CountingInv'
  BY <1>1, <1>6 DEF CountingInv
<1>10. MergingInv'
  BY <1>1 DEF BuildInv, MergingInv
<1> QED BY <1>7, <1>8, <1>9, <1>10 DEF BuildInv

\* ... the second phase started
LEMMA BuildCountDone == BuildInv /\ CountDone => BuildInv'
<1> SUFFICES ASSUME BuildInv, CountDone PROVE BuildInv'
  OBVIOUS
<1>1. /\ pc = "count" /\ pc' = "merge" /\ cursor' = Starts(partial)
      /\ UNCHANGED <<text, run, todo, files, seen, words, partial, stop, unique, out, disk>>
  BY DEF CountDone, walkVars
<1>2. TypeOK
  BY DEF BuildInv
<1>3. /\ DOMAIN cursor' = DOMAIN partial
      /\ \A j \in DOMAIN partial : cursor'[j] \in 1..(Len(partial[j]) + 1)
  BY <1>1, <1>2, StartsFacts DEF TypeOK
<1>4. TypeOK'
  BY <1>1, <1>2, <1>3 DEF TypeOK
<1>5. WordsInOrder' /\ ListsInv' /\ OldIndexInv'
  BY <1>1 DEF BuildInv, WordsInOrder, ListsInv, OldIndexInv
<1>6. out' = <<>>
  BY <1>1 DEF BuildInv, MergingInv
<1>7. CountingInv' /\ MergingInv'
  BY <1>1, <1>6 DEF CountingInv, MergingInv
<1> QED BY <1>4, <1>5, <1>7 DEF BuildInv

\* ... a word written: it comes before all that is ahead
LEMMA BuildMergeWord == BuildInv /\ MergeWord => BuildInv'
<1> SUFFICES ASSUME BuildInv, MergeWord PROVE BuildInv'
  OBVIOUS
<1> DEFINE at == Skipped(cursor)
           same == Same(at)
           word == WordAt(at, Least(at))
           entry == [word |-> word, files |-> FilesOf(at, same)]
<1>1. /\ pc = "merge" /\ Cardinality(Live(at)) >= 2
      /\ out' = Append(out, entry) /\ cursor' = Past(at, same)
      /\ UNCHANGED <<text, run, pc, todo, files, seen, words, partial, stop, unique, disk>>
  BY DEF MergeWord, walkVars
<1>2. TypeOK /\ WordsInOrder /\ IsPosition(cursor)
  BY <1>1 DEF BuildInv, TypeOK, IsPosition
<1>3. IsPosition(at) /\ Ahead(partial, at) \subseteq Ahead(partial, cursor)
  BY <1>2, SkippedFacts, SkippedAhead
<1>4. Live(at) # {}
  <2>1. ~(Cardinality({}) >= 2)
    BY FS_EmptySet
  <2>2. Cardinality(Live(at)) >= 2
    BY <1>1
  <2> HIDE DEF at
  <2> QED BY <2>1, <2>2
<1> HIDE DEF at
<1>5. /\ same \subseteq Live(at) /\ word \in Words
      /\ FilesOf(at, same) \in Seq(FileEntries)
  BY <1>2, <1>3, <1>4, NextWordFacts
<1>6. /\ \A e \in Ahead(partial, Past(at, same)) : word < partial[e[1]][e[2]].word
      /\ \E e \in Ahead(partial, at) : partial[e[1]][e[2]].word = word
  BY <1>2, <1>3, <1>4, NextIsLess
<1> HIDE DEF same, word
<1>7. /\ IsPosition(cursor') /\ Ahead(partial, cursor') \subseteq Ahead(partial, at)
  BY <1>1, <1>2, <1>3, <1>5, PastFacts
<1>8. entry \in Entries /\ entry.word = word
  BY <1>5 DEF Entries
<1> HIDE DEF entry
<1>9. \A m \in DOMAIN out, e \in Ahead(partial, cursor) : out[m].word < partial[e[1]][e[2]].word
  BY <1>1 DEF BuildInv, MergingInv
<1>10. \A m \in DOMAIN out : out[m].word < entry.word
  BY <1>3, <1>6, <1>8, <1>9
<1>11. /\ out \in Seq(Entries) /\ Ascending(out)
       /\ out' \in Seq(Entries) /\ Ascending(out')
  BY <1>1, <1>2, <1>8, <1>10, AscendingAppend DEF TypeOK, WordsInOrder
<1>12. TypeOK'
  <2>1. /\ DOMAIN cursor' = DOMAIN partial
        /\ \A j \in DOMAIN partial : cursor'[j] \in 1..(Len(partial[j]) + 1)
    BY <1>7 DEF IsPosition
  <2> QED BY <1>1, <1>2, <1>11, <2>1 DEF TypeOK
<1>13. WordsInOrder'
  BY <1>1, <1>2, <1>11 DEF WordsInOrder
<1>14. ListsInv' /\ OldIndexInv' /\ CountingInv'
  BY <1>1 DEF BuildInv, ListsInv, OldIndexInv, CountingInv
<1>15. MergingInv'
  <2>1. ASSUME NEW m \in DOMAIN out', NEW e \in Ahead(partial, cursor')
        PROVE  out'[m].word < partial[e[1]][e[2]].word
    <3>1. /\ DOMAIN out = 1..Len(out) /\ Len(out) \in Nat /\ DOMAIN out' = 1..(Len(out) + 1)
          /\ \A k \in 1..Len(out) : out'[k] = out[k]
          /\ out'[Len(out) + 1] = entry
      BY <1>1, <1>8, <1>11, AppendProperties
    <3>2. CASE m = Len(out) + 1
      BY <1>1, <1>6, <1>8, <3>1, <3>2
    <3>3. CASE m # Len(out) + 1
      <4>1. m \in DOMAIN out /\ out'[m] = out[m]
        BY <3>1, <3>3
      <4> QED BY <1>3, <1>7, <1>9, <4>1
    <3> QED BY <3>2, <3>3
  <2> QED BY <1>1, <2>1 DEF MergingInv
<1> QED BY <1>12, <1>13, <1>14, <1>15 DEF BuildInv

\* ... but one partial index left
LEMMA BuildMergeDone == BuildInv /\ MergeDone => BuildInv'
<1> SUFFICES ASSUME BuildInv, MergeDone PROVE BuildInv'
  OBVIOUS
<1>1. /\ pc = "merge" /\ pc' = "copy" /\ cursor' = Skipped(cursor)
      /\ Cardinality(Live(Skipped(cursor))) < 2
      /\ UNCHANGED <<text, run, todo, files, seen, words, partial, stop, unique, out, disk>>
  BY DEF MergeDone, walkVars
<1>2. TypeOK /\ IsPosition(cursor)
  BY <1>1 DEF BuildInv, TypeOK, IsPosition
<1>3. IsPosition(Skipped(cursor))
      /\ Ahead(partial, Skipped(cursor)) \subseteq Ahead(partial, cursor)
  BY <1>2, SkippedFacts, SkippedAhead
<1>4. TypeOK'
  <2>1. /\ DOMAIN cursor' = DOMAIN partial
        /\ \A j \in DOMAIN partial : cursor'[j] \in 1..(Len(partial[j]) + 1)
    BY <1>1, <1>3 DEF IsPosition
  <2> QED BY <1>1, <1>2, <2>1 DEF TypeOK
<1>5. WordsInOrder' /\ ListsInv' /\ OldIndexInv' /\ CountingInv'
  BY <1>1 DEF BuildInv, WordsInOrder, ListsInv, OldIndexInv, CountingInv
<1>6. MergingInv'
  <2>1. \A m \in DOMAIN out, e \in Ahead(partial, cursor) : out[m].word < partial[e[1]][e[2]].word
    BY <1>1 DEF BuildInv, MergingInv
  <2>2. Live(cursor)' = Live(Skipped(cursor))
    BY <1>1 DEF Live
  <2>3. Cardinality(Live(cursor))' < 2
    BY <1>1, <2>2
  <2> QED BY <1>1, <1>3, <2>1, <2>3 DEF MergingInv
<1> QED BY <1>4, <1>5, <1>6 DEF BuildInv

\* ... and that one copied
LEMMA BuildCopyRest == BuildInv /\ CopyRest => BuildInv'
<1> SUFFICES ASSUME BuildInv, CopyRest PROVE BuildInv'
  OBVIOUS
<1> DEFINE tail == FlattenSeq([j \in DOMAIN partial |-> Rest(j)])
<1>1. /\ pc = "copy" /\ pc' = "done" /\ out' = out \o tail
      /\ disk' = Written(out', unique, stop)
      /\ UNCHANGED <<text, run, todo, files, seen, words, partial, stop, unique>>
  BY DEF CopyRest, walkVars
<1>2. TypeOK /\ WordsInOrder /\ IsPosition(cursor) /\ Cardinality(Live(cursor)) < 2
  BY <1>1 DEF BuildInv, TypeOK, IsPosition, MergingInv
<1>3. tail \in Seq(Entries) /\ Ascending(tail)
      /\ WordsIn(tail) = WordsAt(Ahead(partial, cursor)) \ stop
  BY <1>2, CopyFacts
<1> HIDE DEF tail
<1>4. ASSUME NEW k \in DOMAIN out, NEW m \in DOMAIN tail PROVE out[k].word < tail[m].word
  <2>1. tail[m].word \in WordsAt(Ahead(partial, cursor))
    BY <1>3 DEF WordsIn
  <2>2. PICK e \in Ahead(partial, cursor) : tail[m].word = partial[e[1]][e[2]].word
    BY <2>1 DEF WordsAt
  <2> QED BY <1>1, <2>2 DEF BuildInv, MergingInv
<1>5. out' \in Seq(Entries) /\ Ascending(out')
  <2>1. out \in Seq(Entries) /\ Ascending(out)
    BY <1>2 DEF TypeOK, WordsInOrder
  <2> QED BY <1>1, <1>3, <1>4, <2>1, AscendingConcat
<1>6. TypeOK'
  BY <1>1, <1>2, <1>5 DEF TypeOK
<1>7. WordsInOrder'
  BY <1>1, <1>2, <1>5 DEF WordsInOrder
<1>8. ListsInv' /\ CountingInv' /\ MergingInv'
  BY <1>1 DEF BuildInv, ListsInv, CountingInv, MergingInv
<1>9. OldIndexInv'
  <2>1. disk'.words = out' /\ disk'.stop = stop /\ disk'.files = files
    BY <1>1 DEF Written
  <2> QED BY <1>2, <1>5, <2>1 DEF OldIndexInv, TypeOK
<1> QED BY <1>6, <1>7, <1>8, <1>9 DEF BuildInv

\* ... an incremental run started
LEMMA BuildRunAgain == BuildInv /\ RunAgain => BuildInv'
<1> SUFFICES ASSUME BuildInv, RunAgain PROVE BuildInv'
  OBVIOUS
<1>1. /\ pc = "done" /\ pc' = "walk" /\ run < Len(Walks) /\ run' = run + 1
      /\ todo' = Walks[run'] /\ files' = disk.files
      /\ seen' = {Reloaded(doc) : doc \in ToSet(disk.files)}
      /\ words' = <<>> /\ partial' = <<disk.words>> /\ stop' = disk.stop
      /\ unique' = 0 /\ out' = <<>> /\ UNCHANGED <<text, disk>>
  BY DEF RunAgain
<1>2. TypeOK /\ OldIndexInv
  BY DEF BuildInv
<1>3. run' \in 1..Len(Walks) /\ todo' \in Seq(Names)
  <2>1. run' \in 1..Len(Walks)
    BY <1>1, <1>2, WalksAssumption DEF TypeOK
  <2> QED BY <1>1, <2>1, WalksAssumption
<1>4. seen' \subseteq Names
  <2>1. \A k \in DOMAIN disk.files : disk.files[k] \in Docs
    BY <1>2 DEF OldIndexInv
  <2>2. \A doc \in ToSet(disk.files) : doc \in Docs
    BY <2>1 DEF ToSet
  <2>3. \A doc \in Docs : Reloaded(doc) \in Names
    BY DEF Reloaded, Names
  <2> QED BY <1>1, <2>2, <2>3
<1>5. /\ partial' \in Seq(Seq(Entries)) /\ DOMAIN partial' = {1} /\ partial'[1] = disk.words
  <2>1. disk.words \in Seq(Entries)
    BY <1>2 DEF OldIndexInv
  <2> QED BY <1>1, <2>1
<1>6. <<>> \in Seq(Entries) /\ DOMAIN <<>> = {}
  BY EmptySeq
<1>7. TypeOK'
  BY <1>1, <1>2, <1>3, <1>4, <1>5, <1>6 DEF TypeOK, OldIndexInv
<1>8. WordsInOrder'
  BY <1>1, <1>2, <1>5, <1>6 DEF WordsInOrder, OldIndexInv, Ascending
<1>9. ListsInv' /\ OldIndexInv' /\ CountingInv' /\ MergingInv'
  BY <1>1, <1>2, <1>6 DEF ListsInv, OldIndexInv, CountingInv, MergingInv
<1> QED BY <1>7, <1>8, <1>9 DEF BuildInv

\* Every step keeps BuildInv.
LEMMA BuildStep == BuildInv /\ [Next]_vars => BuildInv'
<1>1. CASE SkipSeen
  <2> SUFFICES ASSUME BuildInv PROVE BuildInv'
    OBVIOUS
  <2>1. Tail(todo) \in Seq(Names)
    BY <1>1, HeadTailProperties DEF SkipSeen, BuildInv, TypeOK
  <2> QED BY <1>1, <2>1 DEF SkipSeen, BuildInv, TypeOK, WordsInOrder, ListsInv, OldIndexInv,
      CountingInv, MergingInv, Live
<1>2. CASE UNCHANGED vars
  BY <1>2 DEF vars, BuildInv, TypeOK, WordsInOrder, ListsInv, OldIndexInv, CountingInv,
     MergingInv, Live
<1> QED BY <1>1, <1>2, BuildDoFile, BuildWriteFull, BuildOpenPartial, BuildCountWord,
    BuildCountDone, BuildMergeWord, BuildMergeDone, BuildCopyRest, BuildRunAgain DEF Next, Step

-----------------------------------------------------------------------------
(* The counts of the two phases (AgreeInv).                                *)

\* The words of partial indices
AllWords(indices) == UNION {WordsIn(indices[j]) : j \in DOMAIN indices}

\* ... are those at all the entries.
LEMMA AllWordsFacts ==
  ASSUME NEW indices \in Seq(Seq(Entries))
  PROVE  {indices[e[1]][e[2]].word : e \in AllEntries(indices)} = AllWords(indices)
<1>1. \A j \in DOMAIN indices : indices[j] \in Seq(Entries)
  OBVIOUS
<1>2. \A j \in DOMAIN indices : /\ Starts(indices)[j] = 1 /\ Starts(indices)[j] \in Nat \ {0}
                                /\ DOMAIN indices[j] = 1..Len(indices[j])
  BY <1>1, StartsFacts
<1>3. /\ IsFiniteSet(AllEntries(indices)) /\ Cardinality(AllEntries(indices)) \in Nat
      /\ \A e : e \in AllEntries(indices) <=>
           \E j \in DOMAIN indices : \E k \in Starts(indices)[j]..Len(indices[j]) : e = <<j, k>>
  BY <1>2, AheadFacts DEF AllEntries
<1>4. ASSUME NEW e \in AllEntries(indices)
      PROVE  indices[e[1]][e[2]].word \in AllWords(indices)
  <2>1. PICK j \in DOMAIN indices : \E k \in Starts(indices)[j]..Len(indices[j]) : e = <<j, k>>
    BY <1>3
  <2>2. PICK k \in 1..Len(indices[j]) : e = <<j, k>>
    BY <1>2, <2>1
  <2>3. indices[j][k].word \in WordsIn(indices[j])
    BY <1>2 DEF WordsIn
  <2> QED BY <2>2, <2>3 DEF AllWords
<1>5. ASSUME NEW j \in DOMAIN indices, NEW k \in DOMAIN indices[j]
      PROVE  \E e \in AllEntries(indices) : indices[e[1]][e[2]].word = indices[j][k].word
  <2>1. <<j, k>> \in AllEntries(indices)
    BY <1>2, <1>3
  <2>2. <<j, k>>[1] = j /\ <<j, k>>[2] = k
    OBVIOUS
  <2> QED BY <2>1, <2>2, Zenon
<1>6. ASSUME NEW w \in AllWords(indices)
      PROVE  w \in {indices[e[1]][e[2]].word : e \in AllEntries(indices)}
  <2>1. PICK j \in DOMAIN indices : w \in WordsIn(indices[j])
    BY DEF AllWords
  <2>2. PICK k \in DOMAIN indices[j] : w = indices[j][k].word
    BY <2>1 DEF WordsIn
  <2>3. PICK e \in AllEntries(indices) : indices[e[1]][e[2]].word = indices[j][k].word
    BY <1>5
  <2> QED BY <2>2, <2>3, Zenon
<1>7. ASSUME NEW w \in {indices[e[1]][e[2]].word : e \in AllEntries(indices)}
      PROVE  w \in AllWords(indices)
  <2>1. PICK e \in AllEntries(indices) : w = indices[e[1]][e[2]].word
    BY Zenon
  <2> QED BY <1>4, <2>1
<1> QED BY <1>6, <1>7, Zenon

\* A partial index more: its words more
LEMMA AllWordsAppend ==
  ASSUME NEW indices \in Seq(Seq(Entries)), NEW s \in Seq(Entries)
  PROVE  AllWords(Append(indices, s)) = AllWords(indices) \cup WordsIn(s)
<1>1. /\ DOMAIN Append(indices, s) = DOMAIN indices \cup {Len(indices) + 1}
      /\ \A j \in DOMAIN indices : Append(indices, s)[j] = indices[j]
      /\ Append(indices, s)[Len(indices) + 1] = s
  BY AppendProperties
<1> QED BY <1>1 DEF AllWords

\* All that is ahead, or not, is words of the partial indices.
LEMMA WordsAheadFacts ==
  ASSUME TypeOK, NEW at, IsPosition(at)
  PROVE  /\ Ahead(partial, at) \subseteq AllEntries(partial)
         /\ WordsAt(AllEntries(partial)) = AllWords(partial)
         /\ WordsAt(AllEntries(partial)) =
              WordsAt(AllEntries(partial) \ Ahead(partial, at)) \cup WordsAt(Ahead(partial, at))
         /\ WordsAt(AllEntries(partial)) \subseteq Words
         /\ IsFiniteSet(WordsAt(AllEntries(partial)))
<1>1. partial \in Seq(Seq(Entries))
  BY DEF TypeOK
<1>2. IsPosition(Starts(partial))
  BY <1>1, StartsFacts DEF IsPosition
<1>3. \A j \in DOMAIN partial : Starts(partial)[j] = 1
  BY <1>1, StartsFacts
<1>4. ASSUME NEW e \in Ahead(partial, at) PROVE e \in AllEntries(partial)
  <2>1. e = <<e[1], e[2]>> /\ e[1] \in DOMAIN partial /\ e[2] \in 1..Len(partial[e[1]])
    BY AheadEntries
  <2>2. <<e[1], e[2]>> \in AllEntries(partial)
    BY <1>2, <1>3, <2>1, AheadEntries DEF AllEntries
  <2> QED BY <2>1, <2>2
<1>5. WordsAt(AllEntries(partial)) = AllWords(partial)
  BY <1>1, AllWordsFacts DEF WordsAt
<1>6. WordsAt(AllEntries(partial)) \subseteq Words
  BY <1>2, AheadEntries DEF WordsAt, AllEntries
<1>7. IsFiniteSet(WordsAt(AllEntries(partial)))
  BY <1>6, ConstantsAssumption, FS_Subset
<1>8. WordsAt(AllEntries(partial)) =
        WordsAt(AllEntries(partial) \ Ahead(partial, at)) \cup WordsAt(Ahead(partial, at))
  BY <1>4 DEF WordsAt
<1> QED BY <1>4, <1>5, <1>6, <1>7, <1>8

\* All words that the second phase skips are stop words.
LEMMA SkippedWords ==
  ASSUME TypeOK, NEW at, IsPosition(at)
  PROVE  WordsAt(Ahead(partial, Skipped(at))) \ stop = WordsAt(Ahead(partial, at)) \ stop
BY SkippedAhead DEF WordsAt

\* The next word and those ahead of it
LEMMA NextWords ==
  ASSUME TypeOK, WordsInOrder, NEW at, IsPosition(at), Live(at) # {}
  PROVE  LET word == WordAt(at, Least(at))
             next == Ahead(partial, Past(at, Same(at)))
         IN  /\ WordsAt(Ahead(partial, at)) = WordsAt(next) \cup {word}
             /\ WordsAt(AllEntries(partial) \ next) =
                  WordsAt(AllEntries(partial) \ Ahead(partial, at)) \cup {word}
             /\ \A w \in WordsAt(next) : word < w
<1> DEFINE word == WordAt(at, Least(at))
           next == Ahead(partial, Past(at, Same(at)))
<1>1. /\ \A e \in next : word < partial[e[1]][e[2]].word
      /\ \A e \in Ahead(partial, at) \ next : partial[e[1]][e[2]].word = word
      /\ <<Least(at), at[Least(at)]>> \in Ahead(partial, at) \ next
  BY NextIsLess
<1>2. next \subseteq Ahead(partial, at) /\ Ahead(partial, at) \subseteq AllEntries(partial)
  <2>1. Same(at) \subseteq Live(at)
    BY NextWordFacts
  <2> QED BY <2>1, PastFacts, WordsAheadFacts
<1> HIDE DEF word, next
<1>3. \E e \in Ahead(partial, at) \ next : partial[e[1]][e[2]].word = word
  BY <1>1
<1>4. WordsAt(Ahead(partial, at)) = WordsAt(next) \cup {word}
  BY <1>1, <1>2, <1>3 DEF WordsAt
<1>5. WordsAt(AllEntries(partial) \ next) =
        WordsAt(AllEntries(partial) \ Ahead(partial, at)) \cup {word}
  BY <1>1, <1>2, <1>3 DEF WordsAt
<1>6. \A w \in WordsAt(next) : word < w
  BY <1>1 DEF WordsAt
<1> QED BY <1>4, <1>5, <1>6 DEF word, next

-----------------------------------------------------------------------------
\* AgreeInv: at first
LEMMA AgreeInit == Init => AgreeInv
<1> SUFFICES ASSUME Init PROVE AgreeInv
  OBVIOUS
<1>1. partial = <<>> /\ <<>> \in Seq(Seq(Entries)) /\ DOMAIN <<>> = {}
  BY EmptySeq DEF Init
<1>2. WordsAt(AllEntries(partial)) = {}
  <2>1. AllWords(partial) = {}
    BY <1>1 DEF AllWords
  <2> QED BY <1>1, <2>1, AllWordsFacts DEF WordsAt
<1>3. WordsIn(disk.words) = {}
  BY <1>1 DEF Init, NoIndex, WordsIn
<1> QED BY <1>1, <1>2, <1>3 DEF Init, AgreeInv, NoStopWordsInv, CountedInv, WrittenInv

\* The words in memory after another document, and those of the partial indices
\* when they have become another one
LEMMA AgreeDoFile == BuildInv /\ AgreeInv /\ DoFile => AgreeInv'
<1> SUFFICES ASSUME BuildInv, AgreeInv, DoFile PROVE AgreeInv'
  OBVIOUS
<1> DEFINE doc == Head(todo).doc
           map == WithWordsOf(doc, Len(files'))
<1>1. /\ pc = "walk" /\ pc' = "walk" /\ todo # <<>>
      /\ files' = Append(files, doc)
      /\ UNCHANGED <<stop, cursor, unique, out, disk>>
  BY DEF DoFile
<1>2. \/ partial' = WritePartial(map) /\ words' = <<>>
      \/ words' = map /\ partial' = partial
  BY DEF DoFile
<1>3. TypeOK /\ ListsInv
  BY DEF BuildInv
<1>4. doc \in Docs /\ Len(files') \in Nat
  <2>1. todo \in Seq(Names) /\ todo # <<>> /\ files \in Seq(Docs)
    BY <1>1, <1>3 DEF TypeOK
  <2>2. Head(todo) \in Names
    BY <2>1, HeadTailProperties
  <2>3. doc \in Docs
    BY <2>2 DEF Names
  <2>4. files' \in Seq(Docs)
    BY <1>1, <2>1, <2>3, AppendProperties
  <2> QED BY <2>3, <2>4
<1>5. /\ map \in [DOMAIN map -> Seq(FileEntries)] /\ DOMAIN map \subseteq Words
      /\ DOMAIN map \subseteq DOMAIN words \cup (Words \ stop)
  BY <1>3, <1>4, WithWordsFacts
<1> HIDE DEF map, doc
<1>6. WordsAt(AllEntries(partial)) \cap stop = {} /\ DOMAIN words \cap stop = {}
  BY <1>1 DEF AgreeInv, NoStopWordsInv
<1>7. DOMAIN map \cap stop = {}
  BY <1>5, <1>6
<1>8. DOMAIN words' \cap stop = {}
  <2>1. CASE words' = <<>>
    <3>1. DOMAIN <<>> = {}
      OBVIOUS
    <3> QED BY <2>1, <3>1
  <2> QED BY <1>2, <1>7, <2>1
<1>9. WordsAt(AllEntries(partial))' \cap stop = {}
  <2>1. CASE partial' = partial
    BY <1>6, <2>1 DEF WordsAt
  <2>2. CASE partial' = WritePartial(map)
    <3>1. /\ WordIndex(map) \in Seq(Entries) /\ WordsIn(WordIndex(map)) = DOMAIN map
      BY <1>5, WordIndexFacts
    <3>2. partial \in Seq(Seq(Entries)) /\ partial' \in Seq(Seq(Entries))
          /\ partial' = Append(partial, WordIndex(map))
      BY <1>3, <1>5, <2>2, PartialWritten DEF TypeOK, WritePartial
    <3>3. AllWords(partial') = AllWords(partial) \cup DOMAIN map
      BY <3>1, <3>2, AllWordsAppend
    <3>4. WordsAt(AllEntries(partial))' = AllWords(partial')
      BY <3>2, AllWordsFacts DEF WordsAt
    <3>5. WordsAt(AllEntries(partial)) = AllWords(partial)
      BY <3>2, AllWordsFacts DEF WordsAt
    <3> QED BY <1>6, <1>7, <3>3, <3>4, <3>5
  <2> QED BY <1>2, <2>1, <2>2
<1>10. NoStopWordsInv'
  BY <1>1, <1>8, <1>9 DEF AgreeInv, NoStopWordsInv
<1>11. CountedInv' /\ WrittenInv'
  BY <1>1 DEF AgreeInv, CountedInv, WrittenInv
<1> QED BY <1>10, <1>11 DEF AgreeInv

\* ... and when they have been written at once
LEMMA AgreeWriteFull == BuildInv /\ AgreeInv /\ WriteFull => AgreeInv'
<1> SUFFICES ASSUME BuildInv, AgreeInv, WriteFull PROVE AgreeInv'
  OBVIOUS
<1> DEFINE kept == Restrict(words, DOMAIN words \ FrequentWords)
<1>1. /\ pc = "walk" /\ pc' = "done"
      /\ stop' = stop \cup FrequentWords
      /\ unique' = Cardinality(DOMAIN kept) /\ out' = WordIndex(kept)
      /\ disk' = IF unique' = 0 THEN NoIndex ELSE Written(out', unique', stop')
  BY DEF WriteFull
<1>2. /\ DOMAIN kept = DOMAIN words \ FrequentWords
      /\ kept \in [DOMAIN kept -> Seq(FileEntries)] /\ DOMAIN kept \subseteq Words
  <2>1. DOMAIN words \subseteq Words /\ \A w \in DOMAIN words : words[w] \in Seq(FileEntries)
    BY DEF BuildInv, TypeOK, ListsInv
  <2>2. kept = [w \in DOMAIN words \ FrequentWords |-> words[w]]
    BY DEF Restrict
  <2> QED BY <2>1, <2>2
<1> HIDE DEF kept
<1>3. WordsIn(out') = DOMAIN words \ FrequentWords /\ Len(out') = unique'
  BY <1>1, <1>2, WordIndexFacts
<1>4. WordsIn(out') \cap stop' = {}
  <2>1. DOMAIN words \cap stop = {}
    BY <1>1 DEF AgreeInv, NoStopWordsInv
  <2> QED BY <1>1, <1>3, <2>1
<1>5. WordsIn(disk'.words) \cap disk'.stop = {}
  <2>1. CASE disk' = NoIndex
    <3>1. DOMAIN disk'.words = {}
      BY <2>1 DEF NoIndex
    <3> QED BY <3>1 DEF WordsIn
  <2>2. CASE disk' = Written(out', unique', stop')
    BY <1>4, <2>2 DEF Written
  <2> QED BY <1>1, <2>1, <2>2
<1> QED BY <1>1, <1>3, <1>5 DEF AgreeInv, NoStopWordsInv, CountedInv, WrittenInv

\* The count starts with all the entries, none of them passed.
LEMMA AgreeOpenPartial == BuildInv /\ AgreeInv /\ OpenPartial => AgreeInv'
<1> SUFFICES ASSUME BuildInv, AgreeInv, OpenPartial PROVE AgreeInv'
  OBVIOUS
<1>1. /\ pc = "walk" /\ pc' = "count"
      /\ partial' = (IF words = <<>> THEN partial ELSE WritePartial(words))
      /\ unique' = unique + Cardinality(AllEntries(partial'))
      /\ cursor' = Starts(partial')
      /\ UNCHANGED <<stop, disk>>
  BY DEF OpenPartial
<1>2. /\ unique = 0 /\ WordsAt(AllEntries(partial)) \cap stop = {} /\ DOMAIN words \cap stop = {}
      /\ WordsIn(disk.words) \cap disk.stop = {}
  BY <1>1 DEF AgreeInv, NoStopWordsInv, CountedInv
<1>3. partial \in Seq(Seq(Entries)) /\ DOMAIN words \subseteq Words
      /\ words \in [DOMAIN words -> Seq(FileEntries)]
  BY DEF BuildInv, TypeOK, ListsInv
<1>4. WordsAt(AllEntries(partial)) = AllWords(partial)
  BY <1>3, AllWordsFacts DEF WordsAt
<1>5. partial' \in Seq(Seq(Entries)) /\ AllWords(partial') \cap stop = {}
  <2>1. CASE partial' = partial
    BY <1>2, <1>3, <1>4, <2>1
  <2>2. CASE partial' = WritePartial(words)
    <3>1. /\ WordIndex(words) \in Seq(Entries) /\ WordsIn(WordIndex(words)) = DOMAIN words
      BY <1>3, WordIndexFacts
    <3>2. partial' \in Seq(Seq(Entries)) /\ partial' = Append(partial, WordIndex(words))
      BY <1>3, <2>2, PartialWritten DEF WritePartial
    <3>3. AllWords(partial') = AllWords(partial) \cup DOMAIN words
      BY <1>3, <3>1, <3>2, AllWordsAppend
    <3> QED BY <1>2, <1>4, <3>2, <3>3
  <2> QED BY <1>1, <2>1, <2>2
<1>6. WordsAt(AllEntries(partial))' = AllWords(partial')
  BY <1>5, AllWordsFacts DEF WordsAt
<1>7. Ahead(partial', cursor') = AllEntries(partial')
  BY <1>1 DEF AllEntries
<1>8. WordsAt(Ahead(partial, cursor))' \cap stop' = {}
  BY <1>1, <1>5, <1>6, <1>7 DEF WordsAt
<1>9. AllEntries(partial') \ Ahead(partial', cursor') = {}
  BY <1>7
<1>10. WordsAt(AllEntries(partial) \ Ahead(partial, cursor))' = {}
  BY <1>9 DEF WordsAt
<1>11. Cardinality(WordsAt(AllEntries(partial) \ Ahead(partial, cursor))' \ stop') = 0
  BY <1>10, FS_EmptySet
<1>12. Cardinality(Ahead(partial', cursor')) \in Nat
  <2>1. \A j \in DOMAIN partial' : cursor'[j] \in Nat \ {0}
    BY <1>1, <1>5, StartsFacts
  <2> QED BY <1>5, <2>1, AheadFacts
<1>13. unique' = Cardinality(WordsAt(AllEntries(partial) \ Ahead(partial, cursor))' \ stop')
                   + Cardinality(Ahead(partial', cursor'))
  BY <1>1, <1>2, <1>7, <1>11, <1>12
<1>14. CountedInv'
  BY <1>1, <1>8, <1>10, <1>13 DEF CountedInv
<1>15. NoStopWordsInv' /\ WrittenInv'
  BY <1>1, <1>2 DEF NoStopWordsInv, WrittenInv
<1> QED BY <1>14, <1>15 DEF AgreeInv

\* A word passed counts once, or not at all if it becomes a stop word.
LEMMA AgreeCountWord == BuildInv /\ AgreeInv /\ CountWord => AgreeInv'
<1> SUFFICES ASSUME BuildInv, AgreeInv, CountWord PROVE AgreeInv'
  OBVIOUS
<1> DEFINE same == Same(cursor)
           word == WordAt(cursor, Least(cursor))
           frequent == TooFrequent(Len(FilesOf(cursor, same)))
           ahead == Ahead(partial, cursor)
           next == Ahead(partial, cursor')
           all == AllEntries(partial)
<1>1. /\ pc = "count" /\ Cardinality(Live(cursor)) >= 2
      /\ stop' = IF frequent THEN stop \cup {word} ELSE stop
      /\ unique' = unique - NotUnique(same, frequent)
      /\ cursor' = Past(cursor, same)
      /\ UNCHANGED <<pc, partial, out, disk>>
  BY DEF CountWord, walkVars
<1>2. TypeOK /\ WordsInOrder /\ IsPosition(cursor) /\ Live(cursor) # {}
  <2>1. TypeOK /\ WordsInOrder
    BY DEF BuildInv
  <2>2. Live(cursor) # {}
    BY <1>1, FS_EmptySet
  <2> QED BY <1>1, <2>1, <2>2 DEF TypeOK, IsPosition
<1>3. same \subseteq Live(cursor) /\ Cardinality(same) \in Nat \ {0} /\ word \in Words
  BY <1>2, NextWordFacts
<1>4. /\ WordsAt(ahead) = WordsAt(next) \cup {word}
      /\ WordsAt(all \ next) = WordsAt(all \ ahead) \cup {word}
      /\ \A w \in WordsAt(next) : word < w
  BY <1>1, <1>2, NextWords
<1>5. /\ Cardinality(next) \in Nat /\ Cardinality(ahead) \in Nat
      /\ Cardinality(next) = Cardinality(ahead) - Cardinality(same)
  BY <1>1, <1>2, <1>3, PastFacts
<1>6. /\ WordsAt(ahead) \cap stop = {}
      /\ \A b \in WordsAt(all \ ahead), a \in WordsAt(ahead) : b < a
      /\ unique = Cardinality(WordsAt(all \ ahead) \ stop) + Cardinality(ahead)
  BY <1>1 DEF AgreeInv, CountedInv
<1>7. WordsAt(all) \subseteq Words /\ WordsAt(all) = WordsAt(all \ ahead) \cup WordsAt(ahead)
      /\ IsFiniteSet(WordsAt(all))
  BY <1>2, WordsAheadFacts
<1> HIDE DEF same, word, frequent, ahead, next, all
<1>8. word \notin stop /\ word \notin WordsAt(all \ ahead)
  <2>1. word \in WordsAt(ahead) /\ word \in Nat
    BY <1>3, <1>4, ConstantsAssumption
  <2> QED BY <1>6, <2>1
<1>9. WordsAt(next) \cap stop' = {}
  <2>1. word \notin WordsAt(next)
    <3>1. word \in Nat
      BY <1>3, ConstantsAssumption
    <3> QED BY <1>4, <3>1
  <2> QED BY <1>1, <1>4, <1>6, <2>1
<1>10. \A b \in WordsAt(all \ next), a \in WordsAt(next) : b < a
  BY <1>4, <1>6
<1>11. IsFiniteSet(WordsAt(all \ ahead) \ stop)
       /\ Cardinality(WordsAt(all \ ahead) \ stop) \in Nat
  <2>1. WordsAt(all \ ahead) \ stop \subseteq WordsAt(all)
    BY <1>7
  <2>2. IsFiniteSet(WordsAt(all \ ahead) \ stop)
    BY <1>7, <2>1, FS_Subset
  <2> QED BY <2>2, FS_CardinalityType
<1>12. unique' = Cardinality(WordsAt(all \ next) \ stop') + Cardinality(next)
  <2>1. CASE frequent
    <3>1. WordsAt(all \ next) \ stop' = WordsAt(all \ ahead) \ stop
      BY <1>1, <1>4, <1>8, <2>1
    <3>2. NotUnique(same, frequent) = Cardinality(same)
      BY <1>3, <2>1 DEF NotUnique
    <3>3. unique' = unique - Cardinality(same)
      BY <1>1, <3>2
    <3> DEFINE before == Cardinality(WordsAt(all \ ahead) \ stop)
               left == Cardinality(ahead)
               count == Cardinality(same)
    <3>4. /\ before \in Nat /\ left \in Nat /\ count \in Nat
          /\ unique = before + left /\ unique' = unique - count
          /\ Cardinality(next) = left - count
      BY <1>3, <1>5, <1>6, <1>11, <3>3
    <3> HIDE DEF before, left, count
    <3>5. unique' = before + (left - count)
      BY <3>4
    <3> QED BY <3>1, <3>4, <3>5 DEF before
  <2>2. CASE ~frequent
    <3>1. WordsAt(all \ next) \ stop' = (WordsAt(all \ ahead) \ stop) \cup {word}
      BY <1>1, <1>4, <1>8, <2>2
    <3>2. Cardinality(WordsAt(all \ next) \ stop') = Cardinality(WordsAt(all \ ahead) \ stop) + 1
      BY <1>8, <1>11, <3>1, FS_AddElement
    <3>3. NotUnique(same, frequent) = Cardinality(same) - 1
      BY <1>3, <2>2 DEF NotUnique
    <3>4. unique' = unique - (Cardinality(same) - 1)
      BY <1>1, <3>3
    <3> DEFINE before == Cardinality(WordsAt(all \ ahead) \ stop)
               left == Cardinality(ahead)
               count == Cardinality(same)
    <3>5. /\ before \in Nat /\ left \in Nat /\ count \in Nat
          /\ unique = before + left /\ unique' = unique - (count - 1)
          /\ Cardinality(next) = left - count
      BY <1>3, <1>5, <1>6, <1>11, <3>4
    <3> HIDE DEF before, left, count
    <3>6. unique' = (before + 1) + (left - count)
      BY <3>5
    <3> QED BY <3>2, <3>5, <3>6 DEF before
  <2> QED BY <2>1, <2>2
<1>13. WordsAt(Ahead(partial, cursor))' = WordsAt(next)
  BY <1>1 DEF WordsAt, next
<1>14. WordsAt(AllEntries(partial) \ Ahead(partial, cursor))' = WordsAt(all \ next)
  BY <1>1 DEF WordsAt, next, all
<1>15. Ahead(partial, cursor)' = next
  BY <1>1 DEF next
<1>16. CountedInv'
  <2>1. (WordsAt(Ahead(partial, cursor)) \cap stop = {})'
    BY <1>9, <1>13
  <2>2. (\A b \in WordsAt(AllEntries(partial) \ Ahead(partial, cursor)),
            a \in WordsAt(Ahead(partial, cursor)) : b < a)'
    BY <1>10, <1>13, <1>14
  <2>3. (unique = Cardinality(WordsAt(AllEntries(partial) \ Ahead(partial, cursor)) \ stop)
                    + Cardinality(Ahead(partial, cursor)))'
    BY <1>12, <1>14, <1>15
  <2> QED BY <1>1, <2>1, <2>2, <2>3 DEF CountedInv
<1>17. NoStopWordsInv' /\ WrittenInv'
  BY <1>1 DEF AgreeInv, NoStopWordsInv, WrittenInv
<1> QED BY <1>16, <1>17 DEF AgreeInv

\* With at most one partial index not exhausted, there are as many words ahead as
\* entries.
LEMMA LastOnesCount ==
  ASSUME TypeOK, WordsInOrder, IsPosition(cursor), Cardinality(Live(cursor)) < 2
  PROVE  Cardinality(WordsAt(Ahead(partial, cursor))) = Cardinality(Ahead(partial, cursor))
<1> DEFINE ahead == Ahead(partial, cursor)
           f == [e \in ahead |-> partial[e[1]][e[2]].word]
<1>1. IsFiniteSet(Live(cursor)) /\ Live(cursor) \subseteq DOMAIN partial
  <2>1. Live(cursor) \subseteq DOMAIN partial
    BY DEF Live
  <2>2. IsFiniteSet(DOMAIN partial)
    BY PartialFacts, FS_Interval
  <2> QED BY <2>1, <2>2, FS_Subset
<1>2. ASSUME NEW i \in Live(cursor), NEW j \in Live(cursor) PROVE i = j
  <2>1. Cardinality(Live(cursor)) = 1
    BY <1>1, <1>2, FS_CardinalityType, FS_EmptySet
  <2>2. PICK k : Live(cursor) = {k}
    BY <1>1, <2>1, FS_Singleton
  <2> QED BY <2>2
<1>3. ASSUME NEW d \in ahead, NEW e \in ahead,
             partial[d[1]][d[2]].word = partial[e[1]][e[2]].word
      PROVE  d = e
  <2>1. /\ d = <<d[1], d[2]>> /\ d[1] \in DOMAIN partial /\ d[2] \in 1..Len(partial[d[1]])
        /\ d[2] \in cursor[d[1]]..Len(partial[d[1]]) /\ cursor[d[1]] \in Nat
        /\ partial[d[1]][d[2]].word \in Nat
    BY AheadEntries
  <2>2. /\ e = <<e[1], e[2]>> /\ e[1] \in DOMAIN partial /\ e[2] \in 1..Len(partial[e[1]])
        /\ e[2] \in cursor[e[1]]..Len(partial[e[1]]) /\ cursor[e[1]] \in Nat
        /\ partial[e[1]][e[2]].word \in Nat
    BY AheadEntries
  <2>3. d[1] \in Live(cursor) /\ e[1] \in Live(cursor)
    BY <2>1, <2>2, PartialFacts DEF Live
  <2>4. d[1] = e[1]
    BY <1>2, <2>3
  <2>5. Ascending(partial[d[1]]) /\ DOMAIN partial[d[1]] = 1..Len(partial[d[1]])
    BY <2>1, PartialFacts DEF WordsInOrder
  <2>6. ~(d[2] < e[2]) /\ ~(e[2] < d[2])
    <3>1. d[2] < e[2] => partial[d[1]][d[2]].word < partial[d[1]][e[2]].word
      BY <2>1, <2>2, <2>4, <2>5 DEF Ascending
    <3>2. e[2] < d[2] => partial[d[1]][e[2]].word < partial[d[1]][d[2]].word
      BY <2>1, <2>2, <2>4, <2>5 DEF Ascending
    <3> QED BY <1>3, <2>1, <2>2, <2>4, <3>1, <3>2
  <2>7. d[2] = e[2]
    BY <2>1, <2>2, <2>6
  <2> QED BY <2>1, <2>2, <2>4, <2>7
<1>4. IsFiniteSet(ahead)
  BY AheadEntries
<1>5. DOMAIN f = ahead /\ f = [e \in DOMAIN f |-> f[e]] /\ {f[e] : e \in DOMAIN f} = WordsAt(ahead)
  <2> HIDE DEF ahead
  <2> QED BY DEF WordsAt
<1>6. IsInjective(f)
  <2> HIDE DEF ahead
  <2> QED BY <1>3 DEF IsInjective
<1> HIDE DEF f
<1>7. Cardinality(WordsAt(ahead)) = Cardinality(ahead)
  <2> HIDE DEF ahead
  <2> QED BY <1>4, <1>5, <1>6, FiniteRange
<1> QED BY <1>7

\* At the end of the first phase each word counts once that is no stop word.
LEMMA AgreeCountDone == BuildInv /\ AgreeInv /\ CountDone => AgreeInv'
<1> SUFFICES ASSUME BuildInv, AgreeInv, CountDone PROVE AgreeInv'
  OBVIOUS
<1> DEFINE ahead == Ahead(partial, cursor)
           all == AllEntries(partial)
<1>1. /\ pc = "count" /\ pc' = "merge" /\ cursor' = Starts(partial)
      /\ Cardinality(Live(cursor)) < 2
      /\ UNCHANGED <<partial, stop, unique, out, disk>>
  BY DEF CountDone, walkVars
<1>2. TypeOK /\ WordsInOrder /\ IsPosition(cursor) /\ out = <<>>
  BY <1>1 DEF BuildInv, TypeOK, IsPosition, MergingInv
<1>3. /\ WordsAt(ahead) \cap stop = {}
      /\ \A b \in WordsAt(all \ ahead), a \in WordsAt(ahead) : b < a
      /\ unique = Cardinality(WordsAt(all \ ahead) \ stop) + Cardinality(ahead)
  BY <1>1 DEF AgreeInv, CountedInv
<1>4. WordsAt(all) \subseteq Words /\ WordsAt(all) = WordsAt(all \ ahead) \cup WordsAt(ahead)
      /\ IsFiniteSet(WordsAt(all))
  BY <1>2, WordsAheadFacts
<1>5. Cardinality(WordsAt(ahead)) = Cardinality(ahead)
  BY <1>1, <1>2, LastOnesCount
<1> HIDE DEF ahead
<1>6. unique = Cardinality(WordsAt(all) \ stop)
  <2> HIDE DEF all
  <2> DEFINE B == WordsAt(all \ ahead) \ stop
             A == WordsAt(ahead)
  <2>1. WordsAt(all) \ stop = B \cup A /\ B \subseteq WordsAt(all) /\ A \subseteq WordsAt(all)
    BY <1>3, <1>4
  <2>2. B \cap A = {}
    <3> SUFFICES ASSUME NEW w \in A, w \in WordsAt(all \ ahead) PROVE FALSE
      OBVIOUS
    <3>1. w \in Nat
      BY <1>4, <2>1, ConstantsAssumption
    <3>2. w < w
      BY <1>3
    <3> QED BY <3>1, <3>2
  <2>3. IsFiniteSet(B) /\ IsFiniteSet(A)
    BY <1>4, <2>1, FS_Subset
  <2> HIDE DEF A, B
  <2>4. Cardinality(B \cup A) = Cardinality(B) + Cardinality(A) - Cardinality(B \cap A)
    BY <2>3, FS_Union
  <2>5. Cardinality(B \cap A) = 0 /\ Cardinality(A) \in Nat /\ Cardinality(B) \in Nat
    BY <2>2, <2>3, FS_EmptySet, FS_CardinalityType
  <2>6. Cardinality(WordsAt(all) \ stop) = Cardinality(B) + Cardinality(A)
    <3>1. Cardinality(B \cup A) = Cardinality(B) + Cardinality(A)
      BY <2>4, <2>5
    <3> QED BY <2>1, <3>1
  <2> QED BY <1>3, <1>5, <2>6 DEF A, B
<1>7. Ahead(partial', cursor') = all
  BY <1>1 DEF AllEntries
<1>8. WordsIn(out') = {}
  <2>1. DOMAIN out' = {}
    BY <1>1, <1>2
  <2> QED BY <2>1 DEF WordsIn
<1>9. WordsAt(AllEntries(partial))' = WordsAt(all)
  BY <1>1 DEF WordsAt
<1>10. WordsAt(Ahead(partial, cursor))' = WordsAt(all)
  BY <1>1, <1>7 DEF WordsAt
<1>11. WordsIn(out)' = {}
  BY <1>8 DEF WordsIn
<1> HIDE DEF all
<1>12. WrittenInv'
  BY <1>1, <1>6, <1>9, <1>10, <1>11 DEF WrittenInv
<1>13. NoStopWordsInv' /\ CountedInv'
  BY <1>1 DEF AgreeInv, NoStopWordsInv, CountedInv
<1> QED BY <1>12, <1>13 DEF AgreeInv

\* A word is written that is no stop word, if no more than two are merged.
LEMMA AgreeMergeWord == BuildInv /\ AgreeInv /\ AtMostTwo /\ MergeWord => AgreeInv'
<1> SUFFICES ASSUME BuildInv, AgreeInv, AtMostTwo, MergeWord PROVE AgreeInv'
  OBVIOUS
<1> DEFINE at == Skipped(cursor)
           same == Same(at)
           word == WordAt(at, Least(at))
           entry == [word |-> word, files |-> FilesOf(at, same)]
           next == Ahead(partial, Past(at, same))
<1>1. /\ pc = "merge" /\ Cardinality(Live(at)) >= 2
      /\ out' = Append(out, entry) /\ cursor' = Past(at, same)
      /\ UNCHANGED <<pc, partial, stop, unique, disk>>
  BY DEF MergeWord, walkVars
<1>2. TypeOK /\ WordsInOrder /\ IsPosition(cursor) /\ out \in Seq(Entries)
  BY <1>1 DEF BuildInv, TypeOK, IsPosition
<1>3. IsPosition(at)
  BY <1>2, SkippedFacts
<1>4. Live(at) # {}
  <2>1. ~(Cardinality({}) >= 2)
    BY FS_EmptySet
  <2>2. Cardinality(Live(at)) >= 2
    BY <1>1
  <2> HIDE DEF at
  <2> QED BY <2>1, <2>2
<1>5. WordsAt(Ahead(partial, at)) \ stop = WordsAt(Ahead(partial, cursor)) \ stop
  BY <1>2, SkippedWords
<1>6. \A j \in DOMAIN partial : at[j] <= Len(partial[j]) => partial[j][at[j]].word \notin stop
  BY <1>2, SkippedFacts DEF AtMostTwo
<1> HIDE DEF at
<1>7. Least(at) \in Live(at) /\ word \in Words /\ FilesOf(at, same) \in Seq(FileEntries)
  BY <1>2, <1>3, <1>4, NextWordFacts
<1>8. word \notin stop
  BY <1>6, <1>7 DEF Live, WordAt
<1>9. WordsAt(Ahead(partial, at)) = WordsAt(next) \cup {word}
  BY <1>2, <1>3, <1>4, NextWords
<1> HIDE DEF same, word
<1>10. entry \in Entries /\ entry.word = word
  BY <1>7 DEF Entries
<1> HIDE DEF entry
<1>11. WordsIn(out') = WordsIn(out) \cup {word}
  <2>1. /\ DOMAIN out' = DOMAIN out \cup {Len(out) + 1}
        /\ \A k \in DOMAIN out : out'[k] = out[k]
        /\ out'[Len(out) + 1] = entry
    BY <1>1, <1>2, <1>10, AppendProperties
  <2> QED BY <1>10, <2>1 DEF WordsIn
<1>12. /\ unique = Cardinality(WordsAt(AllEntries(partial)) \ stop)
       /\ WordsIn(out) \cup (WordsAt(Ahead(partial, cursor)) \ stop)
            = WordsAt(AllEntries(partial)) \ stop
  BY <1>1 DEF AgreeInv, WrittenInv
<1>13. WordsIn(out') \cup (WordsAt(next) \ stop) = WordsAt(AllEntries(partial)) \ stop
  BY <1>5, <1>8, <1>9, <1>11, <1>12
<1>14. WordsAt(Ahead(partial, cursor))' = WordsAt(next)
  BY <1>1 DEF WordsAt
<1>15. WordsAt(AllEntries(partial))' = WordsAt(AllEntries(partial))
  BY <1>1 DEF WordsAt
<1>16. WordsIn(out)' = WordsIn(out')
  BY DEF WordsIn
<1> HIDE DEF next
<1>17. WrittenInv'
  BY <1>1, <1>12, <1>13, <1>14, <1>15, <1>16 DEF WrittenInv
<1>18. NoStopWordsInv' /\ CountedInv'
  BY <1>1 DEF AgreeInv, NoStopWordsInv, CountedInv
<1> QED BY <1>17, <1>18 DEF AgreeInv

\* What is stepped over are stop words.
LEMMA AgreeMergeDone == BuildInv /\ AgreeInv /\ MergeDone => AgreeInv'
<1> SUFFICES ASSUME BuildInv, AgreeInv, MergeDone PROVE AgreeInv'
  OBVIOUS
<1>1. /\ pc = "merge" /\ pc' = "copy" /\ cursor' = Skipped(cursor)
      /\ UNCHANGED <<partial, stop, unique, out, disk>>
  BY DEF MergeDone, walkVars
<1>2. TypeOK /\ IsPosition(cursor)
  BY <1>1 DEF BuildInv, TypeOK, IsPosition
<1>3. WordsAt(Ahead(partial, Skipped(cursor))) \ stop = WordsAt(Ahead(partial, cursor)) \ stop
  BY <1>2, SkippedWords
<1>4. WordsAt(Ahead(partial, cursor))' = WordsAt(Ahead(partial, Skipped(cursor)))
  BY <1>1 DEF WordsAt
<1>5. WordsAt(AllEntries(partial))' = WordsAt(AllEntries(partial)) /\ WordsIn(out)' = WordsIn(out)
  BY <1>1 DEF WordsAt, WordsIn
<1>6. WrittenInv'
  BY <1>1, <1>3, <1>4, <1>5 DEF AgreeInv, WrittenInv
<1>7. NoStopWordsInv' /\ CountedInv'
  BY <1>1 DEF AgreeInv, NoStopWordsInv, CountedInv
<1> QED BY <1>6, <1>7 DEF AgreeInv

\* Then all the words that count are written.
LEMMA AgreeCopyRest == BuildInv /\ AgreeInv /\ CopyRest => AgreeInv'
<1> SUFFICES ASSUME BuildInv, AgreeInv, CopyRest PROVE AgreeInv'
  OBVIOUS
<1> DEFINE tail == FlattenSeq([j \in DOMAIN partial |-> Rest(j)])
<1>1. /\ pc = "copy" /\ pc' = "done" /\ out' = out \o tail
      /\ disk' = Written(out', unique, stop)
      /\ UNCHANGED <<partial, stop, unique>>
  BY DEF CopyRest, walkVars
<1>2. /\ TypeOK /\ WordsInOrder /\ IsPosition(cursor) /\ Cardinality(Live(cursor)) < 2
      /\ out \in Seq(Entries) /\ Ascending(out)
  BY <1>1 DEF BuildInv, TypeOK, WordsInOrder, IsPosition, MergingInv
<1>3. tail \in Seq(Entries) /\ Ascending(tail)
      /\ WordsIn(tail) = WordsAt(Ahead(partial, cursor)) \ stop
  BY <1>2, CopyFacts
<1> HIDE DEF tail
<1>4. ASSUME NEW k \in DOMAIN out, NEW m \in DOMAIN tail PROVE out[k].word < tail[m].word
  <2>1. tail[m].word \in WordsAt(Ahead(partial, cursor))
    BY <1>3 DEF WordsIn
  <2>2. PICK e \in Ahead(partial, cursor) : tail[m].word = partial[e[1]][e[2]].word
    BY <2>1 DEF WordsAt
  <2> QED BY <1>1, <2>2 DEF BuildInv, MergingInv
<1>5. /\ out' \in Seq(Entries) /\ Ascending(out')
      /\ WordsIn(out') = WordsIn(out) \cup WordsIn(tail)
  BY <1>1, <1>2, <1>3, <1>4, AscendingConcat
<1>6. /\ unique = Cardinality(WordsAt(AllEntries(partial)) \ stop)
      /\ WordsIn(out) \cup (WordsAt(Ahead(partial, cursor)) \ stop)
           = WordsAt(AllEntries(partial)) \ stop
  BY <1>1 DEF AgreeInv, WrittenInv
<1>7. WordsIn(out') = WordsAt(AllEntries(partial)) \ stop
  BY <1>3, <1>5, <1>6
<1>8. Len(out') = unique'
  <2>1. Cardinality(WordsIn(out')) = Len(out')
    BY <1>5, AscendingCount
  <2> QED BY <1>1, <1>6, <1>7, <2>1
<1>9. WordsIn(disk'.words) \cap disk'.stop = {}
  BY <1>1, <1>7 DEF Written
<1> QED BY <1>1, <1>8, <1>9 DEF AgreeInv, NoStopWordsInv, CountedInv, WrittenInv

\* An incremental run starts from an index without stop words.
LEMMA AgreeRunAgain == BuildInv /\ AgreeInv /\ RunAgain => AgreeInv'
<1> SUFFICES ASSUME BuildInv, AgreeInv, RunAgain PROVE AgreeInv'
  OBVIOUS
<1>1. /\ pc' = "walk" /\ words' = <<>> /\ partial' = <<disk.words>> /\ stop' = disk.stop
      /\ unique' = 0 /\ UNCHANGED disk
  BY DEF RunAgain
<1>2. disk.words \in Seq(Entries) /\ WordsIn(disk.words) \cap disk.stop = {}
  BY DEF BuildInv, OldIndexInv, AgreeInv, NoStopWordsInv
<1>3. partial' \in Seq(Seq(Entries)) /\ DOMAIN partial' = {1} /\ partial'[1] = disk.words
  BY <1>1, <1>2
<1>4. WordsAt(AllEntries(partial))' = WordsIn(disk.words)
  <2>1. AllWords(partial') = WordsIn(disk.words)
    BY <1>3 DEF AllWords
  <2> QED BY <1>3, <2>1, AllWordsFacts DEF WordsAt
<1>5. DOMAIN words' = {}
  BY <1>1
<1> QED BY <1>1, <1>2, <1>4, <1>5 DEF AgreeInv, NoStopWordsInv, CountedInv, WrittenInv

\* Every step keeps AgreeInv, if no more than two partial indices are merged.
LEMMA AgreeStep == BuildInv /\ AgreeInv /\ AtMostTwo /\ [Next]_vars => AgreeInv'
<1>1. CASE SkipSeen \/ UNCHANGED vars
  <2>1. UNCHANGED <<pc, words, partial, stop, cursor, unique, out, disk>>
    BY <1>1 DEF SkipSeen, vars
  <2> SUFFICES ASSUME AgreeInv PROVE AgreeInv'
    OBVIOUS
  <2>2. /\ WordsAt(AllEntries(partial))' = WordsAt(AllEntries(partial))
        /\ WordsAt(Ahead(partial, cursor))' = WordsAt(Ahead(partial, cursor))
        /\ WordsAt(AllEntries(partial) \ Ahead(partial, cursor))'
             = WordsAt(AllEntries(partial) \ Ahead(partial, cursor))
        /\ Ahead(partial, cursor)' = Ahead(partial, cursor)
        /\ WordsIn(out)' = WordsIn(out) /\ WordsIn(disk.words)' = WordsIn(disk.words)
    BY <2>1 DEF WordsAt, WordsIn
  <2>3. NoStopWordsInv'
    BY <2>1, <2>2 DEF AgreeInv, NoStopWordsInv
  <2>4. CountedInv'
    BY <2>1, <2>2 DEF AgreeInv, CountedInv
  <2>5. WrittenInv'
    BY <2>1, <2>2 DEF AgreeInv, WrittenInv
  <2> QED BY <2>3, <2>4, <2>5 DEF AgreeInv
<1> QED BY <1>1, AgreeDoFile, AgreeWriteFull, AgreeOpenPartial, AgreeCountWord,
    AgreeCountDone, AgreeMergeWord, AgreeMergeDone, AgreeCopyRest, AgreeRunAgain DEF Next, Step

-----------------------------------------------------------------------------
\* Any number of partial indices: the types, and no position out of range.
THEOREM BuildTypes == Spec => []TypeOK
<1>1. BuildInv => TypeOK
  BY DEF BuildInv
<1> QED BY <1>1, BuildInit, BuildStep, PTL DEF Spec

\* The words of every index are in order, each is there once.
THEOREM IndexInOrder == Spec => []WordsInOrder
<1>1. BuildInv => WordsInOrder
  BY DEF BuildInv
<1> QED BY <1>1, BuildInit, BuildStep, PTL DEF Spec

\* With no more than two partial indices at any time, the second phase writes just
\* as many words as the first has counted.
THEOREM OffsetsAgree == Spec /\ []AtMostTwo => []CountsAgree
<1>1. BuildInv /\ AgreeInv => CountsAgree
  <2> SUFFICES ASSUME BuildInv, AgreeInv PROVE CountsAgree
    OBVIOUS
  <2>1. ASSUME pc \in {"merge", "copy"} PROVE Len(out) <= unique
    <3> DEFINE counted == WordsAt(AllEntries(partial)) \ stop
    <3>1. unique = Cardinality(counted) /\ WordsIn(out) \subseteq counted
      BY <2>1 DEF AgreeInv, WrittenInv
    <3>2. IsFiniteSet(counted)
      <4>1. TypeOK /\ IsPosition(cursor)
        BY <2>1 DEF BuildInv, TypeOK, IsPosition
      <4>2. IsFiniteSet(WordsAt(AllEntries(partial)))
        BY <4>1, WordsAheadFacts
      <4> QED BY <4>2, FS_Difference
    <3>3. out \in Seq(Entries) /\ Ascending(out)
      BY DEF BuildInv, TypeOK, WordsInOrder
    <3>4. Len(out) = Cardinality(WordsIn(out))
      BY <3>3, AscendingCount
    <3> HIDE DEF counted
    <3>5. Cardinality(WordsIn(out)) <= Cardinality(counted)
      BY <3>1, <3>2, FS_Subset
    <3> QED BY <3>1, <3>4, <3>5
  <2> QED BY <2>1 DEF CountsAgree, AgreeInv, WrittenInv
<1> QED BY <1>1, BuildInit, BuildStep, AgreeInit, AgreeStep, PTL DEF Spec

-----------------------------------------------------------------------------
(* Lists and indices of stretches of files.                                *)

\* The list of one stretch and that of the next are the list of both.
LEMMA ListConcat ==
  ASSUME NEW c, NEW w, NEW lo \in Nat, NEW mid \in Nat, NEW hi \in Nat, lo <= mid, mid <= hi,
         NEW s \in Seq(FileEntries), NEW t \in Seq(FileEntries),
         IsListOf(s, c, w, lo, mid), IsListOf(t, c, w, mid, hi)
  PROVE  IsListOf(s \o t, c, w, lo, hi)
<1> DEFINE u == s \o t
           n == Len(s)
<1>1. /\ n \in Nat /\ Len(t) \in Nat /\ DOMAIN s = 1..n /\ DOMAIN t = 1..Len(t)
      /\ DOMAIN u = 1..(n + Len(t))
      /\ \A k \in 1..n : u[k] = s[k] /\ k \in DOMAIN u
      /\ \A k \in 1..Len(t) : u[n + k] = t[k] /\ n + k \in DOMAIN u
  BY ConcatProperties
<1>2. ASSUME NEW k \in DOMAIN u
      PROVE  \/ k \in 1..n /\ u[k] = s[k]
             \/ k - n \in 1..Len(t) /\ u[k] = t[k - n]
  <2>1. CASE k <= n
    BY <1>1, <2>1
  <2>2. CASE ~(k <= n)
    <3>1. k - n \in 1..Len(t) /\ n + (k - n) = k
      BY <1>1, <2>2
    <3> QED BY <1>1, <3>1
  <2> QED BY <2>1, <2>2
<1>3. /\ \A k \in DOMAIN s : s[k].file \in Nat /\ s[k].file <= mid
      /\ \A k \in DOMAIN t : t[k].file \in Nat /\ mid < t[k].file
  <2>1. \A k \in DOMAIN s : s[k].file \in (lo + 1)..mid
    BY DEF IsListOf, Between
  <2>2. \A k \in DOMAIN t : t[k].file \in (mid + 1)..hi
    BY DEF IsListOf, Between
  <2> QED BY <2>1, <2>2
<1> HIDE DEF u, n
<1>4. Between(c, w, lo, hi) = Between(c, w, lo, mid) \cup Between(c, w, mid, hi)
  BY DEF Between
<1>5. {u[k].file : k \in DOMAIN u} = Between(c, w, lo, hi)
  <2>1. ASSUME NEW k \in DOMAIN u PROVE u[k].file \in Between(c, w, lo, hi)
    <3>1. CASE k \in 1..n /\ u[k] = s[k]
      BY <1>1, <1>4, <3>1 DEF IsListOf
    <3>2. CASE k - n \in 1..Len(t) /\ u[k] = t[k - n]
      BY <1>1, <1>4, <3>2 DEF IsListOf
    <3> QED BY <1>2, <3>1, <3>2
  <2>2. ASSUME NEW i \in Between(c, w, lo, hi) PROVE \E k \in DOMAIN u : u[k].file = i
    <3>1. CASE i \in Between(c, w, lo, mid)
      <4>1. PICK k \in DOMAIN s : s[k].file = i
        BY <3>1 DEF IsListOf
      <4> QED BY <1>1, <4>1
    <3>2. CASE i \in Between(c, w, mid, hi)
      <4>1. PICK k \in DOMAIN t : t[k].file = i
        BY <3>2 DEF IsListOf
      <4> QED BY <1>1, <4>1
    <3> QED BY <1>4, <3>1, <3>2
  <2> QED BY <2>1, <2>2
<1>6. \A k \in DOMAIN u : u[k].occurs = c[u[k].file][w]
  <2> TAKE k \in DOMAIN u
  <2>1. CASE k \in 1..n /\ u[k] = s[k]
    BY <1>1, <2>1 DEF IsListOf
  <2>2. CASE k - n \in 1..Len(t) /\ u[k] = t[k - n]
    BY <1>1, <2>2 DEF IsListOf
  <2> QED BY <1>2, <2>1, <2>2
<1>7. ASSUME NEW k \in DOMAIN u, NEW m \in DOMAIN u, k < m PROVE u[k].file < u[m].file
  <2>0. k \in Nat /\ m \in Nat
    BY <1>1
  <2>1. CASE k \in 1..n /\ u[k] = s[k] /\ m \in 1..n /\ u[m] = s[m]
    BY <1>1, <1>7, <2>1 DEF IsListOf
  <2>2. CASE k \in 1..n /\ u[k] = s[k] /\ m - n \in 1..Len(t) /\ u[m] = t[m - n]
    <3>1. /\ u[k].file \in Nat /\ u[k].file <= mid
          /\ u[m].file \in Nat /\ mid < u[m].file
      BY <1>1, <1>3, <2>2
    <3> QED BY <3>1
  <2>3. CASE k - n \in 1..Len(t) /\ u[k] = t[k - n] /\ m - n \in 1..Len(t) /\ u[m] = t[m - n]
    <3>1. k - n < m - n
      BY <1>1, <1>7, <2>0
    <3> QED BY <1>1, <2>3, <3>1 DEF IsListOf
  <2>4. ~(k - n \in 1..Len(t) /\ m \in 1..n)
    BY <1>1, <1>7, <2>0
  <2> QED BY <1>2, <2>1, <2>2, <2>3, <2>4
<1> QED BY <1>5, <1>6, <1>7 DEF IsListOf, u

\* The lists of stretches, one behind the other, are the list of all the files.
LEMMA FlattenLists ==
  ASSUME NEW c, NEW w, NEW seqs \in Seq(Seq(FileEntries)), seqs # <<>>,
         NEW ends \in [0..Len(seqs) -> Nat], ends[0] = 0,
         \A j \in 1..Len(seqs) : /\ ends[j - 1] <= ends[j]
                                 /\ IsListOf(seqs[j], c, w, ends[j - 1], ends[j])
  PROVE  IsListOf(FlattenSeq(seqs), c, w, 0, ends[Len(seqs)])
<1>1. PICK f \in [1..Len(seqs) -> Seq(FileEntries)] :
        /\ \A i \in 1..Len(seqs) : f[i] = IF i = 1 THEN seqs[i] ELSE f[i - 1] \o seqs[i]
        /\ FlattenSeq(seqs) = f[Len(seqs)]
  BY FlattenSeqIs
<1>2. Len(seqs) \in Nat /\ Len(seqs) # 0 /\ \A i \in 1..Len(seqs) : seqs[i] \in Seq(FileEntries)
  BY EmptySeq
<1> DEFINE Right(n) == n \in 1..Len(seqs) => IsListOf(f[n], c, w, 0, ends[n])
           S == {n \in Nat : Right(n)}
<1>3. ASSUME NEW n \in Nat, Right(n), n + 1 \in 1..Len(seqs)
      PROVE  IsListOf(f[n + 1], c, w, 0, ends[n + 1])
  <2>1. (n + 1) - 1 = n /\ n \in 0..Len(seqs) /\ n + 1 \in 0..Len(seqs)
    BY <1>2, <1>3
  <2>2. ends[n] \in Nat /\ ends[n + 1] \in Nat
    BY <2>1
  <2>3. ends[n] <= ends[n + 1] /\ IsListOf(seqs[n + 1], c, w, ends[n], ends[n + 1])
    BY <1>3, <2>1
  <2>4. CASE n = 0
    <3>1. n + 1 = 1
      BY <2>4
    <3>2. f[1] = seqs[1]
      BY <1>1, <1>3, <3>1
    <3> QED BY <2>3, <2>4, <3>1, <3>2
  <2>5. CASE n # 0
    <3>1. n \in 1..Len(seqs) /\ n + 1 # 1
      BY <1>2, <1>3, <2>5
    <3>2. IsListOf(f[n], c, w, 0, ends[n])
      BY <1>3, <3>1
    <3>3. f[n + 1] = f[n] \o seqs[n + 1]
      BY <1>1, <1>3, <2>1, <3>1
    <3>4. f[n] \in Seq(FileEntries)
      BY <3>1
    <3>5. seqs[n + 1] \in Seq(FileEntries)
      BY <1>2, <1>3
    <3>6. 0 \in Nat /\ 0 <= ends[n]
      BY <2>2
    <3> QED BY <2>2, <2>3, <3>2, <3>3, <3>4, <3>5, <3>6, ListConcat
  <2> QED BY <2>4, <2>5
<1>4. Right(0)
  OBVIOUS
<1>5. \A n \in Nat : Right(n) => Right(n + 1)
  BY <1>3
<1> HIDE DEF Right
<1>6. 0 \in S /\ \A n \in Nat : n \in S => n + 1 \in S
  BY <1>4, <1>5
<1> HIDE DEF S
<1>7. \A n \in Nat : n \in S
  BY <1>6, Induction
<1>8. Right(Len(seqs))
  BY <1>2, <1>7 DEF S
<1> QED BY <1>1, <1>2, <1>8 DEF Right

\* A list is as long as there are files in it.
LEMMA ListLength ==
  ASSUME NEW c, NEW w, NEW lo, NEW hi, NEW list \in Seq(FileEntries),
         IsListOf(list, c, w, lo, hi)
  PROVE  Len(list) = Cardinality(Between(c, w, lo, hi)) /\ Len(list) \in Nat
<1> DEFINE f == [k \in DOMAIN list |-> list[k].file]
<1>1. /\ DOMAIN list = 1..Len(list) /\ Len(list) \in Nat
      /\ \A k \in DOMAIN list : list[k].file \in Nat
  <2>1. \A k \in DOMAIN list : list[k] \in FileEntries
    OBVIOUS
  <2> QED BY <2>1 DEF FileEntries
<1>2. IsInjective(f)
  <2>1. ASSUME NEW a \in DOMAIN list, NEW b \in DOMAIN list, list[a].file = list[b].file
        PROVE  a = b
    <3>1. ~(list[a].file < list[b].file) /\ ~(list[b].file < list[a].file)
      BY <1>1, <2>1
    <3>2. ~(a < b) /\ ~(b < a)
      BY <3>1 DEF IsListOf
    <3> QED BY <1>1, <3>2
  <2> QED BY <2>1 DEF IsInjective
<1>3. /\ DOMAIN f = DOMAIN list /\ f = [k \in DOMAIN f |-> f[k]]
      /\ {f[k] : k \in DOMAIN f} = Between(c, w, lo, hi)
  BY DEF IsListOf
<1>4. IsFiniteSet(DOMAIN list) /\ Cardinality(DOMAIN list) = Len(list)
  BY <1>1, CardinalityUpTo
<1> HIDE DEF f
<1> QED BY <1>1, <1>2, <1>3, <1>4, FiniteRange

\* Every file is in one of the stretches.
LEMMA InAStretch ==
  ASSUME NEW n \in Nat, NEW ends \in [0..n -> Nat], ends[0] = 0,
         NEW i \in 1..ends[n]
  PROVE  \E j \in 1..n : i \in (ends[j - 1] + 1)..ends[j]
<1> DEFINE S == {j \in 0..n : i <= ends[j]}
<1>1. n \in 0..n /\ ends[n] \in Nat /\ i \in Nat \ {0}
  OBVIOUS
<1>2. n \in S /\ S \in SUBSET Nat
  BY <1>1
<1>3. PICK j \in S : \A k \in S : j <= k
  BY <1>2, LeastNumber
<1>4. j # 0
  BY <1>1
<1>5. j \in 1..n /\ j - 1 \in 0..n /\ ~(j <= j - 1)
  BY <1>4
<1>6. ~(i <= ends[j - 1])
  BY <1>3, <1>5
<1>7. ends[j - 1] \in Nat /\ ends[j] \in Nat /\ i <= ends[j]
  BY <1>5
<1> QED BY <1>1, <1>5, <1>6, <1>7

\* The words in memory, as they would be written
LEMMA MapIndex ==
  ASSUME NEW map, map \in [DOMAIN map -> Seq(FileEntries)], DOMAIN map \subseteq Words,
         NEW c, NEW lo, NEW hi, NEW but
  PROVE  IsIndexOf(WordIndex(map), c, lo, hi, but) <=>
           /\ DOMAIN map \ but = {w \in Words \ but : Between(c, w, lo, hi) # {}}
           /\ \A w \in DOMAIN map \ but : IsListOf(map[w], c, w, lo, hi)
<1> DEFINE entries == WordIndex(map)
           sorted == InOrder(DOMAIN map)
<1>1. WordsIn(entries) = DOMAIN map
  BY WordIndexFacts
<1>2. \A k \in DOMAIN entries : entries[k] = [word |-> sorted[k], files |-> map[sorted[k]]]
  BY DEF WordIndex
<1> HIDE DEF entries, sorted
<1>3. \A k \in DOMAIN entries : entries[k].files = map[entries[k].word]
  BY <1>2
<1>4. \A k \in DOMAIN entries : entries[k].word \in DOMAIN map
  BY <1>1 DEF WordsIn
<1>5. \A w \in DOMAIN map : \E k \in DOMAIN entries : entries[k].word = w
  BY <1>1 DEF WordsIn
<1>6. (\A k \in DOMAIN entries : entries[k].word \notin but =>
          IsListOf(entries[k].files, c, entries[k].word, lo, hi))
        <=> \A w \in DOMAIN map \ but : IsListOf(map[w], c, w, lo, hi)
  BY <1>3, <1>4, <1>5
<1> QED BY <1>1, <1>6 DEF IsIndexOf, entries

\* The index of a stretch stays that when there are more stop words, and more files.
LEMMA IndexStays ==
  ASSUME NEW entries, NEW c, NEW d, NEW lo \in Nat, NEW hi \in Nat, NEW but, NEW more,
         but \subseteq more, \A i \in (lo + 1)..hi : c[i] = d[i],
         IsIndexOf(entries, c, lo, hi, but)
  PROVE  IsIndexOf(entries, d, lo, hi, more)
<1>1. \A w : Between(c, w, lo, hi) = Between(d, w, lo, hi)
  BY DEF Between
<1>2. \A list, w : IsListOf(list, c, w, lo, hi) => IsListOf(list, d, w, lo, hi)
  <2> TAKE list, w
  <2> HAVE IsListOf(list, c, w, lo, hi)
  <2>1. \A k \in DOMAIN list : list[k].file \in (lo + 1)..hi
    BY DEF IsListOf, Between
  <2> QED BY <1>1, <2>1 DEF IsListOf
<1>3. WordsIn(entries) \ more = {w \in Words \ more : Between(d, w, lo, hi) # {}}
  <2>1. WordsIn(entries) \ but = {w \in Words \ but : Between(c, w, lo, hi) # {}}
    BY DEF IsIndexOf
  <2>2. ASSUME NEW w \in WordsIn(entries) \ more
        PROVE  w \in {x \in Words \ more : Between(d, x, lo, hi) # {}}
    BY <1>1, <2>1
  <2>3. ASSUME NEW w \in Words \ more, Between(d, w, lo, hi) # {}
        PROVE  w \in WordsIn(entries)
    BY <1>1, <2>1, <2>3
  <2> QED BY <2>2, <2>3
<1> QED BY <1>2, <1>3 DEF IsIndexOf

\* The files after one more
LEMMA ContentsFacts ==
  ASSUME NEW docs \in Seq(Docs), NEW doc \in Docs
  PROVE  /\ Len(docs) \in Nat /\ DOMAIN docs = 1..Len(docs)
         /\ Append(docs, doc) \in Seq(Docs) /\ Len(Append(docs, doc)) = Len(docs) + 1
         /\ \A i \in 1..Len(docs) : Contents(Append(docs, doc))[i] = Contents(docs)[i]
         /\ Contents(Append(docs, doc))[Len(docs) + 1] = text[doc]
<1>1. /\ DOMAIN docs = 1..Len(docs) /\ Len(docs) \in Nat
      /\ DOMAIN Append(docs, doc) = 1..(Len(docs) + 1)
      /\ \A i \in 1..Len(docs) : Append(docs, doc)[i] = docs[i] /\ i \in 1..(Len(docs) + 1)
      /\ Append(docs, doc)[Len(docs) + 1] = doc /\ Len(docs) + 1 \in 1..(Len(docs) + 1)
      /\ Append(docs, doc) \in Seq(Docs) /\ Len(Append(docs, doc)) = Len(docs) + 1
  BY AppendProperties
<1> QED BY <1>1 DEF Contents

\* Stretches of no files have no words.
LEMMA EmptyStretch ==
  ASSUME NEW c, NEW lo \in Nat, NEW but
  PROVE  /\ \A w : Between(c, w, lo, lo) = {}
         /\ IsIndexOf(<<>>, c, lo, lo, but)
<1>1. \A w : Between(c, w, lo, lo) = {}
  BY DEF Between
<1>2. DOMAIN <<>> = {}
  BY EmptySeq
<1>3. WordsIn(<<>>) = {}
  BY <1>2 DEF WordsIn
<1> QED BY <1>1, <1>2, <1>3 DEF IsIndexOf

\* No words in memory are written as nothing.
LEMMA EmptyIndex == WordIndex(<<>>) = <<>>
<1>1. DOMAIN <<>> = {} /\ <<>> \in [DOMAIN <<>> -> Seq(FileEntries)]
  BY EmptySeq
<1>2. WordIndex(<<>>) \in Seq(Entries) /\ Len(WordIndex(<<>>)) = Cardinality({})
  BY <1>1, WordIndexFacts
<1> QED BY <1>2, FS_EmptySet, EmptySeq

\* One more file: the list of a word that is in it has one more entry.
LEMMA OneMoreFile ==
  ASSUME NEW c, NEW d, NEW w, NEW lo \in Nat, NEW hi \in Nat, lo <= hi,
         \A i \in (lo + 1)..hi : c[i] = d[i]
  PROVE  /\ Between(d, w, lo, hi + 1) =
              Between(c, w, lo, hi) \cup (IF d[hi + 1][w] > 0 THEN {hi + 1} ELSE {})
         /\ \A list \in Seq(FileEntries) :
              IsListOf(list, c, w, lo, hi) /\ d[hi + 1][w] \in Nat =>
                IsListOf(IF d[hi + 1][w] > 0
                         THEN Append(list, [file |-> hi + 1, occurs |-> d[hi + 1][w]])
                         ELSE list, d, w, lo, hi + 1)
<1> DEFINE new == [file |-> hi + 1, occurs |-> d[hi + 1][w]]
<1>1. Between(d, w, lo, hi + 1) =
        Between(c, w, lo, hi) \cup (IF d[hi + 1][w] > 0 THEN {hi + 1} ELSE {})
  BY DEF Between
<1>2. ASSUME NEW list \in Seq(FileEntries), IsListOf(list, c, w, lo, hi), d[hi + 1][w] \in Nat,
             d[hi + 1][w] > 0
      PROVE  IsListOf(Append(list, new), d, w, lo, hi + 1)
  <2> DEFINE u == Append(list, new)
             n == Len(list)
  <2>1. /\ new \in FileEntries /\ new.file = hi + 1 /\ new.occurs = d[hi + 1][w]
    BY <1>2 DEF FileEntries
  <2> HIDE DEF new
  <2>2. /\ n \in Nat /\ DOMAIN list = 1..n /\ DOMAIN u = 1..(n + 1)
        /\ \A k \in 1..n : u[k] = list[k] /\ k \in 1..(n + 1)
        /\ u[n + 1] = new /\ n + 1 \in 1..(n + 1)
    BY <2>1, AppendProperties
  <2> HIDE DEF u, n
  <2>3. /\ {list[k].file : k \in 1..n} = Between(c, w, lo, hi)
        /\ \A k \in 1..n : list[k].occurs = c[list[k].file][w]
        /\ \A k, m \in 1..n : k < m => list[k].file < list[m].file
    BY <1>2, <2>2 DEF IsListOf
  <2>4. \A k \in 1..n : /\ list[k].file \in (lo + 1)..hi /\ list[k].file \in Nat
                        /\ list[k].file < hi + 1
    <3>1. \A k \in 1..n : list[k].file \in (lo + 1)..hi
      BY <2>3 DEF Between
    <3> QED BY <3>1
  <2>5. {u[k].file : k \in 1..(n + 1)} = Between(d, w, lo, hi + 1)
    <3>1. {u[k].file : k \in 1..(n + 1)} = {list[k].file : k \in 1..n} \cup {hi + 1}
      <4>1. \A k \in 1..(n + 1) : k \in 1..n \/ k = n + 1
        BY <2>2
      <4>2. ASSUME NEW k \in 1..(n + 1)
            PROVE  u[k].file \in {list[j].file : j \in 1..n} \cup {hi + 1}
        BY <2>1, <2>2, <4>1
      <4>3. ASSUME NEW k \in 1..n PROVE list[k].file \in {u[j].file : j \in 1..(n + 1)}
        BY <2>2
      <4>4. hi + 1 \in {u[j].file : j \in 1..(n + 1)}
        BY <2>1, <2>2
      <4> QED BY <4>2, <4>3, <4>4
    <3> QED BY <1>1, <1>2, <2>3, <3>1
  <2>6. \A k \in 1..(n + 1) : u[k].occurs = d[u[k].file][w]
    <3> TAKE k \in 1..(n + 1)
    <3>1. CASE k = n + 1
      BY <2>1, <2>2, <3>1
    <3>2. CASE k # n + 1
      <4>1. k \in 1..n
        BY <2>2, <3>2
      <4> QED BY <2>2, <2>3, <2>4, <4>1
    <3> QED BY <3>1, <3>2
  <2>7. ASSUME NEW k \in 1..(n + 1), NEW m \in 1..(n + 1), k < m PROVE u[k].file < u[m].file
    <3>1. k \in 1..n
      BY <2>2, <2>7
    <3>2. CASE m = n + 1
      BY <2>1, <2>2, <2>4, <3>1, <3>2
    <3>3. CASE m # n + 1
      <4>1. m \in 1..n
        BY <2>2, <3>3
      <4> QED BY <2>2, <2>3, <2>7, <3>1, <4>1
    <3> QED BY <3>2, <3>3
  <2> QED BY <2>2, <2>5, <2>6, <2>7 DEF IsListOf, u
<1>3. ASSUME NEW list \in Seq(FileEntries), IsListOf(list, c, w, lo, hi), ~(d[hi + 1][w] > 0)
      PROVE  IsListOf(list, d, w, lo, hi + 1)
  <2>1. \A k \in DOMAIN list : list[k].file \in (lo + 1)..hi
    BY <1>3 DEF IsListOf, Between
  <2>2. Between(d, w, lo, hi + 1) = Between(c, w, lo, hi)
    BY <1>1, <1>3
  <2> QED BY <1>3, <2>1, <2>2 DEF IsListOf
<1> HIDE DEF new
<1>4. \A list \in Seq(FileEntries) :
        IsListOf(list, c, w, lo, hi) /\ d[hi + 1][w] \in Nat =>
          IsListOf(IF d[hi + 1][w] > 0 THEN Append(list, new) ELSE list, d, w, lo, hi + 1)
  BY <1>2, <1>3
<1> QED BY <1>1, <1>4 DEF new

\* So the words in memory with those of one more file are the index of one file more.
LEMMA MoreInMemory ==
  ASSUME TypeOK, ListsInv, NEW doc \in Docs, NEW lo \in 0..Len(files),
         IsIndexOf(WordIndex(words), Contents(files), lo, Len(files), stop)
  PROVE  IsIndexOf(WordIndex(WithWordsOf(doc, Len(files) + 1)), Contents(Append(files, doc)),
                   lo, Len(files) + 1, stop)
<1> DEFINE n == Len(files)
           c == Contents(files)
           d == Contents(Append(files, doc))
           map == WithWordsOf(doc, n + 1)
           found == {w \in Words \ stop : text[doc][w] > 0}
           entry(w) == [file |-> n + 1, occurs |-> text[doc][w]]
           before(w) == IF w \in DOMAIN words THEN words[w] ELSE <<>>
<1>1. files \in Seq(Docs)
  BY DEF TypeOK
<1>2. n \in Nat /\ lo \in Nat /\ lo <= n
  BY <1>1
<1>3. d[n + 1] = text[doc] /\ \A i \in (lo + 1)..n : c[i] = d[i]
  <2>1. (\A i \in 1..n : d[i] = c[i]) /\ d[n + 1] = text[doc]
    BY <1>1, ContentsFacts
  <2> HIDE DEF c, d
  <2> QED BY <1>2, <2>1
<1>4. \A w \in Words : d[n + 1][w] \in Nat /\ d[n + 1][w] = text[doc][w]
  <2>1. text \in [Docs -> [Words -> 0..MaxOccurs]]
    BY DEF TypeOK
  <2> QED BY <1>3, <2>1, ConstantsAssumption
<1>5. /\ DOMAIN words \ stop = {w \in Words \ stop : Between(c, w, lo, n) # {}}
      /\ \A w \in DOMAIN words \ stop : IsListOf(words[w], c, w, lo, n)
  <2>1. words \in [DOMAIN words -> Seq(FileEntries)] /\ DOMAIN words \subseteq Words
    BY DEF TypeOK, ListsInv
  <2>2. IsIndexOf(WordIndex(words), c, lo, n, stop)
    OBVIOUS
  <2> HIDE DEF c, n
  <2> QED BY <2>1, <2>2, MapIndex
<1>6. /\ DOMAIN map \subseteq Words /\ map \in [DOMAIN map -> Seq(FileEntries)]
      /\ DOMAIN map = DOMAIN words \cup found
      /\ \A w \in DOMAIN map :
           map[w] = IF w \in found THEN Append(before(w), entry(w)) ELSE words[w]
  <2>1. DOMAIN map \subseteq Words /\ map \in [DOMAIN map -> Seq(FileEntries)]
    BY <1>2, WithWordsFacts
  <2> QED BY <2>1 DEF WithWordsOf
<1> HIDE DEF n, c, d, map
<1>7. \A w : Between(d, w, lo, n + 1) =
               Between(c, w, lo, n) \cup (IF d[n + 1][w] > 0 THEN {n + 1} ELSE {})
  BY <1>2, <1>3 DEF Between
<1>8. DOMAIN map \ stop = {w \in Words \ stop : Between(d, w, lo, n + 1) # {}}
  <2>1. ASSUME NEW w \in Words \ stop
        PROVE  w \in DOMAIN map <=> Between(d, w, lo, n + 1) # {}
    <3>1. w \in found <=> d[n + 1][w] > 0
      BY <1>4
    <3>2. w \in DOMAIN words <=> Between(c, w, lo, n) # {}
      BY <1>5
    <3> QED BY <1>6, <1>7, <3>1, <3>2
  <2> QED BY <1>6, <2>1
<1>9. ASSUME NEW w \in DOMAIN map \ stop PROVE IsListOf(map[w], d, w, lo, n + 1)
  <2>1. /\ w \in Words \ stop /\ d[n + 1][w] \in Nat /\ d[n + 1][w] = text[doc][w]
        /\ w \in found <=> d[n + 1][w] > 0
    BY <1>4, <1>6
  <2>2. before(w) \in Seq(FileEntries) /\ IsListOf(before(w), c, w, lo, n)
    <3>1. CASE w \in DOMAIN words
      BY <1>5, <2>1, <3>1 DEF ListsInv
    <3>2. CASE w \notin DOMAIN words
      <4>1. Between(c, w, lo, n) = {}
        BY <1>5, <2>1, <3>2
      <4>2. before(w) = <<>> /\ DOMAIN <<>> = {} /\ <<>> \in Seq(FileEntries)
        BY <3>2, EmptySeq
      <4> QED BY <4>1, <4>2 DEF IsListOf
    <3> QED BY <3>1, <3>2
  <2>3. map[w] = IF d[n + 1][w] > 0
                 THEN Append(before(w), [file |-> n + 1, occurs |-> d[n + 1][w]]) ELSE before(w)
    BY <1>6, <2>1
  <2> HIDE DEF before
  <2>4. IsListOf(IF d[n + 1][w] > 0
                 THEN Append(before(w), [file |-> n + 1, occurs |-> d[n + 1][w]])
                 ELSE before(w), d, w, lo, n + 1)
    BY <1>2, <1>3, <2>1, <2>2, OneMoreFile
  <2> QED BY <2>3, <2>4
<1>10. IsIndexOf(WordIndex(map), d, lo, n + 1, stop)
  BY <1>6, <1>8, <1>9, MapIndex
<1> QED BY <1>10 DEF n, d, map

-----------------------------------------------------------------------------
(* Partial indices as indices of stretches of the files.                   *)

\* Stretches stay stretches when there are more stop words, and more files.
LEMMA StretchesStay ==
  ASSUME NEW indices \in Seq(Seq(Entries)), NEW n \in Nat, NEW ends \in [0..Len(indices) -> 0..n],
         NEW c, NEW d, \A i \in 1..n : c[i] = d[i], NEW but, NEW more, but \subseteq more,
         AreStretches(indices, ends, c, but)
  PROVE  AreStretches(indices, ends, d, more)
<1>1. ASSUME NEW j \in DOMAIN indices
      PROVE  ends[j - 1] <= ends[j] /\ IsIndexOf(indices[j], d, ends[j - 1], ends[j], more)
  <2>1. j \in 1..Len(indices) /\ j - 1 \in 0..Len(indices) /\ j \in 0..Len(indices)
    OBVIOUS
  <2>2. ends[j - 1] \in 0..n /\ ends[j] \in 0..n
    BY <2>1
  <2>3. ends[j - 1] <= ends[j] /\ IsIndexOf(indices[j], c, ends[j - 1], ends[j], but)
    BY DEF AreStretches
  <2> DEFINE lo == ends[j - 1]
             hi == ends[j]
  <2>4. lo \in Nat /\ hi \in Nat /\ \A i \in (lo + 1)..hi : c[i] = d[i]
    BY <2>2
  <2>5. IsIndexOf(indices[j], c, lo, hi, but)
    BY <2>3
  <2> HIDE DEF lo, hi
  <2>6. IsIndexOf(indices[j], d, lo, hi, more)
    BY <2>4, <2>5, IndexStays
  <2> QED BY <2>3, <2>6 DEF lo, hi
<1> QED BY <1>1 DEF AreStretches

\* One index more, of the stretch behind the others
LEMMA StretchesAppend ==
  ASSUME NEW indices \in Seq(Seq(Entries)), NEW n \in Nat, NEW ends \in [0..Len(indices) -> 0..n],
         NEW c, NEW but, AreStretches(indices, ends, c, but),
         NEW hi \in Nat, n <= hi, NEW s \in Seq(Entries),
         IsIndexOf(s, c, ends[Len(indices)], hi, but)
  PROVE  \E more \in [0..Len(Append(indices, s)) -> 0..hi] :
           /\ AreStretches(Append(indices, s), more, c, but)
           /\ more[Len(Append(indices, s))] = hi
<1> DEFINE L == Len(indices)
           all == Append(indices, s)
           more == [j \in 0..(L + 1) |-> IF j <= L THEN ends[j] ELSE hi]
<1>1. /\ L \in Nat /\ DOMAIN indices = 1..L /\ Len(all) = L + 1 /\ DOMAIN all = 1..(L + 1)
      /\ \A j \in 1..L : all[j] = indices[j]
      /\ all[L + 1] = s
  BY AppendProperties
<1>2. \A j \in 0..L : ends[j] \in Nat /\ ends[j] <= n /\ ends[j] <= hi
  OBVIOUS
<1>3. IsIndexOf(s, c, ends[L], hi, but) /\ ends[0] = 0
      /\ \A j \in 1..L : /\ ends[j - 1] <= ends[j]
                         /\ IsIndexOf(indices[j], c, ends[j - 1], ends[j], but)
  BY <1>1 DEF AreStretches
<1> HIDE DEF L, all
<1>4. more \in [0..(L + 1) -> 0..hi]
  BY <1>1, <1>2
<1>5. /\ \A j \in 0..L : more[j] = ends[j]
      /\ more[L + 1] = hi
  BY <1>1
<1> HIDE DEF more
<1>6. ASSUME NEW j \in 1..(L + 1)
      PROVE  more[j - 1] <= more[j] /\ IsIndexOf(all[j], c, more[j - 1], more[j], but)
  <2>1. CASE j = L + 1
    <3>1. j - 1 = L /\ L \in 0..L
      BY <1>1, <2>1
    <3>2. more[j - 1] = ends[L] /\ more[j] = hi /\ all[j] = s /\ ends[L] <= hi
      BY <1>1, <1>2, <1>5, <2>1, <3>1
    <3> QED BY <1>3, <3>2
  <2>2. CASE j # L + 1
    <3>1. j \in 1..L /\ j \in 0..L /\ j - 1 \in 0..L
      BY <1>1, <2>2
    <3>2. more[j - 1] = ends[j - 1] /\ more[j] = ends[j] /\ all[j] = indices[j]
      BY <1>1, <1>5, <3>1
    <3> QED BY <1>3, <3>1, <3>2
  <2> QED BY <2>1, <2>2
<1>7. more[0] = 0
  BY <1>1, <1>3, <1>5
<1>8. AreStretches(all, more, c, but)
  BY <1>1, <1>6, <1>7 DEF AreStretches
<1> QED BY <1>1, <1>4, <1>5, <1>8 DEF all

\* Files without words but some
WithoutWords(contents, lo, hi, but) == \A w \in Words \ but : Between(contents, w, lo, hi) = {}

\* Stretches that end with the last of the files
ReachTo(indices, contents, last, but) ==
  \E ends \in [0..Len(indices) -> 0..last] :
    AreStretches(indices, ends, contents, but) /\ ends[Len(indices)] = last

\* Such files behind the others make the last stretch longer.
LEMMA StretchesExtend ==
  ASSUME NEW indices \in Seq(Seq(Entries)), Len(indices) # 0,
         NEW n \in Nat, NEW ends \in [0..Len(indices) -> 0..n],
         NEW c, NEW but, AreStretches(indices, ends, c, but),
         WithoutWords(c, ends[Len(indices)], n, but)
  PROVE  ReachTo(indices, c, n, but)
<1> DEFINE L == Len(indices)
           more == [ends EXCEPT ![L] = n]
           lo == ends[L - 1]
           mid == ends[L]
<1>1. L \in Nat \ {0} /\ DOMAIN indices = 1..L /\ L \in 0..L /\ L - 1 \in 0..L /\ L - 1 # L
      /\ L # 0 /\ 0 \in 0..L
  OBVIOUS
<1>2. \A j \in 0..L : ends[j] \in Nat /\ ends[j] <= n /\ ends[j] \in 0..n
  OBVIOUS
<1>3. /\ ends[0] = 0
      /\ \A j \in 1..L : /\ ends[j - 1] <= ends[j]
                         /\ IsIndexOf(indices[j], c, ends[j - 1], ends[j], but)
  BY <1>1 DEF AreStretches
<1>4. \A w \in Words \ but : Between(c, w, mid, n) = {}
  BY DEF WithoutWords
<1> HIDE DEF L
<1>5. IsIndexOf(indices[L], c, lo, mid, but) /\ lo <= mid
      /\ lo \in Nat /\ mid \in Nat /\ mid <= n
  <2>1. L \in 1..L
    BY <1>1
  <2>2. IsIndexOf(indices[L], c, lo, mid, but) /\ lo <= mid
    BY <1>3, <2>1
  <2> QED BY <1>1, <1>2, <2>2
<1>6. /\ more \in [0..L -> 0..n]
      /\ \A j \in 0..L : j # L => more[j] = ends[j]
      /\ more[L] = n
  BY <1>1, <1>2
<1> HIDE DEF more
<1>7. more[L - 1] = lo /\ more[0] = 0
  BY <1>1, <1>3, <1>6
<1> HIDE DEF lo, mid
<1>10. \A w \in Words \ but : Between(c, w, lo, n) = Between(c, w, lo, mid)
  <2> TAKE w \in Words \ but
  <2>1. Between(c, w, lo, n) = Between(c, w, lo, mid) \cup Between(c, w, mid, n)
    BY <1>5 DEF Between
  <2> QED BY <1>4, <2>1
<1>11. indices[L] \in Seq(Entries) /\ \A k \in DOMAIN indices[L] : indices[L][k] \in Entries
  BY <1>1
<1>12. IsIndexOf(indices[L], c, lo, n, but)
  <2>1. WordsIn(indices[L]) \ but = {w \in Words \ but : Between(c, w, lo, n) # {}}
    BY <1>5, <1>10 DEF IsIndexOf
  <2>2. ASSUME NEW k \in DOMAIN indices[L], indices[L][k].word \notin but
        PROVE  IsListOf(indices[L][k].files, c, indices[L][k].word, lo, n)
    <3>1. indices[L][k].word \in Words
      BY <1>11 DEF Entries
    <3>2. IsListOf(indices[L][k].files, c, indices[L][k].word, lo, mid)
      BY <1>5, <2>2 DEF IsIndexOf
    <3> QED BY <1>10, <2>2, <3>1, <3>2 DEF IsListOf
  <2> QED BY <2>1, <2>2 DEF IsIndexOf
<1>13. ASSUME NEW j \in 1..L
       PROVE  more[j - 1] <= more[j] /\ IsIndexOf(indices[j], c, more[j - 1], more[j], but)
  <2>1. CASE j = L
    <3>1. more[j - 1] = lo /\ more[j] = n /\ lo <= n
      BY <1>5, <1>6, <1>7, <2>1
    <3> QED BY <1>12, <2>1, <3>1
  <2>2. CASE j # L
    <3>1. j \in 0..L /\ j - 1 \in 0..L /\ j - 1 # L
      BY <1>1, <2>2
    <3> QED BY <1>3, <1>6, <2>2, <3>1
  <2> QED BY <2>1, <2>2
<1>14. AreStretches(indices, more, c, but)
  BY <1>1, <1>7, <1>13 DEF AreStretches
<1> QED BY <1>6, <1>14 DEF L, ReachTo

\* The words of files, but some
WordsOf(contents, lo, hi, but) == {w \in Words \ but : Between(contents, w, lo, hi) # {}}

\* The words of stretches are those of all the files.
LEMMA StretchesWords ==
  ASSUME NEW indices \in Seq(Seq(Entries)), NEW n \in Nat, NEW ends \in [0..Len(indices) -> 0..n],
         NEW c, NEW but, AreStretches(indices, ends, c, but)
  PROVE  AllWords(indices) \ but = WordsOf(c, 0, ends[Len(indices)], but)
<1> DEFINE L == Len(indices)
           last == ends[L]
<1>1. L \in Nat /\ DOMAIN indices = 1..L /\ L \in 0..L
  OBVIOUS
<1>2. \A j \in 0..L : ends[j] \in Nat
  OBVIOUS
<1>3. /\ ends[0] = 0
      /\ \A j \in 1..L : IsIndexOf(indices[j], c, ends[j - 1], ends[j], but)
      /\ \A j \in 1..L : ends[j - 1] <= ends[j]
  BY <1>1 DEF AreStretches
<1>4. ends \in [0..L -> Nat]
  BY <1>2
<1> HIDE DEF L
<1>5. \A j \in 0..L : ends[j] <= last
  <2> DEFINE S == {m \in Nat : m <= L => \A j \in 0..m : ends[j] <= ends[m]}
  <2>1. 0 \in S
    BY <1>1, <1>2
  <2>2. ASSUME NEW m \in Nat, m \in S PROVE m + 1 \in S
    <3> SUFFICES ASSUME m + 1 <= L, NEW j \in 0..(m + 1) PROVE ends[j] <= ends[m + 1]
      OBVIOUS
    <3>1. m + 1 \in 1..L /\ (m + 1) - 1 = m /\ m \in 0..L /\ m + 1 \in 0..L /\ j \in 0..L
      BY <1>1
    <3>2. ends[m] <= ends[m + 1] /\ ends[m] \in Nat /\ ends[m + 1] \in Nat /\ ends[j] \in Nat
      BY <1>2, <1>3, <3>1
    <3>3. CASE j = m + 1
      BY <3>2, <3>3
    <3>4. CASE j # m + 1
      <4>1. j \in 0..m /\ m <= L
        BY <3>1, <3>4
      <4>2. ends[j] <= ends[m]
        BY <2>2, <4>1
      <4> QED BY <3>2, <4>2
    <3> QED BY <3>3, <3>4
  <2> HIDE DEF S
  <2>3. \A m \in Nat : m \in S
    BY <2>1, <2>2, Induction
  <2>4. L \in S
    BY <1>1, <2>3
  <2> QED BY <1>1, <2>4 DEF S
<1> HIDE DEF last
<1>6. ASSUME NEW w \in AllWords(indices), w \notin but
      PROVE  w \in Words /\ Between(c, w, 0, last) # {}
  <2>1. PICK j \in 1..L : w \in WordsIn(indices[j])
    BY <1>1 DEF AllWords
  <2>2. w \in Words /\ Between(c, w, ends[j - 1], ends[j]) # {}
    BY <1>3, <1>6, <2>1 DEF IsIndexOf
  <2>3. PICK i \in (ends[j - 1] + 1)..ends[j] : c[i][w] > 0
    BY <2>2 DEF Between
  <2>4. j \in 0..L /\ j - 1 \in 0..L
    BY <1>1
  <2>5. ends[j] \in Nat /\ ends[j - 1] \in Nat /\ ends[j] <= last /\ last \in Nat
    BY <1>1, <1>2, <1>5, <2>4 DEF last
  <2>6. i \in (0 + 1)..last
    BY <2>5
  <2> QED BY <2>2, <2>3, <2>6 DEF Between
<1>7. ASSUME NEW w \in Words \ but, NEW i \in Between(c, w, 0, last)
      PROVE  w \in AllWords(indices)
  <2>1. i \in 1..ends[L] /\ c[i][w] > 0
    BY DEF Between, last
  <2>2. PICK j \in 1..L : i \in (ends[j - 1] + 1)..ends[j]
    BY <1>1, <1>3, <1>4, <2>1, InAStretch
  <2>3. i \in Between(c, w, ends[j - 1], ends[j])
    BY <2>1, <2>2 DEF Between
  <2>4. w \in WordsIn(indices[j])
    BY <1>3, <2>3 DEF IsIndexOf
  <2> QED BY <1>1, <2>4 DEF AllWords
<1>8. AllWords(indices) \ but = WordsOf(c, 0, last, but)
  BY <1>6, <1>7 DEF WordsOf
<1> QED BY <1>8 DEF last, L

\* The files of the next word are those of all the files that have it, if it is no stop
\* word and has not been passed.
LEMMA NextList ==
  ASSUME TypeOK, WordsInOrder, NEW at, IsPosition(at), Live(at) # {},
         NEW n \in Nat, NEW c, NEW ends \in [0..Len(partial) -> 0..n],
         AreStretches(partial, ends, c, stop),
         WordAt(at, Least(at)) \notin stop,
         WordAt(at, Least(at)) \notin WordsAt(AllEntries(partial) \ Ahead(partial, at))
  PROVE  IsListOf(FilesOf(at, Same(at)), c, WordAt(at, Least(at)), 0, ends[Len(partial)])
<1> DEFINE word == WordAt(at, Least(at))
           same == Same(at)
           part(j) == IF j \in same THEN partial[j][at[j]].files ELSE <<>>
           lists == [j \in DOMAIN partial |-> part(j)]
           L == Len(partial)
<1>1. /\ Least(at) \in same /\ same \subseteq Live(at) /\ Live(at) \subseteq DOMAIN partial
      /\ word \in Words
  BY NextWordFacts
<1>2. \A j \in same : at[j] \in 1..Len(partial[j]) /\ partial[j][at[j]].word = word
  BY <1>1, PartialFacts DEF Same, Live, IsPosition, WordAt
<1>3. L \in Nat /\ DOMAIN partial = 1..L /\ Least(at) \in 1..L
  BY <1>1, PartialFacts
<1>4. /\ ends[0] = 0
      /\ \A j \in 1..L : /\ ends[j - 1] <= ends[j]
                         /\ IsIndexOf(partial[j], c, ends[j - 1], ends[j], stop)
  BY <1>3 DEF AreStretches
<1>5. \A e \in Ahead(partial, at) :
        \/ word < partial[e[1]][e[2]].word
        \/ e[1] \in same
  <2>1. \A e \in Ahead(partial, Past(at, same)) : word < partial[e[1]][e[2]].word
    BY NextIsLess
  <2>2. \A e \in Ahead(partial, at) :
          e \in Ahead(partial, Past(at, same)) <=> ~(e[1] \in same /\ e[2] = at[e[1]])
    BY <1>1, PastFacts
  <2> HIDE DEF same, word
  <2> QED BY <2>1, <2>2
<1>6. word \notin stop /\ word \notin WordsAt(AllEntries(partial) \ Ahead(partial, at))
      /\ word \in Nat
  BY <1>1, ConstantsAssumption
<1>7. IsPosition(Starts(partial)) /\ \A j \in DOMAIN partial : Starts(partial)[j] = 1
  <2>1. partial \in Seq(Seq(Entries))
    BY DEF TypeOK
  <2> QED BY <2>1, StartsFacts DEF IsPosition
<1> HIDE DEF same, word
<1>8. ASSUME NEW j \in 1..L
      PROVE  part(j) \in Seq(FileEntries) /\ IsListOf(part(j), c, word, ends[j - 1], ends[j])
  <2>1. CASE j \in same
    <3>1. part(j) = partial[j][at[j]].files /\ at[j] \in 1..Len(partial[j])
          /\ partial[j][at[j]].word = word
      BY <1>2, <2>1
    <3>2. at[j] \in DOMAIN partial[j] /\ partial[j][at[j]].files \in Seq(FileEntries)
      BY <1>3, <3>1, PartialFacts
    <3>3. IsListOf(partial[j][at[j]].files, c, partial[j][at[j]].word, ends[j - 1], ends[j])
      BY <1>4, <1>6, <3>1, <3>2 DEF IsIndexOf
    <3> QED BY <3>1, <3>2, <3>3
  <2>2. CASE j \notin same
    <3>1. part(j) = <<>> /\ <<>> \in Seq(FileEntries) /\ DOMAIN <<>> = {}
      BY <2>2, EmptySeq
    <3>2. word \notin WordsIn(partial[j])
      <4> SUFFICES ASSUME NEW k \in DOMAIN partial[j], partial[j][k].word = word PROVE FALSE
        BY DEF WordsIn
      <4>1. k \in 1..Len(partial[j])
        BY <1>3, PartialFacts
      <4>2. <<j, k>> \in AllEntries(partial)
        BY <1>3, <1>7, <4>1, AheadEntries DEF AllEntries
      <4>3. <<j, k>>[1] = j /\ <<j, k>>[2] = k
        OBVIOUS
      <4>4. <<j, k>> \in Ahead(partial, at)
        BY <1>6, <4>2, <4>3 DEF WordsAt
      <4>5. word < partial[j][k].word
        BY <1>5, <2>2, <4>3, <4>4
      <4> QED BY <1>6, <4>5
    <3>3. Between(c, word, ends[j - 1], ends[j]) = {}
      BY <1>1, <1>4, <1>6, <3>2 DEF IsIndexOf
    <3> QED BY <3>1, <3>3 DEF IsListOf
  <2> QED BY <2>1, <2>2
<1>9. FilesOf(at, same) = FlattenSeq(lists)
  BY DEF FilesOf
<1> HIDE DEF part
<1>10. /\ lists \in [1..L -> Seq(FileEntries)]
       /\ \A j \in 1..L : lists[j] = part(j)
  BY <1>3, <1>8
<1> HIDE DEF lists, L
<1>11. lists \in Seq(Seq(FileEntries)) /\ Len(lists) = L
  BY <1>3, <1>10, FunctionIsSeq
<1>12. lists # <<>>
  BY <1>3, <1>11, EmptySeq
<1>13. /\ ends \in [0..Len(lists) -> Nat]
       /\ \A j \in 1..Len(lists) : /\ ends[j - 1] <= ends[j]
                                   /\ IsListOf(lists[j], c, word, ends[j - 1], ends[j])
  <2>1. ends \in [0..L -> 0..n]
    BY DEF L
  <2>2. ends \in [0..L -> Nat]
    BY <2>1
  <2> QED BY <1>4, <1>8, <1>10, <1>11, <2>2
<1>14. IsListOf(FlattenSeq(lists), c, word, 0, ends[Len(lists)])
  BY <1>4, <1>11, <1>12, <1>13, FlattenLists
<1> QED BY <1>9, <1>11, <1>14 DEF word, same, L

-----------------------------------------------------------------------------
(* What every step keeps (StoreInv).                                       *)

\* StoreInv: at first
LEMMA StoreInit == Init => StoreInv
<1> SUFFICES ASSUME Init PROVE StoreInv
  OBVIOUS
<1>1. /\ pc = "walk" /\ files = <<>> /\ words = <<>> /\ partial = <<>> /\ stop = GivenStop
      /\ disk = NoIndex
  BY DEF Init
<1>2. /\ disk.words = <<>> /\ disk.files = <<>> /\ disk.stop = GivenStop /\ Len(<<>>) = 0
      /\ DOMAIN <<>> = {}
  BY <1>1, EmptySeq DEF NoIndex
<1>3. \A c, but : IsIndexOf(<<>>, c, 0, 0, but)
  BY EmptyStretch
<1>4. IsIndexOf(disk.words, Contents(disk.files), 0, Len(disk.files), disk.stop)
  BY <1>2, <1>3
<1>5. StretchesInv
  <2> DEFINE ends == [j \in 0..0 |-> 0]
  <2>1. ends \in [0..0 -> 0..0] /\ ends[0] = 0
    OBVIOUS
  <2> HIDE DEF ends
  <2>2. AreStretches(<<>>, ends, Contents(files), stop)
    BY <1>2, <2>1 DEF AreStretches
  <2>3. IsIndexOf(WordIndex(words), Contents(files), ends[0], 0, stop)
    BY <1>1, <1>3, <2>1, EmptyIndex
  <2> QED BY <1>1, <1>2, <2>1, <2>2, <2>3 DEF StretchesInv
<1>6. CompleteInv
  BY <1>1 DEF CompleteInv
<1>7. GrowthInv
  <2>1. SubSeq(<<>>, 1, 0) = <<>>
    OBVIOUS
  <2> QED BY <1>1, <1>2, <2>1 DEF GrowthInv
<1> QED BY <1>4, <1>5, <1>6, <1>7 DEF StoreInv

\* ... a file indexed
LEMMA StoreDoFile == BuildInv /\ StoreInv /\ DoFile => StoreInv'
<1> SUFFICES ASSUME BuildInv, StoreInv, DoFile PROVE StoreInv'
  OBVIOUS
<1> DEFINE doc == Head(todo).doc
           map == WithWordsOf(doc, Len(files'))
           n == Len(files)
           c == Contents(files)
           d == Contents(Append(files, doc))
<1>1. /\ pc = "walk" /\ pc' = "walk" /\ files' = Append(files, doc)
      /\ IF Cardinality(DOMAIN map) >= Threshold
         THEN partial' = WritePartial(map) /\ words' = <<>>
         ELSE words' = map /\ UNCHANGED partial
      /\ UNCHANGED <<text, stop, disk>>
  BY DEF DoFile
<1>2. /\ TypeOK /\ ListsInv /\ doc \in Docs /\ partial \in Seq(Seq(Entries)) /\ files \in Seq(Docs)
  <2>1. todo \in Seq(Names) /\ todo # <<>>
    BY DEF DoFile, BuildInv, TypeOK
  <2>2. Head(todo) \in Names
    BY <2>1, HeadTailProperties
  <2> QED BY <2>2 DEF BuildInv, TypeOK, Names
<1>3. /\ n \in Nat /\ Len(files') = n + 1 /\ n <= n + 1
      /\ \A i \in 1..n : c[i] = d[i]
  <2>1. Len(files) \in Nat /\ Len(Append(files, doc)) = Len(files) + 1
        /\ \A i \in 1..Len(files) : Contents(Append(files, doc))[i] = Contents(files)[i]
    BY <1>2, ContentsFacts
  <2> QED BY <1>1, <2>1
<1>4. Contents(files)' = d
  BY <1>1 DEF Contents
<1>5. PICK ends \in [0..Len(partial) -> 0..n] :
        /\ AreStretches(partial, ends, c, stop)
        /\ IsIndexOf(WordIndex(words), c, ends[Len(partial)], n, stop)
  BY <1>1 DEF StoreInv, StretchesInv
<1>6. AreStretches(partial, ends, d, stop)
  <2> HIDE DEF c, d, n
  <2> QED BY <1>2, <1>3, <1>5, StretchesStay
<1>7. ends[Len(partial)] \in 0..n
  <2>1. Len(partial) \in 0..Len(partial)
    BY <1>2, PartialFacts
  <2> QED BY <2>1
<1>8. IsIndexOf(WordIndex(map), d, ends[Len(partial)], n + 1, stop)
  <2>1. IsIndexOf(WordIndex(WithWordsOf(doc, n + 1)), d, ends[Len(partial)], n + 1, stop)
    BY <1>2, <1>5, <1>7, MoreInMemory
  <2> QED BY <1>3, <2>1
<1>9. map \in [DOMAIN map -> Seq(FileEntries)] /\ DOMAIN map \subseteq Words
  <2>1. Len(files') \in Nat
    BY <1>3
  <2> HIDE DEF doc
  <2> QED BY <1>2, <2>1, WithWordsFacts
<1>10. WordIndex(map) \in Seq(Entries)
  <2> HIDE DEF map
  <2> QED BY <1>9, WordIndexFacts
<1> HIDE DEF doc, map, n, c, d
<1>11. StretchesInv'
  <2>1. CASE Cardinality(DOMAIN map) >= Threshold
    <3>1. partial' = Append(partial, WordIndex(map)) /\ words' = <<>>
      BY <1>1, <2>1 DEF WritePartial
    <3>2. n + 1 \in Nat
      BY <1>3
    <3> DEFINE s == WordIndex(map)
               hi == n + 1
    <3>7. /\ hi \in Nat /\ n \in Nat /\ n <= hi /\ s \in Seq(Entries)
          /\ partial \in Seq(Seq(Entries)) /\ AreStretches(partial, ends, d, stop)
          /\ IsIndexOf(s, d, ends[Len(partial)], hi, stop)
      BY <1>2, <1>3, <1>6, <1>8, <1>10, <3>2
    <3> HIDE DEF s, hi
    <3>8. \E more \in [0..Len(Append(partial, s)) -> 0..hi] :
            /\ AreStretches(Append(partial, s), more, d, stop)
            /\ more[Len(Append(partial, s))] = hi
      BY <3>7, StretchesAppend
    <3>3. PICK more \in [0..Len(Append(partial, WordIndex(map))) -> 0..(n + 1)] :
            /\ AreStretches(Append(partial, WordIndex(map)), more, d, stop)
            /\ more[Len(Append(partial, WordIndex(map)))] = n + 1
      BY <3>8 DEF s, hi
    <3>4. IsIndexOf(<<>>, d, n + 1, n + 1, stop)
      BY <3>2, EmptyStretch
    <3>5. IsIndexOf(WordIndex(words'), d, more[Len(partial')], n + 1, stop)
      BY <3>1, <3>3, <3>4, EmptyIndex
    <3>6. more \in [0..Len(partial') -> 0..Len(files')] /\ AreStretches(partial', more, d, stop')
      BY <1>1, <1>3, <3>1, <3>3
    <3> QED BY <1>1, <1>3, <1>4, <3>5, <3>6 DEF StretchesInv
  <2>2. CASE ~(Cardinality(DOMAIN map) >= Threshold)
    <3>1. partial' = partial /\ words' = map
      BY <1>1, <2>2
    <3>2. ends \in [0..Len(partial) -> 0..(n + 1)]
      <4>1. \A i \in 0..n : i \in 0..(n + 1)
        BY <1>3
      <4> QED BY <4>1
    <3> QED BY <1>1, <1>3, <1>4, <1>6, <1>8, <3>1, <3>2 DEF StretchesInv
  <2> QED BY <2>1, <2>2
<1>12. CompleteInv'
  BY <1>1 DEF CompleteInv
<1>13. GrowthInv'
  <2>1. /\ Len(disk.files) <= n /\ SubSeq(files, 1, Len(disk.files)) = disk.files
        /\ disk.stop = stop
        /\ partial = <<>> => disk = NoIndex
    BY <1>1 DEF StoreInv, GrowthInv, n
  <2>2. disk.files \in Seq(Docs) /\ Len(disk.files) \in Nat
    BY DEF BuildInv, OldIndexInv
  <2>3. Len(disk.files) <= n + 1
    BY <1>3, <2>1, <2>2
  <2>4. SubSeq(Append(files, doc), 1, Len(disk.files)) = SubSeq(files, 1, Len(disk.files))
    <3>1. /\ DOMAIN files = 1..n
          /\ \A i \in 1..n : Append(files, doc)[i] = files[i]
          /\ Len(Append(files, doc)) = n + 1
      BY <1>2, AppendProperties DEF n
    <3>2. \A i \in 1..Len(disk.files) : Append(files, doc)[i] = files[i]
      BY <1>3, <2>1, <2>2, <3>1
    <3> QED BY <1>3, <2>1, <2>2, <3>2 DEF n
  <2>5. partial' = <<>> => partial = <<>>
    <3>1. Append(partial, WordIndex(map)) # <<>>
      <4> DEFINE s == WordIndex(map)
      <4>1. s \in Seq(Entries)
        BY <1>10
      <4> HIDE DEF s
      <4>2. Append(partial, s) # <<>>
        BY <1>2, <4>1, AppendProperties
      <4> QED BY <4>2 DEF s
    <3> QED BY <1>1, <3>1 DEF WritePartial
  <2> QED BY <1>1, <1>3, <2>1, <2>3, <2>4, <2>5 DEF GrowthInv
<1>14. IsIndexOf(disk.words, Contents(disk.files), 0, Len(disk.files), disk.stop)'
  <2>1. Contents(disk.files)' = Contents(disk.files)
    BY <1>1 DEF Contents
  <2> QED BY <1>1, <2>1 DEF StoreInv
<1> QED BY <1>11, <1>12, <1>13, <1>14 DEF StoreInv

\* An index that is written has files behind those of the one before it, and only words
\* that are too frequent are more stop words.
Added(old, new) ==
  /\ Len(old.files) <= Len(new.files) /\ SubSeq(new.files, 1, Len(old.files)) = old.files
  /\ old.stop \subseteq new.stop
  /\ \A w \in new.stop \ old.stop :
       LET count == Cardinality(Between(Contents(new.files), w, 0, Len(new.files)))
       IN  \/ count > FilesMax
           \/ (count * 100) \div Len(new.files) >= PercentMax

\* ... the index written from memory
LEMMA StoreWriteFull ==
  BuildInv /\ StoreInv /\ WriteFull => StoreInv' /\ (disk' = disk \/ Added(disk, disk'))
<1> SUFFICES ASSUME BuildInv, StoreInv, WriteFull
             PROVE  StoreInv' /\ (disk' = disk \/ Added(disk, disk'))
  OBVIOUS
<1> DEFINE kept == Restrict(words, DOMAIN words \ FrequentWords)
           n == Len(files)
           c == Contents(files)
<1>1. /\ pc = "walk" /\ partial = <<>> /\ pc' = "done"
      /\ stop' = stop \cup FrequentWords /\ out' = WordIndex(kept)
      /\ disk' = IF unique' = 0 THEN NoIndex ELSE Written(out', unique', stop')
      /\ UNCHANGED <<text, files>>
  BY DEF WriteFull
<1>2. /\ TypeOK /\ files \in Seq(Docs) /\ n \in Nat
      /\ words \in [DOMAIN words -> Seq(FileEntries)] /\ DOMAIN words \subseteq Words
  BY DEF BuildInv, TypeOK, ListsInv
<1>3. /\ disk = NoIndex /\ disk.files = <<>> /\ Len(disk.files) = 0
      /\ stop = disk.stop /\ disk.stop \subseteq stop
      /\ SubSeq(files, 1, 0) = <<>>
  <2>1. disk = NoIndex /\ stop = disk.stop
    BY <1>1 DEF StoreInv, GrowthInv
  <2> QED BY <1>2, <2>1 DEF NoIndex
<1>4. StretchesInv' /\ CompleteInv' /\ GrowthInv'
  BY <1>1 DEF StretchesInv, CompleteInv, GrowthInv
<1>5. CASE unique' = 0
  <2>1. disk' = disk
    BY <1>1, <1>3, <1>5
  <2>2. Contents(disk.files)' = Contents(disk.files)
    BY <1>1, <2>1 DEF Contents
  <2>3. IsIndexOf(disk.words, Contents(disk.files), 0, Len(disk.files), disk.stop)'
    BY <2>1, <2>2 DEF StoreInv
  <2> QED BY <1>4, <2>1, <2>3 DEF StoreInv
<1>6. CASE unique' # 0
  <2>1. disk'.words = WordIndex(kept) /\ disk'.files = files /\ disk'.stop = stop \cup FrequentWords
    BY <1>1, <1>6 DEF Written
  <2>2. PICK ends \in [0..Len(partial) -> 0..n] :
          /\ AreStretches(partial, ends, c, stop)
          /\ IsIndexOf(WordIndex(words), c, ends[Len(partial)], n, stop)
    BY <1>1 DEF StoreInv, StretchesInv
  <2>3. IsIndexOf(WordIndex(words), c, 0, n, stop)
    <3>1. Len(partial) = 0 /\ ends[0] = 0
      BY <1>1, <2>2, EmptySeq DEF AreStretches
    <3> QED BY <2>2, <3>1
  <2> HIDE DEF c, n
  <2>4. /\ DOMAIN words \ stop = {w \in Words \ stop : Between(c, w, 0, n) # {}}
        /\ \A w \in DOMAIN words \ stop : IsListOf(words[w], c, w, 0, n)
    BY <1>2, <2>3, MapIndex
  <2>5. /\ DOMAIN kept = DOMAIN words \ FrequentWords
        /\ \A w \in DOMAIN kept : kept[w] = words[w]
        /\ kept \in [DOMAIN kept -> Seq(FileEntries)] /\ DOMAIN kept \subseteq Words
    <3>1. kept = [w \in DOMAIN words \ FrequentWords |-> words[w]]
      BY DEF Restrict
    <3>2. \A w \in DOMAIN words : words[w] \in Seq(FileEntries)
      BY <1>2
    <3> HIDE DEF kept
    <3> QED BY <1>2, <3>1, <3>2
  <2> HIDE DEF kept
  <2> DEFINE more == stop \cup FrequentWords
  <2>6. /\ DOMAIN kept \ more = {w \in Words \ more : Between(c, w, 0, n) # {}}
        /\ \A w \in DOMAIN kept \ more : IsListOf(kept[w], c, w, 0, n)
    <3>1. ASSUME NEW w \in Words \ more
          PROVE  w \in DOMAIN kept <=> Between(c, w, 0, n) # {}
      BY <2>4, <2>5
    <3>2. DOMAIN kept \ more = {w \in Words \ more : Between(c, w, 0, n) # {}}
      BY <2>5, <3>1
    <3> QED BY <2>4, <2>5, <3>2
  <2> HIDE DEF more
  <2>7. IsIndexOf(WordIndex(kept), c, 0, n, more)
    BY <2>5, <2>6, MapIndex
  <2>8. Contents(disk.files)' = c
    BY <1>1, <2>1 DEF Contents, c
  <2>9. IsIndexOf(disk.words, Contents(disk.files), 0, Len(disk.files), disk.stop)'
    BY <2>1, <2>7, <2>8 DEF n, more
  <2>10. \A w \in FrequentWords \ stop : TooFrequent(Cardinality(Between(c, w, 0, n)))
    <3> TAKE w \in FrequentWords \ stop
    <3>1. w \in DOMAIN words \ stop /\ TooFrequent(Len(words[w]))
      BY DEF FrequentWords
    <3>2. words[w] \in Seq(FileEntries) /\ IsListOf(words[w], c, w, 0, n)
      BY <1>2, <2>4, <3>1
    <3>3. Len(words[w]) = Cardinality(Between(c, w, 0, n))
      BY <3>2, ListLength
    <3> QED BY <3>1, <3>3
  <2>11. Added(disk, disk')
    <3>1. 0 <= n
      BY <1>2
    <3>2. \A w \in more \ stop : LET count == Cardinality(Between(c, w, 0, n))
                                 IN  \/ count > FilesMax
                                     \/ (count * 100) \div n >= PercentMax
      BY <2>10 DEF more, TooFrequent, n
    <3> QED BY <1>3, <2>1, <3>1, <3>2 DEF Added, more, c, n
  <2> QED BY <1>4, <2>9, <2>11 DEF StoreInv
<1> QED BY <1>5, <1>6

\* ... the partial indices opened
LEMMA StoreOpenPartial == BuildInv /\ StoreInv /\ OpenPartial => StoreInv'
<1> SUFFICES ASSUME BuildInv, StoreInv, OpenPartial PROVE StoreInv'
  OBVIOUS
<1> DEFINE n == Len(files)
           c == Contents(files)
           s == WordIndex(words)
<1>1. /\ pc = "walk" /\ pc' = "count" /\ partial # <<>>
      /\ partial' = (IF words = <<>> THEN partial ELSE WritePartial(words))
      /\ UNCHANGED <<text, files, stop, disk>>
  BY DEF OpenPartial
<1>2. /\ TypeOK /\ partial \in Seq(Seq(Entries)) /\ files \in Seq(Docs) /\ n \in Nat /\ n <= n
      /\ words \in [DOMAIN words -> Seq(FileEntries)] /\ DOMAIN words \subseteq Words
  BY DEF BuildInv, TypeOK, ListsInv
<1>3. s \in Seq(Entries)
  BY <1>2, WordIndexFacts
<1>4. PICK ends \in [0..Len(partial) -> 0..n] :
        /\ AreStretches(partial, ends, c, stop)
        /\ IsIndexOf(s, c, ends[Len(partial)], n, stop)
  BY <1>1 DEF StoreInv, StretchesInv
<1>5. Contents(files)' = c
  BY <1>1 DEF Contents
<1>6. \E more \in [0..Len(partial') -> 0..n] :
        AreStretches(partial', more, c, stop) /\ more[Len(partial')] = n
  <2>1. CASE words = <<>>
    <3>1. partial' = partial /\ s = <<>>
      BY <1>1, <2>1, EmptyIndex
    <3> HIDE DEF n, c, s
    <3>2. /\ AreStretches(partial, ends, c, stop) /\ n \in Nat
          /\ Len(partial) # 0 /\ partial \in Seq(Seq(Entries))
      BY <1>1, <1>2, <1>4, EmptySeq
    <3>3. WithoutWords(c, ends[Len(partial)], n, stop)
      <4>1. WordsIn(s) = {}
        BY <3>1, EmptySeq DEF WordsIn
      <4> QED BY <1>4, <4>1 DEF IsIndexOf, WithoutWords
    <3>4. ReachTo(partial, c, n, stop)
      BY <3>2, <3>3, StretchesExtend
    <3> QED BY <3>1, <3>4 DEF ReachTo
  <2>2. CASE words # <<>>
    <3>1. partial' = Append(partial, s)
      BY <1>1, <2>2 DEF WritePartial
    <3> HIDE DEF n, c, s
    <3>2. /\ IsIndexOf(s, c, ends[Len(partial)], n, stop) /\ AreStretches(partial, ends, c, stop)
          /\ n \in Nat /\ n <= n /\ s \in Seq(Entries) /\ partial \in Seq(Seq(Entries))
      BY <1>2, <1>3, <1>4
    <3>3. \E more \in [0..Len(Append(partial, s)) -> 0..n] :
            /\ AreStretches(Append(partial, s), more, c, stop)
            /\ more[Len(Append(partial, s))] = n
      BY <3>2, StretchesAppend
    <3> QED BY <3>1, <3>3
  <2> QED BY <2>1, <2>2
<1>7. StretchesInv'
  BY <1>1, <1>5, <1>6 DEF StretchesInv
<1>8. CompleteInv'
  BY <1>1 DEF CompleteInv
<1>9. GrowthInv'
  BY <1>1 DEF StoreInv, GrowthInv
<1>10. IsIndexOf(disk.words, Contents(disk.files), 0, Len(disk.files), disk.stop)'
  <2>1. Contents(disk.files)' = Contents(disk.files)
    BY <1>1 DEF Contents
  <2> QED BY <1>1, <2>1 DEF StoreInv
<1> QED BY <1>7, <1>8, <1>9, <1>10 DEF StoreInv

\* ... a word counted: it becomes a stop word if too many files have it.
LEMMA StoreCountWord == BuildInv /\ AgreeInv /\ StoreInv /\ CountWord => StoreInv'
<1> SUFFICES ASSUME BuildInv, AgreeInv, StoreInv, CountWord PROVE StoreInv'
  OBVIOUS
<1> DEFINE n == Len(files)
           c == Contents(files)
           word == WordAt(cursor, Least(cursor))
           list == FilesOf(cursor, Same(cursor))
<1>1. /\ pc = "count" /\ pc' = "count" /\ Cardinality(Live(cursor)) >= 2
      /\ stop' = IF TooFrequent(Len(list)) THEN stop \cup {word} ELSE stop
      /\ UNCHANGED <<text, files, partial, disk>>
  BY DEF CountWord, walkVars
<1>2. /\ TypeOK /\ WordsInOrder /\ IsPosition(cursor) /\ Live(cursor) # {}
      /\ n \in Nat /\ partial \in Seq(Seq(Entries))
  <2>1. TypeOK /\ WordsInOrder
    BY DEF BuildInv
  <2>2. Live(cursor) # {}
    BY <1>1, FS_EmptySet
  <2> QED BY <1>1, <2>1, <2>2 DEF TypeOK, IsPosition
<1>3. PICK ends \in [0..Len(partial) -> 0..n] :
        AreStretches(partial, ends, c, stop) /\ ends[Len(partial)] = n
  BY <1>1 DEF StoreInv, StretchesInv
<1>4. word \in Words /\ word \in Nat /\ list \in Seq(FileEntries)
  BY <1>2, NextWordFacts, ConstantsAssumption
<1>5. /\ word \notin stop
      /\ word \notin WordsAt(AllEntries(partial) \ Ahead(partial, cursor))
  <2>1. word \in WordsAt(Ahead(partial, cursor))
    BY <1>2, NextWords
  <2>2. /\ WordsAt(Ahead(partial, cursor)) \cap stop = {}
        /\ \A b \in WordsAt(AllEntries(partial) \ Ahead(partial, cursor)),
              a \in WordsAt(Ahead(partial, cursor)) : b < a
    BY <1>1 DEF AgreeInv, CountedInv
  <2> HIDE DEF word
  <2>3. ~(word < word)
    BY <1>4
  <2> QED BY <2>1, <2>2, <2>3
<1>6. IsListOf(list, c, word, 0, n)
  <2>1. IsListOf(list, c, word, 0, ends[Len(partial)])
    <3> HIDE DEF n, c
    <3> QED BY <1>2, <1>3, <1>5, NextList
  <2> QED BY <1>3, <2>1
<1>7. Contents(files)' = c
  BY <1>1 DEF Contents
<1> HIDE DEF n, c, word, list
<1>8. stop \subseteq stop'
  BY <1>1
<1>9. AreStretches(partial, ends, c, stop')
  BY <1>2, <1>3, <1>8, StretchesStay
<1>10. StretchesInv'
  BY <1>1, <1>3, <1>7, <1>9 DEF StretchesInv, n
<1>11. CompleteInv'
  BY <1>1 DEF CompleteInv
<1>12. GrowthInv'
  <2>1. /\ Len(disk.files) <= Len(files) /\ SubSeq(files, 1, Len(disk.files)) = disk.files
        /\ disk.stop \subseteq stop
        /\ \A w \in stop \ disk.stop : TooFrequent(Cardinality(Between(c, w, 0, n)))
    BY <1>1 DEF StoreInv, GrowthInv, c, n
  <2>2. TooFrequent(Len(list)) => TooFrequent(Cardinality(Between(c, word, 0, n)))
    <3>1. Len(list) = Cardinality(Between(c, word, 0, n))
      BY <1>4, <1>6, ListLength
    <3> QED BY <3>1
  <2>3. \A w \in stop' \ disk.stop : TooFrequent(Cardinality(Between(c, w, 0, n)))
    BY <1>1, <2>1, <2>2
  <2>4. \A w \in stop' \ disk.stop : TooFrequent(Cardinality(Between(c, w, 0, n)))'
    BY <1>1, <1>7, <2>3 DEF TooFrequent, c, n
  <2>5. \A w \in stop' \ disk.stop :
          TooFrequent(Cardinality(Between(Contents(files), w, 0, Len(files))))'
    BY <2>4 DEF c, n
  <2> QED BY <1>1, <1>8, <2>1, <2>5 DEF GrowthInv
<1>13. IsIndexOf(disk.words, Contents(disk.files), 0, Len(disk.files), disk.stop)'
  <2>1. Contents(disk.files)' = Contents(disk.files)
    BY <1>1 DEF Contents
  <2> QED BY <1>1, <2>1 DEF StoreInv
<1> QED BY <1>10, <1>11, <1>12, <1>13 DEF StoreInv

\* ... the second phase started
LEMMA StoreCountDone == BuildInv /\ StoreInv /\ CountDone => StoreInv'
<1> SUFFICES ASSUME BuildInv, StoreInv, CountDone PROVE StoreInv'
  OBVIOUS
<1>1. /\ pc = "count" /\ pc' = "merge" /\ cursor' = Starts(partial)
      /\ UNCHANGED <<text, files, partial, stop, out, disk>>
  BY DEF CountDone, walkVars
<1>2. out = <<>>
  BY <1>1 DEF BuildInv, MergingInv
<1>3. /\ Contents(files)' = Contents(files)
      /\ Contents(disk.files)' = Contents(disk.files)
  BY <1>1 DEF Contents
<1>4. StretchesInv'
  BY <1>1, <1>3 DEF StoreInv, StretchesInv
<1>5. CompleteInv'
  <2>1. (AllEntries(partial) \ Ahead(partial, cursor))' = {}
    BY <1>1 DEF AllEntries
  <2>2. WordsAt(AllEntries(partial) \ Ahead(partial, cursor))' = {}
    BY <2>1 DEF WordsAt
  <2>3. DOMAIN out' = {}
    BY <1>1, <1>2
  <2> QED BY <1>1, <2>2, <2>3 DEF CompleteInv
<1>6. GrowthInv'
  BY <1>1, <1>3 DEF StoreInv, GrowthInv, TooFrequent
<1>7. IsIndexOf(disk.words, Contents(disk.files), 0, Len(disk.files), disk.stop)'
  BY <1>1, <1>3 DEF StoreInv
<1> QED BY <1>4, <1>5, <1>6, <1>7 DEF StoreInv

\* Only stop words are behind the second phase that were not before it stepped over them.
LEMMA SkippedBehind ==
  ASSUME TypeOK, NEW at, IsPosition(at)
  PROVE  WordsAt(AllEntries(partial) \ Ahead(partial, Skipped(at))) \ stop
           = WordsAt(AllEntries(partial) \ Ahead(partial, at)) \ stop
<1> DEFINE all == AllEntries(partial)
           ahead == Ahead(partial, at)
           next == Ahead(partial, Skipped(at))
<1>1. next \subseteq ahead /\ \A e \in ahead \ next : partial[e[1]][e[2]].word \in stop
  BY SkippedAhead
<1> HIDE DEF all, ahead, next
<1>2. WordsAt(all \ next) \ stop = WordsAt(all \ ahead) \ stop
  BY <1>1 DEF WordsAt
<1> QED BY <1>2 DEF all, ahead, next

\* ... a word written: it has the list of all the files
LEMMA StoreMergeWord ==
  BuildInv /\ AgreeInv /\ StoreInv /\ AtMostTwo /\ MergeWord => StoreInv'
<1> SUFFICES ASSUME BuildInv, AgreeInv, StoreInv, AtMostTwo, MergeWord PROVE StoreInv'
  OBVIOUS
<1> DEFINE n == Len(files)
           c == Contents(files)
           at == Skipped(cursor)
           word == WordAt(at, Least(at))
           list == FilesOf(at, Same(at))
           entry == [word |-> word, files |-> list]
           all == AllEntries(partial)
<1>1. /\ pc = "merge" /\ pc' = "merge" /\ Cardinality(Live(at)) >= 2
      /\ out' = Append(out, entry) /\ cursor' = Past(at, Same(at))
      /\ UNCHANGED <<text, files, partial, stop, disk>>
  BY DEF MergeWord, walkVars
<1>2. /\ TypeOK /\ WordsInOrder /\ IsPosition(cursor) /\ n \in Nat
      /\ partial \in Seq(Seq(Entries)) /\ out \in Seq(Entries)
  BY <1>1 DEF BuildInv, TypeOK, IsPosition
<1>3. /\ IsPosition(at) /\ Ahead(partial, at) \subseteq Ahead(partial, cursor)
      /\ WordsAt(all \ Ahead(partial, at)) \ stop = WordsAt(all \ Ahead(partial, cursor)) \ stop
  BY <1>2, SkippedFacts, SkippedAhead, SkippedBehind
<1>4. \A j \in DOMAIN partial : at[j] <= Len(partial[j]) => partial[j][at[j]].word \notin stop
  BY <1>2, SkippedFacts DEF AtMostTwo
<1>5. Live(at) # {}
  <2>1. ~(Cardinality({}) >= 2)
    BY FS_EmptySet
  <2>2. Cardinality(Live(at)) >= 2
    BY <1>1
  <2> HIDE DEF at
  <2> QED BY <2>1, <2>2
<1>6. PICK ends \in [0..Len(partial) -> 0..n] :
        AreStretches(partial, ends, c, stop) /\ ends[Len(partial)] = n
  BY <1>1 DEF StoreInv, StretchesInv
<1> HIDE DEF at
<1>7. /\ Least(at) \in Live(at) /\ word \in Words /\ word \in Nat /\ list \in Seq(FileEntries)
  BY <1>2, <1>3, <1>5, NextWordFacts, ConstantsAssumption
<1>8. word \notin stop
  BY <1>4, <1>7 DEF Live, WordAt
<1>9. /\ WordsAt(Ahead(partial, at)) = WordsAt(Ahead(partial, Past(at, Same(at)))) \cup {word}
      /\ WordsAt(all \ Ahead(partial, Past(at, Same(at)))) =
           WordsAt(all \ Ahead(partial, at)) \cup {word}
  BY <1>2, <1>3, <1>5, NextWords
<1>10. /\ \A m \in DOMAIN out, e \in Ahead(partial, cursor) :
            out[m].word < partial[e[1]][e[2]].word
       /\ WordsAt(all \ Ahead(partial, cursor)) \ stop \subseteq WordsIn(out)
       /\ \A m \in DOMAIN out : IsListOf(out[m].files, c, out[m].word, 0, n)
  BY <1>1 DEF BuildInv, MergingInv, StoreInv, CompleteInv
<1>11. word \notin WordsAt(all \ Ahead(partial, at))
  <2> SUFFICES ASSUME word \in WordsAt(all \ Ahead(partial, at)) PROVE FALSE
    OBVIOUS
  <2>1. word \in WordsIn(out)
    BY <1>3, <1>8, <1>10
  <2>2. PICK m \in DOMAIN out : out[m].word = word
    BY <2>1 DEF WordsIn
  <2>3. word \in WordsAt(Ahead(partial, at))
    BY <1>9
  <2> HIDE DEF word
  <2>4. PICK e \in Ahead(partial, at) : partial[e[1]][e[2]].word = word
    BY <2>3 DEF WordsAt
  <2>5. word < word
    BY <1>3, <1>10, <2>2, <2>4
  <2> QED BY <1>7, <2>5
<1>12. IsListOf(list, c, word, 0, n)
  <2>1. IsListOf(list, c, word, 0, ends[Len(partial)])
    <3> HIDE DEF n, c
    <3> QED BY <1>2, <1>3, <1>5, <1>6, <1>8, <1>11, NextList
  <2> QED BY <1>6, <2>1
<1>13. /\ Contents(files)' = c
       /\ Contents(disk.files)' = Contents(disk.files)
  BY <1>1 DEF Contents
<1> HIDE DEF word, list, c, n
<1>14. /\ entry \in Entries /\ entry.word = word /\ entry.files = list
  BY <1>7 DEF Entries
<1> HIDE DEF entry
<1>15. /\ DOMAIN out' = DOMAIN out \cup {Len(out) + 1}
       /\ \A k \in DOMAIN out : out'[k] = out[k]
       /\ out'[Len(out) + 1] = entry
  BY <1>1, <1>2, <1>14, AppendProperties
<1>16. WordsIn(out') = WordsIn(out) \cup {word}
  BY <1>14, <1>15 DEF WordsIn
<1>17. StretchesInv'
  BY <1>1, <1>6, <1>13 DEF StretchesInv, n
<1>18. CompleteInv'
  <2>1. \A m \in DOMAIN out' : IsListOf(out'[m].files, c, out'[m].word, 0, n)
    BY <1>10, <1>12, <1>14, <1>15
  <2>2. WordsAt(all \ Ahead(partial, Past(at, Same(at)))) \ stop \subseteq WordsIn(out')
    BY <1>3, <1>9, <1>10, <1>16
  <2>3. WordsAt(AllEntries(partial) \ Ahead(partial, cursor))'
          = WordsAt(all \ Ahead(partial, Past(at, Same(at))))
    BY <1>1 DEF WordsAt, all
  <2>4. WordsIn(out)' = WordsIn(out')
    BY DEF WordsIn
  <2>5. (WordsAt(AllEntries(partial) \ Ahead(partial, cursor)) \ stop \subseteq WordsIn(out))'
    BY <1>1, <2>2, <2>3, <2>4
  <2>6. (\A m \in DOMAIN out :
           IsListOf(out[m].files, Contents(files), out[m].word, 0, Len(files)))'
    BY <1>1, <1>13, <2>1 DEF n
  <2> QED BY <2>5, <2>6 DEF CompleteInv
<1>19. GrowthInv'
  BY <1>1, <1>13 DEF StoreInv, GrowthInv, TooFrequent, c
<1>20. IsIndexOf(disk.words, Contents(disk.files), 0, Len(disk.files), disk.stop)'
  BY <1>1, <1>13 DEF StoreInv
<1> QED BY <1>17, <1>18, <1>19, <1>20 DEF StoreInv

\* ... but one partial index left
LEMMA StoreMergeDone == BuildInv /\ StoreInv /\ MergeDone => StoreInv'
<1> SUFFICES ASSUME BuildInv, StoreInv, MergeDone PROVE StoreInv'
  OBVIOUS
<1>1. /\ pc = "merge" /\ pc' = "copy" /\ cursor' = Skipped(cursor)
      /\ UNCHANGED <<text, files, partial, stop, out, disk>>
  BY DEF MergeDone, walkVars
<1>2. TypeOK /\ IsPosition(cursor)
  BY <1>1 DEF BuildInv, TypeOK, IsPosition
<1>3. /\ Contents(files)' = Contents(files)
      /\ Contents(disk.files)' = Contents(disk.files)
  BY <1>1 DEF Contents
<1>4. StretchesInv'
  BY <1>1, <1>3 DEF StoreInv, StretchesInv
<1>5. CompleteInv'
  <2>1. /\ \A m \in DOMAIN out :
             IsListOf(out[m].files, Contents(files), out[m].word, 0, Len(files))
        /\ WordsAt(AllEntries(partial) \ Ahead(partial, cursor)) \ stop \subseteq WordsIn(out)
    BY <1>1 DEF StoreInv, CompleteInv
  <2>2. WordsAt(AllEntries(partial) \ Ahead(partial, Skipped(cursor))) \ stop
          = WordsAt(AllEntries(partial) \ Ahead(partial, cursor)) \ stop
    BY <1>2, SkippedBehind
  <2>3. WordsAt(AllEntries(partial) \ Ahead(partial, cursor))'
          = WordsAt(AllEntries(partial) \ Ahead(partial, Skipped(cursor)))
    BY <1>1 DEF WordsAt
  <2>4. WordsIn(out)' = WordsIn(out)
    BY <1>1 DEF WordsIn
  <2>5. (WordsAt(AllEntries(partial) \ Ahead(partial, cursor)) \ stop \subseteq WordsIn(out))'
    BY <1>1, <2>1, <2>2, <2>3, <2>4
  <2>6. (\A m \in DOMAIN out :
           IsListOf(out[m].files, Contents(files), out[m].word, 0, Len(files)))'
    BY <1>1, <1>3, <2>1
  <2> QED BY <2>5, <2>6 DEF CompleteInv
<1>6. GrowthInv'
  BY <1>1, <1>3 DEF StoreInv, GrowthInv, TooFrequent
<1>7. IsIndexOf(disk.words, Contents(disk.files), 0, Len(disk.files), disk.stop)'
  BY <1>1, <1>3 DEF StoreInv
<1> QED BY <1>4, <1>5, <1>6, <1>7 DEF StoreInv

\* With no more than one partial index that is not exhausted, what is not passed of it has
\* the lists of all the files.
LEMMA LastList ==
  ASSUME BuildInv, StoreInv, pc = "copy", NEW e \in Ahead(partial, cursor),
         partial[e[1]][e[2]].word \notin stop
  PROVE  IsListOf(partial[e[1]][e[2]].files, Contents(files), partial[e[1]][e[2]].word,
                  0, Len(files))
<1> DEFINE n == Len(files)
           c == Contents(files)
           L == Len(partial)
           j == e[1]
           word == partial[e[1]][e[2]].word
           list == partial[e[1]][e[2]].files
<1>1. /\ TypeOK /\ WordsInOrder /\ IsPosition(cursor) /\ n \in Nat /\ Cardinality(Live(cursor)) < 2
  <2>1. TypeOK /\ WordsInOrder /\ MergingInv
    BY DEF BuildInv
  <2>2. IsPosition(cursor) /\ n \in Nat
    BY <2>1 DEF TypeOK, IsPosition
  <2> QED BY <2>1, <2>2 DEF MergingInv
<1>2. PICK ends \in [0..L -> 0..n] : AreStretches(partial, ends, c, stop) /\ ends[L] = n
  BY DEF StoreInv, StretchesInv
<1>3. L \in Nat /\ DOMAIN partial = 1..L
  BY <1>1, PartialFacts
<1>4. /\ e = <<j, e[2]>> /\ j \in 1..L /\ e[2] \in DOMAIN partial[j] /\ e[2] \in 1..Len(partial[j])
      /\ e[2] \in cursor[j]..Len(partial[j]) /\ cursor[j] \in Nat
      /\ word \in Words /\ word \in Nat
  BY <1>1, <1>3, AheadEntries, PartialFacts
<1>5. /\ ends[0] = 0
      /\ \A i \in 1..L : /\ ends[i - 1] <= ends[i]
                         /\ IsIndexOf(partial[i], c, ends[i - 1], ends[i], stop)
  BY <1>2, <1>3 DEF AreStretches
<1>6. IsListOf(list, c, word, ends[j - 1], ends[j])
  BY <1>4, <1>5 DEF IsIndexOf
<1>7. \A a, b \in Live(cursor) : a = b
  <2>1. IsFiniteSet(Live(cursor))
    <3>1. Live(cursor) \subseteq DOMAIN partial
      BY DEF Live
    <3>2. IsFiniteSet(DOMAIN partial)
      BY <1>3, FS_Interval
    <3> QED BY <3>1, <3>2, FS_Subset
  <2> SUFFICES ASSUME NEW a \in Live(cursor), NEW b \in Live(cursor) PROVE a = b
    OBVIOUS
  <2>2. Cardinality(Live(cursor)) = 1
    BY <1>1, <2>1, FS_CardinalityType, FS_EmptySet
  <2>3. PICK k : Live(cursor) = {k}
    BY <2>1, <2>2, FS_Singleton
  <2> QED BY <2>3
<1>8. /\ \A m \in DOMAIN out, d \in Ahead(partial, cursor) :
            out[m].word < partial[d[1]][d[2]].word
      /\ WordsAt(AllEntries(partial) \ Ahead(partial, cursor)) \ stop \subseteq WordsIn(out)
  BY DEF BuildInv, MergingInv, StoreInv, CompleteInv
<1>9. IsPosition(Starts(partial)) /\ \A i \in DOMAIN partial : Starts(partial)[i] = 1
  <2>1. partial \in Seq(Seq(Entries))
    BY <1>1 DEF TypeOK
  <2> QED BY <2>1, StartsFacts DEF IsPosition
<1>10. word \notin stop
  OBVIOUS
<1>11. ASSUME NEW i \in 1..L, word \in WordsIn(partial[i]) PROVE i = j
  <2>1. PICK k \in DOMAIN partial[i] : partial[i][k].word = word
    BY <1>11 DEF WordsIn
  <2> HIDE DEF word, j, L
  <2>2. k \in 1..Len(partial[i])
    BY <1>1, <1>3, PartialFacts
  <2>3. <<i, k>> \in AllEntries(partial)
    BY <1>1, <1>3, <1>9, <2>2, AheadEntries DEF AllEntries
  <2>4. <<i, k>>[1] = i /\ <<i, k>>[2] = k
    OBVIOUS
  <2>5. <<i, k>> \in Ahead(partial, cursor)
    <3> SUFFICES ASSUME <<i, k>> \notin Ahead(partial, cursor) PROVE FALSE
      OBVIOUS
    <3>1. word \in WordsAt(AllEntries(partial) \ Ahead(partial, cursor))
      BY <2>1, <2>3, <2>4 DEF WordsAt
    <3>2. PICK m \in DOMAIN out : out[m].word = word
      BY <1>8, <1>10, <3>1 DEF WordsIn
    <3>3. word < word
      BY <1>8, <3>2 DEF word
    <3> QED BY <1>4, <3>3
  <2>6. k \in cursor[i]..Len(partial[i]) /\ cursor[i] \in Nat
    BY <1>1, <2>4, <2>5, AheadEntries
  <2>7. i \in Live(cursor) /\ j \in Live(cursor)
    <3>1. \A x \in 1..L : Len(partial[x]) \in Nat
      BY <1>1, <1>3, PartialFacts
    <3>2. cursor[i] <= Len(partial[i])
      BY <2>6, <3>1
    <3>3. cursor[j] <= Len(partial[j])
      BY <1>4, <3>1
    <3> QED BY <1>3, <1>4, <3>2, <3>3 DEF Live
  <2> QED BY <1>7, <2>7
<1> HIDE DEF word, list, L, c, n
<1>12. j \in 0..L /\ j - 1 \in 0..L
  BY <1>3, <1>4
<1>13. ends[j - 1] \in 0..n /\ ends[j] \in 0..n
  BY <1>2, <1>12
<1>14. ends \in [0..L -> Nat]
  <2>1. \A x \in 0..n : x \in Nat
    BY <1>1
  <2> QED BY <1>2, <2>1
<1>15. Between(c, word, 0, n) = Between(c, word, ends[j - 1], ends[j])
  <2>1. ASSUME NEW x \in Between(c, word, ends[j - 1], ends[j]) PROVE x \in Between(c, word, 0, n)
    <3>1. x \in (ends[j - 1] + 1)..ends[j] /\ c[x][word] > 0
      BY DEF Between
    <3>2. x \in (0 + 1)..n
      BY <1>1, <1>13, <3>1
    <3> QED BY <3>1, <3>2 DEF Between
  <2>2. ASSUME NEW x \in Between(c, word, 0, n) PROVE x \in Between(c, word, ends[j - 1], ends[j])
    <3>1. x \in 1..ends[L] /\ c[x][word] > 0
      BY <1>2 DEF Between
    <3>2. PICK i \in 1..L : x \in (ends[i - 1] + 1)..ends[i]
      BY <1>3, <1>5, <1>14, <3>1, InAStretch
    <3>3. x \in Between(c, word, ends[i - 1], ends[i])
      BY <3>1, <3>2 DEF Between
    <3>4. word \in WordsIn(partial[i])
      BY <1>4, <1>5, <1>10, <3>3 DEF IsIndexOf
    <3>5. i = j
      BY <1>11, <3>4
    <3> QED BY <3>3, <3>5
  <2> QED BY <2>1, <2>2
<1>16. IsListOf(list, c, word, 0, n)
  BY <1>6, <1>15 DEF IsListOf
<1> QED BY <1>16 DEF list, word, c, n

\* ... and that one copied: the new index is that of all the files
LEMMA StoreCopyRest ==
  BuildInv /\ AgreeInv /\ StoreInv /\ CopyRest => StoreInv' /\ Added(disk, disk')
<1> SUFFICES ASSUME BuildInv, AgreeInv, StoreInv, CopyRest PROVE StoreInv' /\ Added(disk, disk')
  OBVIOUS
<1> DEFINE n == Len(files)
           c == Contents(files)
           tail == FlattenSeq([j \in DOMAIN partial |-> Rest(j)])
<1>1. /\ pc = "copy" /\ pc' = "done" /\ out' = out \o tail
      /\ disk' = Written(out', unique, stop)
      /\ UNCHANGED <<text, files, partial, stop>>
  BY DEF CopyRest, walkVars
<1>2. /\ TypeOK /\ WordsInOrder /\ IsPosition(cursor) /\ Cardinality(Live(cursor)) < 2
      /\ out \in Seq(Entries) /\ n \in Nat /\ partial \in Seq(Seq(Entries))
  <2>1. TypeOK /\ WordsInOrder /\ MergingInv
    BY DEF BuildInv
  <2>2. IsPosition(cursor) /\ n \in Nat /\ out \in Seq(Entries) /\ partial \in Seq(Seq(Entries))
    BY <1>1, <2>1 DEF TypeOK, IsPosition
  <2> QED BY <1>1, <2>1, <2>2 DEF MergingInv
<1>3. /\ tail \in Seq(Entries)
      /\ WordsIn(tail) = WordsAt(Ahead(partial, cursor)) \ stop
      /\ \A m \in DOMAIN tail : \E e \in Ahead(partial, cursor) : tail[m] = partial[e[1]][e[2]]
  BY <1>2, CopyFacts
<1>4. PICK ends \in [0..Len(partial) -> 0..n] :
        AreStretches(partial, ends, c, stop) /\ ends[Len(partial)] = n
  BY <1>1 DEF StoreInv, StretchesInv
<1>5. \A m \in DOMAIN out : IsListOf(out[m].files, c, out[m].word, 0, n)
  BY <1>1 DEF StoreInv, CompleteInv
<1>6. WordsIn(out) \cup WordsIn(tail) = WordsAt(AllEntries(partial)) \ stop
  BY <1>1, <1>3 DEF AgreeInv, WrittenInv
<1>7. Contents(files)' = c /\ Contents(disk.files)' = c
  <2>1. disk'.files = files
    BY <1>1 DEF Written
  <2> QED BY <1>1, <2>1 DEF Contents
<1> HIDE DEF tail
<1>8. \A m \in DOMAIN tail : IsListOf(tail[m].files, c, tail[m].word, 0, n)
  <2> TAKE m \in DOMAIN tail
  <2>1. PICK e \in Ahead(partial, cursor) : tail[m] = partial[e[1]][e[2]]
    BY <1>3
  <2>2. tail[m].word \notin stop
    BY <1>3 DEF WordsIn
  <2>3. partial[e[1]][e[2]].word \notin stop
    BY <2>1, <2>2
  <2> QED BY <1>1, <2>1, <2>3, LastList
<1>9. WordsAt(AllEntries(partial)) \ stop = {w \in Words \ stop : Between(c, w, 0, n) # {}}
  <2>1. WordsAt(AllEntries(partial)) = AllWords(partial)
    BY <1>2, WordsAheadFacts
  <2>2. AllWords(partial) \ stop = WordsOf(c, 0, ends[Len(partial)], stop)
    <3> HIDE DEF n, c
    <3>1. /\ partial \in Seq(Seq(Entries)) /\ n \in Nat /\ AreStretches(partial, ends, c, stop)
      BY <1>2, <1>4
    <3> QED BY <3>1, StretchesWords
  <2> QED BY <1>4, <2>1, <2>2 DEF WordsOf
<1> HIDE DEF c, n
<1>10. /\ DOMAIN out' = 1..(Len(out) + Len(tail)) /\ DOMAIN out = 1..Len(out)
       /\ DOMAIN tail = 1..Len(tail) /\ Len(out) \in Nat /\ Len(tail) \in Nat
       /\ \A i \in 1..Len(out) : out'[i] = out[i] /\ i \in DOMAIN out'
       /\ \A i \in 1..Len(tail) : out'[Len(out) + i] = tail[i] /\ Len(out) + i \in DOMAIN out'
  BY <1>1, <1>2, <1>3, ConcatProperties
<1>11. \A i \in DOMAIN out' : \/ i \in DOMAIN out /\ out'[i] = out[i]
                              \/ \E m \in DOMAIN tail : out'[i] = tail[m]
  <2> TAKE i \in DOMAIN out'
  <2>1. CASE i <= Len(out)
    BY <1>10, <2>1
  <2>2. CASE ~(i <= Len(out))
    <3>1. i - Len(out) \in 1..Len(tail) /\ Len(out) + (i - Len(out)) = i
      BY <1>10, <2>2
    <3> QED BY <1>10, <3>1
  <2> QED BY <2>1, <2>2
<1>12. WordsIn(out') = WordsIn(out) \cup WordsIn(tail)
  <2>1. ASSUME NEW i \in DOMAIN out' PROVE out'[i].word \in WordsIn(out) \cup WordsIn(tail)
    BY <1>11 DEF WordsIn
  <2>2. ASSUME NEW i \in DOMAIN out PROVE out[i].word \in WordsIn(out')
    <3>1. i \in DOMAIN out' /\ out'[i] = out[i]
      BY <1>10
    <3> QED BY <3>1 DEF WordsIn
  <2>3. ASSUME NEW i \in DOMAIN tail PROVE tail[i].word \in WordsIn(out')
    <3>1. Len(out) + i \in DOMAIN out' /\ out'[Len(out) + i] = tail[i]
      BY <1>10
    <3> QED BY <3>1 DEF WordsIn
  <2> QED BY <2>1, <2>2, <2>3 DEF WordsIn
<1>13. \A i \in DOMAIN out' : IsListOf(out'[i].files, c, out'[i].word, 0, n)
  BY <1>5, <1>8, <1>11
<1>14. IsIndexOf(out', c, 0, n, stop)
  <2>1. WordsIn(out') \ stop = {w \in Words \ stop : Between(c, w, 0, n) # {}}
    BY <1>6, <1>9, <1>12
  <2> QED BY <1>13, <2>1 DEF IsIndexOf
<1>15. IsIndexOf(disk.words, Contents(disk.files), 0, Len(disk.files), disk.stop)'
  <2>1. disk'.words = out' /\ disk'.files = files /\ disk'.stop = stop
    BY <1>1 DEF Written
  <2> QED BY <1>7, <1>14, <2>1 DEF n
<1>16. StretchesInv' /\ CompleteInv' /\ GrowthInv'
  BY <1>1 DEF StretchesInv, CompleteInv, GrowthInv
<1>17. Added(disk, disk')
  <2>1. disk'.files = files /\ disk'.stop = stop
    BY <1>1 DEF Written
  <2>2. /\ Len(disk.files) <= n /\ SubSeq(files, 1, Len(disk.files)) = disk.files
        /\ disk.stop \subseteq stop
        /\ \A w \in stop \ disk.stop : TooFrequent(Cardinality(Between(c, w, 0, n)))
    BY <1>1 DEF StoreInv, GrowthInv, n, c
  <2> QED BY <2>1, <2>2 DEF Added, TooFrequent, n, c
<1> QED BY <1>15, <1>16, <1>17 DEF StoreInv

\* ... an incremental run started: the old index is that of the first stretch
LEMMA StoreRunAgain == BuildInv /\ StoreInv /\ RunAgain => StoreInv'
<1> SUFFICES ASSUME BuildInv, StoreInv, RunAgain PROVE StoreInv'
  OBVIOUS
<1> DEFINE n == Len(disk.files)
           c == Contents(disk.files)
           ends == [j \in 0..1 |-> IF j = 0 THEN 0 ELSE n]
<1>1. /\ pc' = "walk" /\ files' = disk.files /\ words' = <<>> /\ partial' = <<disk.words>>
      /\ stop' = disk.stop /\ UNCHANGED <<text, disk>>
  BY DEF RunAgain
<1>2. /\ disk.words \in Seq(Entries) /\ disk.files \in Seq(Docs) /\ n \in Nat
  BY DEF BuildInv, OldIndexInv
<1>3. /\ Len(partial') = 1 /\ DOMAIN partial' = {1} /\ partial'[1] = disk.words /\ partial' # <<>>
  BY <1>1, <1>2
<1>4. Contents(files)' = c /\ Contents(disk.files)' = c
  BY <1>1 DEF Contents
<1>5. IsIndexOf(disk.words, c, 0, n, disk.stop)
  BY DEF StoreInv
<1>6. /\ ends \in [0..1 -> 0..n] /\ ends[0] = 0 /\ ends[1] = n
  BY <1>2
<1> HIDE DEF c, n, ends
<1>7. AreStretches(partial', ends, c, stop')
  <2>1. ends[1 - 1] = 0 /\ 0 <= n
    BY <1>2, <1>6
  <2> QED BY <1>1, <1>3, <1>5, <1>6, <2>1 DEF AreStretches
<1>8. IsIndexOf(WordIndex(words'), c, n, n, stop')
  BY <1>1, <1>2, EmptyIndex, EmptyStretch
<1>9. StretchesInv'
  BY <1>1, <1>3, <1>4, <1>6, <1>7, <1>8 DEF StretchesInv, n
<1>10. CompleteInv'
  BY <1>1 DEF CompleteInv
<1>11. GrowthInv'
  <2>1. SubSeq(disk.files, 1, Len(disk.files)) = disk.files
    BY <1>2
  <2> QED BY <1>1, <1>2, <1>3, <2>1 DEF GrowthInv, n
<1>12. IsIndexOf(disk.words, Contents(disk.files), 0, Len(disk.files), disk.stop)'
  BY <1>1, <1>4, <1>5 DEF n
<1> QED BY <1>9, <1>10, <1>11, <1>12 DEF StoreInv

\* Every step keeps StoreInv, if no more than two partial indices are merged, and the
\* index file is left alone or is added to.
LEMMA StoreStep ==
  BuildInv /\ AgreeInv /\ StoreInv /\ AtMostTwo /\ [Next]_vars =>
    StoreInv' /\ UNCHANGED text /\ (disk' = disk \/ Added(disk, disk'))
<1> SUFFICES ASSUME BuildInv, AgreeInv, StoreInv, AtMostTwo, [Next]_vars
             PROVE  StoreInv' /\ UNCHANGED text /\ (disk' = disk \/ Added(disk, disk'))
  OBVIOUS
<1>1. CASE SkipSeen \/ UNCHANGED vars
  <2>1. UNCHANGED <<text, pc, files, words, partial, stop, cursor, unique, out, disk>>
    BY <1>1 DEF SkipSeen, vars
  <2>2. /\ Contents(files)' = Contents(files)
        /\ Contents(disk.files)' = Contents(disk.files)
    BY <2>1 DEF Contents
  <2>3. WordsAt(AllEntries(partial) \ Ahead(partial, cursor))'
          = WordsAt(AllEntries(partial) \ Ahead(partial, cursor))
    BY <2>1 DEF WordsAt
  <2>4. StretchesInv'
    BY <2>1, <2>2 DEF StoreInv, StretchesInv
  <2>5. CompleteInv'
    BY <2>1, <2>2, <2>3 DEF StoreInv, CompleteInv
  <2>6. GrowthInv'
    BY <2>1, <2>2 DEF StoreInv, GrowthInv, TooFrequent
  <2> QED BY <2>1, <2>2, <2>4, <2>5, <2>6 DEF StoreInv
<1>2. CASE WriteFull
  BY <1>2, StoreWriteFull DEF WriteFull
<1>3. CASE CopyRest
  BY <1>3, StoreCopyRest DEF CopyRest
<1>4. CASE DoFile
  BY <1>4, StoreDoFile DEF DoFile
<1>5. CASE OpenPartial
  BY <1>5, StoreOpenPartial DEF OpenPartial
<1>6. CASE CountWord
  BY <1>6, StoreCountWord DEF CountWord
<1>7. CASE CountDone
  BY <1>7, StoreCountDone DEF CountDone
<1>8. CASE MergeWord
  BY <1>8, StoreMergeWord DEF MergeWord
<1>9. CASE MergeDone
  BY <1>9, StoreMergeDone DEF MergeDone
<1>10. CASE RunAgain
  BY <1>10, StoreRunAgain DEF RunAgain
<1> QED BY <1>1, <1>2, <1>3, <1>4, <1>5, <1>6, <1>7, <1>8, <1>9, <1>10 DEF Next, Step

-----------------------------------------------------------------------------
(* The index file as what an index is (IndexStore).                        *)

\* The places of a word in the files of the index
PlacesInv == \A w : Store!Places(w) = Between(Contents(disk.files), w, 0, Len(disk.files))

\* ... are the files that have it.
LEMMA PlacesAre == BuildInv => PlacesInv
<1> SUFFICES ASSUME BuildInv, NEW w
             PROVE  Store!Places(w) = Between(Contents(disk.files), w, 0, Len(disk.files))
  BY DEF PlacesInv
<1> DEFINE n == Len(disk.files)
           c == Contents(disk.files)
<1>1. n \in Nat /\ DOMAIN disk.files = 1..n
  BY DEF BuildInv, OldIndexInv
<1>2. \A i \in 1..n : c[i][w] = text[disk.files[i]][w]
  BY <1>1 DEF Contents
<1>3. (0 + 1)..n = 1..n
  BY <1>1
<1> HIDE DEF c, n
<1>4. Store!Places(w) = Between(c, w, 0, n)
  BY <1>1, <1>2, <1>3 DEF Store!Places, Between
<1> QED BY <1>4 DEF c, n

\* The index file as a map is what an index should be, if the file is.
LEMMA IndexMapIsRight == BuildInv /\ AgreeInv /\ StoreInv => Store!IndexIsRight
<1> SUFFICES ASSUME BuildInv, AgreeInv, StoreInv PROVE Store!IndexIsRight
  OBVIOUS
<1> DEFINE n == Len(disk.files)
           c == Contents(disk.files)
<1>1. /\ OldIndexInv /\ n \in Nat /\ DOMAIN disk.files = 1..n
      /\ \A k \in DOMAIN disk.words : disk.words[k].word \in Words
  <2>1. OldIndexInv
    BY DEF BuildInv
  <2>2. \A k \in DOMAIN disk.words : disk.words[k] \in Entries
    BY <2>1 DEF OldIndexInv
  <2> QED BY <2>1, <2>2 DEF OldIndexInv, Entries
<1>2. \A w : Store!Places(w) = Between(c, w, 0, n)
  BY PlacesAre DEF PlacesInv
<1>3. \A list, w : IsListOf(list, c, w, 0, n) => Store!IsListOf(list, w)
  <2> SUFFICES ASSUME NEW list, NEW w, IsListOf(list, c, w, 0, n) PROVE Store!IsListOf(list, w)
    OBVIOUS
  <2>1. \A k \in DOMAIN list : list[k].file \in (0 + 1)..n
    BY DEF IsListOf, Between
  <2>2. \A k \in DOMAIN list : list[k].occurs = text[disk.files[list[k].file]][w]
    <3> TAKE k \in DOMAIN list
    <3>1. list[k].occurs = c[list[k].file][w]
      BY DEF IsListOf
    <3>2. list[k].file \in DOMAIN disk.files
      BY <1>1, <2>1
    <3> QED BY <3>1, <3>2 DEF Contents
  <2> HIDE DEF c, n
  <2> QED BY <1>2, <2>2 DEF IsListOf, Store!IsListOf
<1>4. IsIndexOf(disk.words, c, 0, n, disk.stop) /\ WordsIn(disk.words) \cap disk.stop = {}
  BY DEF StoreInv, AgreeInv, NoStopWordsInv
<1>5. IndexedWords = WordsIn(disk.words)
  BY DEF IndexedWords, WordsIn
<1> HIDE DEF c, n
<1>6. IndexedWords = {w \in Words : Store!Places(w) # {}} \ disk.stop
  <2>1. WordsIn(disk.words) = {w \in Words \ disk.stop : Between(c, w, 0, n) # {}}
    BY <1>4 DEF IsIndexOf
  <2> QED BY <1>2, <1>5, <2>1
<1>7. \A w \in IndexedWords : Store!IsListOf(disk.words[PlaceOf(w)].files, w)
  <2> TAKE w \in IndexedWords
  <2>1. PlaceOf(w) \in DOMAIN disk.words /\ disk.words[PlaceOf(w)].word = w
    BY DEF IndexedWords, PlaceOf
  <2>2. w \notin disk.stop
    BY <1>4, <1>5
  <2>3. IsListOf(disk.words[PlaceOf(w)].files, c, w, 0, n)
    BY <1>4, <2>1, <2>2 DEF IsIndexOf
  <2> QED BY <1>3, <2>3
<1> QED BY <1>6, <1>7 DEF Store!IndexIsRight

\* At first the index file is an empty index.
LEMMA StoreInitially == Init => Store!Init
<1> SUFFICES ASSUME Init PROVE Store!Init
  OBVIOUS
<1>1. /\ text \in [Docs -> [Words -> 0..MaxOccurs]] /\ disk = NoIndex
  BY DEF Init
<1>2. text \in [Docs -> [Words -> Nat]]
  <2>1. \A d \in Docs : text[d] \in [Words -> Nat]
    <3> TAKE d \in Docs
    <3>1. text[d] \in [Words -> 0..MaxOccurs]
      BY <1>1
    <3>2. \A w \in Words : text[d][w] \in Nat
      BY <3>1, ConstantsAssumption
    <3> QED BY <3>1, <3>2
  <2> QED BY <1>1, <2>1
<1>3. disk.files = <<>> /\ disk.words = <<>> /\ disk.stop \in SUBSET Words
  BY <1>1, ConstantsAssumption DEF NoIndex
<1>4. IndexedWords = {}
  <2>1. DOMAIN disk.words = {}
    BY <1>3, EmptySeq
  <2> QED BY <2>1 DEF IndexedWords
<1>5. [word \in IndexedWords |-> disk.words[PlaceOf(word)].files] = <<>>
  BY <1>4
<1> QED BY <1>2, <1>3, <1>5 DEF Store!Init

\* What is added to the index file is what may be added to an index.
LEMMA StoreAdds ==
  PlacesInv' /\ Store!IndexIsRight' /\ UNCHANGED text /\ Added(disk, disk') => Store!Add
<1> SUFFICES ASSUME PlacesInv', Store!IndexIsRight', UNCHANGED text, Added(disk, disk')
             PROVE  Store!Add
  OBVIOUS
<1>1. /\ Len(disk.files) <= Len(disk'.files)
      /\ SubSeq(disk'.files, 1, Len(disk.files)) = disk.files
      /\ disk.stop \subseteq disk'.stop
  BY DEF Added
<1>2. Contents(disk.files)' = Contents(disk'.files)
  BY DEF Contents
<1>3. \A w \in disk'.stop \ disk.stop : Store!TooFrequent(w)'
  <2> TAKE w \in disk'.stop \ disk.stop
  <2> DEFINE count == Cardinality(Between(Contents(disk'.files), w, 0, Len(disk'.files)))
  <2>1. count > FilesMax \/ (count * 100) \div Len(disk'.files) >= PercentMax
    BY DEF Added
  <2>2. Cardinality(Store!Places(w))' = count
    BY <1>2 DEF PlacesInv
  <2>3. (\A S : Store!Cardinality(S) = Cardinality(S))'
    BY DEF Store!Cardinality, Cardinality
  <2> HIDE DEF count
  <2> QED BY <2>1, <2>2, <2>3 DEF Store!TooFrequent
<1>4. Len(disk'.files) >= Len(disk.files)
  BY <1>1
<1> QED BY <1>1, <1>3, <1>4 DEF Store!Add

\* The index that the file holds implements what an index is, as long as no more than
\* two partial indices are merged.
THEOREM IndexHoldsWhatItShould == Spec /\ []AtMostTwo => StoreSpec
<1>1. BuildInv /\ AgreeInv /\ StoreInv => PlacesInv /\ Store!IndexIsRight
  BY PlacesAre, IndexMapIsRight
<1>2. /\ BuildInv /\ AgreeInv /\ StoreInv /\ AtMostTwo /\ [Next]_vars
      /\ PlacesInv' /\ Store!IndexIsRight'
      => [Store!Add]_Store!storeVars
  <2> SUFFICES ASSUME BuildInv, AgreeInv, StoreInv, AtMostTwo, [Next]_vars,
                      PlacesInv', Store!IndexIsRight'
               PROVE  [Store!Add]_Store!storeVars
    OBVIOUS
  <2>1. UNCHANGED text /\ (disk' = disk \/ Added(disk, disk'))
    BY StoreStep
  <2>2. CASE disk' = disk
    BY <2>1, <2>2 DEF Store!storeVars, IndexedWords, PlaceOf
  <2>3. CASE Added(disk, disk')
    BY <2>1, <2>3, StoreAdds
  <2> QED BY <2>1, <2>2, <2>3
<1>3. BuildInv /\ AgreeInv /\ StoreInv /\ AtMostTwo /\ [Next]_vars => StoreInv'
  BY StoreStep
<1> QED BY <1>1, <1>2, <1>3, BuildInit, BuildStep, AgreeInit, AgreeStep, StoreInit,
    StoreInitially, PTL DEF Spec, StoreSpec, Store!Spec
============================================================================
