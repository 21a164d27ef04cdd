---------------------------- MODULE PostingProps ----------------------------
(***************************************************************************)
(* Properties of the list of files of a word (PostingList).                *)
(***************************************************************************)
EXTENDS PostingList, FiniteSetsExt

Entries == [index : Nat, occurrences : Nat, rank : Nat, metas : SUBSET MetaIds, deltas : Seq(Int)]

\* The occurrences o in a file
In(o, index) == {k \in DOMAIN o : o[k].file = index}

\* An entry has their number, a position for each, and their ids.
TellsOf(f, o) ==
  /\ f.occurrences = Cardinality(In(o, f.index))
  /\ Len(f.deltas) = f.occurrences
  /\ f.metas = {o[k].meta : k \in In(o, f.index)} \ {NoMeta}

\* However the occurrences of a word are spread over files: there is one
\* entry for each file it occurs in, in the order of the files, which tells
\* of all its occurrences there and of no others (indexer.cpp:214-248).
EntriesAreWhatOccurred ==
  /\ \A i, j \in DOMAIN files : i < j => files[i].index < files[j].index
  /\ {files[i].index : i \in DOMAIN files} = {occurs[k].file : k \in DOMAIN occurs}
  /\ \A i \in DOMAIN files : TellsOf(files[i], occurs)

\* An entry as a reader should see it
AsRead(f) == IF knowsPos THEN f ELSE [f EXCEPT !.deltas = <<>>]

\* Whatever numbers there are, of one or more bytes or less than zero, and
\* with or without lists of meta data: the entries an iterator yields are
\* those that were written, all of them and no more, although no lengths are
\* stored and a marker is told from a number by its place alone.  A reader
\* without WITH_WORD_POS skips the positions; a merge keeps what it copies.
ReadsWhatWasWritten ==
  /\ \A i \in DOMAIN seen : i <= Len(files) /\ seen[i] = AsRead(files[i])
  /\ pc = "read" => Len(seen) = Len(files)

\* size(), which skips what it need not know (file_list.cpp:36-72), is the
\* number of entries an iterator yields.
SizeIsNumberOfEntries == pc = "read" => CalcSize = Len(seen)

\* The positions of a word in a file, as near_node adds them up
\* (query_node.cpp:249-290)
PositionsIn(f) ==
  LET sum[i \in 0..Len(f.deltas)] == IF i = 0 THEN 0 ELSE sum[i - 1] + f.deltas[i]
  IN [i \in DOMAIN f.deltas |-> sum[i]]

\* The i-th occurrence in a file
OccurrenceIn(index, i) ==
  CHOOSE k \in In(occurs, index) : Cardinality({j \in In(occurs, index) : j <= k}) = i

TruePositions(index) ==
  [i \in 1..Cardinality(In(occurs, index)) |-> occurs[OccurrenceIn(index, i)].pos]

\* The first two positions in a file are read back, up to the width of a
\* short, also after a merge.
FirstPositionsReadBack ==
  \A k \in DOMAIN seen : knowsPos =>
    \A i \in DOMAIN seen[k].deltas : i <= 2 =>
      (PositionsIn(seen[k])[i] - TruePositions(seen[k].index)[i]) % ShortMod = 0

\* swish++.index(4) says: "Each word position is stored as a delta from the
\* previous position for compactness" (src/man/man4/swish++.index.4:189).
PositionsReadBack ==
  \A k \in DOMAIN seen : knowsPos => PositionsIn(seen[k]) = TruePositions(seen[k].index)

-----------------------------------------------------------------------------
(* Why an iterator yields what was written: what every step keeps.         *)

\* Numbers are written in widths that they fit.
ShortRange == -(ShortMod \div 2)..(ShortMod \div 2 - 1)
ShortDeltas(f) == \A i \in DOMAIN f.deltas : f.deltas[i] \in ShortRange
Fits(f, o) ==
  /\ f.index < LongMod /\ f.occurrences <= Len(o) /\ f.rank < LongMod
  /\ ShortDeltas(f)

FitInv ==
  /\ current < LongMod /\ Len(occurs) <= MaxOccurs
  /\ \A i \in DOMAIN files : Fits(files[i], occurs)

\* The occurrences in a file are one after another, from the k-th, and those in
\* the last file are the last.  An entry begins with the first position, and with
\* how much further the second is.
BeginsAt(f, o, k) ==
  /\ f.deltas # <<>> /\ In(o, f.index) = k..(k + Len(f.deltas) - 1)
  /\ f.deltas[1] = ToShort(o[k].pos)
  /\ Len(f.deltas) > 1 => f.deltas[2] = ToShort(o[k + 1].pos - f.deltas[1])
EndsAt(f, k, n) == k + Len(f.deltas) - 1 = n

FirstInv ==
  \A i \in DOMAIN files : \E k \in DOMAIN occurs :
    /\ BeginsAt(files[i], occurs, k)
    /\ i = Len(files) => EndsAt(files[i], k, Len(occurs))

\* The bytes are those of the entries, of which there is at least one.
WrittenInv == pc # "indexing" => files # <<>> /\ bytes = ListBytes(files)

\* How many bytes the first k of some pieces have
Extent(pieces, k) == Len(FlattenSeq(SubSeq(pieces, 1, k)))

\* Where, after k entries, the next one begins, and its lists; where it ends
Numbers(f) == Encode(f.index) \o Encode(f.occurrences) \o Encode(f.rank)
MetaList(f) == NumberList(MetaListMarker, SetToSeq(f.metas))
PosList(f) == NumberList(WordPosListMarker, f.deltas)
Pieces == [i \in DOMAIN files |-> Announced(files, i)]

EntryAt(k) == Extent(Pieces, k) + (IF k = 0 THEN 1 ELSE 2)
MetasAt(k) == EntryAt(k) + Len(Numbers(files[k + 1]))
PositionsAt(k) == MetasAt(k) + Len(MetaList(files[k + 1]))
EndAt(k) == PositionsAt(k) + Len(PosList(files[k + 1]))

\* The entry that is read; what v has of it; and that of a list at some place i
\* numbers are read
Reading == files[Len(seen) + 1]
ReadSoFar(metas, deltas) ==
  v = [index |-> Reading.index, occurrences |-> Reading.occurrences, rank |-> Reading.rank,
       metas |-> metas, deltas |-> deltas]

Encoded(numbers) == [i \in DOMAIN numbers |-> Encode(numbers[i])]
FirstOf(numbers, i) == {numbers[j] : j \in 1..i}
WithinList(place, numbers, i) == c = place + 1 + Extent(Encoded(numbers), i)

\* The iterator is at the place in the bytes where what it has not read begins.
BeforeMarker ==
  LET k == Len(seen) IN
  \/ c = MetasAt(k) /\ ReadSoFar({}, <<>>)
  \/ c = PositionsAt(k) /\ ReadSoFar(Reading.metas, <<>>)
  \/ c = EndAt(k) /\ ReadSoFar(Reading.metas, IF knowsPos THEN Reading.deltas ELSE <<>>)

AmongMetas ==
  LET ids == SetToSeq(Reading.metas) IN
  /\ Reading.metas # {}
  /\ \E i \in 0..Len(ids) :
       WithinList(MetasAt(Len(seen)), ids, i) /\ ReadSoFar(FirstOf(ids, i), <<>>)

AmongPositions ==
  LET deltas == Reading.deltas IN
  /\ deltas # <<>> /\ (pc = "positions" <=> knowsPos)
  /\ \E i \in 0..Len(deltas) :
       /\ WithinList(PositionsAt(Len(seen)), deltas, i)
       /\ ReadSoFar(Reading.metas, IF knowsPos THEN SubSeq(deltas, 1, i) ELSE <<>>)

PlaceInv ==
  /\ pc \in {"indexing", "next", "marker", "metas", "positions", "unknown", "read"}
  /\ pc = "indexing" => seen = <<>>
  /\ pc = "read" \/ (pc = "next" /\ c = EndValue) => Len(seen) = Len(files)
  /\ pc = "next" /\ c # EndValue => Len(seen) < Len(files) /\ c = EntryAt(Len(seen))
  /\ pc \in {"marker", "metas", "positions", "unknown"} => Len(seen) < Len(files)
  /\ pc = "marker" => BeforeMarker
  /\ pc = "metas" => AmongMetas
  /\ pc \in {"positions", "unknown"} => AmongPositions

\* What it was dereferenced to are the entries, as far as it has come.
SeenInv ==
  /\ seen \in Seq(Entries) /\ knowsPos \in BOOLEAN
  /\ \A i \in DOMAIN seen : i <= Len(files) /\ seen[i] = AsRead(files[i])

ReaderInv == FitInv /\ WrittenInv /\ PlaceInv /\ SeenInv
=============================================================================
