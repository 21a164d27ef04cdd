-------------------------- MODULE IndexBuildProps --------------------------
(***************************************************************************)
(* What the building of an index must keep.                                *)
(***************************************************************************)
EXTENDS IndexBuild

FileEntries == [file : Nat, occurs : Nat]
Entries == [word : Words, files : Seq(FileEntries)]

\* The types of the variables; no position is more than one past the end of its
\* partial index (index.cpp:721-919).
TypeOK ==
  /\ text \in [Docs -> [Words -> 0..MaxOccurs]]
  /\ run \in 1..Len(Walks)
  /\ pc \in {"walk", "count", "merge", "copy", "done"}
  /\ todo \in Seq(Names)
  /\ files \in Seq(Docs)
  /\ seen \subseteq Names
  /\ DOMAIN words \subseteq Words
  /\ partial \in Seq(Seq(Entries)) /\ out \in Seq(Entries)
  /\ stop \subseteq Words
  /\ pc \in {"count", "merge", "copy"} =>
       /\ DOMAIN cursor = DOMAIN partial
       /\ \A j \in DOMAIN partial : cursor[j] \in 1..(Len(partial[j]) + 1)
  /\ unique \in Nat

\* The second phase writes as many words as the first one has counted: the table
\* of word offsets, allocated in between, is neither overrun nor left with
\* entries that nothing has set (index_header.cpp:34, index.cpp:810, 871).
CountsAgree ==
  /\ pc \in {"merge", "copy"} => Len(out) <= unique
  /\ pc = "done" => Len(out) = unique

Ascending(entries) ==
  \A k, m \in DOMAIN entries : k < m => entries[k].word < entries[m].word

\* The words of every index, partial or whole, are in order and each is there
\* once: search looks them up by binary search, and the merge relies on it.
WordsInOrder == Ascending(out) /\ \A j \in DOMAIN partial : Ascending(partial[j])

\* No file is indexed twice, whichever run indexed it: "If incrementally
\* indexing, it's possible that we've encountered the file before"
\* (do_file.cpp:99-100).
NoFileTwice == IsInjective(files)

\* The index file as what an index is: its words with their files.
PlaceOf(word) == CHOOSE k \in DOMAIN disk.words : disk.words[k].word = word
IndexedWords == {disk.words[k].word : k \in DOMAIN disk.words}

Store == INSTANCE IndexStore WITH
  docs <- disk.files,
  index <- [word \in IndexedWords |-> disk.words[PlaceOf(word)].files],
  stop <- disk.stop

\* Every index that is written holds exactly what it should: each word of the
\* files that is no stop word, with all its files in order, whether it came
\* through memory, through partial indices or from the index before it; and
\* only words that are too frequent were made stop words.
StoreSpec == Store!Spec

\* A run of index ends: every turn of the two merging loops brings at least one
\* of the partial indices forward (index.cpp:721-768, 784-859).
EveryRunEnds == pc = "walk" ~> pc = "done"

-----------------------------------------------------------------------------
(* Why it is so: what every step keeps.                                    *)

\* The lists of the words in memory, and what an incremental run starts from
ListsInv == words \in [DOMAIN words -> Seq(FileEntries)]
OldIndexInv ==
  /\ disk.words \in Seq(Entries) /\ Ascending(disk.words)
  /\ disk.stop \subseteq Words /\ disk.files \in Seq(Docs)

\* No more is taken off the number of unique words than entries are passed.
CountingInv == pc = "count" => unique >= Cardinality(Ahead(partial, cursor))

\* What is written comes before all that is not: the least word is taken first.
MergingInv ==
  /\ pc \in {"walk", "count"} => out = <<>>
  /\ pc \in {"merge", "copy"} =>
       \A m \in DOMAIN out, e \in Ahead(partial, cursor) :
         out[m].word < partial[e[1]][e[2]].word
  /\ pc = "copy" => Cardinality(Live(cursor)) < 2

BuildInv == TypeOK /\ WordsInOrder /\ ListsInv /\ OldIndexInv /\ CountingInv /\ MergingInv

WordsAt(places) == {partial[e[1]][e[2]].word : e \in places}
WordsIn(entries) == {entries[k].word : k \in DOMAIN entries}

\* No stop word is in memory, in a partial index, or in the index of a run before.
NoStopWordsInv ==
  /\ pc = "walk" =>
       /\ WordsAt(AllEntries(partial)) \cap stop = {}
       /\ DOMAIN words \cap stop = {}
  /\ WordsIn(disk.words) \cap disk.stop = {}

\* The first phase has counted each word once that it has passed and not made a
\* stop word, and each entry that it has not passed.
CountedInv ==
  /\ pc = "walk" => unique = 0
  /\ pc = "count" =>
       LET ahead == Ahead(partial, cursor)
           behind == AllEntries(partial) \ ahead
       IN  /\ WordsAt(ahead) \cap stop = {}
           /\ \A b \in WordsAt(behind), a \in WordsAt(ahead) : b < a
           /\ unique = Cardinality(WordsAt(behind) \ stop) + Cardinality(ahead)

\* The second phase has written, or has before it, just the words that count.
WrittenInv ==
  /\ pc \in {"merge", "copy"} =>
       /\ unique = Cardinality(WordsAt(AllEntries(partial)) \ stop)
       /\ WordsIn(out) \cup (WordsAt(Ahead(partial, cursor)) \ stop)
            = WordsAt(AllEntries(partial)) \ stop
  /\ pc = "done" => Len(out) = unique

AgreeInv == NoStopWordsInv /\ CountedInv /\ WrittenInv

\* The runs that merge no more than two partial indices
AtMostTwo == Len(partial) <= 2
-----------------------------------------------------------------------------
(* Why an index holds what it should.                                      *)

\* The files by what is in them; those after the lo-th, up to the hi-th, that have
\* a word; the list of them; and the index of that stretch, for all words but some
Contents(docs) == [i \in DOMAIN docs |-> text[docs[i]]]

Between(contents, w, lo, hi) == {i \in (lo + 1)..hi : contents[i][w] > 0}

IsListOf(list, contents, w, lo, hi) ==
  /\ {list[k].file : k \in DOMAIN list} = Between(contents, w, lo, hi)
  /\ \A k \in DOMAIN list : list[k].occurs = contents[list[k].file][w]
  /\ \A k, m \in DOMAIN list : k < m => list[k].file < list[m].file

IsIndexOf(entries, contents, lo, hi, but) ==
  /\ WordsIn(entries) \ but = {w \in Words \ but : Between(contents, w, lo, hi) # {}}
  /\ \A k \in DOMAIN entries :
       entries[k].word \notin but =>
         IsListOf(entries[k].files, contents, entries[k].word, lo, hi)

\* Each partial index is the index of a stretch of the files, one behind the other;
\* the words in memory are that of the rest.
AreStretches(indices, ends, contents, but) ==
  /\ ends[0] = 0
  /\ \A j \in DOMAIN indices :
       /\ ends[j - 1] <= ends[j]
       /\ IsIndexOf(indices[j], contents, ends[j - 1], ends[j], but)

StretchesInv ==
  pc # "done" =>
    \E ends \in [0..Len(partial) -> 0..Len(files)] :
      /\ AreStretches(partial, ends, Contents(files), stop)
      /\ IF pc = "walk"
         THEN IsIndexOf(WordIndex(words), Contents(files), ends[Len(partial)], Len(files), stop)
         ELSE ends[Len(partial)] = Len(files)

\* What the second phase has passed it has written, with the list of all the files.
CompleteInv ==
  pc \in {"merge", "copy"} =>
    /\ \A m \in DOMAIN out :
         IsListOf(out[m].files, Contents(files), out[m].word, 0, Len(files))
    /\ WordsAt(AllEntries(partial) \ Ahead(partial, cursor)) \ stop \subseteq WordsIn(out)

\* A run goes on from the index of the run before it, and its stop words are that
\* one's and words that are too frequent.
GrowthInv ==
  pc # "done" =>
    /\ Len(disk.files) <= Len(files) /\ SubSeq(files, 1, Len(disk.files)) = disk.files
    /\ disk.stop \subseteq stop
    /\ \A w \in stop \ disk.stop :
         TooFrequent(Cardinality(Between(Contents(files), w, 0, Len(files))))
    /\ pc = "walk" => stop = disk.stop
    /\ pc = "walk" /\ partial = <<>> => disk = NoIndex

StoreInv ==
  /\ IsIndexOf(disk.words, Contents(disk.files), 0, Len(disk.files), disk.stop)
  /\ StretchesInv /\ CompleteInv /\ GrowthInv
=============================================================================
