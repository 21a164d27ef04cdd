----------------------------- MODULE IndexBuild -----------------------------
(***************************************************************************)
(* index(1): the words of the documents it walks over are collected in     *)
(* memory; as often as there are enough of them they are written to a      *)
(* partial index, and in the end the partial indices are merged, in one    *)
(* phase that counts the words and one that writes them (index.cpp,        *)
(* do_file.cpp).  A later, incremental run takes the index of the run      *)
(* before it as its first partial index.                                   *)
(*                                                                         *)
(* A word is a number, so that strcmp() is <.  Files are numbered from 1.  *)
(* A document stands for a file that do_file() indexes: plain, of an       *)
(* included pattern, not empty.                                            *)
(***************************************************************************)
EXTENDS Integers, FiniteSets, SequencesExt, Functions

CONSTANTS
  Words,       \* the words that index_word() accepts
  Docs,        \* the files, by what is in them
  Walks,       \* for each run, the names of files it comes to, in order
  MaxOccurs,   \* the most occurrences of a word in one file
  Threshold,   \* WordThreshold: the words that make a partial index
  FilesMax,    \* WordFilesMax
  PercentMax,  \* WordPercentMax
  GivenStop    \* the words of StopWordFile

ASSUME ConstantsAssumption ==
  /\ Words \subseteq Nat /\ IsFiniteSet(Words)
  /\ Threshold \in Nat \ {0} /\ FilesMax \in Nat /\ PercentMax \in Nat
  /\ GivenStop \subseteq Words
  /\ MaxOccurs \in Nat

\* A file in the current directory can be named with "./" or without (bare).
Names == [doc : Docs, bare : BOOLEAN]

ASSUME WalksAssumption == Walks \in Seq(Seq(Names)) /\ Walks # <<>>

VARIABLES
  text,     \* how often each word occurs in each file
  run,      \* the number of the run of index
  pc,       \* where main() is
  todo,     \* the names still to come
  files,    \* file_info::list_
  seen,     \* file_info::name_set_
  words,    \* from the words in memory to their lists of files
  partial,  \* the partial indices: sequences of entries
  stop,     \* stop_words
  cursor,   \* word[]: the position in each partial index
  unique,   \* num_unique_words
  out,      \* the entries written to the new index
  disk      \* the index file of the last run that wrote one

vars == <<text, run, pc, todo, files, seen, words, partial, stop, cursor,
          unique, out, disk>>
walkVars == <<todo, files, seen, words>>

NoIndex == [words |-> <<>>, unique |-> 0, stop |-> GivenStop, files |-> <<>>]

Init ==
  /\ text \in [Docs -> [Words -> 0..MaxOccurs]]
  /\ run = 1
  /\ pc = "walk"
  /\ todo = Walks[1]
  /\ files = <<>>
  /\ seen = {}
  /\ words = <<>>
  /\ partial = <<>>
  /\ stop = GivenStop
  /\ cursor = <<>>
  /\ unique = 0
  /\ out = <<>>
  /\ disk = NoIndex

-----------------------------------------------------------------------------
(* Collecting words.                                                       *)

Incremental == run > 1

TooFrequent(count) ==
  \/ count > FilesMax
  \/ (count * 100) \div Len(files) >= PercentMax

\* The words of a document become words of the i-th file.
WithWordsOf(doc, i) ==
  LET found == {w \in Words \ stop : text[doc][w] > 0}
      entry(w) == [file |-> i, occurs |-> text[doc][w]]
      before(w) == IF w \in DOMAIN words THEN words[w] ELSE <<>>
  IN  [w \in DOMAIN words \cup found |->
         IF w \in found THEN Append(before(w), entry(w)) ELSE words[w]]

\* The numbers of a set as a map comes to its keys: in ascending order.
InOrder(S) ==
  [k \in 1..Cardinality(S) |-> CHOOSE n \in S : Cardinality({m \in S : m < n}) = k - 1]

\* The words in memory as they are written.
WordIndex(map) ==
  LET sorted == InOrder(DOMAIN map)
  IN  [k \in DOMAIN sorted |-> [word |-> sorted[k], files |-> map[sorted[k]]]]

WritePartial(map) == Append(partial, WordIndex(map))

\* Mutant: names are not looked up.
ForgetSeen(name) == FALSE

\* A file that an incremental run knows is passed over ...
IsKnown(name) == Incremental /\ name \in seen

SkipSeen ==
  /\ pc = "walk" /\ todo # <<>>
  /\ IsKnown(Head(todo))
  /\ todo' = Tail(todo)
  /\ UNCHANGED <<text, run, pc, files, seen, words, partial, stop, cursor,
                 unique, out, disk>>

\* ... and any other is indexed; with enough words a partial index is written.
DoFile ==
  /\ pc = "walk" /\ todo # <<>>
  /\ ~IsKnown(Head(todo))
  /\ todo' = Tail(todo)
  /\ files' = Append(files, Head(todo).doc)
  /\ seen' = seen \cup {Head(todo)}
  /\ LET map == WithWordsOf(Head(todo).doc, Len(files'))
     IN  IF Cardinality(DOMAIN map) >= Threshold
         THEN partial' = WritePartial(map) /\ words' = <<>>
         ELSE words' = map /\ UNCHANGED partial
  /\ UNCHANGED <<text, run, pc, stop, cursor, unique, out, disk>>

Written(entries, count, stopWords) ==
  [words |-> entries, unique |-> count, stop |-> stopWords, files |-> files]

FrequentWords == {w \in DOMAIN words : TooFrequent(Len(words[w]))}

\* No partial index: words that are too frequent are dropped, the others are
\* written, unless there are none.
WriteFull ==
  /\ pc = "walk" /\ todo = <<>> /\ partial = <<>>
  /\ LET kept == Restrict(words, DOMAIN words \ FrequentWords)
     IN  /\ stop' = stop \cup FrequentWords
         /\ words' = kept
         /\ unique' = Cardinality(DOMAIN kept)
         /\ out' = WordIndex(kept)
  /\ disk' = IF unique' = 0 THEN NoIndex ELSE Written(out', unique', stop')
  /\ pc' = "done"
  /\ UNCHANGED <<text, run, todo, files, seen, partial, cursor>>

Starts(indices) == [j \in DOMAIN indices |-> 1]

\* The entries of partial indices from positions on; "all the words are unique".
Ahead(indices, at) ==
  UNION {{j} \X (at[j]..Len(indices[j])) : j \in DOMAIN indices}
AllEntries(indices) == Ahead(indices, Starts(indices))

\* The words left in memory become one more partial index, and all are opened.
OpenPartial ==
  /\ pc = "walk" /\ todo = <<>> /\ partial # <<>>
  /\ partial' = IF words = <<>> THEN partial
                                ELSE WritePartial(words)
  /\ words' = <<>>
  /\ unique' = unique + Cardinality(AllEntries(partial'))
  /\ cursor' = Starts(partial')
  /\ pc' = "count"
  /\ UNCHANGED <<text, run, todo, files, seen, stop, out, disk>>

-----------------------------------------------------------------------------
(* Merging: positions "at" in the partial indices.                         *)

Live(at) == {j \in DOMAIN partial : at[j] <= Len(partial[j])}
WordAt(at, j) == partial[j][at[j]].word

\* Mutant: the words are not compared.
FirstLive(at) == Min(Live(at))

\* The first of the partial indices that are at the least word.
Least(at) ==
  CHOOSE i \in Live(at) :
    \A j \in Live(at) :
      \/ WordAt(at, i) < WordAt(at, j)
      \/ WordAt(at, i) = WordAt(at, j) /\ i <= j
Same(at) == {j \in Live(at) : WordAt(at, j) = WordAt(at, Least(at))}

\* Mutant: the duplicates' files are forgotten.
FilesOfLeast(at, same) == partial[Least(at)][at[Least(at)]].files

\* The files of the same word, those of an earlier partial index first.
FilesOf(at, same) ==
  FlattenSeq([j \in DOMAIN partial |->
                IF j \in same THEN partial[j][at[j]].files ELSE <<>>])

\* Mutants: the first one is brought forward twice, or not at all.
PastTwice(at, same) ==
  [j \in DOMAIN at |-> at[j] + (IF j = Min(same) THEN 2
                                ELSE IF j \in same THEN 1 ELSE 0)]
PastDuplicates(at, same) ==
  [j \in DOMAIN at |-> IF j \in same \ {Min(same)} THEN at[j] + 1 ELSE at[j]]

\* The positions after that word.
Past(at, same) == [j \in DOMAIN at |-> IF j \in same THEN at[j] + 1 ELSE at[j]]

\* Mutant: a new stop word still counts.
DuplicatesOnly(same, frequent) == Cardinality(same) - 1

\* What is taken off the number of unique words: duplicates, and the word itself
\* when it becomes a stop word.
NotUnique(same, frequent) ==
  (Cardinality(same) - 1) + (IF frequent THEN 1 ELSE 0)

\* One word of the first phase.
CountWord ==
  /\ pc = "count"
  /\ Cardinality(Live(cursor)) >= 2
  /\ LET same == Same(cursor)
         word == WordAt(cursor, Least(cursor))
         frequent == TooFrequent(Len(FilesOf(cursor, same)))
     IN  /\ stop' = IF frequent THEN stop \cup {word} ELSE stop
         /\ unique' = unique - NotUnique(same, frequent)
         /\ cursor' = Past(cursor, same)
  /\ UNCHANGED <<text, run, pc, walkVars, partial, out, disk>>

\* The header is written and the second phase starts again from the first word.
CountDone ==
  /\ pc = "count"
  /\ Cardinality(Live(cursor)) < 2
  /\ cursor' = Starts(partial)
  /\ pc' = "merge"
  /\ UNCHANGED <<text, run, walkVars, partial, stop, unique, out, disk>>

\* The first position from at[j] on that is not at a stop word.
OffStopWords(at, j) ==
  CHOOSE p \in at[j]..(Len(partial[j]) + 1) :
    /\ p <= Len(partial[j]) => partial[j][p].word \notin stop
    /\ \A q \in at[j]..(p - 1) : partial[j][q].word \in stop

\* The second phase steps over stop words in one partial index after the other
\* until it has found two that are not exhausted.
Skipped(at) ==
  LET off == [j \in DOMAIN at |-> OffStopWords(at, j)]
      found(j) == {k \in Live(off) : k < j}
  IN  [j \in DOMAIN at |-> IF Cardinality(found(j)) < 2 THEN off[j] ELSE at[j]]

\* One word of the second phase.
MergeWord ==
  /\ pc = "merge"
  /\ LET at == Skipped(cursor)
         same == Same(at)
     IN  /\ Cardinality(Live(at)) >= 2
         /\ out' = Append(out, [word |-> WordAt(at, Least(at)),
                                files |-> FilesOf(at, same)])
         /\ cursor' = Past(at, same)
  /\ UNCHANGED <<text, run, pc, walkVars, partial, stop, unique, disk>>

MergeDone ==
  /\ pc = "merge"
  /\ Cardinality(Live(Skipped(cursor))) < 2
  /\ cursor' = Skipped(cursor)
  /\ pc' = "copy"
  /\ UNCHANGED <<text, run, walkVars, partial, stop, unique, out, disk>>

\* The words that the last partial index still has, without the stop words.
Rest(j) ==
  LET left == InOrder({k \in cursor[j]..Len(partial[j]) : partial[j][k].word \notin stop})
  IN  [k \in DOMAIN left |-> partial[j][left[k]]]

CopyRest ==
  /\ pc = "copy"
  /\ out' = out \o FlattenSeq([j \in DOMAIN partial |-> Rest(j)])
  /\ cursor' = [j \in DOMAIN partial |-> Len(partial[j]) + 1]
  /\ disk' = Written(out', unique, stop)
  /\ pc' = "done"
  /\ UNCHANGED <<text, run, walkVars, partial, stop, unique>>

-----------------------------------------------------------------------------
\* A file's name as load_old_index() puts it together: always with a directory.
Reloaded(doc) == [doc |-> doc, bare |-> FALSE]

\* index -I: a new process on the index that the run before it has left.
RunAgain ==
  /\ pc = "done" /\ run < Len(Walks)
  /\ disk # NoIndex
  /\ run' = run + 1
  /\ pc' = "walk"
  /\ todo' = Walks[run']
  /\ files' = disk.files
  /\ seen' = {Reloaded(doc) : doc \in ToSet(disk.files)}
  /\ words' = <<>>
  /\ partial' = <<disk.words>>
  /\ stop' = disk.stop
  /\ cursor' = <<>>
  /\ unique' = 0
  /\ out' = <<>>
  /\ UNCHANGED <<text, disk>>

Step ==
  \/ SkipSeen \/ DoFile \/ WriteFull \/ OpenPartial
  \/ CountWord \/ CountDone \/ MergeWord \/ MergeDone \/ CopyRest

Next == Step \/ RunAgain

Spec == Init /\ [][Next]_vars

\* A run of index goes on by itself; whether there is another is the user's
\* choice.
FairSpec == Spec /\ WF_vars(Step)
=============================================================================
