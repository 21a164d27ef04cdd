---------------------------- MODULE PostingList ----------------------------
(***************************************************************************)
(* The list of files of one word: built while files are indexed            *)
(* (indexer.cpp, word_info.h), written to an index as bytes (index.cpp,    *)
(* word_info.cpp, vlq.cpp), and read from there by the program search or   *)
(* by a merge, which writes it anew (file_list.h, file_list.cpp).          *)
(*                                                                         *)
(* Half is the value of a byte's highest bit; the other bits are those of  *)
(* a number.  ShortMod and LongMod are how many values a short and an      *)
(* unsigned long have.                                                     *)
(***************************************************************************)
EXTENDS Integers, SequencesExt

CONSTANTS
  Half,        \* 0x80
  ShortMod,    \* 2^16
  LongMod,     \* 2^64
  Strides,     \* by how many words an occurrence is after what was before it
  FileStrides, \* and its file after the file before it
  MetaIds,     \* the ids of meta data
  Ranks,       \* what rank_word() yields
  MaxOccurs,   \* the most occurrences of the word, in all files
  Readers      \* is a reader compiled WITH_WORD_POS?

ASSUME PostingAssumption ==
  /\ Half \in Nat /\ Half > 2 /\ Half % 2 = 0
  /\ ShortMod \in Nat /\ ShortMod > 0 /\ ShortMod % 2 = 0
  /\ LongMod \in Nat /\ LongMod >= ShortMod /\ LongMod % ShortMod = 0
  /\ Strides \subseteq Nat \ {0} /\ FileStrides \subseteq Nat \ {0}
  /\ MetaIds \subseteq 0..(ShortMod \div 2 - 1) /\ Ranks \subseteq 1..(LongMod - 1)
  /\ MaxOccurs \in 0..(LongMod - 1) /\ Readers \subseteq BOOLEAN

NoMeta == -1     \* Meta_ID_None
Null == 0        \* c_ of end()
EndValue == -1   \* &end_value

VARIABLES
  occurs,    \* where the word has occurred: files, positions, ids of meta data
  current,   \* file_info::current_index()
  wordPos,   \* word_pos
  files,     \* files_ of the word's word_info
  bytes,     \* the list in the index
  pc,        \* what the program does
  knowsPos,  \* does the reader know positions?
  c,         \* c_ of the reader's iterator
  v,         \* its v_
  seen,      \* what it has been dereferenced to
  merged     \* has a merge written the list again?

vars == <<occurs, current, wordPos, files, bytes, pc, knowsPos, c, v, seen, merged>>
readerVars == <<knowsPos, c, v, seen, merged>>

-----------------------------------------------------------------------------
\* Numbers.

ToLong(n) == n % LongMod
ToShort(n) == ((n + ShortMod \div 2) % ShortMod) - ShortMod \div 2

\* vlq::encode(): the digits of n, the most significant first, each but the
\* last with the highest bit.
digits[n \in Nat] == IF n < Half THEN <<n>> ELSE Append(digits[n \div Half], n % Half)
Encode(n) ==
  LET d == digits[ToLong(n)]
  IN [i \in DOMAIN d |-> IF i < Len(d) THEN d[i] + Half ELSE d[i]]

\* vlq::decode() of the number at p, and where it leaves p.
LastOf(p) == CHOOSE q \in p..Len(bytes) :
               bytes[q] < Half /\ \A r \in p..(q - 1) : bytes[r] >= Half
Past(p) == LastOf(p) + 1
Decode(p) ==
  LET value[q \in 0..Len(bytes)] ==
        IF q < p THEN 0 ELSE ((value[q - 1] * Half) + (bytes[q] % Half)) % LongMod
  IN value[LastOf(p)]

-----------------------------------------------------------------------------
\* The bytes of a list.

StopMarker == Half
MetaListMarker == 1
WordPosListMarker == 2
ContinuesMarker == 0

NumberList(marker, numbers) ==
  IF numbers = <<>> THEN <<>>
  ELSE <<marker>> \o FlattenSeq([i \in DOMAIN numbers |-> Encode(numbers[i])]) \o <<StopMarker>>

\* The ids are in an unordered_set: in some order.
EntryBytes(f) ==
  Encode(f.index) \o Encode(f.occurrences) \o Encode(f.rank)
    \o NumberList(MetaListMarker, SetToSeq(f.metas))
    \o NumberList(WordPosListMarker, f.deltas)

\* Each but the first is announced by a marker.
Announced(entries, i) ==
  (IF i = 1 THEN <<>> ELSE <<ContinuesMarker>>) \o EntryBytes(entries[i])

ListBytes(entries) ==
  FlattenSeq([i \in DOMAIN entries |-> Announced(entries, i)]) \o <<StopMarker>>

\* file_list::calc_size(), which does not decode numbers: where it is, and the
\* entries it has counted.
Sizing(at, p, size) == [at |-> at, p |-> p, size |-> size]

\* Mutant: the end of a list in an entry is taken for that of the entries.
SizeTurnToStop(s) ==
  LET p == s.p IN
  CASE s.at = "entry" -> Sizing("marker", Past(Past(Past(p))), s.size + 1)
    [] s.at = "marker" /\ bytes[p] = StopMarker -> Sizing("end", p, s.size)
    [] s.at = "marker" /\ bytes[p] = ContinuesMarker -> Sizing("entry", p + 1, s.size)
    [] s.at = "marker" /\ bytes[p] \notin {StopMarker, ContinuesMarker} ->
         Sizing("list", p + 1, s.size)
    [] s.at = "list" /\ bytes[p] = StopMarker -> Sizing("end", p, s.size)
    [] s.at = "list" /\ bytes[p] # StopMarker -> Sizing("list", Past(p), s.size)
    [] s.at = "end" -> s

\* A turn of its loops: over the numbers of an entry, a marker, or a number of
\* a list or its end.
SizeTurn(s) ==
  LET p == s.p IN
  CASE s.at = "entry" -> Sizing("marker", Past(Past(Past(p))), s.size + 1)
    [] s.at = "marker" /\ bytes[p] = StopMarker -> Sizing("end", p, s.size)
    [] s.at = "marker" /\ bytes[p] = ContinuesMarker -> Sizing("entry", p + 1, s.size)
    [] s.at = "marker" /\ bytes[p] \notin {StopMarker, ContinuesMarker} ->
         Sizing("list", p + 1, s.size)
    [] s.at = "list" /\ bytes[p] = StopMarker -> Sizing("marker", p + 1, s.size)
    [] s.at = "list" /\ bytes[p] # StopMarker -> Sizing("list", Past(p), s.size)
    [] s.at = "end" -> s

\* A turn goes past a byte at least: there are no more turns than bytes.
CalcSize ==
  LET turns[n \in Nat] ==
        IF n = 0 THEN Sizing("entry", 1, 0) ELSE SizeTurn(turns[n - 1])
  IN turns[Len(bytes)].size

-----------------------------------------------------------------------------
NewFile(index) ==
  [index |-> index, occurrences |-> 1, rank |-> 0, metas |-> {}, deltas |-> <<>>]

\* Mutant: the first occurrence in a file is not told from the others.
CountedAnyway(index) ==
  IF files # <<>> THEN Append(Front(files), [Last(files) EXCEPT !.occurrences = @ + 1])
  ELSE <<NewFile(index)>>

\* index_word(): files_ with an occurrence in a file counted in its entry,
\* the last one.
Counted(index) ==
  IF files # <<>> /\ Last(files).index = index
  THEN Append(Front(files), [Last(files) EXCEPT !.occurrences = @ + 1])
  ELSE Append(files, NewFile(index))

\* Mutant: positions are not stored as differences.
WithAbsolutePos(f, pos) == [f EXCEPT !.deltas = Append(@, ToShort(pos))]

\* add_word_pos(): the difference from what was stored last, which is taken
\* for the previous position.
WithWordPos(f, pos) ==
  [f EXCEPT !.deltas = Append(@, ToShort(IF @ = <<>> THEN pos ELSE pos - Last(@)))]

WithMeta(f, m) == IF m = NoMeta THEN f ELSE [f EXCEPT !.metas = @ \cup {m}]

WithRank(entries, r) == [i \in DOMAIN entries |-> [entries[i] EXCEPT !.rank = r]]

Init ==
  /\ occurs = <<>> /\ current = 0 /\ wordPos = 0
  /\ files = <<>> /\ bytes = <<>> /\ pc = "indexing"
  /\ knowsPos \in Readers /\ c = Null /\ v = NewFile(0) /\ seen = <<>>
  /\ merged = FALSE

\* index_word() of the word, after others that only count positions.
IndexWord ==
  /\ pc = "indexing" /\ Len(occurs) < MaxOccurs
  /\ \E stride \in Strides, m \in MetaIds \cup {NoMeta} :
       LET pos == wordPos + stride
           counted == Counted(current)
       IN /\ wordPos' = pos
          /\ files' = Append(Front(counted), WithWordPos(WithMeta(Last(counted), m), pos))
          /\ occurs' = Append(occurs, [file |-> current, pos |-> pos, meta |-> m])
  /\ UNCHANGED <<current, bytes, pc, readerVars>>

\* do_file() comes to the next file that has the word.  The number of a file is
\* an unsigned, which is no wider than an unsigned long (file_info.h:100-102).
NextFile ==
  /\ pc = "indexing" /\ Len(occurs) < MaxOccurs
  /\ occurs # <<>> /\ Last(occurs).file = current
  /\ \E stride \in FileStrides : current' = current + stride /\ current' < LongMod
  /\ wordPos' = 0
  /\ UNCHANGED <<occurs, files, bytes, pc, readerVars>>

\* The list is written, with ranks or, to a partial index, without; a reader
\* takes an iterator to its begin().
Write ==
  /\ pc = "indexing" /\ files # <<>>
  /\ \E r \in Ranks \cup {0} :
       files' = WithRank(files, r) /\ bytes' = ListBytes(WithRank(files, r))
  /\ pc' = "next" /\ c' = 1
  /\ UNCHANGED <<occurs, current, wordPos, knowsPos, v, seen, merged>>

-----------------------------------------------------------------------------
\* const_iterator::operator++(): a step for the three numbers, one for each
\* marker, and one for each number of a list.

\* There are no more entries: the iterator is that of end().
ReachEnd ==
  /\ pc = "next" /\ c = EndValue
  /\ c' = Null /\ pc' = "read"
  /\ UNCHANGED <<occurs, current, wordPos, files, bytes, knowsPos, v, seen, merged>>

\* Mutant: the list of positions is not cleared.
NumbersOverOld ==
  /\ pc = "next" /\ c > 0
  /\ LET second == Past(c)  third == Past(second) IN
       /\ v' = [index |-> Decode(c), occurrences |-> Decode(second),
                rank |-> Decode(third), metas |-> {}, deltas |-> v.deltas]
       /\ c' = Past(third)
  /\ pc' = "marker"
  /\ UNCHANGED <<occurs, current, wordPos, files, bytes, knowsPos, seen, merged>>

ReadNumbers ==
  /\ pc = "next" /\ c > 0
  /\ LET second == Past(c)  third == Past(second) IN
       /\ v' = [index |-> Decode(c), occurrences |-> Decode(second),
                rank |-> Decode(third), metas |-> {}, deltas |-> <<>>]
       /\ c' = Past(third)
  /\ pc' = "marker"
  /\ UNCHANGED <<occurs, current, wordPos, files, bytes, knowsPos, seen, merged>>

\* The marker ends the entry, and perhaps the list: the iterator is
\* dereferenced.
EndEntry ==
  /\ pc = "marker" /\ bytes[c] \in {StopMarker, ContinuesMarker}
  /\ c' = IF bytes[c] = StopMarker THEN EndValue ELSE c + 1
  /\ seen' = Append(seen, v) /\ pc' = "next"
  /\ UNCHANGED <<occurs, current, wordPos, files, bytes, knowsPos, v, merged>>

BeginList ==
  /\ pc = "marker" /\ bytes[c] \notin {StopMarker, ContinuesMarker}
  /\ pc' = CASE bytes[c] = MetaListMarker -> "metas"
             [] bytes[c] = WordPosListMarker /\ knowsPos -> "positions"
             [] OTHER -> "unknown"
  /\ c' = c + 1
  /\ UNCHANGED <<occurs, current, wordPos, files, bytes, knowsPos, v, seen, merged>>

ReadNumber ==
  /\ pc \in {"metas", "positions", "unknown"} /\ bytes[c] # StopMarker
  /\ v' = CASE pc = "metas" -> [v EXCEPT !.metas = @ \cup {ToShort(Decode(c))}]
            [] pc = "positions" -> [v EXCEPT !.deltas = Append(@, ToShort(Decode(c)))]
            [] OTHER -> v
  /\ c' = Past(c)
  /\ UNCHANGED <<occurs, current, wordPos, files, bytes, pc, knowsPos, seen, merged>>

EndList ==
  /\ pc \in {"metas", "positions", "unknown"} /\ bytes[c] = StopMarker
  /\ c' = c + 1 /\ pc' = "marker"
  /\ UNCHANGED <<occurs, current, wordPos, files, bytes, knowsPos, v, seen, merged>>

\* A merge has read the list, and writes it with ranks; another reader reads
\* that.
Merge ==
  /\ pc = "read" /\ knowsPos /\ ~merged
  /\ \E r \in Ranks :
       files' = WithRank(files, r) /\ bytes' = ListBytes(WithRank(seen, r))
  /\ merged' = TRUE /\ knowsPos' \in Readers
  /\ pc' = "next" /\ c' = 1 /\ v' = NewFile(0) /\ seen' = <<>>
  /\ UNCHANGED <<occurs, current, wordPos>>

Finished == pc = "read" /\ UNCHANGED vars

Next ==
  \/ IndexWord \/ NextFile \/ Write
  \/ ReachEnd \/ ReadNumbers \/ EndEntry \/ BeginList \/ ReadNumber \/ EndList
  \/ Merge \/ Finished

Spec == Init /\ [][Next]_vars
=============================================================================
