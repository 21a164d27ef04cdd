------------------------------ MODULE Indexer ------------------------------
(***************************************************************************)
(* What all indexers share (indexer.h, indexer.cpp): the words they add,   *)
(* the suspension of indexing, and the ids of meta names.                  *)
(*                                                                         *)
(* A text is a sequence of lines, each a tag, a header, a boundary, words, *)
(* or blank.  That a line's words were added is written as the number of   *)
(* the line and the id of the meta name they were added under.  Words are  *)
(* ones that index_word() does not drop for their letters or length, or as *)
(* stop words.                                                             *)
(***************************************************************************)
EXTENDS Integers, SequencesExt

CONSTANTS
  IncludeMeta,  \* include_meta_names: from names to the names they get
  ExcludeMeta   \* exclude_meta_names

ASSUME MetaAssumption ==
  \A m \in DOMAIN IncludeMeta : IncludeMeta[m] \in STRING

VARIABLES
  text,       \* the file that is indexed
  suspended,  \* suspend_indexing_count_
  metaIds,    \* meta_name_id_map: the i-th name has the id i - 1
  indexed     \* the words added for this file

NoMeta == -1  \* Meta_ID_None

-----------------------------------------------------------------------------
\* Meta names: a name is looked up and, when it is new, added.

MetaWanted(name) ==
  name \notin ExcludeMeta /\ (DOMAIN IncludeMeta # {} => name \in DOMAIN IncludeMeta)

MetaName(name) == IF DOMAIN IncludeMeta = {} THEN name ELSE IncludeMeta[name]

MetaIdsWith(name) ==
  IF MetaWanted(name) /\ ~Contains(metaIds, MetaName(name))
  THEN Append(metaIds, MetaName(name)) ELSE metaIds

\* find_meta(): the id, where MetaIdsWith(name) are the ids afterwards.
FindMeta(name) ==
  IF MetaWanted(name)
  THEN (CHOOSE i \in DOMAIN MetaIdsWith(name) : MetaIdsWith(name)[i] = MetaName(name)) - 1
  ELSE NoMeta

-----------------------------------------------------------------------------
\* The words of lines i to j - 1, as index_word() adds them while n elements
\* are being skipped.

WordsAdded(i, j, id, n) ==
  IF n > 0 THEN <<>>
  ELSE FlattenSeq([k \in 1..(j - i) |->
         IF text[i + k - 1].kind = "blank" THEN <<>> ELSE <<[line |-> i + k - 1, meta |-> id]>>])

IndexWords(i, j, id) == indexed' = indexed \o WordsAdded(i, j, id, suspended)

\* resume_indexing(), called m times.
Resumed(m) == IF m < suspended THEN suspended - m ELSE 0

\* Mutant: index_file() does not begin with no suspension.
BeginTextStillSuspended(t) ==
  /\ text' = t
  /\ indexed' = <<>>
  /\ UNCHANGED suspended

\* index_file() begins.
BeginText(t) ==
  /\ text' = t
  /\ suspended' = 0
  /\ indexed' = <<>>
=============================================================================
