----------------------------- MODULE IndexStore -----------------------------
(***************************************************************************)
(* What an index is: of the documents given to index so far, every word    *)
(* that is not a stop word with the documents it occurs in.  index may add *)
(* words that are too frequent to the stop words; it may add no other.     *)
(***************************************************************************)
EXTENDS Integers, Sequences, FiniteSets

CONSTANTS
  Words,
  Docs,
  FilesMax,    \* WordFilesMax
  PercentMax   \* WordPercentMax

VARIABLES
  text,   \* how often each word occurs in each document
  docs,   \* the indexed documents; a document is known by its place
  index,  \* from the indexed words to their documents
  stop    \* the words that are not indexed

storeVars == <<text, docs, index, stop>>

Places(word) == {i \in DOMAIN docs : text[docs[i]][word] > 0}

TooFrequent(word) ==
  \/ Cardinality(Places(word)) > FilesMax
  \/ (Cardinality(Places(word)) * 100) \div Len(docs) >= PercentMax

\* The places of a word in ascending order, with its occurrences at each.
IsListOf(list, word) ==
  /\ {list[k].file : k \in DOMAIN list} = Places(word)
  /\ \A k \in DOMAIN list : list[k].occurs = text[docs[list[k].file]][word]
  /\ \A k, m \in DOMAIN list : k < m => list[k].file < list[m].file

IndexIsRight ==
  /\ DOMAIN index = {word \in Words : Places(word) # {}} \ stop
  /\ \A word \in DOMAIN index : IsListOf(index[word], word)

Init ==
  /\ text \in [Docs -> [Words -> Nat]]
  /\ docs = <<>>
  /\ index = <<>>
  /\ stop \in SUBSET Words

\* Documents are added behind those there are.
Add ==
  /\ Len(docs') >= Len(docs) /\ SubSeq(docs', 1, Len(docs)) = docs
  /\ stop \subseteq stop'
  /\ \A word \in stop' \ stop : TooFrequent(word)'
  /\ IndexIsRight'
  /\ UNCHANGED text

Spec == Init /\ [][Add]_storeVars
=============================================================================
