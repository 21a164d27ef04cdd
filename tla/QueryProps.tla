---------------------------- MODULE QueryProps ----------------------------
(***************************************************************************)
(* Properties of queries: of the tree and its evaluation (QueryNodes),     *)
(* against what search(1) says (QueryMeaning).  Those of the parser are in *)
(* QueryParser and QueryGrammar.                                           *)
(***************************************************************************)
EXTENDS QueryMeaning

-----------------------------------------------------------------------------
\* An operator other than "and" after an "and" without parentheses
RECURSIVE HasMixedAnd(_)
HasMixedAnd(t) ==
  \/ t.op \in {"or", "near", "not near"} /\ t.kids[1].op = "and"
  \/ \E i \in DOMAIN t.kids : HasMixedAnd(t.kids[i])

RECURSIVE Ops(_)
Ops(t) == {t.op} \cup UNION {Ops(t.kids[i]) : i \in DOMAIN t.kids}

RECURSIVE NearsAreOfWords(_)
NearsAreOfWords(t) ==
  /\ t.op = "near" => {t.kids[1].op, t.kids[2].op} = {"word"}
  /\ \A i \in DOMAIN t.kids : NearsAreOfWords(t.kids[i])

\* Every "near" is of words, or it is the last operator of the whole query
\* and of words joined by "and" and "or".
IsStraight(t) ==
  /\ "not near" \notin Ops(t)
  /\ \/ NearsAreOfWords(t)
     \/ /\ t.op = "near"
        /\ \A i \in 1..2 : Ops(t.kids[i]) \subseteq {"word", "and", "or"}

\* The tree the parser builds, its distribution and its evaluation give the
\* files the query means: with implicit and repeated "and", "or", "not",
\* names of meta data before words and parentheses, words that are unknown,
\* ignored, too frequent or match several, and "near" by positions.  Not
\* claimed of queries that mix "and" with what follows it (see
\* QueriesMeanWhatTheySay), of "not near", nor of a "near" over parentheses
\* inside a greater query, which is not distributed (query_node.cpp:93-121).
MeaningKept ==
  pc = "answered" =>
    LET tree == Tree(in.text, NoMeta)  pruned == Pruned(tree) IN
    ~HasMixedAnd(tree) /\ IsStraight(pruned) => DOMAIN results = FilesFor(pruned)

\* "not near" of two words, which does find files it should not (its second
\* list moves on with the first, query_node.cpp:432-434), misses none, and
\* finds only files of the word on the left.
NotNearMissesNone ==
  pc = "answered" =>
    LET pruned == Pruned(Tree(in.text, NoMeta))
        isKnown(i) == pruned.kids[i].op = "word" /\ Matches[pruned.kids[i].word] # {}
    IN pruned.op = "not near" /\ isKnown(1) /\ isKnown(2) =>
         /\ FilesFor(pruned) \subseteq DOMAIN results
         /\ DOMAIN results \subseteq FilesFor(pruned.kids[1])

\* search(1) says: "Queries are evaluated in left-to-right order, i.e., and
\* has the same precedence as or" (search.1:117-119), and that "mouse and
\* computer or keyboard" is "(mouse and computer) or keyboard" (751-757).
QueriesMeanWhatTheySay ==
  pc = "answered" => DOMAIN results = Meaning(in.text)
=============================================================================
