--------------------------- MODULE QueryGrammar ---------------------------
(***************************************************************************)
(* The grammar of queries (search(1), and query.cpp:197-216), read off a   *)
(* whole text without a parser, and what the parser has to do with it.     *)
(***************************************************************************)
EXTENDS QueryParser, SequencesExt

Alphabet == AllOperators \cup QueryWords \cup Wildcards
Texts == Seq(Alphabet)

Until(s, j) == SubSeq(s, 1, j)
From(s, j) == SubSeq(s, j, Len(s))
IsName(s) == Len(s) >= 2 /\ s[1] \in QueryWords /\ s[2] = "="
InParens(s) == Len(s) > 2 /\ s[1] = "(" /\ s[Len(s)] = ")"
Relops == {<<"and">>, <<"or">>, <<"near">>, <<"not", "near">>, <<>>}

\* A relop before the j-th token, that begins after the i-th
RelopAt(s, i, j) == SubSeq(s, i + 1, j - 1) \in Relops

-----------------------------------------------------------------------------
\* The productions, of sets of queries, metas and primaries

Primaries(queries, metas) ==
  {s \in Texts :
     \/ Len(s) = 1 /\ s[1] \in QueryWords \cup Wildcards
     \/ InParens(s) /\ SubSeq(s, 2, Len(s) - 1) \in queries
     \/ Len(s) > 1 /\ s[1] = "not" /\ Tail(s) \in metas}

Metas(primaries) ==
  {s \in Texts : s \in primaries \/ (IsName(s) /\ From(s, 3) \in primaries)}

Queries(queries, metas) ==
  {s \in Texts :
     \/ s \in metas
     \/ \E j \in 2..Len(s) : /\ From(s, j) \in metas
                             /\ \E i \in 1..(j - 1) : RelopAt(s, i, j) /\ Until(s, i) \in queries}

\* What n rounds of the productions make: all texts of up to n tokens, and more
Grammar ==
  LET after[n \in Nat] ==
        IF n = 0 THEN [queries |-> {}, metas |-> {}, primaries |-> {}]
        ELSE LET primaries == Primaries(after[n - 1].queries, after[n - 1].metas)
                 metas == Metas(primaries)
             IN [queries |-> Queries(after[n - 1].queries, metas),
                 metas |-> metas, primaries |-> primaries]
  IN after

IsQuery(s) == s \in Grammar[Len(s)].queries
IsMeta(s) == s \in Grammar[Len(s)].metas
IsPrimary(s) == s \in Grammar[Len(s)].primaries

-----------------------------------------------------------------------------
\* Some end of the text makes it a query.
CanEnd(s) ==
  \E w \in {<<>>} \cup {<<q>> : q \in QueryWords}, n \in 0..Len(s) :
    IsQuery(s \o w \o [i \in 1..n |-> ")"])

\* The predictive parser accepts the texts of the grammar (query.cpp:195-
\* 222) and no others: what it answers is a query, and what it rejects - as
\* far as it has read it - is not the beginning of one, but for a "near"
\* with a "not" beside it.
AcceptsTheGrammar ==
  /\ pc = "answered" => IsQuery(in.text)
  /\ pc = "malformed" =>
       \/ ~(IF in.end THEN IsQuery(in.text) ELSE CanEnd(in.text))
       \/ {"near", "not"} \subseteq ToSet(in.text)
=============================================================================
