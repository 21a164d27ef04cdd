--------------------------- MODULE QueryMeaning ---------------------------
(***************************************************************************)
(* What search(1) promises of queries (src/man/man1/search.1), beyond      *)
(* their grammar: the files a query is for.  Queries are evaluated from    *)
(* left to right, "and" has the precedence of "or", stop words are         *)
(* ignored, and "near" is distributed over what is in parentheses.         *)
(***************************************************************************)
EXTENDS QueryNodes, QueryGrammar

-----------------------------------------------------------------------------
\* The tree of a text of the grammar, with nodes for parentheses.
RECURSIVE Tree(_, _)
Tree(s, m) ==
  IF IsName(s) /\ IsPrimary(From(s, 3))
  THEN Tree(From(s, 3), IF s[1] \in DOMAIN MetaIds THEN MetaIds[s[1]] ELSE MetaNotFound)
  ELSE IF ~IsMeta(s)
  THEN LET split == CHOOSE ij \in (1..Len(s)) \X (2..Len(s)) :
                      /\ ij[1] < ij[2] /\ RelopAt(s, ij[1], ij[2])
                      /\ IsMeta(From(s, ij[2])) /\ IsQuery(Until(s, ij[1]))
           relop == SubSeq(s, split[1] + 1, split[2] - 1)
       IN Node(CASE relop \in {<<>>, <<"and">>} -> "and"
                 [] relop = <<"not", "near">> -> "not near"
                 [] OTHER -> relop[1],
               <<Tree(Until(s, split[1]), m), Tree(From(s, split[2]), m)>>)
  ELSE IF Len(s) = 1
  THEN [op |-> "word", kids |-> <<>>, word |-> s[1], meta |-> m]
  ELSE IF InParens(s) THEN Node("parentheses", <<Tree(SubSeq(s, 2, Len(s) - 1), m)>>)
  ELSE Node("not", <<Tree(Tail(s), m)>>)

-----------------------------------------------------------------------------
\* Trees without what is ignored, and without parentheses.

Nothing == Node("ignored", <<>>)
IsIgnored(w) ==
  \/ w \in StopWords
  \/ Matches[w] # {} /\ \A x \in Matches[w] : TooFrequent(x)

RECURSIVE Pruned(_)
Pruned(t) ==
  LET kids == [i \in DOMAIN t.kids |-> Pruned(t.kids[i])] IN
  CASE t.op = "word" -> IF IsIgnored(t.word) THEN Nothing ELSE t
    [] t.op = "parentheses" -> kids[1]
    [] t.op = "not" -> Node("not", kids)
    [] OTHER -> IF kids[1] = Nothing THEN kids[2]
                ELSE IF kids[2] = Nothing THEN kids[1] ELSE Node(t.op, kids)

-----------------------------------------------------------------------------
\* The files of a pruned tree.

EntriesOf(w) ==
  UNION {Range(lists[x]) : x \in {y \in Matches[w.word] : ~TooFrequent(y)}}
Having(w) == {e \in EntriesOf(w) : HasMetaId(e, w.meta)}
Distance(a, b) == IF a < b THEN b - a ELSE a - b

\* Files with occurrences of both words that are near each other
WordsTogether(v, w) ==
  {e.file : e \in {d \in Having(v) : \E f \in Having(w) :
       /\ d.file = f.file
       /\ NoMeta \in {v.meta, w.meta} \/ v.meta = w.meta
       /\ \E i \in DOMAIN d.pos, j \in DOMAIN f.pos :
            Distance(d.pos[i], f.pos[j]) <= WordsNear}}

Combine(op, a, b) == IF op = "or" THEN a \cup b ELSE a \cap b

RECURSIVE Together(_, _)
Together(t, u) ==
  IF t.op \in {"and", "or"}
  THEN Combine(t.op, Together(t.kids[1], u), Together(t.kids[2], u))
  ELSE IF u.op \in {"and", "or"}
  THEN Combine(u.op, Together(t, u.kids[1]), Together(t, u.kids[2]))
  ELSE WordsTogether(t, u)

RECURSIVE FilesFor(_)
FilesFor(t) ==
  CASE t.op = "ignored" -> {}
    [] t.op = "word" -> {e.file : e \in Having(t)}
    [] t.op = "not"  -> 1..NumFiles \ FilesFor(t.kids[1])
    [] t.op = "near" -> Together(t.kids[1], t.kids[2])
    [] t.op = "not near" -> FilesFor(t.kids[1]) \ Together(t.kids[1], t.kids[2])
    [] OTHER -> Combine(t.op, FilesFor(t.kids[1]), FilesFor(t.kids[2]))

Meaning(s) == FilesFor(Pruned(Tree(s, NoMeta)))
=============================================================================
