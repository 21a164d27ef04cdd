---------------------------- MODULE QueryNodes ----------------------------
(***************************************************************************)
(* What search(1) does with the tree the parser has built (query.cpp,      *)
(* query_node.cpp): if there is a "near" in it, near_node::distributor     *)
(* visits it; then it is evaluated to a map from files to ranks.           *)
(*                                                                         *)
(* A list of files is a sequence of entries in the order of the files'     *)
(* numbers; an entry has the rank, the ids of meta data, and the positions *)
(* that the list's pos_deltas_ add up to.                                  *)
(***************************************************************************)
EXTENDS QueryParser, SequencesExt

CONSTANT WordsNear   \* the variable of the same name

VARIABLE results     \* the search_results

queryVars == <<parserVars, results>>

-----------------------------------------------------------------------------
\* The distribution of "near" over the operands that are no words.

NoOther == Node("no other", <<>>)
InternalError == Node("internal error", <<>>)
IsWord(n) == n.op = "word"

RECURSIVE HasError(_)
HasError(n) == n = InternalError \/ \E i \in DOMAIN n.kids : HasError(n.kids[i])

RECURSIVE Visit(_, _, _), Distribute(_)

\* visit() with a distributor.  Of the children that are visited when the
\* distributor returns the node itself, the results are discarded.
Visit(n, other, op) ==
  LET near(kid) == Distribute(Node(op, <<other, Visit(kid, NoOther, op)>>))
      result ==
        CASE IsNear(n) -> Distribute(n)
          [] ~IsNear(n) /\ other = NoOther -> n
          [] n.op \in {"and", "or"} /\ other # NoOther ->
               Node(n.op, [i \in DOMAIN n.kids |-> near(n.kids[i])])
          [] n.op = "not" /\ other # NoOther -> InternalError
          [] OTHER -> n
  IN IF result = n /\ \E i \in DOMAIN n.kids : HasError(Visit(n.kids[i], other, op))
     THEN InternalError ELSE result

\* near_node::distribute()
Distribute(n) ==
  LET left == n.kids[1]  right == n.kids[2]
      first == Visit(right, left, n.op)
  IN IF ~IsWord(right)
     THEN IF IsWord(left) THEN first ELSE Visit(first, NoOther, n.op)
     ELSE IF ~IsWord(left) THEN Visit(left, right, n.op) ELSE n

-----------------------------------------------------------------------------
\* Evaluation.  Results are a function from the numbers of files to ranks.

NoResults == <<>>
AddRank(res, f, rank) ==
  [g \in DOMAIN res \cup {f} |->
     (IF g \in DOMAIN res THEN res[g] ELSE 0) + (IF g = f THEN rank ELSE 0)]
SetRank(res, f, rank) == [g \in DOMAIN res \cup {f} |-> IF g = f THEN rank ELSE res[g]]

HasMetaId(entry, m) == m = NoMeta \/ m \in entry.metas

\* The words of a range, in the order of the index, without the frequent.
Infrequent(n) == SetToSortSeq({x \in n.range : ~TooFrequent(x)}, <)

\* Mutant: the sign of the difference is not dropped.
AreNearOneWay(p, q, i, j) ==
  \E k \in i..Len(p), l \in j..Len(q) : q[l] - p[k] <= WordsNear

\* Is a position of p near one of q?  From the i-th and j-th on, the lesser
\* is moved.
RECURSIVE AreNear(_, _, _, _)
AreNear(p, q, i, j) ==
  LET delta == q[j] - p[i] IN
  \/ (IF delta < 0 THEN -delta ELSE delta) <= WordsNear
  \/ IF delta < 1 THEN j < Len(q) /\ AreNear(p, q, i, j + 1)
                  ELSE i < Len(p) /\ AreNear(p, q, i + 1, j)

\* word_node::eval()
EvalWord(n) ==
  LET files(res, x) ==
        FoldLeft(LAMBDA r, e : IF HasMetaId(e, n.meta) THEN AddRank(r, e.file, e.rank) ELSE r,
                 res, lists[x])
  IN FoldLeft(files, NoResults, Infrequent(n))

\* near_node::eval(): the loop over the files of two words
RECURSIVE NearFiles(_, _, _, _, _)
NearFiles(k, l, m0, m1, res) ==
  IF k = <<>> \/ l = <<>> THEN res
  ELSE LET e == Head(k)  f == Head(l) IN
       IF e.file < f.file \/ ~HasMetaId(e, m0)
       THEN NearFiles(Tail(k), l, m0, m1, res)
       ELSE IF e.file > f.file \/ ~HasMetaId(f, m1)
       THEN NearFiles(k, Tail(l), m0, m1, res)
       ELSE NearFiles(Tail(k), Tail(l), m0, m1,
              IF AreNear(e.pos, f.pos, 1, 1)
              THEN SetRank(res, e.file, (e.rank + f.rank) \div 2) ELSE res)

EvalNear(left, right) ==
  LET pair(x, res, y) == NearFiles(lists[x], lists[y], left.meta, right.meta, res)
      each(res, x) == FoldLeft(LAMBDA r, y : pair(x, r, y), res, Infrequent(right))
  IN IF \/ ~IsWord(left) \/ ~IsWord(right)
        \/ NoMeta \notin {left.meta, right.meta} /\ left.meta # right.meta
     THEN NoResults
     ELSE FoldLeft(each, NoResults, Infrequent(left))

\* not_near_node::eval(): the loop over the files of the word on the left.
\* The other list moves on after every file, whether it was met or not.
RECURSIVE NotNearFiles(_, _, _, _, _)
NotNearFiles(k, l, m0, m1, res) ==
  IF k = <<>> THEN res
  ELSE LET e == Head(k)
           met == IF HasMetaId(e, m0)
                  THEN SelectSeq(l, LAMBDA f : f.file >= e.file) ELSE l
           near == /\ met # <<>>
                   /\ e.file = Head(met).file /\ HasMetaId(Head(met), m1)
                   /\ AreNear(e.pos, Head(met).pos, 1, 1)
           rest == IF met = <<>> THEN met ELSE Tail(met)
       IN NotNearFiles(Tail(k), rest, m0, m1,
            IF HasMetaId(e, m0) /\ ~near THEN AddRank(res, e.file, e.rank) ELSE res)

EvalNotNear(left, right) ==
  LET pair(x, res, y) == NotNearFiles(lists[x], lists[y], left.meta, right.meta, res)
      each(res, x) == FoldLeft(LAMBDA r, y : pair(x, r, y), res, SetToSortSeq(right.range, <))
  IN IF ~IsWord(left) THEN NoResults
     ELSE IF ~IsWord(right) THEN EvalWord(left)
     ELSE FoldLeft(each, NoResults, Infrequent(left))

\* and_node::eval(): the mean rank, of one more than there are children
Conjunction(all) ==
  LET common == {f \in 1..NumFiles : \A i \in DOMAIN all : f \in DOMAIN all[i]}
      sum(f) == FoldLeft(LAMBDA s, r : s + r[f], 0, all)
  IN [f \in common |-> sum(f) \div (Len(all) + 1)]

\* not_node::eval()
Others(res) == [f \in 1..NumFiles \ DOMAIN res |-> 100]

\* or_node::eval()
AddUp(l, r) ==
  LET add(s, f) == AddRank(s, f, r[f])
  IN FoldLeft(add, l, SetToSeq(DOMAIN r))

RECURSIVE Eval(_)
Eval(n) ==
  LET kid(i) == Eval(n.kids[i]) IN
  CASE n.op = "empty"    -> NoResults
    [] n.op = "word"     -> EvalWord(n)
    [] n.op = "near"     -> EvalNear(n.kids[1], n.kids[2])
    [] n.op = "not near" -> EvalNotNear(n.kids[1], n.kids[2])
    [] n.op = "not"      -> Others(kid(1))
    [] n.op = "and"      -> Conjunction([i \in DOMAIN n.kids |-> kid(i)])
    [] n.op = "or"       -> AddUp(kid(1), kid(2))

-----------------------------------------------------------------------------
\* The end of parse_query(), which evaluates the tree.
Evaluate ==
  LET tree == IF gotNear THEN Visit(ret.node, NoOther, "near") ELSE ret.node IN
  /\ EndQuery
  /\ pc' = "internal error" <=> HasError(tree)
  /\ results' = IF HasError(tree) THEN results ELSE Eval(tree)

Init == ParserInit /\ results = NoResults

Finished ==
  /\ pc \in {"answered", "malformed", "internal error"}
  /\ UNCHANGED queryVars

Next == Evaluate \/ (ParserNext /\ UNCHANGED results) \/ Finished

Spec == Init /\ [][Next]_queryVars
=============================================================================
