---------------------------- MODULE QueryParser ----------------------------
(***************************************************************************)
(* The parser of queries (query.cpp, token.cpp): a recursive descent by    *)
(* parse_query2(), parse_meta(), parse_relop() and parse_primary(), with   *)
(* tokens put back into the stream.  The recursion is a stack of calls.    *)
(* The text is not given in advance: a token is chosen when the parser     *)
(* extracts it, so that a run of the parser is a text it reads.            *)
(*                                                                         *)
(* A token is an operator, a word, or a prefix (what is before a "*").     *)
(* What words and prefixes match in the index is a constant; the lists of  *)
(* files of the indexed words are chosen at the start.                     *)
(***************************************************************************)
EXTENDS Integers, Sequences, FiniteSets

CONSTANTS
  Operators,   \* the operators that occur in queries
  QueryWords,  \* words that occur in queries
  Wildcards,   \* words that occur followed by a "*"
  Matches,     \* from those to the indexed words they match
  StopWords,   \* the words of queries that is_ok_word() or stop_words rejects
  MetaIds,     \* from the names of meta data to their numbers
  Indices,     \* the indices to try: from indexed words to lists of files
  NumFiles,    \* files.size()
  FilesMax,    \* WordFilesMax
  PercentMax,  \* WordPercentMax
  MaxTokens    \* the most tokens of a query

AllOperators == {"and", "or", "near", "not", "(", ")", "="}
EndOfText == "end"   \* tt_none

NoMeta == -1         \* Meta_ID_None
MetaNotFound == -2   \* Meta_ID_Not_Found

ASSUME QueryAssumption ==
  /\ Operators \subseteq AllOperators
  /\ (QueryWords \cup Wildcards) \cap (AllOperators \cup {EndOfText}) = {}
  /\ QueryWords \cap Wildcards = {}
  /\ StopWords \subseteq QueryWords /\ DOMAIN MetaIds \subseteq QueryWords
  /\ \A m \in DOMAIN MetaIds : MetaIds[m] \in Nat
  /\ NumFiles \in Nat \ {0} /\ FilesMax \in Nat /\ PercentMax \in Nat
  /\ MaxTokens \in Nat

Tokens == Operators \cup QueryWords \cup Wildcards

VARIABLES
  lists,     \* the lists of files in the index
  in,        \* the token_stream: text read, end reached, stack_
  pc,        \* the function that runs
  meta,      \* its v_args.meta_id
  calls,     \* the calls that wait for it
  ret,       \* the r_args of the function that returns
  ignored,   \* stop_words_found
  gotNear    \* q_args.got_near

parserVars == <<lists, in, pc, meta, calls, ret, ignored, gotNear>>

-----------------------------------------------------------------------------
\* The stream of tokens.

\* Mutant: a token that was put back stays in the stream.
ExtractedStays(s) ==
  IF s.back # <<>> THEN {[token |-> s.back[Len(s.back)], in |-> s]}
  ELSE {[token |-> EndOfText, in |-> [s EXCEPT !.end = TRUE]]} \cup
       {[token |-> t, in |-> [s EXCEPT !.text = Append(@, t)]] :
          t \in IF s.end \/ Len(s.text) >= MaxTokens THEN {} ELSE Tokens}

\* Every token that >> can yield, with the stream it leaves.
Extracted(s) ==
  IF s.back # <<>>
  THEN {[token |-> s.back[Len(s.back)],
         in |-> [s EXCEPT !.back = SubSeq(@, 1, Len(@) - 1)]]}
  ELSE {[token |-> EndOfText, in |-> [s EXCEPT !.end = TRUE]]} \cup
       {[token |-> t, in |-> [s EXCEPT !.text = Append(@, t)]] :
          t \in IF s.end \/ Len(s.text) >= MaxTokens THEN {} ELSE Tokens}

PutBack(s, t) == [s EXCEPT !.back = Append(@, t)]

-----------------------------------------------------------------------------
\* Nodes of the tree, and what the functions return.

Node(op, kids) == [op |-> op, kids |-> kids]
EmptyNode == Node("empty", <<>>)
WordNode(w, m) == [op |-> "word", kids |-> <<>>, range |-> Matches[w], meta |-> m]
IsNear(n) == n.op \in {"near", "not near"}

Result(node) == [node |-> node, ignore |-> FALSE, ands |-> <<>>]
IgnoredResult == [Result(EmptyNode) EXCEPT !.ignore = TRUE]

\* is_too_frequent(): of an indexed word
TooFrequent(x) ==
  \/ Len(lists[x]) > FilesMax
  \/ (Len(lists[x]) * 100) \div NumFiles >= PercentMax

\* The left operand when an operator other than "and" comes: the terms of
\* "and" so far, without the node they were to be joined with.
Left(r) == IF r.ands = <<>> THEN r.node ELSE Node("and", r.ands)

\* What parse_query2() does with an operator and its right operand.
Join(l, op, r) ==
  IF l.ignore THEN (IF r.ignore THEN l ELSE [r EXCEPT !.ands = l.ands])
  ELSE IF r.ignore THEN l
  ELSE IF op = "and" THEN [l EXCEPT !.ands = Append(@, r.node)]
  ELSE Result(Node(op, <<Left(l), r.node>>))

\* "near" and "not near" with a not_node on either side
Nonsense(l, op, r) ==
  /\ ~l.ignore /\ ~r.ignore /\ op \in {"near", "not near"}
  /\ "not" \in {Left(l).op, r.node.op}

\* Mutant: the first operand of "and" is forgotten.
EndedWithoutFirst(r) ==
  IF r.ands = <<>> THEN r
  ELSE [r EXCEPT !.node = Node("and", r.ands), !.ands = <<>>]

\* What parse_query2() returns after the last operand.
Ended(r) ==
  IF r.ands = <<>> THEN r
  ELSE [r EXCEPT !.node = Node("and", Append(r.ands, r.node)), !.ands = <<>>]

-----------------------------------------------------------------------------
Frame(at, m, lhs, relop) == [at |-> at, meta |-> m, lhs |-> lhs, relop |-> relop]
Top == calls[Len(calls)]
Below == SubSeq(calls, 1, Len(calls) - 1)
FirstOperand(m) == Frame("first operand", m, EmptyNode, "")

ParserInit ==
  /\ lists \in Indices
  /\ in = [text |-> <<>>, end |-> FALSE, back |-> <<>>]
  /\ pc = "meta" /\ meta = NoMeta
  /\ calls = <<FirstOperand(NoMeta)>>
  /\ ret = Result(EmptyNode)
  /\ ignored = {} /\ gotNear = FALSE

\* parse_meta(): a word followed by "=" is the name of meta data.
ParseMeta ==
  /\ pc = "meta" /\ pc' = "primary"
  /\ \E e \in Extracted(in) :
       \/ /\ e.token \notin QueryWords
          /\ in' = PutBack(e.in, e.token) /\ UNCHANGED meta
       \/ /\ e.token \in QueryWords
          /\ \E f \in Extracted(e.in) :
               \/ /\ f.token = "=" /\ in' = f.in
                  /\ meta' = IF e.token \in DOMAIN MetaIds
                             THEN MetaIds[e.token] ELSE MetaNotFound
               \/ /\ f.token # "=" /\ UNCHANGED meta
                  /\ in' = PutBack(PutBack(f.in, f.token), e.token)
  /\ UNCHANGED <<lists, calls, ret, ignored, gotNear>>

\* parse_primary() of a word or of a prefix: its range of the index, unless
\* all words in it are too frequent.
ParseWord ==
  /\ pc = "primary" /\ pc' = "return"
  /\ \E e \in Extracted(in) :
       LET frequent == {x \in Matches[e.token] : TooFrequent(x)}
           skip == \/ e.token \in StopWords
                   \/ Matches[e.token] # {} /\ frequent = Matches[e.token]
       IN /\ e.token \in QueryWords \cup Wildcards
          /\ in' = e.in
          /\ ret' = IF skip THEN IgnoredResult
                    ELSE IF Matches[e.token] = {} THEN Result(EmptyNode)
                    ELSE Result(WordNode(e.token, meta))
          /\ ignored' = IF skip \/ frequent # {} THEN ignored \cup {e.token}
                        ELSE ignored
  /\ UNCHANGED <<lists, meta, calls, gotNear>>

\* parse_primary() of "(" calls parse_query2(), which calls parse_meta().
ParseLeftParen ==
  /\ pc = "primary" /\ pc' = "meta"
  /\ \E e \in Extracted(in) : e.token = "(" /\ in' = e.in
  /\ calls' = Append(Append(calls, Frame("parenthesis", meta, EmptyNode, "")),
                     FirstOperand(meta))
  /\ UNCHANGED <<lists, meta, ret, ignored, gotNear>>

ParseNot ==
  /\ pc = "primary" /\ pc' = "meta"
  /\ \E e \in Extracted(in) : e.token = "not" /\ in' = e.in
  /\ calls' = Append(calls, Frame("not", meta, EmptyNode, ""))
  /\ UNCHANGED <<lists, meta, ret, ignored, gotNear>>

\* parse_primary() of any other token: every caller returns false.
NoPrimary ==
  /\ pc = "primary" /\ pc' = "malformed"
  /\ \E e \in Extracted(in) :
       e.token \in {"and", "or", "near", ")", "=", EndOfText} /\ in' = e.in
  /\ UNCHANGED <<lists, meta, calls, ret, ignored, gotNear>>

-----------------------------------------------------------------------------
\* parse_query2() has its first operand.
FirstReturns ==
  /\ pc = "return" /\ Top.at = "first operand" /\ pc' = "relop"
  /\ calls' = Append(Below, Frame("operator", Top.meta, ret, ""))
  /\ UNCHANGED <<lists, in, meta, ret, ignored, gotNear>>

\* parse_query2() has an operator and its right operand.  The comparison of
\* meta_ids (query.cpp:291-296) is of two copies of one value.
RightReturns ==
  /\ pc = "return" /\ Top.at = "right operand"
  /\ IF Nonsense(Top.lhs, Top.relop, ret)
     THEN pc' = "malformed" /\ UNCHANGED <<calls, gotNear>>
     ELSE /\ pc' = "relop"
          /\ calls' = Append(Below,
                 Frame("operator", Top.meta, Join(Top.lhs, Top.relop, ret), ""))
          /\ gotNear' = (gotNear \/ (/\ Top.relop \in {"near", "not near"}
                                     /\ ~Top.lhs.ignore /\ ~ret.ignore))
  /\ UNCHANGED <<lists, in, meta, ret, ignored>>

\* parse_primary() has what is negated: the node even of an ignored word.
NotReturns ==
  /\ pc = "return" /\ Top.at = "not"
  /\ ret' = Result(Node("not", <<ret.node>>)) /\ calls' = Below
  /\ UNCHANGED <<lists, in, pc, meta, ignored, gotNear>>

\* Mutant: the token after a query in parentheses is not looked at.
ParenReturnsAnyway ==
  /\ pc = "return" /\ Top.at = "parenthesis"
  /\ \E e \in Extracted(in) : in' = e.in
  /\ calls' = Below
  /\ UNCHANGED <<lists, pc, meta, ret, ignored, gotNear>>

\* parse_primary() has what is in parentheses.
ParenReturns ==
  /\ pc = "return" /\ Top.at = "parenthesis"
  /\ \E e \in Extracted(in) :
       /\ in' = e.in
       /\ IF e.token = ")" THEN calls' = Below /\ UNCHANGED pc
                           ELSE pc' = "malformed" /\ UNCHANGED calls
  /\ UNCHANGED <<lists, meta, ret, ignored, gotNear>>

\* parse_relop() yields an operator; between two operands that is "and".
Operator(op, s) ==
  /\ calls' = Append(Below, Frame("right operand", Top.meta, Top.lhs, op))
  /\ in' = s /\ pc' = "meta" /\ meta' = Top.meta /\ UNCHANGED ret

ParseRelop ==
  /\ pc = "relop"
  /\ \E e \in Extracted(in) :
       \/ e.token \in {"and", "or", "near"} /\ Operator(e.token, e.in)
       \/ /\ e.token = "not"
          /\ \E f \in Extracted(e.in) :
               \/ f.token = "near" /\ Operator("not near", f.in)
               \/ /\ f.token # "near"
                  /\ Operator("and", PutBack(PutBack(f.in, f.token), e.token))
       \/ /\ e.token \notin {"and", "or", "near", "not", ")", EndOfText}
          /\ Operator("and", PutBack(e.in, e.token))
  /\ UNCHANGED <<lists, ignored, gotNear>>

\* parse_relop() yields none, and parse_query2() returns.
NoRelop ==
  /\ pc = "relop"
  /\ \E e \in Extracted(in) :
       \/ e.token = EndOfText /\ in' = e.in
       \/ e.token = ")" /\ in' = PutBack(e.in, e.token)
  /\ ret' = Ended(Top.lhs) /\ calls' = Below
  /\ pc' = IF Below = <<>> THEN "parsed" ELSE "return"
  /\ UNCHANGED <<lists, meta, ignored, gotNear>>

ParserNext ==
  \/ ParseMeta \/ ParseWord \/ ParseLeftParen \/ ParseNot \/ NoPrimary
  \/ FirstReturns \/ RightReturns \/ NotReturns \/ ParenReturns
  \/ ParseRelop \/ NoRelop

\* The end of parse_query(), which may find the tree in error, and search()'s
\* test that the text was read.
EndQuery ==
  /\ pc = "parsed"
  /\ pc' \in {"internal error", IF in.end THEN "answered" ELSE "malformed"}
  /\ UNCHANGED <<lists, in, meta, calls, ret, ignored, gotNear>>

ParserSpec == ParserInit /\ [][ParserNext \/ EndQuery]_parserVars

\* The same as far as the stream is concerned: whoever else there is leaves
\* it alone.
StreamSpec == ParserInit /\ [][ParserNext]_in

-----------------------------------------------------------------------------
\* Callers are in the order in which the functions call each other: what is
\* in parentheses belongs to a parse_query2() of its own, at the bottom is
\* one, and the other callers wait between.
CallsTypeOK ==
  /\ \A i \in 1..Len(calls) :
       calls[i].at \in {"first operand", "right operand", "operator",
                        "parenthesis", "not"}
  /\ pc \in {"meta", "primary", "return", "relop"} => calls # <<>>
  /\ pc = "relop" => Top.at = "operator"

\* "Our query parser needs at most 2 look-ahead tokens" (token.h:96): however
\* words, "=" and "not" follow each other, no more are put back than stack_
\* has room for.
LookAheadFits == Len(in.back) <= 2

ParserTypeOK ==
  /\ lists \in Indices
  /\ in.text \in Seq(Tokens) /\ Len(in.text) <= MaxTokens
  /\ in.end \in BOOLEAN /\ in.back \in Seq(Tokens \cup {EndOfText})
  /\ pc \in {"meta", "primary", "return", "relop", "parsed", "malformed",
             "answered", "internal error"}
  /\ meta \in {NoMeta, MetaNotFound} \cup {MetaIds[m] : m \in DOMAIN MetaIds}
  /\ ignored \subseteq QueryWords \cup Wildcards
  /\ gotNear \in BOOLEAN
  /\ CallsTypeOK
=============================================================================
