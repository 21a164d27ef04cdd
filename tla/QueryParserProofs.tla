------------------------- MODULE QueryParserProofs -------------------------
(***************************************************************************)
(* What holds of the parser of queries for texts of any length and nested  *)
(* to any depth, over any words and any index.                             *)
(***************************************************************************)
EXTENDS QueryGrammar, ListLemmas

AnyToken == Tokens \cup {EndOfText}

StreamOK(s) ==
  /\ s = [text |-> s.text, end |-> s.end, back |-> s.back]
  /\ s.text \in Seq(Tokens) /\ Len(s.text) <= MaxTokens
  /\ s.end \in BOOLEAN
  /\ s.back \in Seq(AnyToken) /\ Len(s.back) <= 2

\* The front of a sequence
LEMMA FrontFacts ==
  ASSUME NEW S, NEW s \in Seq(S), s # <<>>
  PROVE  /\ SubSeq(s, 1, Len(s) - 1) \in Seq(S)
         /\ Len(SubSeq(s, 1, Len(s) - 1)) = Len(s) - 1
         /\ Len(s) \in Nat \ {0}
         /\ s[Len(s)] \in S
         /\ \A i \in 1..(Len(s) - 1) : SubSeq(s, 1, Len(s) - 1)[i] = s[i]
<1>1. Len(s) \in Nat \ {0} /\ DOMAIN s = 1..Len(s)
  OBVIOUS
<1> DEFINE n == Len(s) - 1
<1>2. n \in Nat /\ n <= Len(s)
  BY <1>1
<1>3. SubSeq(s, 1, n) = [i \in 1..n |-> s[i]]
  BY <1>1, <1>2
<1>4. \A i \in 1..n : s[i] \in S
  BY <1>1, <1>2
<1>5. SubSeq(s, 1, n) \in Seq(S) /\ Len(SubSeq(s, 1, n)) = n
  BY <1>1, <1>2, <1>4, SubSeqProperties
<1> QED BY <1>1, <1>3, <1>5

\* The extracted token is taken from the stack, or comes new.
LEMMA ExtractedFacts ==
  ASSUME NEW s, StreamOK(s), NEW e \in Extracted(s)
  PROVE  /\ StreamOK(e.in) /\ e.token \in AnyToken
         /\ s.back = <<>> => e.in.back = <<>>
         /\ s.back # <<>> => Len(e.in.back) = Len(s.back) - 1
<1>1. CASE s.back # <<>>
  <2>1. /\ e.token = s.back[Len(s.back)]
        /\ e.in = [s EXCEPT !.back = SubSeq(@, 1, Len(@) - 1)]
    BY <1>1 DEF Extracted
  <2>2. e.in = [text |-> s.text, end |-> s.end,
                back |-> SubSeq(s.back, 1, Len(s.back) - 1)]
    BY <2>1 DEF StreamOK
  <2> QED BY <1>1, <2>1, <2>2, FrontFacts DEF StreamOK
<1>2. CASE s.back = <<>>
  <2>1. CASE e.token = EndOfText /\ e.in = [s EXCEPT !.end = TRUE]
    <3>1. e.in = [text |-> s.text, end |-> TRUE, back |-> s.back]
      BY <2>1 DEF StreamOK
    <3> QED BY <1>2, <2>1, <3>1 DEF StreamOK, AnyToken
  <2>2. CASE /\ e.token \in Tokens /\ Len(s.text) < MaxTokens
             /\ e.in = [s EXCEPT !.text = Append(@, e.token)]
    <3>1. e.in = [text |-> Append(s.text, e.token), end |-> s.end, back |-> s.back]
      BY <2>2 DEF StreamOK
    <3>2. Append(s.text, e.token) \in Seq(Tokens) /\ Len(Append(s.text, e.token)) <= MaxTokens
      BY <2>2, QueryAssumption DEF StreamOK
    <3> QED BY <1>2, <2>2, <3>1, <3>2 DEF StreamOK, AnyToken
  <2>3. \/ e.token = EndOfText /\ e.in = [s EXCEPT !.end = TRUE]
        \/ /\ e.token \in Tokens /\ Len(s.text) < MaxTokens
           /\ e.in = [s EXCEPT !.text = Append(@, e.token)]
    <3>1. CASE e = [token |-> EndOfText, in |-> [s EXCEPT !.end = TRUE]]
      BY <3>1
    <3>2. CASE e # [token |-> EndOfText, in |-> [s EXCEPT !.end = TRUE]]
      <4>1. PICK t \in IF s.end \/ Len(s.text) >= MaxTokens THEN {} ELSE Tokens :
              e = [token |-> t, in |-> [s EXCEPT !.text = Append(@, t)]]
        BY <1>2, <3>2 DEF Extracted
      <4>2. Len(s.text) \in Nat /\ MaxTokens \in Nat /\ ~(Len(s.text) >= MaxTokens)
        BY <4>1, QueryAssumption DEF StreamOK
      <4> QED BY <4>1, <4>2
    <3> QED BY <3>1, <3>2
  <2> QED BY <2>1, <2>2, <2>3
<1> QED BY <1>1, <1>2

\* A token that is put back fits where there was one less than two.
LEMMA PutBackFacts ==
  ASSUME NEW s, StreamOK(s), Len(s.back) <= 1, NEW t \in AnyToken
  PROVE  StreamOK(PutBack(s, t)) /\ Len(PutBack(s, t).back) = Len(s.back) + 1
<1> DEFINE back == Append(s.back, t)
<1>1. /\ s = [text |-> s.text, end |-> s.end, back |-> s.back]
      /\ PutBack(s, t) = [s EXCEPT !.back = back]
  BY DEF PutBack, StreamOK
<1>2. back \in Seq(AnyToken) /\ Len(back) = Len(s.back) + 1 /\ Len(s.back) \in Nat
  BY DEF StreamOK
<1> HIDE DEF back
<1>3. PutBack(s, t) = [text |-> s.text, end |-> s.end, back |-> back]
  BY <1>1
<1> QED BY <1>2, <1>3 DEF StreamOK

\* parse_meta(), parse_relop(): a token taken and put back
LEMMA OnePutBack ==
  ASSUME NEW s, StreamOK(s), NEW e \in Extracted(s)
  PROVE  StreamOK(PutBack(e.in, e.token))
<1>1. StreamOK(e.in) /\ e.token \in AnyToken /\ Len(e.in.back) <= 1
  BY ExtractedFacts DEF StreamOK
<1> QED BY <1>1, PutBackFacts

\* ... and two of them
LEMMA TwoPutBack ==
  ASSUME NEW s, StreamOK(s), NEW e \in Extracted(s), NEW f \in Extracted(e.in)
  PROVE  StreamOK(PutBack(PutBack(f.in, f.token), e.token))
<1>1. StreamOK(e.in) /\ e.token \in AnyToken /\ Len(e.in.back) <= 1
  BY ExtractedFacts DEF StreamOK
<1>2. StreamOK(f.in) /\ f.token \in AnyToken /\ f.in.back = <<>>
  <2>1. StreamOK(f.in) /\ f.token \in AnyToken
    BY <1>1, ExtractedFacts
  <2>2. CASE e.in.back = <<>>
    BY <1>1, <2>1, <2>2, ExtractedFacts
  <2>3. CASE e.in.back # <<>>
    BY <1>1, <2>1, <2>3, ExtractedFacts DEF StreamOK
  <2> QED BY <2>1, <2>2, <2>3
<1>3. StreamOK(PutBack(f.in, f.token)) /\ Len(PutBack(f.in, f.token).back) = 1
  <2>1. Len(f.in.back) = 0 /\ Len(f.in.back) <= 1
    BY <1>2
  <2>2. /\ StreamOK(PutBack(f.in, f.token))
        /\ Len(PutBack(f.in, f.token).back) = Len(f.in.back) + 1
    BY <1>2, <2>1, PutBackFacts
  <2> QED BY <2>1, <2>2
<1>4. Len(PutBack(f.in, f.token).back) <= 1
  BY <1>3
<1> QED BY <1>1, <1>3, <1>4, PutBackFacts

StreamInv == StreamOK(in)

\* Nothing is put back at first.
LEMMA StreamInit == ParserInit => StreamInv
BY QueryAssumption DEF ParserInit, StreamInv, StreamOK

\* Every step keeps what is put back within bounds.
LEMMA StreamStep == StreamInv /\ [ParserNext]_in => StreamInv'
<1> SUFFICES ASSUME StreamOK(in), [ParserNext]_in
             PROVE  StreamOK(in')
  BY DEF StreamInv
<1>1. CASE ParseMeta
  <2>1. PICK e \in Extracted(in) :
          \/ in' = PutBack(e.in, e.token)
          \/ \E f \in Extracted(e.in) :
               in' = f.in \/ in' = PutBack(PutBack(f.in, f.token), e.token)
    BY <1>1 DEF ParseMeta
  <2> QED BY <2>1, ExtractedFacts, OnePutBack, TwoPutBack
<1>2. CASE ParseRelop
  <2>1. PICK e \in Extracted(in) :
          \/ in' = e.in \/ in' = PutBack(e.in, e.token)
          \/ \E f \in Extracted(e.in) :
               in' = f.in \/ in' = PutBack(PutBack(f.in, f.token), e.token)
    BY <1>2 DEF ParseRelop, Operator
  <2> QED BY <2>1, ExtractedFacts, OnePutBack, TwoPutBack
<1>3. CASE NoRelop
  <2>1. PICK e \in Extracted(in) : in' = e.in \/ in' = PutBack(e.in, e.token)
    BY <1>3 DEF NoRelop
  <2> QED BY <2>1, ExtractedFacts, OnePutBack
<1>4. CASE ParseWord \/ ParseLeftParen \/ ParseNot \/ NoPrimary \/ ParenReturns
  <2>1. PICK e \in Extracted(in) : in' = e.in
    BY <1>4 DEF ParseWord, ParseLeftParen, ParseNot, NoPrimary, ParenReturns
  <2> QED BY <2>1, ExtractedFacts
<1>5. CASE FirstReturns \/ RightReturns \/ NotReturns \/ UNCHANGED in
  BY <1>5 DEF FirstReturns, RightReturns, NotReturns
<1> QED BY <1>1, <1>2, <1>3, <1>4, <1>5 DEF ParserNext

\* However long the query, stack_ of the token_stream has room for what the
\* parser puts back.
THEOREM LookAheadFitsTheStack == StreamSpec => []LookAheadFits
<1>1. StreamInv => LookAheadFits
  BY DEF StreamInv, StreamOK, LookAheadFits
<1> QED BY <1>1, StreamInit, StreamStep, PTL DEF StreamSpec

-----------------------------------------------------------------------------
(***************************************************************************)
(* The callers.  Nothing is said of the trees they hold, so the set they   *)
(* are of is not named.                                                    *)
(***************************************************************************)
Kinds == {"first operand", "right operand", "operator", "parenthesis", "not"}
MetaSet == {NoMeta, MetaNotFound} \cup {MetaIds[m] : m \in DOMAIN MetaIds}

FrameOK(f) == f.at \in Kinds /\ f.meta \in MetaSet
Nested(f) == f.at \in {"parenthesis", "not"}

\* At the bottom is the call of parse_query2() by parse_query().
CallsOK(c) ==
  /\ \E S : c \in Seq(S)
  /\ \A i \in 1..Len(c) : FrameOK(c[i])
  /\ c # <<>> => ~Nested(c[1])

\* The stack of calls with one more on top
LEMMA Pushed ==
  ASSUME NEW c, CallsOK(c), NEW f, FrameOK(f), c = <<>> => ~Nested(f)
  PROVE  /\ CallsOK(Append(c, f)) /\ Append(c, f) # <<>>
         /\ Append(c, f)[Len(Append(c, f))] = f
<1>1. PICK S : c \in Seq(S)
  BY DEF CallsOK
<1> DEFINE T == S \cup {f}
<1>2. c \in Seq(T) /\ f \in T
  BY <1>1
<1>3. /\ Append(c, f) \in Seq(T) /\ Len(c) \in Nat
      /\ Len(Append(c, f)) = Len(c) + 1
      /\ \A i \in 1..Len(c) : Append(c, f)[i] = c[i]
      /\ Append(c, f)[Len(c) + 1] = f
  BY <1>2, AppendProperties
<1>4. \A i \in 1..(Len(c) + 1) : FrameOK(Append(c, f)[i])
  BY <1>3 DEF CallsOK
<1>5. ~Nested(Append(c, f)[1])
  <2>1. CASE c = <<>>
    BY <1>3, <2>1
  <2>2. CASE c # <<>>
    <3>1. Len(c) >= 1
      BY <1>1, <2>2
    <3> QED BY <1>3, <2>2, <3>1 DEF CallsOK
  <2> QED BY <2>1, <2>2
<1>6. Append(c, f) # <<>>
  BY <1>3
<1> QED BY <1>3, <1>4, <1>5, <1>6 DEF CallsOK

\* ... and without the one on top
LEMMA Popped ==
  ASSUME NEW c, CallsOK(c), c # <<>>
  PROVE  /\ CallsOK(SubSeq(c, 1, Len(c) - 1)) /\ FrameOK(c[Len(c)])
         /\ Nested(c[Len(c)]) => SubSeq(c, 1, Len(c) - 1) # <<>>
         /\ SubSeq(c, 1, Len(c) - 1) = <<>> => ~Nested(c[Len(c)])
<1>1. PICK S : c \in Seq(S)
  BY DEF CallsOK
<1> DEFINE b == SubSeq(c, 1, Len(c) - 1)
<1>2. /\ b \in Seq(S) /\ Len(b) = Len(c) - 1 /\ Len(c) \in Nat \ {0}
      /\ \A i \in 1..(Len(c) - 1) : b[i] = c[i]
  BY <1>1, FrontFacts
<1> HIDE DEF b
<1>3. \A i \in 1..Len(b) : FrameOK(b[i])
  BY <1>2 DEF CallsOK
<1>4. b # <<>> => ~Nested(b[1])
  <2>1. ASSUME b # <<>> PROVE Len(b) >= 1
    BY <1>2, <2>1
  <2> QED BY <1>2, <2>1 DEF CallsOK
<1>5. FrameOK(c[Len(c)])
  BY <1>2 DEF CallsOK
<1>6. Nested(c[Len(c)]) => b # <<>>
  <2>1. ASSUME b = <<>> PROVE Len(c) = 1
    <3>1. Len(b) = 0
      BY <2>1
    <3> QED BY <1>2, <3>1
  <2> QED BY <2>1 DEF CallsOK
<1>7. CallsOK(b)
  BY <1>2, <1>3, <1>4 DEF CallsOK
<1> QED BY <1>5, <1>6, <1>7 DEF b

Running == pc \in {"meta", "primary", "return", "relop"}

TypeInv ==
  /\ StreamInv
  /\ lists \in Indices /\ meta \in MetaSet
  /\ pc \in {"meta", "primary", "return", "relop", "parsed", "malformed", "answered",
             "internal error"}
  /\ ignored \subseteq QueryWords \cup Wildcards /\ gotNear \in BOOLEAN
  /\ CallsOK(calls)
  /\ Running => calls # <<>>
  /\ pc = "relop" => Top.at = "operator"

\* A frame is what it is made of.
LEMMA FrameFacts ==
  ASSUME NEW at \in Kinds, NEW m \in MetaSet, NEW l, NEW r
  PROVE  /\ FrameOK(Frame(at, m, l, r)) /\ Frame(at, m, l, r).at = at
         /\ Frame(at, m, l, r).meta = m
BY DEF FrameOK, Frame

\* The parser is typed at first ...
LEMMA TypeInit == ParserInit => TypeInv
<1> SUFFICES ASSUME ParserInit PROVE TypeInv
  OBVIOUS
<1>1. StreamInv
  BY StreamInit
<1>2. FrameOK(FirstOperand(NoMeta)) /\ ~Nested(FirstOperand(NoMeta))
  BY FrameFacts DEF FirstOperand, Kinds, MetaSet, Nested
<1>3. CallsOK(calls) /\ calls # <<>>
  <2>1. CallsOK(<<>>)
    BY DEF CallsOK
  <2>2. CallsOK(Append(<<>>, FirstOperand(NoMeta))) /\ Append(<<>>, FirstOperand(NoMeta)) # <<>>
    BY <1>2, <2>1, Pushed
  <2> QED BY <2>2 DEF ParserInit
<1> QED BY <1>1, <1>3 DEF ParserInit, TypeInv, MetaSet, Running

\* ... and after every step.
LEMMA TypeStep == TypeInv /\ [ParserNext \/ EndQuery]_parserVars => TypeInv'
<1> SUFFICES ASSUME TypeInv, [ParserNext \/ EndQuery]_parserVars PROVE TypeInv'
  OBVIOUS
<1>1. StreamInv'
  BY StreamStep DEF TypeInv, parserVars, EndQuery
<1> USE DEF Running
<1>2. CASE ParseMeta
  <2>1. meta' \in MetaSet
    BY <1>2 DEF ParseMeta, TypeInv, MetaSet
  <2> QED BY <1>1, <1>2, <2>1 DEF ParseMeta, TypeInv
<1>3. CASE ParseWord
  <2>1. ignored' \subseteq QueryWords \cup Wildcards
    BY <1>3 DEF ParseWord, TypeInv
  <2> QED BY <1>1, <1>3, <2>1 DEF ParseWord, TypeInv
<1>4. CASE ParseLeftParen
  <2> DEFINE f == Frame("parenthesis", meta, EmptyNode, "")
             c == Append(calls, f)
  <2>1. FrameOK(f) /\ FrameOK(FirstOperand(meta))
    BY FrameFacts DEF TypeInv, Kinds, FirstOperand
  <2>2. calls # <<>> /\ CallsOK(calls)
    BY <1>4 DEF ParseLeftParen, TypeInv
  <2>3. CallsOK(c) /\ c # <<>>
    BY <2>1, <2>2, Pushed
  <2>4. CallsOK(Append(c, FirstOperand(meta))) /\ Append(c, FirstOperand(meta)) # <<>>
    BY <2>1, <2>3, Pushed
  <2>5. calls' = Append(c, FirstOperand(meta))
    BY <1>4, <2>2 DEF ParseLeftParen, CallsOK
  <2> QED BY <1>1, <1>4, <2>4, <2>5 DEF ParseLeftParen, TypeInv
<1>5. CASE ParseNot
  <2> DEFINE f == Frame("not", meta, EmptyNode, "")
  <2>1. FrameOK(f)
    BY FrameFacts DEF TypeInv, Kinds
  <2>2. calls # <<>> /\ CallsOK(calls)
    BY <1>5 DEF ParseNot, TypeInv
  <2>3. CallsOK(Append(calls, f)) /\ Append(calls, f) # <<>>
    BY <2>1, <2>2, Pushed
  <2> QED BY <1>1, <1>5, <2>3 DEF ParseNot, TypeInv
<1>6. CASE NoPrimary
  BY <1>1, <1>6 DEF NoPrimary, TypeInv
<1>7. CASE FirstReturns
  <2> DEFINE f == Frame("operator", Top.meta, ret, "")
  <2>1. calls # <<>> /\ CallsOK(calls)
    BY <1>7 DEF FirstReturns, TypeInv
  <2>2. CallsOK(Below) /\ FrameOK(Top)
    BY <2>1, Popped DEF Below, Top
  <2>3. FrameOK(f) /\ f.at = "operator" /\ ~Nested(f)
    <3>1. "operator" \in Kinds /\ Top.meta \in MetaSet
      BY <2>2 DEF FrameOK, Kinds
    <3>2. FrameOK(f) /\ f.at = "operator"
      BY <3>1 DEF FrameOK, Frame
    <3> QED BY <3>2 DEF Nested
  <2>4. /\ CallsOK(Append(Below, f)) /\ Append(Below, f) # <<>>
        /\ Append(Below, f)[Len(Append(Below, f))] = f
    BY <2>2, <2>3, Pushed
  <2>5. calls' = Append(Below, f)
    BY <1>7 DEF FirstReturns
  <2>6. Top'.at = "operator"
    BY <2>3, <2>4, <2>5 DEF Top
  <2> QED BY <1>1, <1>7, <2>4, <2>5, <2>6 DEF FirstReturns, TypeInv
<1>8. CASE RightReturns
  <2>1. calls # <<>> /\ CallsOK(calls)
    BY <1>8 DEF RightReturns, TypeInv
  <2>2. CASE Nonsense(Top.lhs, Top.relop, ret)
    BY <1>1, <1>8, <2>1, <2>2 DEF RightReturns, TypeInv
  <2>3. CASE ~Nonsense(Top.lhs, Top.relop, ret)
    <3> DEFINE f == Frame("operator", Top.meta, Join(Top.lhs, Top.relop, ret), "")
    <3>1. CallsOK(Below) /\ FrameOK(Top)
      BY <2>1, Popped DEF Below, Top
    <3>2. FrameOK(f) /\ f.at = "operator" /\ ~Nested(f)
      <4>1. "operator" \in Kinds /\ Top.meta \in MetaSet
        BY <3>1 DEF FrameOK, Kinds
      <4>2. FrameOK(f) /\ f.at = "operator"
        BY <4>1 DEF FrameOK, Frame
      <4> QED BY <4>2 DEF Nested
    <3>3. /\ CallsOK(Append(Below, f)) /\ Append(Below, f) # <<>>
          /\ Append(Below, f)[Len(Append(Below, f))] = f
      BY <3>1, <3>2, Pushed
    <3>4. calls' = Append(Below, f) /\ gotNear' \in BOOLEAN
      BY <1>8, <2>3 DEF RightReturns, TypeInv
    <3>5. Top'.at = "operator"
      BY <3>2, <3>3, <3>4 DEF Top
    <3> QED BY <1>1, <1>8, <2>3, <3>3, <3>4, <3>5 DEF RightReturns, TypeInv
  <2> QED BY <2>2, <2>3
<1>9. CASE NotReturns \/ ParenReturns
  <2>1. calls # <<>> /\ CallsOK(calls) /\ Nested(Top)
    BY <1>9 DEF NotReturns, ParenReturns, TypeInv, Nested
  <2>2. CallsOK(Below) /\ Below # <<>>
    BY <2>1, Popped DEF Below, Top
  <2> QED BY <1>1, <1>9, <2>1, <2>2 DEF NotReturns, ParenReturns, TypeInv
<1>10. CASE ParseRelop
  <2> DEFINE f(op) == Frame("right operand", Top.meta, Top.lhs, op)
  <2>1. PICK op : calls' = Append(Below, f(op)) /\ pc' = "meta" /\ meta' = Top.meta
    BY <1>10 DEF ParseRelop, Operator
  <2>2. calls # <<>> /\ CallsOK(calls)
    BY <1>10 DEF ParseRelop, TypeInv
  <2>3. CallsOK(Below) /\ FrameOK(Top)
    BY <2>2, Popped DEF Below, Top
  <2>4. FrameOK(f(op)) /\ ~Nested(f(op))
    <3>1. "right operand" \in Kinds /\ Top.meta \in MetaSet
      BY <2>3 DEF FrameOK, Kinds
    <3>2. FrameOK(f(op)) /\ f(op).at = "right operand"
      BY <3>1 DEF FrameOK, Frame
    <3> QED BY <3>2 DEF Nested
  <2>5. CallsOK(Append(Below, f(op))) /\ Append(Below, f(op)) # <<>>
    BY <2>3, <2>4, Pushed
  <2> QED BY <1>1, <1>10, <2>1, <2>3, <2>5 DEF ParseRelop, TypeInv, FrameOK
<1>11. CASE NoRelop
  <2>1. calls # <<>> /\ CallsOK(calls)
    BY <1>11 DEF NoRelop, TypeInv
  <2>2. CallsOK(Below)
    BY <2>1, Popped DEF Below
  <2> QED BY <1>1, <1>11, <2>2 DEF NoRelop, TypeInv
<1>12. CASE UNCHANGED parserVars
  BY <1>1, <1>12 DEF parserVars, TypeInv, Top
<1>13. CASE EndQuery
  BY <1>1, <1>13 DEF EndQuery, TypeInv
<1> QED
  BY <1>2, <1>3, <1>4, <1>5, <1>6, <1>7, <1>8, <1>9, <1>10, <1>11, <1>12, <1>13
  DEF ParserNext

\* However long and deeply nested the query, the variables have their types
\* and while the parser runs, somebody waits for what it returns.
THEOREM ParserIsTyped == ParserSpec => []ParserTypeOK
<1>1. TypeInv => ParserTypeOK
  BY DEF TypeInv, StreamInv, StreamOK, ParserTypeOK, CallsTypeOK, CallsOK, FrameOK,
         Kinds, MetaSet, Running, AnyToken
<1> QED BY <1>1, TypeInit, TypeStep, PTL DEF ParserSpec

-----------------------------------------------------------------------------
(***************************************************************************)
(* The grammar.  Texts are put together from texts; t \o v with a token t  *)
(* before a text v is written First(t, v).                                 *)
(***************************************************************************)

First(t, v) == <<t>> \o v

\* Two texts joined
LEMMA Joined ==
  ASSUME NEW a \in Texts, NEW b \in Texts
  PROVE  /\ a \o b \in Texts /\ Len(a \o b) = Len(a) + Len(b)
         /\ \A i \in 1..Len(a) : (a \o b)[i] = a[i]
         /\ \A i \in 1..Len(b) : (a \o b)[Len(a) + i] = b[i]
         /\ <<>> \in Texts /\ a \o <<>> = a /\ <<>> \o a = a
         /\ Len(a) \in Nat /\ Len(b) \in Nat /\ DOMAIN a = 1..Len(a)
         /\ a = <<>> <=> Len(a) = 0
<1>1. /\ Len(a) \in Nat /\ Len(b) \in Nat /\ DOMAIN a = 1..Len(a)
      /\ <<>> \in Texts /\ Len(<<>>) = 0 /\ (a # <<>> => Len(a) \in Nat \ {0})
  BY LenProperties, EmptySeq DEF Texts
<1>2. a \o <<>> = a /\ <<>> \o a = a
  BY ConcatEmptySeq DEF Texts
<1>3. /\ a \o b \in Texts /\ Len(a \o b) = Len(a) + Len(b)
      /\ \A i \in 1..(Len(a) + Len(b)) :
           (a \o b)[i] = IF i <= Len(a) THEN a[i] ELSE b[i - Len(a)]
  BY ConcatProperties DEF Texts
<1>4. \A i \in 1..Len(a) : i \in 1..(Len(a) + Len(b)) /\ i <= Len(a)
  BY <1>1
<1>5. \A i \in 1..Len(b) : /\ Len(a) + i \in 1..(Len(a) + Len(b))
                           /\ ~(Len(a) + i <= Len(a)) /\ (Len(a) + i) - Len(a) = i
  BY <1>1
<1>6. a = <<>> <=> Len(a) = 0
  BY <1>1
<1>7. /\ \A i \in 1..Len(a) : (a \o b)[i] = a[i]
      /\ \A i \in 1..Len(b) : (a \o b)[Len(a) + i] = b[i]
  BY <1>3, <1>4, <1>5
<1> QED BY <1>1, <1>2, <1>3, <1>6, <1>7

\* The order in which texts are joined makes no difference.
LEMMA Regrouped ==
  ASSUME NEW a \in Texts, NEW b \in Texts, NEW c \in Texts
  PROVE  (a \o b) \o c = a \o (b \o c)
BY ConcatAssociative DEF Texts

\* A text after a token
LEMMA Firsts ==
  ASSUME NEW t \in Alphabet, NEW v \in Texts
  PROVE  /\ <<t>> \in Texts /\ Len(<<t>>) = 1 /\ <<t>>[1] = t
         /\ First(t, v) \in Texts /\ Len(First(t, v)) = Len(v) + 1
         /\ First(t, v)[1] = t /\ First(t, v) # <<>>
         /\ \A i \in 1..Len(v) : First(t, v)[i + 1] = v[i]
         /\ Tail(First(t, v)) = v
         /\ \A w \in Texts : First(t, v) \o w = First(t, v \o w)
<1>1. <<t>> \in Texts /\ Len(<<t>>) = 1 /\ <<t>>[1] = t
  BY DEF Texts
<1>2. /\ First(t, v) \in Texts /\ Len(First(t, v)) = 1 + Len(v) /\ First(t, v)[1] = t
      /\ \A i \in 1..Len(v) : First(t, v)[1 + i] = v[i]
      /\ Len(v) \in Nat
  <2>1. 1 \in 1..1
    OBVIOUS
  <2> QED BY <1>1, <2>1, Joined DEF First
<1>3. First(t, v) # <<>>
  BY <1>2, Joined
<1>4. Tail(First(t, v)) = v
  <2>1. /\ Tail(First(t, v)) \in Texts /\ Len(Tail(First(t, v))) = Len(First(t, v)) - 1
        /\ \A i \in 1..Len(Tail(First(t, v))) : Tail(First(t, v))[i] = First(t, v)[i + 1]
    BY <1>2, <1>3, HeadTailProperties DEF Texts
  <2>2. Len(Tail(First(t, v))) = Len(v)
    BY <1>2, <2>1
  <2>3. \A i \in 1..Len(v) : i + 1 = 1 + i
    BY <1>2
  <2>4. \A i \in 1..Len(Tail(First(t, v))) : Tail(First(t, v))[i] = v[i]
    BY <1>2, <2>1, <2>2, <2>3
  <2> QED BY <2>1, <2>2, <2>4, SeqEqual DEF Texts
<1>5. \A w \in Texts : First(t, v) \o w = First(t, v \o w)
  BY <1>1, Regrouped DEF First
<1>6. \A i \in 1..Len(v) : i + 1 = 1 + i
  BY <1>2
<1> QED BY <1>1, <1>2, <1>3, <1>4, <1>5, <1>6

\* A text that is not empty is one after a token.
LEMMA HasFirst ==
  ASSUME NEW s \in Texts, s # <<>>
  PROVE  /\ s[1] \in Alphabet /\ Tail(s) \in Texts /\ Len(Tail(s)) = Len(s) - 1
         /\ s = First(s[1], Tail(s)) /\ Len(s) \in Nat \ {0}
<1>1. /\ Len(s) \in Nat \ {0} /\ Tail(s) \in Texts /\ Len(Tail(s)) = Len(s) - 1
      /\ \A i \in 1..Len(Tail(s)) : Tail(s)[i] = s[i + 1]
  BY HeadTailProperties, EmptySeq DEF Texts
<1>2. s[1] \in Alphabet
  BY <1>1, ElementOfSeq DEF Texts
<1>3. /\ First(s[1], Tail(s)) \in Texts /\ Len(First(s[1], Tail(s))) = Len(s)
      /\ First(s[1], Tail(s))[1] = s[1]
      /\ \A i \in 1..Len(Tail(s)) : First(s[1], Tail(s))[i + 1] = s[i + 1]
  <2>1. /\ First(s[1], Tail(s)) \in Texts
        /\ Len(First(s[1], Tail(s))) = Len(Tail(s)) + 1
        /\ First(s[1], Tail(s))[1] = s[1]
        /\ \A i \in 1..Len(Tail(s)) : First(s[1], Tail(s))[i + 1] = Tail(s)[i]
    BY <1>1, <1>2, Firsts
  <2> QED BY <1>1, <2>1
<1>4. \A i \in 1..Len(s) : i = 1 \/ (i - 1 \in 1..Len(Tail(s)) /\ (i - 1) + 1 = i)
  BY <1>1
<1>5. \A i \in 1..Len(s) : First(s[1], Tail(s))[i] = s[i]
  <2> TAKE i \in 1..Len(s)
  <2>1. CASE i = 1
    BY <1>3, <2>1
  <2>2. CASE i - 1 \in 1..Len(Tail(s)) /\ (i - 1) + 1 = i
    <3> DEFINE k == i - 1
    <3>1. First(s[1], Tail(s))[k + 1] = s[k + 1]
      BY <1>3, <2>2
    <3> QED BY <2>2, <3>1
  <2> QED BY <1>4, <2>1, <2>2
<1>6. First(s[1], Tail(s)) = s
  BY <1>3, <1>5, SeqEqual DEF Texts
<1> QED BY <1>1, <1>2, <1>6

\* Parts of two texts joined
LEMMA JoinedParts ==
  ASSUME NEW a \in Texts, NEW b \in Texts
  PROVE  /\ SubSeq(a \o b, 1, Len(a)) = a
         /\ SubSeq(a \o b, Len(a) + 1, Len(a \o b)) = b
<1>1. Len(a) \in Nat /\ Len(b) \in Nat /\ Len(a \o b) = Len(a) + Len(b)
  BY Joined
<1>2. /\ \A i \in 1..Len(a) : (a \o b)[i] = a[i] /\ a[i] \in Alphabet
      /\ \A i \in 1..Len(b) : (a \o b)[Len(a) + i] = b[i] /\ b[i] \in Alphabet
  BY Joined, ElementOfSeq DEF Texts
<1>3. SubSeq(a \o b, 1, Len(a)) = a
  <2>1. /\ SubSeq(a \o b, 1, Len(a)) \in Texts
        /\ Len(SubSeq(a \o b, 1, Len(a))) = IF 1 <= Len(a) THEN Len(a) - 1 + 1 ELSE 0
        /\ \A i \in 1..(Len(a) - 1 + 1) : SubSeq(a \o b, 1, Len(a))[i] = (a \o b)[1 + i - 1]
    BY <1>1, <1>2, SubSeqProperties DEF Texts
  <2>2. Len(SubSeq(a \o b, 1, Len(a))) = Len(a) /\ Len(a) - 1 + 1 = Len(a)
    BY <1>1, <2>1
  <2>3. \A i \in 1..Len(a) : 1 + i - 1 = i
    BY <1>1
  <2>4. \A i \in 1..Len(a) : SubSeq(a \o b, 1, Len(a))[i] = a[i]
    BY <1>2, <2>1, <2>2, <2>3
  <2> QED BY <2>1, <2>2, <2>4, SeqEqual DEF Texts
<1>4. SubSeq(a \o b, Len(a) + 1, Len(a \o b)) = b
  <2> DEFINE m == Len(a) + 1
             n == Len(a \o b)
             part == SubSeq(a \o b, m, n)
  <2>1. \A i \in m..n : i - Len(a) \in 1..Len(b) /\ Len(a) + (i - Len(a)) = i
    BY <1>1
  <2>2. \A i \in m..n : (a \o b)[i] \in Alphabet
    <3> TAKE i \in m..n
    <3>1. (a \o b)[Len(a) + (i - Len(a))] \in Alphabet
      BY <1>2, <2>1
    <3> QED BY <2>1, <3>1
  <2>3. m \in Int /\ n \in Int
    BY <1>1
  <2>4. /\ part \in Texts /\ Len(part) = IF m <= n THEN n - m + 1 ELSE 0
        /\ \A i \in 1..(n - m + 1) : part[i] = (a \o b)[m + i - 1]
    <3> DEFINE whole == a \o b
    <3>1. \A i \in m..n : whole[i] \in Alphabet
      BY <2>2
    <3> HIDE DEF m, n, whole
    <3>2. /\ SubSeq(whole, m, n) \in Seq(Alphabet)
          /\ Len(SubSeq(whole, m, n)) = IF m <= n THEN n - m + 1 ELSE 0
          /\ \A i \in 1..(n - m + 1) : SubSeq(whole, m, n)[i] = whole[m + i - 1]
      BY <2>3, <3>1, SubSeqProperties
    <3> QED BY <3>2 DEF whole, Texts
  <2>5. Len(part) = Len(b) /\ n - m + 1 = Len(b)
    <3> HIDE DEF part
    <3> QED BY <1>1, <2>4
  <2>6. \A i \in 1..Len(b) : m + i - 1 = Len(a) + i
    BY <1>1
  <2> HIDE DEF m, n, part
  <2>7. \A i \in 1..Len(b) : part[i] = b[i]
    BY <1>2, <2>4, <2>5, <2>6
  <2>8. part = b
    BY <2>4, <2>5, <2>7, SeqEqual DEF Texts
  <2> QED BY <2>8 DEF part, m, n
<1> QED BY <1>3, <1>4

\* A text cut in two
LEMMA CutInTwo ==
  ASSUME NEW s \in Texts, NEW i \in 0..Len(s)
  PROVE  /\ SubSeq(s, 1, i) \in Texts /\ Len(SubSeq(s, 1, i)) = i
         /\ SubSeq(s, i + 1, Len(s)) \in Texts /\ Len(SubSeq(s, i + 1, Len(s))) = Len(s) - i
         /\ s = SubSeq(s, 1, i) \o SubSeq(s, i + 1, Len(s))
<1>1. Len(s) \in Nat /\ i \in Int /\ 0 <= i /\ i <= Len(s)
  BY Joined
<1>2. \A k \in 1..Len(s) : s[k] \in Alphabet
  BY ElementOfSeq DEF Texts
<1>3. /\ \A k \in 1..i : s[k] \in Alphabet
      /\ \A k \in (i + 1)..Len(s) : s[k] \in Alphabet
  <2>1. \A k \in 1..i : k \in 1..Len(s)
    BY <1>1
  <2>2. \A k \in (i + 1)..Len(s) : k \in 1..Len(s)
    BY <1>1
  <2> QED BY <1>2, <2>1, <2>2
<1> DEFINE a == SubSeq(s, 1, i)
           b == SubSeq(s, i + 1, Len(s))
<1>4. /\ a \in Texts /\ Len(a) = IF 1 <= i THEN i - 1 + 1 ELSE 0
      /\ \A k \in 1..(i - 1 + 1) : a[k] = s[1 + k - 1]
  BY <1>1, <1>3, SubSeqProperties DEF Texts
<1>5. /\ b \in Texts /\ Len(b) = IF i + 1 <= Len(s) THEN Len(s) - (i + 1) + 1 ELSE 0
      /\ \A k \in 1..(Len(s) - (i + 1) + 1) : b[k] = s[i + 1 + k - 1]
  <2>1. i + 1 \in Int /\ Len(s) \in Int
    BY <1>1
  <2> QED BY <1>3, <2>1, SubSeqProperties DEF Texts
<1> HIDE DEF a, b
<1>6. Len(a) = i /\ Len(b) = Len(s) - i
  BY <1>1, <1>4, <1>5
<1>7. /\ \A k \in 1..i : a[k] = s[k]
      /\ \A k \in 1..(Len(s) - i) : b[k] = s[i + k]
  <2>1. \A k \in 1..i : 1 + k - 1 = k /\ k \in 1..(i - 1 + 1)
    BY <1>1
  <2>2. \A k \in 1..(Len(s) - i) : i + 1 + k - 1 = i + k /\ k \in 1..(Len(s) - (i + 1) + 1)
    BY <1>1
  <2> QED BY <1>4, <1>5, <2>1, <2>2
<1>8. a \o b \in Texts /\ Len(a \o b) = Len(s)
  <2>1. a \o b \in Texts /\ Len(a \o b) = Len(a) + Len(b)
    BY <1>4, <1>5, Joined
  <2> QED BY <1>1, <1>6, <2>1
<1>9. \A k \in 1..Len(s) : (a \o b)[k] = s[k]
  <2> TAKE k \in 1..Len(s)
  <2>1. CASE k <= i
    <3>1. k \in 1..i
      BY <1>1, <2>1
    <3> QED BY <1>4, <1>5, <1>6, <1>7, <3>1, Joined
  <2>2. CASE ~(k <= i)
    <3>1. k - i \in 1..(Len(s) - i) /\ i + (k - i) = k
      BY <1>1, <2>2
    <3>2. \A l \in 1..Len(b) : (a \o b)[Len(a) + l] = b[l]
      BY <1>4, <1>5, Joined
    <3>3. (a \o b)[i + (k - i)] = b[k - i] /\ b[k - i] = s[i + (k - i)]
      BY <1>6, <1>7, <3>1, <3>2
    <3> QED BY <3>1, <3>3
  <2> QED BY <2>1, <2>2
<1>10. a \o b = s
  BY <1>8, <1>9, SeqEqual DEF Texts
<1> QED BY <1>4, <1>5, <1>6, <1>10 DEF a, b

\* One round of the productions, and what the grammar is
Round(g) ==
  LET primaries == Primaries(g.queries, g.metas)
      metas == Metas(primaries)
  IN [queries |-> Queries(g.queries, metas), metas |-> metas, primaries |-> primaries]

NoTexts == [queries |-> {}, metas |-> {}, primaries |-> {}]

IsAfter(g) == g = [n \in Nat |-> IF n = 0 THEN NoTexts ELSE Round(g[n - 1])]

\* The grammar is what its definition says.
LEMMA GrammarIs ==
  Grammar[0] = NoTexts /\ \A n \in Nat : Grammar[n + 1] = Round(Grammar[n])
<1> DEFINE S == [queries : SUBSET Texts, metas : SUBSET Texts, primaries : SUBSET Texts]
           B == {0}
           base == [n \in Nat |-> NoTexts]
           round == [g \in S |-> Round(g)]
           step == [n \in Nat |-> round]
           back == [n \in Nat |-> IF n = 0 THEN 0 ELSE n - 1]
<1>1. \A g \in S : Round(g) \in S
  BY DEF Round, Primaries, Metas, Queries
<1>2. /\ B \in SUBSET Nat /\ base \in [Nat -> S] /\ step \in [Nat -> [S -> S]]
      /\ back \in [Nat -> Nat] /\ \A n \in Nat \ B : back[n] < n
  <2>1. NoTexts \in S
    BY DEF NoTexts
  <2>2. round \in [S -> S]
    <3> HIDE DEF S
    <3> QED BY <1>1
  <2> HIDE DEF S, round
  <2> QED BY <2>1, <2>2
<1>3. PICK g \in [Nat -> S] : IsRecursive(g, B, base, step, back)
  <2> HIDE DEF B, base, step, back, S
  <2> QED BY <1>2, Recursion
<1>4. \A n \in Nat : g[n] = IF n = 0 THEN NoTexts ELSE Round(g[n - 1])
  <2> TAKE n \in Nat
  <2>1. g[n] = IF n \in B THEN base[n] ELSE step[n][g[back[n]]]
    BY <1>3 DEF IsRecursive
  <2>2. CASE n = 0
    <3> HIDE DEF round, S
    <3> QED BY <2>1, <2>2
  <2>3. CASE n # 0
    <3>1. n \notin B /\ back[n] = n - 1 /\ step[n] = round /\ n - 1 \in Nat
      <4> HIDE DEF round, S
      <4> QED BY <2>3
    <3>2. round[g[n - 1]] = Round(g[n - 1])
      <4> HIDE DEF S
      <4> QED BY <1>3, <3>1
    <3> HIDE DEF B, base, step, back, round, S
    <3> QED BY <2>1, <2>3, <3>1, <3>2
  <2> QED BY <2>2, <2>3
<1>5. IsAfter(g)
  <2> HIDE DEF S
  <2>1. g = [n \in Nat |-> g[n]]
    BY <1>3
  <2> QED BY <1>4, <2>1 DEF IsAfter
<1> DEFINE a == CHOOSE a : IsAfter(a)
<1>6. IsAfter(a)
  BY <1>5, Zenon
<1>7. Grammar = a
  BY Zenon DEF Grammar, IsAfter, NoTexts, Round
<1> HIDE DEF a
<1>8. \A n \in Nat : a[n] = IF n = 0 THEN NoTexts ELSE Round(a[n - 1])
  BY <1>6 DEF IsAfter
<1>9. \A n \in Nat : n + 1 \in Nat /\ n + 1 # 0 /\ (n + 1) - 1 = n
  OBVIOUS
<1>10. 0 \in Nat /\ \A n \in Nat : a[n + 1] = Round(a[n])
  BY <1>8, <1>9
<1> QED BY <1>7, <1>8, <1>10

\* No text of the grammar is empty.
LEMMA RoundNotEmpty ==
  ASSUME NEW g, NEW s \in Round(g).queries \cup Round(g).metas \cup Round(g).primaries
  PROVE  s \in Texts /\ Len(s) > 0
<1> DEFINE primaries == Primaries(g.queries, g.metas)
           metas == Metas(primaries)
<1>1. \A x \in primaries : x \in Texts /\ Len(x) > 0
  <2> TAKE x \in primaries
  <2>1. x \in Texts /\ (Len(x) = 1 \/ Len(x) > 2 \/ Len(x) > 1)
    BY DEF Primaries, InParens
  <2>2. Len(x) \in Nat
    BY <2>1, Joined
  <2>3. \A k \in Nat : k = 1 \/ k > 2 \/ k > 1 => k > 0
    OBVIOUS
  <2> QED BY <2>1, <2>2, <2>3, Zenon
<1> HIDE DEF primaries
<1>2. \A x \in metas : x \in Texts /\ Len(x) > 0
  <2> TAKE x \in metas
  <2>1. x \in Texts /\ (x \in primaries \/ Len(x) >= 2)
    BY DEF Metas, IsName
  <2>2. Len(x) \in Nat
    BY <2>1, Joined
  <2> QED BY <1>1, <2>1, <2>2
<1> HIDE DEF metas
<1>3. \A x \in Queries(g.queries, metas) : x \in Texts /\ Len(x) > 0
  <2> TAKE x \in Queries(g.queries, metas)
  <2>1. x \in Texts /\ (x \in metas \/ \E j \in 2..Len(x) : TRUE)
    BY DEF Queries
  <2>2. Len(x) \in Nat
    BY <2>1, Joined
  <2> QED BY <1>2, <2>1, <2>2
<1>4. Round(g) = [queries |-> Queries(g.queries, metas), metas |-> metas,
                  primaries |-> primaries]
  BY DEF Round, metas, primaries
<1> QED BY <1>1, <1>2, <1>3, <1>4

\* The texts in g of up to n tokens are in h.
Covers(h, g, n) ==
  \A s \in Texts : Len(s) <= n =>
    /\ s \in g.queries => s \in h.queries
    /\ s \in g.metas => s \in h.metas
    /\ s \in g.primaries => s \in h.primaries

\* Parts of texts
LEMMA TextParts ==
  ASSUME NEW s \in Texts
  PROVE  /\ Len(s) > 1 => Tail(s) \in Texts /\ Len(Tail(s)) = Len(s) - 1
         /\ Len(s) > 2 => /\ SubSeq(s, 2, Len(s) - 1) \in Texts
                          /\ Len(SubSeq(s, 2, Len(s) - 1)) = Len(s) - 2
         /\ Len(s) >= 2 => From(s, 3) \in Texts /\ Len(From(s, 3)) = Len(s) - 2
         /\ \A j \in 2..Len(s) : From(s, j) \in Texts /\ Len(From(s, j)) = Len(s) - j + 1
         /\ \A i \in 1..Len(s) : Until(s, i) \in Texts /\ Len(Until(s, i)) = i
         /\ Len(s) \in Nat
<1>1. Len(s) \in Nat
  BY Joined
<1>2. ASSUME Len(s) > 1 PROVE Tail(s) \in Texts /\ Len(Tail(s)) = Len(s) - 1
  <2>1. s # <<>>
    BY <1>2, Joined
  <2> QED BY <2>1, HasFirst
<1>3. \A j \in 2..(Len(s) + 1) : From(s, j) \in Texts /\ Len(From(s, j)) = Len(s) - j + 1
  <2> TAKE j \in 2..(Len(s) + 1)
  <2>1. j - 1 \in 0..Len(s) /\ (j - 1) + 1 = j /\ Len(s) - (j - 1) = Len(s) - j + 1
    BY <1>1
  <2>2. \A k \in 0..Len(s) : /\ SubSeq(s, k + 1, Len(s)) \in Texts
                             /\ Len(SubSeq(s, k + 1, Len(s))) = Len(s) - k
    BY CutInTwo
  <2>3. /\ SubSeq(s, (j - 1) + 1, Len(s)) \in Texts
        /\ Len(SubSeq(s, (j - 1) + 1, Len(s))) = Len(s) - (j - 1)
    BY <2>1, <2>2
  <2> QED BY <2>1, <2>3 DEF From
<1>4. \A i \in 1..Len(s) : Until(s, i) \in Texts /\ Len(Until(s, i)) = i
  <2>1. \A i \in 1..Len(s) : i \in 0..Len(s)
    BY <1>1
  <2> QED BY <2>1, CutInTwo DEF Until
<1>5. Len(s) >= 2 => 3 \in 2..(Len(s) + 1) /\ Len(s) - 3 + 1 = Len(s) - 2
  BY <1>1
<1>6. \A j \in 2..Len(s) : j \in 2..(Len(s) + 1)
  BY <1>1
<1>7. ASSUME Len(s) > 2
      PROVE  /\ SubSeq(s, 2, Len(s) - 1) \in Texts
             /\ Len(SubSeq(s, 2, Len(s) - 1)) = Len(s) - 2
  <2> DEFINE n == Len(s) - 1
  <2>1. /\ n \in Int /\ 2 \in Int /\ 2 <= n /\ n - 2 + 1 = Len(s) - 2
        /\ \A i \in 2..n : i \in 1..Len(s)
    BY <1>1, <1>7
  <2>2. \A i \in 2..n : s[i] \in Alphabet
    BY <2>1, ElementOfSeq DEF Texts
  <2> HIDE DEF n
  <2>3. /\ SubSeq(s, 2, n) \in Seq(Alphabet)
        /\ Len(SubSeq(s, 2, n)) = IF 2 <= n THEN n - 2 + 1 ELSE 0
    BY <2>1, <2>2, SubSeqProperties
  <2> QED BY <2>1, <2>3 DEF n, Texts
<1> QED BY <1>1, <1>2, <1>3, <1>4, <1>5, <1>6, <1>7

\* A round of the productions reaches texts that are one token longer.
LEMMA RoundUp ==
  ASSUME NEW n \in Nat, NEW g, NEW h, Covers(h, g, n)
  PROVE  Covers(Round(h), Round(g), n + 1)
<1> DEFINE P(k) == Primaries(k.queries, k.metas)
           M(k) == Metas(P(k))
           Q(k) == Queries(k.queries, M(k))
<1>1. \A k : /\ Round(k).primaries = P(k) /\ Round(k).metas = M(k)
             /\ Round(k).queries = Q(k)
  BY DEF Round
<1>2. ASSUME NEW s \in Texts, Len(s) <= n + 1, s \in P(g) PROVE s \in P(h)
  <2>1. Len(s) \in Nat
    BY Joined
  <2>2. CASE Len(s) = 1 /\ s[1] \in QueryWords \cup Wildcards
    BY <2>2 DEF Primaries
  <2>3. CASE InParens(s) /\ SubSeq(s, 2, Len(s) - 1) \in g.queries
    <3>1. Len(s) > 2
      BY <2>3 DEF InParens
    <3>2. /\ SubSeq(s, 2, Len(s) - 1) \in Texts
          /\ Len(SubSeq(s, 2, Len(s) - 1)) = Len(s) - 2
      BY <3>1, TextParts
    <3>3. SubSeq(s, 2, Len(s) - 1) \in h.queries
      <4>1. Len(SubSeq(s, 2, Len(s) - 1)) <= n
        BY <1>2, <2>1, <3>2
      <4> QED BY <2>3, <3>2, <4>1 DEF Covers
    <3> QED BY <2>3, <3>3 DEF Primaries
  <2>4. CASE Len(s) > 1 /\ s[1] = "not" /\ Tail(s) \in g.metas
    <3>1. Tail(s) \in Texts /\ Len(Tail(s)) = Len(s) - 1
      BY <2>4, TextParts
    <3>2. Tail(s) \in h.metas
      <4>1. Len(Tail(s)) <= n
        BY <1>2, <2>1, <3>1
      <4> QED BY <2>4, <3>1, <4>1 DEF Covers
    <3> QED BY <2>4, <3>2 DEF Primaries
  <2> QED BY <1>2, <2>2, <2>3, <2>4 DEF Primaries
<1> HIDE DEF P
<1>3. ASSUME NEW s \in Texts, Len(s) <= n + 1, s \in M(g) PROVE s \in M(h)
  <2>1. CASE s \in P(g)
    BY <1>2, <1>3, <2>1 DEF Metas
  <2>2. CASE IsName(s) /\ From(s, 3) \in P(g)
    <3>1. Len(s) >= 2 /\ Len(s) \in Nat
      BY <2>2, Joined DEF IsName
    <3>2. From(s, 3) \in Texts /\ Len(From(s, 3)) = Len(s) - 2
      BY <3>1, TextParts
    <3>3. Len(From(s, 3)) <= n + 1
      BY <1>3, <3>1, <3>2
    <3>4. From(s, 3) \in P(h)
      BY <1>2, <2>2, <3>2, <3>3
    <3> QED BY <2>2, <3>4 DEF Metas
  <2> QED BY <1>3, <2>1, <2>2 DEF Metas
<1> HIDE DEF M
<1>4. ASSUME NEW s \in Texts, Len(s) <= n + 1, s \in Q(g) PROVE s \in Q(h)
  <2>1. CASE s \in M(g)
    BY <1>3, <1>4, <2>1 DEF Queries
  <2>2. ASSUME NEW j \in 2..Len(s), From(s, j) \in M(g), NEW i \in 1..(j - 1),
               RelopAt(s, i, j), Until(s, i) \in g.queries
        PROVE  s \in Q(h)
    <3>1. Len(s) \in Nat /\ i \in 1..Len(s) /\ i <= n
      <4>1. Len(s) \in Nat
        BY Joined
      <4> QED BY <1>4, <4>1
    <3>2. From(s, j) \in Texts /\ Len(From(s, j)) = Len(s) - j + 1
      BY TextParts
    <3>3. Until(s, i) \in Texts /\ Len(Until(s, i)) = i
      BY <3>1, TextParts
    <3>4. Len(From(s, j)) <= n + 1
      BY <1>4, <3>1, <3>2
    <3>5. From(s, j) \in M(h)
      BY <1>3, <2>2, <3>2, <3>4
    <3>6. Until(s, i) \in h.queries
      BY <2>2, <3>1, <3>3 DEF Covers
    <3> QED BY <2>2, <3>5, <3>6 DEF Queries
  <2> QED BY <1>4, <2>1, <2>2 DEF Queries
<1> HIDE DEF Q
<1> QED BY <1>1, <1>2, <1>3, <1>4 DEF Covers

\* A text of n tokens is made in n rounds, if at all.
LEMMA RoundsEnough ==
  \A n, m \in Nat : Covers(Grammar[n], Grammar[m], n)
<1> DEFINE S == {n \in Nat : \A m \in Nat : Covers(Grammar[n], Grammar[m], n)}
<1>1. \A k, m \in Nat : Covers(k, Grammar[0], m)
  BY GrammarIs DEF Covers, NoTexts
<1>2. \A m \in Nat : m = 0 \/ (m - 1 \in Nat /\ (m - 1) + 1 = m)
  OBVIOUS
<1>3. 0 \in S
  <2>1. ASSUME NEW m \in Nat PROVE Covers(Grammar[0], Grammar[m], 0)
    <3>1. CASE m = 0
      BY <3>1 DEF Covers
    <3>2. CASE m - 1 \in Nat /\ (m - 1) + 1 = m
      <4>1. Grammar[m] = Round(Grammar[m - 1])
        BY <3>2, GrammarIs
      <4>2. \A s \in Grammar[m].queries \cup Grammar[m].metas \cup Grammar[m].primaries :
              s \in Texts /\ Len(s) > 0
        BY <4>1, RoundNotEmpty
      <4>3. \A s \in Texts : Len(s) <= 0 => ~(Len(s) > 0)
        BY Joined
      <4> QED BY <4>2, <4>3 DEF Covers
    <3> QED BY <1>2, <3>1, <3>2
  <2> QED BY <2>1
<1>4. ASSUME NEW n \in Nat, n \in S PROVE n + 1 \in S
  <2>1. n + 1 \in Nat /\ Grammar[n + 1] = Round(Grammar[n])
    BY GrammarIs
  <2>2. ASSUME NEW m \in Nat PROVE Covers(Grammar[n + 1], Grammar[m], n + 1)
    <3>1. CASE m = 0
      BY <3>1, GrammarIs DEF Covers, NoTexts
    <3>2. CASE m - 1 \in Nat /\ (m - 1) + 1 = m
      <4>1. Grammar[m] = Round(Grammar[m - 1])
        BY <3>2, GrammarIs
      <4>2. Covers(Grammar[n], Grammar[m - 1], n)
        BY <1>4, <3>2
      <4> QED BY <2>1, <4>1, <4>2, RoundUp
    <3> QED BY <1>2, <3>1, <3>2
  <2> QED BY <2>1, <2>2
<1> HIDE DEF S
<1>5. \A n \in Nat : n \in S
  BY <1>3, <1>4, Induction
<1> QED BY <1>5 DEF S

QueryTexts == {s \in Texts : IsQuery(s)}
MetaTexts == {s \in Texts : IsMeta(s)}
PrimaryTexts == {s \in Texts : IsPrimary(s)}

\* More rounds than a text has tokens say nothing new of it.
LEMMA EveryRound ==
  ASSUME NEW s \in Texts, NEW n \in Nat, Len(s) <= n
  PROVE  /\ s \in QueryTexts <=> s \in Grammar[n].queries
         /\ s \in MetaTexts <=> s \in Grammar[n].metas
         /\ s \in PrimaryTexts <=> s \in Grammar[n].primaries
<1>1. Len(s) \in Nat /\ Len(s) <= Len(s)
  BY Joined
<1>2. Covers(Grammar[n], Grammar[Len(s)], n) /\ Covers(Grammar[Len(s)], Grammar[n], Len(s))
  BY <1>1, RoundsEnough
<1> QED BY <1>1, <1>2
        DEF Covers, QueryTexts, MetaTexts, PrimaryTexts, IsQuery, IsMeta, IsPrimary

\* The grammar is closed under its productions, which make all of it.
LEMMA Productions ==
  /\ PrimaryTexts = Primaries(QueryTexts, MetaTexts)
  /\ MetaTexts = Metas(PrimaryTexts)
  /\ QueryTexts = Queries(QueryTexts, MetaTexts)
<1> DEFINE all == [queries |-> QueryTexts, metas |-> MetaTexts, primaries |-> PrimaryTexts]
<1>1. \A n \in Nat : Covers(all, Grammar[n], n) /\ Covers(Grammar[n], all, n)
  BY EveryRound DEF Covers
<1> HIDE DEF all
<1>2. \A n \in Nat : /\ Covers(Round(all), Grammar[n + 1], n + 1)
                     /\ Covers(Grammar[n + 1], Round(all), n + 1)
  BY <1>1, RoundUp, GrammarIs
<1>3. \A s \in Texts : /\ s \in all.queries <=> s \in Round(all).queries
                       /\ s \in all.metas <=> s \in Round(all).metas
                       /\ s \in all.primaries <=> s \in Round(all).primaries
  <2> TAKE s \in Texts
  <2>1. Len(s) \in Nat /\ Len(s) + 1 \in Nat /\ Len(s) <= Len(s) + 1
    BY Joined
  <2>2. /\ Covers(Round(all), Grammar[Len(s) + 1], Len(s) + 1)
        /\ Covers(Grammar[Len(s) + 1], Round(all), Len(s) + 1)
        /\ Covers(all, Grammar[Len(s) + 1], Len(s) + 1)
        /\ Covers(Grammar[Len(s) + 1], all, Len(s) + 1)
    BY <1>1, <1>2, <2>1
  <2> QED BY <2>1, <2>2 DEF Covers
<1>4. /\ Round(all).primaries = Primaries(all.queries, all.metas)
      /\ Round(all).metas = Metas(Round(all).primaries)
      /\ Round(all).queries = Queries(all.queries, Round(all).metas)
  BY DEF Round
<1>5. /\ all.queries = QueryTexts /\ all.metas = MetaTexts /\ all.primaries = PrimaryTexts
  BY DEF all
<1>6. /\ Round(all).primaries \subseteq Texts /\ Round(all).metas \subseteq Texts
      /\ Round(all).queries \subseteq Texts
  BY <1>4 DEF Primaries, Metas, Queries
<1>7. PrimaryTexts = Round(all).primaries
  BY <1>3, <1>5, <1>6 DEF PrimaryTexts
<1>8. MetaTexts = Round(all).metas
  BY <1>3, <1>5, <1>6 DEF MetaTexts
<1>9. QueryTexts = Round(all).queries
  BY <1>3, <1>5, <1>6 DEF QueryTexts
<1> QED BY <1>4, <1>5, <1>7, <1>8, <1>9

\* A part of a text
LEMMA SubText ==
  ASSUME NEW s \in Texts, NEW i \in Int, NEW j \in Int, 1 <= i, i <= j + 1, j <= Len(s)
  PROVE  /\ SubSeq(s, i, j) \in Texts /\ Len(SubSeq(s, i, j)) = j - i + 1
         /\ \A k \in 1..(j - i + 1) : SubSeq(s, i, j)[k] = s[i + k - 1]
<1>1. Len(s) \in Nat
  BY Joined
<1>2. \A k \in i..j : k \in 1..Len(s)
  BY <1>1
<1>3. \A k \in i..j : s[k] \in Alphabet
  BY <1>2, ElementOfSeq DEF Texts
<1>4. /\ SubSeq(s, i, j) \in Seq(Alphabet)
      /\ Len(SubSeq(s, i, j)) = IF i <= j THEN j - i + 1 ELSE 0
      /\ \A k \in 1..(j - i + 1) : SubSeq(s, i, j)[k] = s[i + k - 1]
  BY <1>3, SubSeqProperties
<1>5. ~(i <= j) => j - i + 1 = 0
  OBVIOUS
<1> QED BY <1>4, <1>5 DEF Texts

Enclosed(q) == First("(", q \o <<")">>)

\* A text in parentheses
LEMMA EnclosedFacts ==
  ASSUME NEW q \in Texts
  PROVE  /\ Enclosed(q) \in Texts /\ Len(Enclosed(q)) = Len(q) + 2
         /\ Enclosed(q)[1] = "(" /\ Enclosed(q)[Len(q) + 2] = ")"
         /\ \A i \in 1..Len(q) : Enclosed(q)[i + 1] = q[i]
<1>1. "(" \in Alphabet /\ ")" \in Alphabet
  BY DEF Alphabet, AllOperators
<1>2. <<")">> \in Texts /\ Len(<<")">>) = 1 /\ <<")">>[1] = ")" /\ 1 \in 1..1
  BY <1>1, Firsts
<1> DEFINE v == q \o <<")">>
<1>3. /\ v \in Texts /\ Len(v) = Len(q) + 1 /\ v[Len(q) + 1] = ")"
      /\ \A i \in 1..Len(q) : v[i] = q[i]
      /\ Len(q) \in Nat
  BY <1>2, Joined
<1> HIDE DEF v
<1>4. /\ First("(", v) \in Texts /\ Len(First("(", v)) = Len(v) + 1
      /\ First("(", v)[1] = "("
      /\ \A i \in 1..Len(v) : First("(", v)[i + 1] = v[i]
  BY <1>1, <1>3, Firsts
<1>5. /\ Len(q) + 1 \in 1..Len(v) /\ (Len(q) + 1) + 1 = Len(q) + 2
      /\ \A i \in 1..Len(q) : i \in 1..Len(v)
  BY <1>3
<1>6. First("(", v)[Len(q) + 2] = ")"
  <2>1. First("(", v)[(Len(q) + 1) + 1] = v[Len(q) + 1]
    BY <1>4, <1>5
  <2> QED BY <1>3, <1>5, <2>1
<1> QED BY <1>3, <1>4, <1>5, <1>6 DEF v, Enclosed

\* What is in parentheses is the part between them.
LEMMA EnclosedPart ==
  ASSUME NEW q \in Texts, NEW s \in Texts
  PROVE  s = Enclosed(q) <=> /\ Len(s) >= 2 /\ s[1] = "(" /\ s[Len(s)] = ")"
                             /\ SubSeq(s, 2, Len(s) - 1) = q
<1>1. Len(q) \in Nat /\ Len(s) \in Nat
  BY Joined
<1>2. ASSUME s = Enclosed(q)
      PROVE  /\ Len(s) >= 2 /\ s[1] = "(" /\ s[Len(s)] = ")"
             /\ SubSeq(s, 2, Len(s) - 1) = q
  <2> DEFINE n == Len(s) - 1
  <2>1. Len(s) = Len(q) + 2 /\ s[1] = "(" /\ s[Len(s)] = ")"
        /\ \A i \in 1..Len(q) : s[i + 1] = q[i]
    BY <1>2, EnclosedFacts
  <2>2. Len(s) >= 2 /\ n \in Int /\ 2 <= n + 1 /\ n <= Len(s) /\ n - 2 + 1 = Len(q)
    BY <1>1, <2>1
  <2> HIDE DEF n
  <2>3. /\ SubSeq(s, 2, n) \in Texts /\ Len(SubSeq(s, 2, n)) = Len(q)
        /\ \A k \in 1..Len(q) : SubSeq(s, 2, n)[k] = s[2 + k - 1]
    BY <2>2, SubText
  <2>4. \A k \in 1..Len(q) : 2 + k - 1 = k + 1
    BY <1>1
  <2>5. \A k \in 1..Len(q) : SubSeq(s, 2, n)[k] = q[k]
    BY <2>1, <2>3, <2>4
  <2>6. SubSeq(s, 2, n) = q
    BY <2>3, <2>5, SeqEqual DEF Texts
  <2> QED BY <2>1, <2>2, <2>6 DEF n
<1>3. ASSUME Len(s) >= 2, s[1] = "(", s[Len(s)] = ")", SubSeq(s, 2, Len(s) - 1) = q
      PROVE  s = Enclosed(q)
  <2> DEFINE n == Len(s) - 1
  <2>1. n \in Int /\ 2 <= n + 1 /\ n <= Len(s) /\ n - 2 + 1 = Len(s) - 2
    BY <1>1, <1>3
  <2>2. SubSeq(s, 2, n) = q
    BY <1>3
  <2> HIDE DEF n
  <2>3. Len(q) = Len(s) - 2 /\ \A k \in 1..(Len(s) - 2) : q[k] = s[2 + k - 1]
    BY <2>1, <2>2, SubText
  <2> HIDE <2>2
  <2>4. /\ Enclosed(q) \in Texts /\ Len(Enclosed(q)) = Len(q) + 2
        /\ Enclosed(q)[1] = "(" /\ Enclosed(q)[Len(q) + 2] = ")"
        /\ \A i \in 1..Len(q) : Enclosed(q)[i + 1] = q[i]
    BY EnclosedFacts
  <2>5. Len(q) + 2 = Len(s)
    BY <1>1, <2>3
  <2>6. \A i \in 1..Len(s) :
          i = 1 \/ i = Len(s) \/ (/\ i - 1 \in 1..(Len(s) - 2) /\ 2 + (i - 1) - 1 = i
                                  /\ (i - 1) + 1 = i)
    BY <1>1
  <2>7. \A k \in 1..(Len(s) - 2) : Enclosed(q)[k + 1] = s[2 + k - 1]
    BY <2>3, <2>4
  <2>8. \A i \in 1..Len(s) : Enclosed(q)[i] = s[i]
    <3> TAKE i \in 1..Len(s)
    <3>1. CASE i = 1
      BY <1>3, <2>4, <3>1
    <3>2. CASE i = Len(s)
      BY <1>3, <2>4, <2>5, <3>2
    <3>3. CASE i - 1 \in 1..(Len(s) - 2) /\ 2 + (i - 1) - 1 = i /\ (i - 1) + 1 = i
      <4>1. Enclosed(q)[(i - 1) + 1] = s[2 + (i - 1) - 1]
        BY <2>7, <3>3
      <4> QED BY <3>3, <4>1
    <3> QED BY <2>6, <3>1, <3>2, <3>3
  <2> QED BY <2>4, <2>5, <2>8, SeqEqual DEF Texts
<1> QED BY <1>2, <1>3

\* The grammar's texts are not empty.
LEMMA NotEmpty ==
  ASSUME NEW s \in QueryTexts \cup MetaTexts \cup PrimaryTexts
  PROVE  s \in Texts /\ Len(s) > 0 /\ s # <<>>
<1>1. s \in Texts
  BY DEF QueryTexts, MetaTexts, PrimaryTexts
<1>2. Len(s) \in Nat /\ Len(s) + 1 \in Nat /\ Len(s) <= Len(s) + 1
  BY <1>1, Joined
<1>3. /\ s \in QueryTexts <=> s \in Grammar[Len(s) + 1].queries
      /\ s \in MetaTexts <=> s \in Grammar[Len(s) + 1].metas
      /\ s \in PrimaryTexts <=> s \in Grammar[Len(s) + 1].primaries
  BY <1>1, <1>2, EveryRound
<1>4. Grammar[Len(s) + 1] = Round(Grammar[Len(s)])
  BY <1>2, GrammarIs
<1>5. Len(s) > 0
  BY <1>3, <1>4, RoundNotEmpty
<1>6. s = <<>> => Len(s) = 0
  BY <1>1, Joined
<1> QED BY <1>1, <1>2, <1>5, <1>6

\* The forms of a primary
LEMMA PrimaryForms ==
  ASSUME NEW s \in Texts
  PROVE  s \in PrimaryTexts <=>
           \/ \E t \in QueryWords \cup Wildcards : s = <<t>>
           \/ \E q \in QueryTexts : s = Enclosed(q)
           \/ \E m \in MetaTexts : s = First("not", m)
<1>1. /\ s # <<>> => s[1] \in Alphabet /\ Tail(s) \in Texts /\ s = First(s[1], Tail(s))
      /\ s # <<>> => Len(Tail(s)) = Len(s) - 1
      /\ Len(s) \in Nat /\ (s = <<>> <=> Len(s) = 0)
  BY HasFirst, Joined
<1>2. QueryTexts \subseteq Texts /\ MetaTexts \subseteq Texts
  BY DEF QueryTexts, MetaTexts
<1>3. /\ QueryWords \cup Wildcards \subseteq Alphabet /\ "not" \in Alphabet
  BY DEF Alphabet, AllOperators
<1>4. Len(s) = 1 /\ s[1] \in QueryWords \cup Wildcards
      <=> \E t \in QueryWords \cup Wildcards : s = <<t>>
  <2>1. ASSUME Len(s) = 1, s[1] \in QueryWords \cup Wildcards
        PROVE  s = <<s[1]>>
    <3>1. s # <<>> /\ Len(Tail(s)) = 0
      BY <1>1, <2>1
    <3>2. Tail(s) = <<>> /\ s = First(s[1], <<>>)
      <4>1. Tail(s) \in Texts
        BY <1>1, <3>1
      <4>2. Tail(s) = <<>>
        BY <3>1, <4>1, Joined
      <4> QED BY <1>1, <3>1, <4>2
    <3>3. <<s[1]>> \o <<>> = <<s[1]>>
      BY <1>3, <2>1, Firsts, Joined
    <3> QED BY <3>2, <3>3 DEF First
  <2>2. ASSUME NEW t \in QueryWords \cup Wildcards, s = <<t>>
        PROVE  Len(s) = 1 /\ s[1] \in QueryWords \cup Wildcards
    BY <2>2
  <2> QED BY <2>1, <2>2
<1>5. InParens(s) /\ SubSeq(s, 2, Len(s) - 1) \in QueryTexts
      <=> \E q \in QueryTexts : s = Enclosed(q)
  <2>1. ASSUME InParens(s), SubSeq(s, 2, Len(s) - 1) \in QueryTexts
        PROVE  \E q \in QueryTexts : s = Enclosed(q)
    <3>1. Len(s) >= 2 /\ s[1] = "(" /\ s[Len(s)] = ")"
      BY <1>1, <2>1 DEF InParens
    <3> QED BY <1>2, <2>1, <3>1, EnclosedPart
  <2>2. ASSUME NEW q \in QueryTexts, s = Enclosed(q)
        PROVE  InParens(s) /\ SubSeq(s, 2, Len(s) - 1) \in QueryTexts
    <3>1. q \in Texts /\ Len(q) > 0 /\ Len(q) \in Nat
      BY NotEmpty, Joined
    <3>2. Len(s) = Len(q) + 2 /\ s[1] = "(" /\ s[Len(s)] = ")"
          /\ SubSeq(s, 2, Len(s) - 1) = q
      BY <2>2, <3>1, EnclosedFacts, EnclosedPart
    <3>3. Len(s) > 2
      BY <3>1, <3>2
    <3> QED BY <2>2, <3>2, <3>3 DEF InParens
  <2> QED BY <2>1, <2>2
<1>6. Len(s) > 1 /\ s[1] = "not" /\ Tail(s) \in MetaTexts
      <=> \E m \in MetaTexts : s = First("not", m)
  <2>1. ASSUME Len(s) > 1, s[1] = "not", Tail(s) \in MetaTexts
        PROVE  \E m \in MetaTexts : s = First("not", m)
    <3>1. s # <<>>
      BY <1>1, <2>1
    <3> QED BY <1>1, <2>1, <3>1
  <2>2. ASSUME NEW m \in MetaTexts, s = First("not", m)
        PROVE  Len(s) > 1 /\ s[1] = "not" /\ Tail(s) \in MetaTexts
    <3>1. m \in Texts /\ Len(m) > 0 /\ Len(m) \in Nat
      BY NotEmpty, Joined
    <3>2. s[1] = "not" /\ Tail(s) = m /\ Len(s) = Len(m) + 1
      BY <1>3, <2>2, <3>1, Firsts
    <3>3. Len(s) > 1
      BY <3>1, <3>2
    <3> QED BY <3>2, <3>3
  <2> QED BY <2>1, <2>2
<1>7. s \in Primaries(QueryTexts, MetaTexts) <=>
        \/ Len(s) = 1 /\ s[1] \in QueryWords \cup Wildcards
        \/ InParens(s) /\ SubSeq(s, 2, Len(s) - 1) \in QueryTexts
        \/ Len(s) > 1 /\ s[1] = "not" /\ Tail(s) \in MetaTexts
  BY DEF Primaries
<1> QED BY <1>4, <1>5, <1>6, <1>7, Productions, Zenon

\* The forms of a meta
LEMMA MetaForms ==
  ASSUME NEW s \in Texts
  PROVE  s \in MetaTexts <=>
           s \in PrimaryTexts
           \/ \E w \in QueryWords, p \in PrimaryTexts : s = First(w, First("=", p))
<1>1. /\ s # <<>> => s[1] \in Alphabet /\ Tail(s) \in Texts /\ s = First(s[1], Tail(s))
      /\ s # <<>> => Len(Tail(s)) = Len(s) - 1
      /\ Len(s) \in Nat /\ (s = <<>> <=> Len(s) = 0)
  BY HasFirst, Joined
<1>2. QueryWords \subseteq Alphabet /\ "=" \in Alphabet
  BY DEF Alphabet, AllOperators
<1>3. ASSUME IsName(s), From(s, 3) \in PrimaryTexts
      PROVE  s = First(s[1], First("=", From(s, 3))) /\ s[1] \in QueryWords
  <2>1. Len(s) >= 2 /\ s[1] \in QueryWords /\ s[2] = "="
    BY <1>3 DEF IsName
  <2>2. s # <<>> /\ Tail(s) # <<>>
    <3>1. s # <<>> /\ Len(Tail(s)) > 0
      BY <1>1, <2>1
    <3>2. Tail(s) = <<>> => Len(Tail(s)) = 0
      BY <1>1, <3>1, Joined
    <3>3. ~(0 > 0)
      OBVIOUS
    <3> QED BY <3>1, <3>2, <3>3, Zenon
  <2>3. /\ Tail(s) = First(Tail(s)[1], Tail(Tail(s))) /\ Tail(Tail(s)) \in Texts
        /\ Len(Tail(Tail(s))) = Len(Tail(s)) - 1
    BY <1>1, <2>2, HasFirst
  <2>4. /\ \A i \in 1..Len(Tail(s)) : Tail(s)[i] = s[i + 1]
        /\ \A i \in 1..Len(Tail(Tail(s))) : Tail(Tail(s))[i] = Tail(s)[i + 1]
    BY <1>1, <2>2, HeadTailProperties DEF Texts
  <2>5. Tail(s)[1] = "="
    <3>1. 1 \in 1..Len(Tail(s)) /\ 1 + 1 = 2
      BY <1>1, <2>1, <2>2
    <3>2. Tail(s)[1] = s[1 + 1]
      BY <2>4, <3>1
    <3> QED BY <2>1, <3>1, <3>2
  <2>6. From(s, 3) = Tail(Tail(s))
    <3>1. Len(Tail(Tail(s))) = Len(s) - 2 /\ Len(Tail(s)) = Len(s) - 1
      BY <1>1, <2>2, <2>3
    <3>2. 3 \in Int /\ Len(s) \in Int /\ 1 <= 3 /\ 3 <= Len(s) + 1 /\ Len(s) <= Len(s)
          /\ Len(s) - 3 + 1 = Len(s) - 2
      BY <1>1, <2>1
    <3>3. /\ From(s, 3) \in Texts /\ Len(From(s, 3)) = Len(s) - 2
          /\ \A k \in 1..(Len(s) - 2) : From(s, 3)[k] = s[3 + k - 1]
      <4>1. \A i, j \in Int : 1 <= i /\ i <= j + 1 /\ j <= Len(s) =>
              /\ SubSeq(s, i, j) \in Texts /\ Len(SubSeq(s, i, j)) = j - i + 1
              /\ \A k \in 1..(j - i + 1) : SubSeq(s, i, j)[k] = s[i + k - 1]
        BY SubText
      <4>2. /\ SubSeq(s, 3, Len(s)) \in Texts
            /\ Len(SubSeq(s, 3, Len(s))) = Len(s) - 3 + 1
            /\ \A k \in 1..(Len(s) - 3 + 1) : SubSeq(s, 3, Len(s))[k] = s[3 + k - 1]
        BY <3>2, <4>1
      <4> QED BY <3>2, <4>2 DEF From
    <3>4. \A k \in 1..(Len(s) - 2) : /\ k \in 1..Len(Tail(Tail(s)))
                                     /\ k + 1 \in 1..Len(Tail(s)) /\ 3 + k - 1 = (k + 1) + 1
      BY <1>1, <3>1
    <3>5. \A k \in 1..(Len(s) - 2) : From(s, 3)[k] = Tail(Tail(s))[k]
      <4> TAKE k \in 1..(Len(s) - 2)
      <4>1. Tail(Tail(s))[k] = Tail(s)[k + 1] /\ Tail(s)[k + 1] = s[(k + 1) + 1]
        BY <2>4, <3>4
      <4> QED BY <3>3, <3>4, <4>1
    <3> QED BY <2>3, <3>1, <3>3, <3>5, SeqEqual DEF Texts
  <2> QED BY <1>1, <2>1, <2>2, <2>3, <2>5, <2>6
<1>4. ASSUME NEW w \in QueryWords, NEW p \in PrimaryTexts, s = First(w, First("=", p))
      PROVE  IsName(s) /\ From(s, 3) \in PrimaryTexts
  <2>1. p \in Texts /\ Len(p) \in Nat
    BY Joined DEF PrimaryTexts
  <2> DEFINE v == First("=", p)
  <2>2. /\ v \in Texts /\ Len(v) = Len(p) + 1 /\ v[1] = "="
        /\ \A i \in 1..Len(p) : v[i + 1] = p[i]
    BY <1>2, <2>1, Firsts
  <2> HIDE DEF v
  <2>3. s = First(w, v)
    BY <1>4 DEF v
  <2>4. /\ Len(s) = Len(v) + 1 /\ s[1] = w
        /\ \A i \in 1..Len(v) : s[i + 1] = v[i]
    <3>1. w \in Alphabet
      BY <1>2
    <3>2. /\ Len(First(w, v)) = Len(v) + 1 /\ First(w, v)[1] = w
          /\ \A i \in 1..Len(v) : First(w, v)[i + 1] = v[i]
      BY <2>2, <3>1, Firsts
    <3> QED BY <2>3, <3>2
  <2>5. s[2] = "="
    <3>1. 1 \in 1..Len(v) /\ 1 + 1 = 2
      BY <2>1, <2>2
    <3>2. s[1 + 1] = v[1]
      BY <2>4, <3>1
    <3> QED BY <2>2, <3>1, <3>2
  <2>6. Len(s) >= 2 /\ Len(s) - 3 + 1 = Len(p) /\ Len(s) = Len(p) + 2
    BY <2>1, <2>2, <2>4
  <2>7. IsName(s)
    BY <2>4, <2>5, <2>6 DEF IsName
  <2>8. /\ From(s, 3) \in Texts /\ Len(From(s, 3)) = Len(p)
        /\ \A k \in 1..Len(p) : From(s, 3)[k] = s[3 + k - 1]
    <3>1. \A i, j \in Int : 1 <= i /\ i <= j + 1 /\ j <= Len(s) =>
            /\ SubSeq(s, i, j) \in Texts /\ Len(SubSeq(s, i, j)) = j - i + 1
            /\ \A k \in 1..(j - i + 1) : SubSeq(s, i, j)[k] = s[i + k - 1]
      BY SubText
    <3>2. 3 \in Int /\ Len(s) \in Int /\ 1 <= 3 /\ 3 <= Len(s) + 1 /\ Len(s) <= Len(s)
      BY <1>1, <2>6
    <3>3. /\ SubSeq(s, 3, Len(s)) \in Texts
          /\ Len(SubSeq(s, 3, Len(s))) = Len(s) - 3 + 1
          /\ \A k \in 1..(Len(s) - 3 + 1) : SubSeq(s, 3, Len(s))[k] = s[3 + k - 1]
      BY <3>1, <3>2
    <3> QED BY <2>6, <3>3 DEF From
  <2>9. \A k \in 1..Len(p) : k + 1 \in 1..Len(v) /\ 3 + k - 1 = (k + 1) + 1
    BY <2>1, <2>2
  <2>10. \A k \in 1..Len(p) : From(s, 3)[k] = p[k]
    <3> TAKE k \in 1..Len(p)
    <3>1. s[(k + 1) + 1] = v[k + 1] /\ v[k + 1] = p[k]
      BY <2>2, <2>4, <2>9
    <3> QED BY <2>8, <2>9, <3>1
  <2>11. From(s, 3) = p
    BY <2>1, <2>8, <2>10, SeqEqual DEF Texts
  <2> QED BY <2>7, <2>11
<1>5. s \in Metas(PrimaryTexts) <=>
        s \in PrimaryTexts \/ (IsName(s) /\ From(s, 3) \in PrimaryTexts)
  BY DEF Metas
<1> QED BY <1>3, <1>4, <1>5, Productions, Zenon

\* The forms of a query
LEMMA QueryForms ==
  ASSUME NEW s \in Texts
  PROVE  s \in QueryTexts <=>
           s \in MetaTexts
           \/ \E q \in QueryTexts, r \in Relops, m \in MetaTexts : s = (q \o r) \o m
<1>1. QueryTexts \subseteq Texts /\ MetaTexts \subseteq Texts /\ Relops \subseteq Texts
  <2>1. Relops \subseteq Texts
    BY DEF Relops, Texts, Alphabet, AllOperators
  <2> QED BY <2>1 DEF QueryTexts, MetaTexts
<1>2. Len(s) \in Nat
  BY Joined
<1>3. ASSUME NEW j \in 2..Len(s), From(s, j) \in MetaTexts, NEW i \in 1..(j - 1),
             RelopAt(s, i, j), Until(s, i) \in QueryTexts
      PROVE  \E q \in QueryTexts, r \in Relops, m \in MetaTexts : s = (q \o r) \o m
  <2> DEFINE a == SubSeq(s, 1, j - 1)
             q == SubSeq(s, 1, i)
             r == SubSeq(s, i + 1, j - 1)
  <2>1. j - 1 \in 0..Len(s) /\ (j - 1) + 1 = j /\ i \in 0..Len(s)
    BY <1>2
  <2>2. s = SubSeq(s, 1, j - 1) \o SubSeq(s, (j - 1) + 1, Len(s))
        /\ SubSeq(s, 1, j - 1) \in Texts /\ Len(SubSeq(s, 1, j - 1)) = j - 1
    BY <2>1, CutInTwo
  <2>3. s = a \o From(s, j)
    BY <2>1, <2>2 DEF From
  <2>4. /\ q \in Texts /\ Len(q) = i /\ \A k \in 1..i : q[k] = s[k]
    <3>1. \A x, y \in Int : 1 <= x /\ x <= y + 1 /\ y <= Len(s) =>
            /\ SubSeq(s, x, y) \in Texts /\ Len(SubSeq(s, x, y)) = y - x + 1
            /\ \A k \in 1..(y - x + 1) : SubSeq(s, x, y)[k] = s[x + k - 1]
      BY SubText
    <3>2. 1 \in Int /\ i \in Int /\ 1 <= 1 /\ 1 <= i + 1 /\ i <= Len(s) /\ i - 1 + 1 = i
          /\ \A k \in 1..i : 1 + k - 1 = k
      BY <1>2
    <3>3. /\ q \in Texts /\ Len(q) = i - 1 + 1
          /\ \A k \in 1..(i - 1 + 1) : q[k] = s[1 + k - 1]
      BY <3>1, <3>2
    <3> HIDE DEF q
    <3> QED BY <3>2, <3>3
  <2>5. /\ r \in Texts /\ Len(r) = j - 1 - i /\ \A k \in 1..(j - 1 - i) : r[k] = s[i + k]
    <3>1. \A x, y \in Int : 1 <= x /\ x <= y + 1 /\ y <= Len(s) =>
            /\ SubSeq(s, x, y) \in Texts /\ Len(SubSeq(s, x, y)) = y - x + 1
            /\ \A k \in 1..(y - x + 1) : SubSeq(s, x, y)[k] = s[x + k - 1]
      BY SubText
    <3>2. /\ i + 1 \in Int /\ j - 1 \in Int /\ 1 <= i + 1 /\ i + 1 <= j - 1 + 1
          /\ j - 1 <= Len(s) /\ j - 1 - (i + 1) + 1 = j - 1 - i
          /\ \A k \in 1..(j - 1 - i) : i + 1 + k - 1 = i + k
      BY <1>2
    <3>3. /\ r \in Texts /\ Len(r) = j - 1 - (i + 1) + 1
          /\ \A k \in 1..(j - 1 - (i + 1) + 1) : r[k] = s[i + 1 + k - 1]
      BY <3>1, <3>2
    <3> HIDE DEF r
    <3> QED BY <3>2, <3>3
  <2>6. /\ a \in Texts /\ Len(a) = j - 1 /\ \A k \in 1..(j - 1) : a[k] = s[k]
    <3>1. \A x, y \in Int : 1 <= x /\ x <= y + 1 /\ y <= Len(s) =>
            /\ SubSeq(s, x, y) \in Texts /\ Len(SubSeq(s, x, y)) = y - x + 1
            /\ \A k \in 1..(y - x + 1) : SubSeq(s, x, y)[k] = s[x + k - 1]
      BY SubText
    <3>2. /\ 1 \in Int /\ j - 1 \in Int /\ 1 <= 1 /\ 1 <= j - 1 + 1 /\ j - 1 <= Len(s)
          /\ j - 1 - 1 + 1 = j - 1 /\ \A k \in 1..(j - 1) : 1 + k - 1 = k
      BY <1>2
    <3>3. /\ a \in Texts /\ Len(a) = j - 1 - 1 + 1
          /\ \A k \in 1..(j - 1 - 1 + 1) : a[k] = s[1 + k - 1]
      BY <3>1, <3>2
    <3> HIDE DEF a
    <3> QED BY <3>2, <3>3
  <2>7. q \in QueryTexts /\ r \in Relops
    BY <1>3 DEF Until, RelopAt
  <2> HIDE DEF a, q, r
  <2>8. a = q \o r
    <3>1. /\ q \o r \in Texts /\ Len(q \o r) = i + (j - 1 - i)
          /\ \A k \in 1..i : (q \o r)[k] = s[k]
          /\ \A k \in 1..(j - 1 - i) : (q \o r)[i + k] = s[i + k]
      <4>1. /\ q \o r \in Texts /\ Len(q \o r) = Len(q) + Len(r)
            /\ \A k \in 1..Len(q) : (q \o r)[k] = q[k]
            /\ \A k \in 1..Len(r) : (q \o r)[Len(q) + k] = r[k]
        BY <2>4, <2>5, Joined
      <4> QED BY <2>4, <2>5, <4>1
    <3>2. i + (j - 1 - i) = j - 1
      BY <1>2
    <3>3. \A k \in 1..(j - 1) : k \in 1..i \/ (k - i \in 1..(j - 1 - i) /\ i + (k - i) = k)
      BY <1>2
    <3>4. \A k \in 1..(j - 1) : (q \o r)[k] = s[k]
      <4> TAKE k \in 1..(j - 1)
      <4>1. CASE k - i \in 1..(j - 1 - i) /\ i + (k - i) = k
        <5>1. (q \o r)[i + (k - i)] = s[i + (k - i)]
          BY <3>1, <4>1
        <5> QED BY <4>1, <5>1
      <4> QED BY <3>1, <3>3, <4>1
    <3> QED BY <2>6, <3>1, <3>2, <3>4, SeqEqual DEF Texts
  <2> QED BY <1>3, <2>3, <2>7, <2>8
<1>4. ASSUME NEW q \in QueryTexts, NEW r \in Relops, NEW m \in MetaTexts, s = (q \o r) \o m
      PROVE  \E j \in 2..Len(s) :
               /\ From(s, j) \in MetaTexts
               /\ \E i \in 1..(j - 1) : RelopAt(s, i, j) /\ Until(s, i) \in QueryTexts
  <2>1. /\ q \in Texts /\ r \in Texts /\ m \in Texts /\ Len(q) > 0 /\ Len(m) > 0
        /\ Len(q) \in Nat /\ Len(r) \in Nat /\ Len(m) \in Nat
    BY <1>1, NotEmpty, Joined
  <2>2. q \o r \in Texts /\ Len(q \o r) = Len(q) + Len(r)
    BY <2>1, Joined
  <2>3. Len(s) = (Len(q) + Len(r)) + Len(m)
    BY <1>4, <2>1, <2>2, Joined
  <2>4. SubSeq(s, (Len(q) + Len(r)) + 1, Len(s)) = m
    BY <1>4, <2>1, <2>2, JoinedParts
  <2>5. s = q \o (r \o m) /\ r \o m \in Texts
    <3>1. (q \o r) \o m = q \o (r \o m)
      BY <2>1, Regrouped
    <3> QED BY <1>4, <2>1, <3>1, Joined
  <2>6. SubSeq(s, 1, Len(q)) = q
    BY <2>1, <2>5, JoinedParts
  <2> DEFINE i == Len(q)
             j == (Len(q) + Len(r)) + 1
  <2>7. i \in 1..(j - 1) /\ j \in 2..Len(s) /\ j - 1 = Len(q) + Len(r)
    BY <2>1, <2>3
  <2>8. SubSeq(s, i + 1, j - 1) = r
    <3>1. \A x, y \in Int : 1 <= x /\ x <= y + 1 /\ y <= Len(s) =>
            /\ SubSeq(s, x, y) \in Texts /\ Len(SubSeq(s, x, y)) = y - x + 1
            /\ \A k \in 1..(y - x + 1) : SubSeq(s, x, y)[k] = s[x + k - 1]
      BY SubText
    <3>2. /\ i + 1 \in Int /\ j - 1 \in Int /\ 1 <= i + 1 /\ i + 1 <= j - 1 + 1
          /\ j - 1 <= Len(s) /\ j - 1 - (i + 1) + 1 = Len(r)
          /\ \A k \in 1..Len(r) : i + 1 + k - 1 = Len(q) + k
      BY <2>1, <2>3
    <3> DEFINE part == SubSeq(s, i + 1, j - 1)
    <3>3. /\ part \in Texts /\ Len(part) = Len(r)
          /\ \A k \in 1..Len(r) : part[k] = s[Len(q) + k]
      <4>1. /\ part \in Texts /\ Len(part) = j - 1 - (i + 1) + 1
            /\ \A k \in 1..(j - 1 - (i + 1) + 1) : part[k] = s[i + 1 + k - 1]
        BY <3>1, <3>2
      <4> HIDE DEF part
      <4> QED BY <3>2, <4>1
    <3>4. \A k \in 1..Len(r) : s[Len(q) + k] = r[k]
      <4>1. /\ \A k \in 1..(Len(q) + Len(r)) : s[k] = (q \o r)[k]
        BY <1>4, <2>1, <2>2, Joined
      <4>2. \A k \in 1..Len(r) : /\ (q \o r)[Len(q) + k] = r[k]
                                 /\ Len(q) + k \in 1..(Len(q) + Len(r))
        <5>1. \A k \in 1..Len(r) : (q \o r)[Len(q) + k] = r[k]
          BY <2>1, Joined
        <5>2. \A k \in 1..Len(r) : Len(q) + k \in 1..(Len(q) + Len(r))
          BY <2>1
        <5> QED BY <5>1, <5>2
      <4> QED BY <4>1, <4>2
    <3> HIDE DEF part
    <3>5. part = r
      BY <2>1, <3>3, <3>4, SeqEqual DEF Texts
    <3> QED BY <3>5 DEF part
  <2>9. RelopAt(s, i, j) /\ Until(s, i) = q /\ From(s, j) = m
    BY <2>4, <2>6, <2>8 DEF RelopAt, Until, From
  <2> HIDE DEF i, j
  <2> QED BY <2>7, <2>9
<1>5. s \in Queries(QueryTexts, MetaTexts) <=>
        \/ s \in MetaTexts
        \/ \E j \in 2..Len(s) :
             /\ From(s, j) \in MetaTexts
             /\ \E i \in 1..(j - 1) : RelopAt(s, i, j) /\ Until(s, i) \in QueryTexts
  BY DEF Queries
<1>6. (\E j \in 2..Len(s) :
         /\ From(s, j) \in MetaTexts
         /\ \E i \in 1..(j - 1) : RelopAt(s, i, j) /\ Until(s, i) \in QueryTexts)
      <=> \E q \in QueryTexts, r \in Relops, m \in MetaTexts : s = (q \o r) \o m
  BY <1>3, <1>4
<1> QED BY <1>5, <1>6, Productions, Zenon

-----------------------------------------------------------------------------
(***************************************************************************)
(* What may come after a text.  The rest of a query after its first meta   *)
(* is any number of relops with a meta each.                               *)
(***************************************************************************)

\* Texts of A, each with a text of B after it
Cat(A, B) == {a \o b : a \in A, b \in B}
Closed(X) == {First(")", x) : x \in X}

IsRest(S) ==
  <<>> \in S /\ \A r \in Relops, m \in MetaTexts, t \in S : (r \o m) \o t \in S
Rests == {t \in Texts : \A S \in SUBSET Texts : IsRest(S) => t \in S}

\* What is in such a set
LEMMA CatHas ==
  \A A, B, s : s \in Cat(A, B) <=> \E a \in A, b \in B : s = a \o b
BY DEF Cat

\* All of these are texts.
LEMMA AreTexts ==
  /\ QueryTexts \subseteq Texts /\ MetaTexts \subseteq Texts /\ PrimaryTexts \subseteq Texts
  /\ Relops \subseteq Texts /\ Rests \subseteq Texts
  /\ QueryWords \cup Wildcards \cup AllOperators \subseteq Alphabet
  /\ EndOfText \notin Alphabet
<1>1. Relops \subseteq Texts
  BY DEF Relops, Texts, Alphabet, AllOperators
<1>2. EndOfText \notin Alphabet
  BY QueryAssumption DEF Alphabet, AllOperators, EndOfText
<1> QED BY <1>1, <1>2 DEF QueryTexts, MetaTexts, PrimaryTexts, Rests, Alphabet

\* Texts that begin alike go on alike.
LEMMA FirstSame ==
  ASSUME NEW t \in Alphabet, NEW v \in Texts, NEW a \in Alphabet, NEW w \in Texts
  PROVE  /\ First(t, v) = First(a, w) <=> t = a /\ v = w
         /\ First(t, v) # <<>> /\ First(t, v) \in Texts
<1>1. /\ First(t, v)[1] = t /\ Tail(First(t, v)) = v
      /\ First(t, v) # <<>> /\ First(t, v) \in Texts
  BY Firsts
<1>2. First(a, w)[1] = a /\ Tail(First(a, w)) = w
  BY Firsts
<1> QED BY <1>1, <1>2, Zenon

\* Sets of texts joined are sets of texts, in whatever order they are joined.
LEMMA CatFacts ==
  ASSUME NEW A \in SUBSET Texts, NEW B \in SUBSET Texts
  PROVE  /\ Cat(A, B) \in SUBSET Texts
         /\ \A C \in SUBSET Texts : Cat(A, Cat(B, C)) = Cat(Cat(A, B), C)
         /\ Closed(B) \in SUBSET Texts
<1>1. \A a \in A, b \in B : a \o b \in Texts
  BY Joined
<1>2. \A b \in B : First(")", b) \in Texts
  BY AreTexts, FirstSame DEF AllOperators
<1>3. ASSUME NEW C \in SUBSET Texts
      PROVE  Cat(A, Cat(B, C)) = Cat(Cat(A, B), C)
  <2>1. \A a \in A, b \in B, c \in C : (a \o b) \o c = a \o (b \o c)
    BY Regrouped
  <2>2. ASSUME NEW s \in Cat(A, Cat(B, C)) PROVE s \in Cat(Cat(A, B), C)
    <3>1. PICK a \in A, z \in Cat(B, C) : s = a \o z
      BY CatHas
    <3>2. PICK b \in B, c \in C : z = b \o c
      BY CatHas
    <3>3. s = (a \o b) \o c /\ a \o b \in Cat(A, B)
      BY <2>1, <3>1, <3>2, CatHas
    <3> QED BY <3>3, CatHas
  <2>3. ASSUME NEW s \in Cat(Cat(A, B), C) PROVE s \in Cat(A, Cat(B, C))
    <3>1. PICK z \in Cat(A, B), c \in C : s = z \o c
      BY CatHas
    <3>2. PICK a \in A, b \in B : z = a \o b
      BY CatHas
    <3>3. s = a \o (b \o c) /\ b \o c \in Cat(B, C)
      BY <2>1, <3>1, <3>2, CatHas
    <3> QED BY <3>3, CatHas
  <2> QED BY <2>2, <2>3
<1>4. \A s \in Cat(A, B) : s \in Texts
  <2> TAKE s \in Cat(A, B)
  <2>1. PICK a \in A, b \in B : s = a \o b
    BY CatHas
  <2> QED BY <1>1, <2>1
<1>5. \A s \in Closed(B) : s \in Texts
  BY <1>2 DEF Closed
<1> QED BY <1>3, <1>4, <1>5

\* The rests are the least such set.
LEMMA RestsAre ==
  IsRest(Rests) /\ \A S \in SUBSET Texts : IsRest(S) => Rests \subseteq S
<1>1. <<>> \in Texts
  BY Joined, AreTexts DEF Relops
<1>2. ASSUME NEW r \in Relops, NEW m \in MetaTexts, NEW t \in Rests
      PROVE  (r \o m) \o t \in Rests
  <2>1. (r \o m) \o t \in Texts
    <3>1. r \in Texts /\ m \in Texts /\ t \in Texts
      BY AreTexts
    <3> QED BY <3>1, Joined
  <2>2. ASSUME NEW S \in SUBSET Texts, IsRest(S) PROVE (r \o m) \o t \in S
    <3>1. t \in S
      BY <2>2 DEF Rests
    <3> QED BY <2>2, <3>1 DEF IsRest
  <2> QED BY <2>1, <2>2 DEF Rests
<1>3. <<>> \in Rests
  BY <1>1 DEF Rests, IsRest
<1>4. \A S \in SUBSET Texts : IsRest(S) => Rests \subseteq S
  BY DEF Rests
<1> QED BY <1>2, <1>3, <1>4 DEF IsRest

\* The forms of a rest
LEMMA RestForms ==
  ASSUME NEW t \in Rests
  PROVE  t = <<>> \/ \E r \in Relops, m \in MetaTexts, u \in Rests : t = (r \o m) \o u
<1> DEFINE S == {s \in Rests : s = <<>> \/ \E r \in Relops, m \in MetaTexts, u \in Rests :
                                             s = (r \o m) \o u}
<1>1. IsRest(S)
  <2>1. <<>> \in S
    BY RestsAre DEF IsRest
  <2>2. ASSUME NEW r \in Relops, NEW m \in MetaTexts, NEW u \in S
        PROVE  (r \o m) \o u \in S
    <3>1. u \in Rests
      OBVIOUS
    <3>2. (r \o m) \o u \in Rests
      BY <3>1, RestsAre DEF IsRest
    <3> QED BY <3>1, <3>2
  <2> HIDE DEF S
  <2> QED BY <2>1, <2>2 DEF IsRest
<1>2. S \in SUBSET Texts
  BY AreTexts
<1> HIDE DEF S
<1>3. t \in S
  BY <1>1, <1>2, RestsAre
<1> QED BY <1>3 DEF S

\* A rest goes on after one more relop and meta.
LEMMA RestsGoOn ==
  ASSUME NEW t \in Rests, NEW r \in Relops, NEW m \in MetaTexts
  PROVE  t \o (r \o m) \in Rests
<1> DEFINE c == r \o m
           S == {s \in Rests : s \o c \in Rests}
<1>1. r \in Texts /\ m \in Texts
  BY AreTexts
<1>2. c \in Texts
  BY <1>1, Joined
<1>3. IsRest(Rests)
  BY RestsAre
<1>4. c \o <<>> = c /\ <<>> \o c = c
  BY <1>2, Joined
<1>5. <<>> \in Rests /\ c \in Rests
  <2>1. <<>> \in Rests
    BY <1>3 DEF IsRest
  <2>2. (r \o m) \o <<>> \in Rests
    BY <1>3, <2>1 DEF IsRest
  <2> QED BY <1>4, <2>1, <2>2
<1> HIDE DEF c
<1>6. IsRest(S)
  <2>1. <<>> \in S
    BY <1>4, <1>5
  <2>2. ASSUME NEW k \in Relops, NEW n \in MetaTexts, NEW u \in S
        PROVE  (k \o n) \o u \in S
    <3>1. u \in Rests /\ u \o c \in Rests
      OBVIOUS
    <3>2. (k \o n) \o u \in Rests /\ (k \o n) \o (u \o c) \in Rests
      BY <1>3, <3>1 DEF IsRest
    <3>3. ((k \o n) \o u) \o c = (k \o n) \o (u \o c)
      <4>1. k \in Texts /\ n \in Texts /\ u \in Texts
        BY <3>1, AreTexts
      <4>2. k \o n \in Texts
        BY <4>1, Joined
      <4> QED BY <1>2, <4>1, <4>2, Regrouped
    <3> QED BY <3>2, <3>3
  <2> HIDE DEF S
  <2> QED BY <2>1, <2>2 DEF IsRest
<1>7. S \in SUBSET Texts
  BY AreTexts
<1>8. t \in S
  <2> HIDE DEF S
  <2> QED BY <1>6, <1>7, RestsAre
<1> QED BY <1>8 DEF c

\* A query with a rest after it is a query.
LEMMA QueryGoesOn ==
  ASSUME NEW q \in QueryTexts, NEW t \in Rests
  PROVE  q \o t \in QueryTexts
<1> DEFINE S == {s \in Texts : \A k \in QueryTexts : k \o s \in QueryTexts}
<1>1. IsRest(S)
  <2>1. <<>> \in S
    <3>1. <<>> \in Texts
      BY Joined, AreTexts DEF Relops
    <3>2. \A k \in QueryTexts : k \o <<>> = k
      BY Joined, AreTexts
    <3> QED BY <3>1, <3>2
  <2>2. ASSUME NEW r \in Relops, NEW m \in MetaTexts, NEW u \in S
        PROVE  (r \o m) \o u \in S
    <3>1. r \in Texts /\ m \in Texts /\ u \in Texts /\ \A k \in QueryTexts : k \o u \in QueryTexts
      BY AreTexts
    <3>2. r \o m \in Texts /\ (r \o m) \o u \in Texts
      BY <3>1, Joined
    <3> HIDE DEF S
    <3>3. ASSUME NEW k \in QueryTexts PROVE k \o ((r \o m) \o u) \in QueryTexts
      <4>1. k \in Texts /\ k \o r \in Texts /\ (k \o r) \o m \in Texts
        BY <3>1, AreTexts, Joined
      <4>2. (k \o r) \o m \in QueryTexts
        BY <4>1, QueryForms
      <4>3. ((k \o r) \o m) \o u \in QueryTexts
        BY <3>1, <4>2
      <4>4. (k \o r) \o m = k \o (r \o m)
        <5>1. k \in Texts /\ r \in Texts /\ m \in Texts
          BY <3>1, <4>1
        <5> QED BY <5>1, Regrouped
      <4>5. (k \o (r \o m)) \o u = k \o ((r \o m) \o u)
        <5>1. k \in Texts /\ r \o m \in Texts /\ u \in Texts
          BY <3>1, <3>2, <4>1
        <5> QED BY <5>1, Regrouped
      <4> QED BY <4>3, <4>4, <4>5
    <3> USE DEF S
    <3> QED BY <3>2, <3>3
  <2> HIDE DEF S
  <2> QED BY <2>1, <2>2 DEF IsRest
<1>2. t \in S
  <2>1. S \in SUBSET Texts
    OBVIOUS
  <2> HIDE DEF S
  <2> QED BY <1>1, <2>1, RestsAre
<1> QED BY <1>2

\* A query is a meta with a rest after it.
LEMMA QueryIs == QueryTexts = Cat(MetaTexts, Rests)
<1>1. ASSUME NEW m \in MetaTexts, NEW t \in Rests PROVE m \o t \in QueryTexts
  <2>1. m \in QueryTexts
    BY AreTexts, QueryForms
  <2> QED BY <2>1, QueryGoesOn
<1> DEFINE S == {n \in Nat : \A q \in QueryTexts : Len(q) <= n => q \in Cat(MetaTexts, Rests)}
<1>2. 0 \in S
  <2>1. \A q \in QueryTexts : ~(Len(q) <= 0)
    <3> TAKE q \in QueryTexts
    <3>1. Len(q) > 0 /\ Len(q) \in Nat
      BY NotEmpty, Joined
    <3> QED BY <3>1
  <2> QED BY <2>1
<1>3. ASSUME NEW n \in Nat, n \in S PROVE n + 1 \in S
  <2>1. ASSUME NEW q \in QueryTexts, Len(q) <= n + 1 PROVE q \in Cat(MetaTexts, Rests)
    <3>1. q \in Texts
      BY AreTexts
    <3>2. CASE q \in MetaTexts
      <4>1. <<>> \in Rests /\ q \o <<>> = q
        BY <3>1, RestsAre, Joined DEF IsRest
      <4> QED BY <3>2, <4>1, CatHas
    <3>3. ASSUME NEW k \in QueryTexts, NEW r \in Relops, NEW m \in MetaTexts,
                 q = (k \o r) \o m
          PROVE  q \in Cat(MetaTexts, Rests)
      <4>1. k \in Texts /\ r \in Texts /\ m \in Texts /\ k \o r \in Texts /\ r \o m \in Texts
        BY AreTexts, Joined
      <4>2. /\ Len(m) > 0 /\ Len(m) \in Nat /\ Len(k) \in Nat /\ Len(r) \in Nat
            /\ Len(k \o r) = Len(k) + Len(r) /\ Len((k \o r) \o m) = Len(k \o r) + Len(m)
        BY <4>1, NotEmpty, Joined
      <4>3. Len(k) <= n
        <5>1. Len(q) = (Len(k) + Len(r)) + Len(m)
          BY <3>3, <4>2
        <5> HIDE DEF S
        <5> QED BY <2>1, <4>2, <5>1
      <4>4. k \in Cat(MetaTexts, Rests)
        BY <1>3, <4>3
      <4>5. PICK l \in MetaTexts, t \in Rests : k = l \o t
        BY <4>4, CatHas
      <4>6. l \in Texts /\ t \in Texts
        BY AreTexts
      <4> HIDE DEF S
      <4>7. /\ (k \o r) \o m = k \o (r \o m)
            /\ (l \o t) \o (r \o m) = l \o (t \o (r \o m))
        <5>1. k \in Texts /\ r \in Texts /\ m \in Texts
          BY <4>1
        <5>2. (k \o r) \o m = k \o (r \o m)
          BY <5>1, Regrouped
        <5>3. l \in Texts /\ t \in Texts /\ r \o m \in Texts
          BY <4>1, <4>6
        <5>4. (l \o t) \o (r \o m) = l \o (t \o (r \o m))
          BY <5>3, Regrouped
        <5> QED BY <5>2, <5>4
      <4>8. t \o (r \o m) \in Rests
        BY RestsGoOn
      <4> QED BY <3>3, <4>5, <4>7, <4>8, CatHas
    <3> QED BY <3>1, <3>2, <3>3, QueryForms
  <2> QED BY <2>1
<1> HIDE DEF S
<1>4. \A n \in Nat : n \in S
  BY <1>2, <1>3, Induction
<1>5. ASSUME NEW q \in QueryTexts PROVE q \in Cat(MetaTexts, Rests)
  <2>1. Len(q) \in Nat /\ Len(q) <= Len(q)
    BY AreTexts, Joined
  <2>2. Len(q) \in S
    BY <1>4, <2>1
  <2> QED BY <2>1, <2>2 DEF S
<1>6. \A s \in Cat(MetaTexts, Rests) : s \in QueryTexts
  <2> TAKE s \in Cat(MetaTexts, Rests)
  <2>1. PICK m \in MetaTexts, t \in Rests : s = m \o t
    BY CatHas
  <2> QED BY <1>1, <2>1
<1> QED BY <1>5, <1>6

\* A token stays first when texts are joined.
LEMMA FirstStays ==
  ASSUME NEW t \in Alphabet, NEW v \in Texts, NEW x \in Texts
  PROVE  First(t, v) \o x = First(t, v \o x) /\ First(t, v) \in Texts /\ v \o x \in Texts
<1>1. First(t, v) \in Texts /\ \A w \in Texts : First(t, v) \o w = First(t, v \o w)
  BY Firsts
<1> QED BY <1>1, Joined

\* Joining texts, token by token
LEMMA FirstJoined ==
  ASSUME NEW x \in Texts
  PROVE  /\ \A t \in Alphabet : <<t>> \o x = First(t, x)
         /\ \A t \in Alphabet, v \in Texts : First(t, v) \o x = First(t, v \o x)
         /\ \A q \in Texts : Enclosed(q) \o x = First("(", q \o First(")", x))
         /\ <<"not", "near">> \o x = First("not", First("near", x))
         /\ <<>> \o x = x
<1>1. \A t \in Alphabet : <<t>> \o x = First(t, x)
  BY DEF First
<1>2. \A t \in Alphabet, v \in Texts : First(t, v) \o x = First(t, v \o x)
  BY Firsts
<1>3. {"(", ")", "not", "near"} \subseteq Alphabet
  BY AreTexts DEF AllOperators
<1>4. ASSUME NEW q \in Texts PROVE Enclosed(q) \o x = First("(", q \o First(")", x))
  <2>1. <<")">> \in Texts
    BY <1>3, Firsts
  <2>2. q \o <<")">> \in Texts
    BY <2>1, Joined
  <2>3. First("(", q \o <<")">>) \o x = First("(", (q \o <<")">>) \o x)
    BY <1>2, <1>3, <2>2
  <2>4. (q \o <<")">>) \o x = q \o (<<")">> \o x)
    BY <2>1, Regrouped
  <2> QED BY <2>3, <2>4 DEF Enclosed, First
<1>5. <<"not", "near">> \o x = First("not", First("near", x))
  <2>1. <<"near">> \in Texts /\ Len(<<"near">>) = 1 /\ <<"near">>[1] = "near"
    BY <1>3, Firsts
  <2>2. First("not", <<"near">>) = <<"not", "near">>
    <3> DEFINE z == First("not", <<"near">>)
    <3>1. /\ z \in Texts /\ Len(z) = Len(<<"near">>) + 1 /\ z[1] = "not"
          /\ \A i \in 1..Len(<<"near">>) : z[i + 1] = <<"near">>[i]
      <4>1. "not" \in Alphabet
        BY <1>3
      <4> QED BY <2>1, <4>1, Firsts
    <3>2. Len(z) = 2 /\ z[2] = "near"
      <4>1. 1 \in 1..Len(<<"near">>) /\ 1 + 1 = 2
        BY <2>1
      <4>2. z[1 + 1] = <<"near">>[1]
        BY <3>1, <4>1
      <4> HIDE DEF z
      <4> QED BY <2>1, <3>1, <4>1, <4>2
    <3>3. <<"not", "near">> \in Texts /\ Len(<<"not", "near">>) = 2
      BY <1>3 DEF Texts
    <3> HIDE DEF z
    <3>4. \A i \in 1..Len(z) : z[i] = <<"not", "near">>[i]
      BY <3>1, <3>2
    <3>5. z = <<"not", "near">>
      BY <3>1, <3>2, <3>3, <3>4, SeqEqual DEF Texts
    <3> QED BY <3>5 DEF z
  <2>3. First("not", <<"near">>) \o x = First("not", <<"near">> \o x)
    BY <1>2, <1>3, <2>1
  <2> QED BY <1>1, <1>3, <2>2, <2>3
<1>6. <<>> \o x = x
  BY Joined
<1> QED BY <1>1, <1>2, <1>4, <1>5, <1>6

\* A primary, with something of X after it
LEMMA PrimaryThen ==
  ASSUME NEW X \in SUBSET Texts, NEW s
  PROVE  s \in Cat(PrimaryTexts, X) <=>
           \/ \E t \in QueryWords \cup Wildcards, x \in X : s = First(t, x)
           \/ \E y \in Cat(QueryTexts, Closed(X)) : s = First("(", y)
           \/ \E y \in Cat(MetaTexts, X) : s = First("not", y)
<1>1. ASSUME NEW p \in PrimaryTexts, NEW x \in X, s = p \o x
      PROVE  \/ \E t \in QueryWords \cup Wildcards, z \in X : s = First(t, z)
             \/ \E y \in Cat(QueryTexts, Closed(X)) : s = First("(", y)
             \/ \E y \in Cat(MetaTexts, X) : s = First("not", y)
  <2>1. x \in Texts /\ p \in Texts
    BY AreTexts
  <2>2. CASE \E t \in QueryWords \cup Wildcards : p = <<t>>
    <3>1. PICK t \in QueryWords \cup Wildcards : p = <<t>>
      BY <2>2
    <3>2. s = First(t, x)
      BY <1>1, <2>1, <3>1, AreTexts, FirstJoined
    <3> QED BY <3>2
  <2>3. CASE \E q \in QueryTexts : p = Enclosed(q)
    <3>1. PICK q \in QueryTexts : p = Enclosed(q)
      BY <2>3
    <3>2. s = First("(", q \o First(")", x))
      BY <1>1, <2>1, <3>1, AreTexts, FirstJoined
    <3>3. First(")", x) \in Closed(X)
      BY DEF Closed
    <3>4. q \o First(")", x) \in Cat(QueryTexts, Closed(X))
      BY <3>3, CatHas
    <3> QED BY <3>2, <3>4
  <2>4. CASE \E m \in MetaTexts : p = First("not", m)
    <3>1. PICK m \in MetaTexts : p = First("not", m)
      BY <2>4
    <3>2. m \in Texts /\ "not" \in Alphabet
      BY AreTexts DEF AllOperators
    <3>3. s = First("not", m \o x)
      <4>1. First("not", m) \o x = First("not", m \o x)
        BY <2>1, <3>2, FirstStays
      <4> QED BY <1>1, <3>1, <4>1
    <3>4. m \o x \in Cat(MetaTexts, X)
      BY CatHas
    <3> QED BY <3>3, <3>4
  <2> QED BY <2>1, <2>2, <2>3, <2>4, PrimaryForms
<1>2. ASSUME NEW t \in QueryWords \cup Wildcards, NEW x \in X, s = First(t, x)
      PROVE  s \in Cat(PrimaryTexts, X)
  <2>1. t \in Alphabet
    BY AreTexts
  <2>2. <<t>> \in Texts
    BY <2>1, Firsts
  <2>3. <<t>> \in PrimaryTexts
    BY <2>2, PrimaryForms
  <2>4. s = <<t>> \o x
    BY <1>2 DEF First
  <2> QED BY <2>3, <2>4, CatHas
<1>3. ASSUME NEW y \in Cat(QueryTexts, Closed(X)), s = First("(", y)
      PROVE  s \in Cat(PrimaryTexts, X)
  <2>1. PICK q \in QueryTexts, z \in Closed(X) : y = q \o z
    BY CatHas
  <2>2. PICK x \in X : z = First(")", x)
    BY DEF Closed
  <2>3. q \in Texts /\ x \in Texts
    BY AreTexts
  <2>4. Enclosed(q) \in Texts
    BY <2>3, EnclosedFacts
  <2>5. Enclosed(q) \in PrimaryTexts
    BY <2>4, PrimaryForms
  <2>6. s = Enclosed(q) \o x
    BY <1>3, <2>1, <2>2, <2>3, FirstJoined
  <2> QED BY <2>5, <2>6, CatHas
<1>4. ASSUME NEW y \in Cat(MetaTexts, X), s = First("not", y)
      PROVE  s \in Cat(PrimaryTexts, X)
  <2>1. PICK m \in MetaTexts, x \in X : y = m \o x
    BY CatHas
  <2>2. m \in Texts /\ x \in Texts /\ "not" \in Alphabet
    BY AreTexts DEF AllOperators
  <2>3. First("not", m) \in Texts
    BY <2>2, Firsts
  <2>4. First("not", m) \in PrimaryTexts
    BY <2>3, PrimaryForms
  <2>5. s = First("not", m) \o x
    BY <1>4, <2>1, <2>2, FirstJoined
  <2> QED BY <2>4, <2>5, CatHas
<1>5. s \in Cat(PrimaryTexts, X) <=> \E p \in PrimaryTexts, x \in X : s = p \o x
  BY CatHas
<1> QED BY <1>1, <1>2, <1>3, <1>4, <1>5

\* A meta, with something of X after it
LEMMA MetaThen ==
  ASSUME NEW X \in SUBSET Texts, NEW s
  PROVE  s \in Cat(MetaTexts, X) <=>
           \/ s \in Cat(PrimaryTexts, X)
           \/ \E w \in QueryWords, y \in Cat(PrimaryTexts, X) : s = First(w, First("=", y))
<1>0. "=" \in Alphabet /\ QueryWords \subseteq Alphabet
  BY AreTexts DEF AllOperators
<1>1. ASSUME NEW m \in MetaTexts, NEW x \in X, s = m \o x
      PROVE  \/ s \in Cat(PrimaryTexts, X)
             \/ \E w \in QueryWords, y \in Cat(PrimaryTexts, X) :
                  s = First(w, First("=", y))
  <2>1. m \in Texts /\ x \in Texts
    BY AreTexts
  <2>2. CASE m \in PrimaryTexts
    BY <1>1, <2>2, CatHas
  <2>3. ASSUME NEW w \in QueryWords, NEW p \in PrimaryTexts, m = First(w, First("=", p))
        PROVE  \E v \in QueryWords, y \in Cat(PrimaryTexts, X) : s = First(v, First("=", y))
    <3>1. p \in Texts
      BY AreTexts
    <3>2. First("=", p) \in Texts /\ First("=", p) \o x = First("=", p \o x)
      BY <1>0, <2>1, <3>1, FirstStays
    <3>3. First(w, First("=", p)) \o x = First(w, First("=", p) \o x)
      <4>1. w \in Alphabet
        BY <1>0
      <4> QED BY <2>1, <3>2, <4>1, FirstStays
    <3>4. p \o x \in Cat(PrimaryTexts, X)
      BY CatHas
    <3> QED BY <1>1, <2>3, <3>2, <3>3, <3>4
  <2> QED BY <2>1, <2>2, <2>3, MetaForms
<1>2. ASSUME s \in Cat(PrimaryTexts, X) PROVE s \in Cat(MetaTexts, X)
  <2>1. PICK p \in PrimaryTexts, x \in X : s = p \o x
    BY <1>2, CatHas
  <2>2. p \in MetaTexts
    BY AreTexts, MetaForms
  <2> QED BY <2>1, <2>2, CatHas
<1>3. ASSUME NEW w \in QueryWords, NEW y \in Cat(PrimaryTexts, X), s = First(w, First("=", y))
      PROVE  s \in Cat(MetaTexts, X)
  <2>1. PICK p \in PrimaryTexts, x \in X : y = p \o x
    BY CatHas
  <2>2. p \in Texts /\ x \in Texts
    BY AreTexts
  <2>3. First("=", p) \in Texts /\ First("=", p) \o x = First("=", p \o x)
    BY <1>0, <2>2, FirstStays
  <2>4. /\ First(w, First("=", p)) \o x = First(w, First("=", p) \o x)
        /\ First(w, First("=", p)) \in Texts
    <3>1. w \in Alphabet
      BY <1>0
    <3>2. First("=", p) \in Texts
      BY <2>3
    <3> QED BY <2>2, <3>1, <3>2, FirstStays
  <2>5. First(w, First("=", p)) \in MetaTexts
    BY <2>4, MetaForms
  <2>6. s = First(w, First("=", p)) \o x
    BY <1>3, <2>1, <2>3, <2>4
  <2> QED BY <2>5, <2>6, CatHas
<1>4. s \in Cat(MetaTexts, X) <=> \E m \in MetaTexts, x \in X : s = m \o x
  BY CatHas
<1> QED BY <1>1, <1>2, <1>3, <1>4

\* The rest of a query, with something of X after it
LEMMA RestThen ==
  ASSUME NEW X \in SUBSET Texts, NEW s
  PROVE  s \in Cat(Rests, X) <=>
           \/ s \in X \cup Cat(MetaTexts, Cat(Rests, X))
           \/ \E t \in {"and", "or", "near"}, y \in Cat(MetaTexts, Cat(Rests, X)) :
                s = First(t, y)
           \/ \E y \in Cat(MetaTexts, Cat(Rests, X)) : s = First("not", First("near", y))
<1> DEFINE Y == Cat(Rests, X)
           Z == Cat(MetaTexts, Y)
<1>1. Y \in SUBSET Texts /\ Z \in SUBSET Texts
  BY AreTexts, CatFacts
<1>2. {"and", "or", "near", "not"} \subseteq Alphabet
  BY AreTexts DEF AllOperators
<1> HIDE DEF Y, Z
<1>0. /\ \A z : z \in Y <=> \E t \in Rests, x \in X : z = t \o x
      /\ \A z : z \in Z <=> \E m \in MetaTexts, y \in Y : z = m \o y
  <2>1. \A z : z \in Y <=> \E t \in Rests, x \in X : z = t \o x
    BY CatHas DEF Y
  <2>2. \A z : z \in Z <=> \E m \in MetaTexts, y \in Y : z = m \o y
    BY CatHas DEF Z
  <2> QED BY <2>1, <2>2
<1>3. s \in Y <=> s \in X \/ \E r \in Relops, z \in Z : s = r \o z
  <2>1. ASSUME NEW t \in Rests, NEW x \in X, s = t \o x
        PROVE  s \in X \/ \E r \in Relops, z \in Z : s = r \o z
    <3>1. t \in Texts /\ x \in Texts
      BY AreTexts
    <3>2. CASE t = <<>>
      BY <2>1, <3>1, <3>2, FirstJoined
    <3>3. ASSUME NEW r \in Relops, NEW m \in MetaTexts, NEW u \in Rests, t = (r \o m) \o u
          PROVE  \E k \in Relops, z \in Z : s = k \o z
      <4>1. r \in Texts /\ m \in Texts /\ u \in Texts
        BY AreTexts
      <4>2. r \o m \in Texts /\ u \o x \in Texts
        BY <3>1, <4>1, Joined
      <4>3. ((r \o m) \o u) \o x = (r \o m) \o (u \o x)
        <5>1. r \o m \in Texts /\ u \in Texts /\ x \in Texts
          BY <3>1, <4>1, <4>2
        <5> QED BY <5>1, Regrouped
      <4>4. (r \o m) \o (u \o x) = r \o (m \o (u \o x))
        BY <4>1, <4>2, Regrouped
      <4>5. u \o x \in Y
        BY <1>0
      <4>6. m \o (u \o x) \in Z
        BY <1>0, <4>5
      <4> QED BY <2>1, <3>3, <4>3, <4>4, <4>6
    <3>4. t = <<>> \/ \E r \in Relops, m \in MetaTexts, u \in Rests : t = (r \o m) \o u
      BY RestForms
    <3> QED BY <3>2, <3>3, <3>4
  <2>2. ASSUME s \in X PROVE s \in Y
    <3>1. <<>> \in Rests /\ s = <<>> \o s
      BY <2>2, RestsAre, FirstJoined DEF IsRest
    <3> QED BY <1>0, <2>2, <3>1
  <2>3. ASSUME NEW r \in Relops, NEW z \in Z, s = r \o z
        PROVE  s \in Y
    <3>1. PICK m \in MetaTexts, y \in Y : z = m \o y
      BY <1>0
    <3>2. PICK u \in Rests, x \in X : y = u \o x
      BY <1>0
    <3>3. (r \o m) \o u \in Rests
      BY RestsAre DEF IsRest
    <3>4. r \in Texts /\ m \in Texts /\ u \in Texts /\ x \in Texts
      BY AreTexts
    <3>5. r \o m \in Texts /\ u \o x \in Texts
      BY <3>4, Joined
    <3>6. ((r \o m) \o u) \o x = (r \o m) \o (u \o x)
      <4>1. r \o m \in Texts /\ u \in Texts /\ x \in Texts
        BY <3>4, <3>5
      <4> QED BY <4>1, Regrouped
    <3>7. (r \o m) \o (u \o x) = r \o (m \o (u \o x))
      <4>1. r \in Texts /\ m \in Texts /\ u \o x \in Texts
        BY <3>4, <3>5
      <4> QED BY <4>1, Regrouped
    <3>8. s = ((r \o m) \o u) \o x
      BY <2>3, <3>1, <3>2, <3>6, <3>7
    <3> QED BY <1>0, <3>3, <3>8
  <2>4. s \in Y <=> \E t \in Rests, x \in X : s = t \o x
    BY <1>0
  <2> QED BY <2>1, <2>2, <2>3, <2>4
<1>4. ASSUME NEW z \in Z
      PROVE  /\ \A t \in {"and", "or", "near"} : <<t>> \o z = First(t, z)
             /\ <<"not", "near">> \o z = First("not", First("near", z))
             /\ <<>> \o z = z
  BY <1>1, <1>2, FirstJoined
<1>5. (\E r \in Relops, z \in Z : s = r \o z)
      <=> \/ s \in Z
          \/ \E t \in {"and", "or", "near"}, y \in Z : s = First(t, y)
          \/ \E y \in Z : s = First("not", First("near", y))
  <2>1. (\E r \in Relops, z \in Z : s = r \o z)
        <=> \E z \in Z : \/ s = <<>> \o z \/ s = <<"and">> \o z \/ s = <<"or">> \o z
                         \/ s = <<"near">> \o z \/ s = <<"not", "near">> \o z
    BY DEF Relops
  <2>2. (\E z \in Z : \/ s = <<>> \o z \/ s = <<"and">> \o z \/ s = <<"or">> \o z
                      \/ s = <<"near">> \o z \/ s = <<"not", "near">> \o z)
        <=> \E z \in Z : \/ s = z \/ s = First("and", z) \/ s = First("or", z)
                         \/ s = First("near", z) \/ s = First("not", First("near", z))
    BY <1>4
  <2> QED BY <2>1, <2>2
<1> QED BY <1>3, <1>5 DEF Y, Z

\* What is left of the texts of E that begin with a token; with none, of the
\* empty one
Past(t, E) == IF t = EndOfText THEN E \cap {<<>>} ELSE {v \in Texts : First(t, v) \in E}

\* No text begins with "=".
NoEquals(E) == \A v \in Texts : First("=", v) \notin E

\* Every text is empty or begins with ")".
Ends(E) == \A s \in E : s = <<>> \/ \E v \in Texts : s = First(")", v)

Ahead == Alphabet \cup {EndOfText}

\* What these are
LEMMA PastHas ==
  /\ \A t \in Alphabet : \A E, v : v \in Past(t, E) <=> v \in Texts /\ First(t, v) \in E
  /\ \A E, v : v \in Past(EndOfText, E) <=> v = <<>> /\ v \in E
<1>1. \A t \in Alphabet : t # EndOfText
  BY AreTexts
<1> QED BY <1>1 DEF Past

\* Words and operators are different.
LEMMA TokensDiffer ==
  /\ (QueryWords \cup Wildcards) \cap AllOperators = {}
  /\ QueryWords \subseteq Alphabet /\ Wildcards \subseteq Alphabet
  /\ AllOperators \subseteq Alphabet
  /\ \A t \in Alphabet : t \in QueryWords \cup Wildcards \/ t \in AllOperators
BY QueryAssumption DEF Alphabet, AllOperators

\* What comes after the first token of a primary and what follows it
LEMMA PastPrimary ==
  ASSUME NEW X \in SUBSET Texts
  PROVE  /\ \A t \in QueryWords \cup Wildcards : Past(t, Cat(PrimaryTexts, X)) = X
         /\ Past("(", Cat(PrimaryTexts, X)) = Cat(QueryTexts, Closed(X))
         /\ Past("not", Cat(PrimaryTexts, X)) = Cat(MetaTexts, X)
         /\ \A t \in {"and", "or", "near", ")", "=", EndOfText} :
              Past(t, Cat(PrimaryTexts, X)) = {}
<1> DEFINE Y == Cat(PrimaryTexts, X)
           Q == Cat(QueryTexts, Closed(X))
           M == Cat(MetaTexts, X)
           W == QueryWords \cup Wildcards
<1>1. Q \in SUBSET Texts /\ M \in SUBSET Texts
  BY AreTexts, CatFacts
<1>2. W \cap AllOperators = {} /\ W \subseteq Alphabet /\ AllOperators \subseteq Alphabet
  BY TokensDiffer
<1>3. \A s : s \in Y <=> \/ \E t \in W, x \in X : s = First(t, x)
                         \/ \E y \in Q : s = First("(", y)
                         \/ \E y \in M : s = First("not", y)
  BY PrimaryThen
<1> HIDE DEF Y, Q, M, W
<1>4. "(" \in Alphabet /\ "not" \in Alphabet
  BY <1>2 DEF AllOperators
<1>5. ASSUME NEW t \in Alphabet, NEW v \in Texts
      PROVE  First(t, v) \in Y <=> \/ t \in W /\ v \in X
                                   \/ t = "(" /\ v \in Q
                                   \/ t = "not" /\ v \in M
  <2>1. \A a \in W, x \in X : First(t, v) = First(a, x) <=> t = a /\ v = x
    BY <1>2, FirstSame
  <2>2. \A y \in Q : First(t, v) = First("(", y) <=> t = "(" /\ v = y
    BY <1>1, <1>4, FirstSame
  <2>3. \A y \in M : First(t, v) = First("not", y) <=> t = "not" /\ v = y
    BY <1>1, <1>4, FirstSame
  <2> QED BY <1>3, <2>1, <2>2, <2>3
<1>6. <<>> \notin Y
  <2>1. \A a \in W, x \in X : First(a, x) # <<>>
    BY <1>2, FirstSame
  <2>2. \A y \in Q : First("(", y) # <<>>
    BY <1>1, <1>4, FirstSame
  <2>3. \A y \in M : First("not", y) # <<>>
    BY <1>1, <1>4, FirstSame
  <2> QED BY <1>3, <2>1, <2>2, <2>3
<1>7. ASSUME NEW t \in Alphabet, NEW E \in SUBSET Texts,
             \A v \in Texts : First(t, v) \in Y <=> v \in E
      PROVE  Past(t, Y) = E
  <2>1. \A v : v \in Past(t, Y) <=> v \in Texts /\ First(t, v) \in Y
    BY PastHas
  <2>2. \A v : v \in Past(t, Y) <=> v \in E
    BY <1>7, <2>1
  <2> QED BY <2>2
<1>8. \A t \in W : Past(t, Y) = X
  <2> TAKE t \in W
  <2>1. t \in Alphabet /\ t # "(" /\ t # "not"
    BY <1>2 DEF AllOperators
  <2>2. \A v \in Texts : First(t, v) \in Y <=> v \in X
    BY <1>5, <2>1
  <2>3. t \in Alphabet /\ X \in SUBSET Texts
    BY <2>1
  <2> QED BY <1>7, <2>2, <2>3
<1>9. Past("(", Y) = Q
  <2>1. "(" \notin W
    BY <1>2 DEF AllOperators
  <2>2. \A v \in Texts : First("(", v) \in Y <=> v \in Q
    BY <1>4, <1>5, <2>1
  <2> QED BY <1>1, <1>4, <1>7, <2>2
<1>10. Past("not", Y) = M
  <2>1. "not" \notin W
    BY <1>2 DEF AllOperators
  <2>2. \A v \in Texts : First("not", v) \in Y <=> v \in M
    BY <1>4, <1>5, <2>1
  <2> QED BY <1>1, <1>4, <1>7, <2>2
<1>11. \A t \in {"and", "or", "near", ")", "="} : Past(t, Y) = {}
  <2> TAKE t \in {"and", "or", "near", ")", "="}
  <2>1. t \in Alphabet /\ t # "(" /\ t # "not" /\ t \notin W
    BY <1>2 DEF AllOperators
  <2>2. \A v \in Texts : First(t, v) \notin Y
    BY <1>5, <2>1
  <2>3. \A v : v \notin Past(t, Y)
    BY <2>1, <2>2, PastHas
  <2> QED BY <2>3
<1>12. Past(EndOfText, Y) = {}
  BY <1>6, PastHas
<1> QED BY <1>8, <1>9, <1>10, <1>11, <1>12 DEF Y, Q, M, W

\* ... and of a meta
LEMMA PastMeta ==
  ASSUME NEW X \in SUBSET Texts
  PROVE  /\ \A t \in Ahead \ QueryWords :
              Past(t, Cat(MetaTexts, X)) = Past(t, Cat(PrimaryTexts, X))
         /\ NoEquals(X) => \A w \in QueryWords :
              Past("=", Past(w, Cat(MetaTexts, X))) = Cat(PrimaryTexts, X)
         /\ \A w \in QueryWords, t \in Ahead \ {"="} :
              Past(t, Past(w, Cat(MetaTexts, X))) = Past(t, Past(w, Cat(PrimaryTexts, X)))
<1> DEFINE P == Cat(PrimaryTexts, X)
           M == Cat(MetaTexts, X)
<1>1. P \in SUBSET Texts
  BY AreTexts, CatFacts
<1>2. /\ "=" \in Alphabet /\ "=" \notin QueryWords /\ QueryWords \subseteq Alphabet
      /\ QueryWords \subseteq QueryWords \cup Wildcards
      /\ EndOfText \notin Alphabet
  BY TokensDiffer, AreTexts DEF AllOperators
<1>3. \A s : s \in M <=> \/ s \in P
                         \/ \E w \in QueryWords, y \in P : s = First(w, First("=", y))
  BY MetaThen
<1> HIDE DEF P, M
<1>4. \A y \in P : First("=", y) \in Texts
  BY <1>1, <1>2, FirstSame
<1>5. ASSUME NEW t \in Alphabet, NEW v \in Texts
      PROVE  First(t, v) \in M <=> \/ First(t, v) \in P
                                   \/ t \in QueryWords /\ \E y \in P : v = First("=", y)
  <2>1. \A w \in QueryWords, y \in P :
          First(t, v) = First(w, First("=", y)) <=> t = w /\ v = First("=", y)
    <3> TAKE w \in QueryWords, y \in P
    <3>1. w \in Alphabet /\ First("=", y) \in Texts
      BY <1>2, <1>4
    <3> QED BY <3>1, FirstSame
  <2> QED BY <1>3, <2>1
<1>6. <<>> \in M <=> <<>> \in P
  <2>1. \A w \in QueryWords, y \in P : First(w, First("=", y)) # <<>>
    <3> TAKE w \in QueryWords, y \in P
    <3>1. w \in Alphabet /\ First("=", y) \in Texts
      BY <1>2, <1>4
    <3> QED BY <3>1, FirstSame
  <2> QED BY <1>3, <2>1
<1>7. ASSUME NEW t \in Ahead \ QueryWords PROVE Past(t, M) = Past(t, P)
  <2>1. CASE t = EndOfText
    <3>1. \A v : v \in Past(t, M) <=> v \in Past(t, P)
      BY <1>6, <2>1, PastHas
    <3> QED BY <3>1
  <2>2. CASE t \in Alphabet
    <3>1. \A v : /\ v \in Past(t, M) <=> v \in Texts /\ First(t, v) \in M
                 /\ v \in Past(t, P) <=> v \in Texts /\ First(t, v) \in P
      BY <2>2, PastHas
    <3>2. \A v \in Texts : First(t, v) \in M <=> First(t, v) \in P
      BY <1>5, <1>7, <2>2
    <3> QED BY <3>1, <3>2
  <2> QED BY <2>1, <2>2 DEF Ahead
<1>8. ASSUME NEW w \in QueryWords
      PROVE  /\ \A v : v \in Past(w, P) <=> v \in X
             /\ \A v : v \in Past(w, M) <=> v \in X \/ \E y \in P : v = First("=", y)
             /\ Past(w, P) = X
  <2>1. w \in Alphabet
    BY <1>2
  <2>2. \A v : /\ v \in Past(w, M) <=> v \in Texts /\ First(w, v) \in M
               /\ v \in Past(w, P) <=> v \in Texts /\ First(w, v) \in P
    BY <2>1, PastHas
  <2>3. Past(w, P) = X
    BY <1>2, PastPrimary DEF P
  <2>4. \A v \in Texts : First(w, v) \in M <=> \/ First(w, v) \in P
                                               \/ \E y \in P : v = First("=", y)
    BY <1>5, <2>1
  <2> QED BY <1>4, <2>2, <2>3, <2>4
<1>9. ASSUME NoEquals(X), NEW w \in QueryWords
      PROVE  Past("=", Past(w, M)) = P
  <2>1. \A v : v \in Past("=", Past(w, M)) <=> v \in Texts /\ First("=", v) \in Past(w, M)
    BY <1>2, PastHas
  <2>2. \A v \in Texts : First("=", v) \in Past(w, M) <=> v \in P
    <3> TAKE v \in Texts
    <3>1. First("=", v) \notin X
      BY <1>9 DEF NoEquals
    <3>2. \A y \in P : First("=", v) = First("=", y) <=> v = y
      BY <1>1, <1>2, FirstSame
    <3> QED BY <1>8, <3>1, <3>2
  <2> QED BY <1>1, <2>1, <2>2
<1>10. ASSUME NEW w \in QueryWords, NEW t \in Ahead \ {"="}
       PROVE  Past(t, Past(w, M)) = Past(t, Past(w, P))
  <2>1. CASE t = EndOfText
    <3>1. <<>> \in Past(w, M) <=> <<>> \in Past(w, P)
      <4>1. \A y \in P : First("=", y) # <<>>
        BY <1>1, <1>2, FirstSame
      <4> QED BY <1>8, <4>1
    <3>2. \A v : v \in Past(t, Past(w, M)) <=> v \in Past(t, Past(w, P))
      BY <2>1, <3>1, PastHas
    <3> QED BY <3>2
  <2>2. CASE t \in Alphabet
    <3>1. \A v : /\ v \in Past(t, Past(w, M)) <=> v \in Texts /\ First(t, v) \in Past(w, M)
                 /\ v \in Past(t, Past(w, P)) <=> v \in Texts /\ First(t, v) \in Past(w, P)
      BY <2>2, PastHas
    <3>2. \A v \in Texts : First(t, v) \in Past(w, M) <=> First(t, v) \in Past(w, P)
      <4> TAKE v \in Texts
      <4>1. \A y \in P : First(t, v) # First("=", y)
        BY <1>1, <1>2, <1>10, <2>2, FirstSame
      <4> QED BY <1>8, <4>1
    <3> QED BY <3>1, <3>2
  <2> QED BY <2>1, <2>2 DEF Ahead
<1> QED BY <1>7, <1>9, <1>10 DEF P, M

\* No meta is empty, or begins with any other token than these.
LEMMA MetaBegins ==
  ASSUME NEW X \in SUBSET Texts
  PROVE  /\ <<>> \notin Cat(MetaTexts, X)
         /\ \A t \in {"and", "or", "near", ")", "="}, v \in Texts :
              First(t, v) \notin Cat(MetaTexts, X)
         /\ \A v \in Texts : First("not", First("near", v)) \notin Cat(MetaTexts, X)
<1> DEFINE P == Cat(PrimaryTexts, X)
           M == Cat(MetaTexts, X)
           B == {"and", "or", "near", ")", "="}
<1>1. /\ B \subseteq Alphabet /\ B \subseteq Ahead \ QueryWords /\ EndOfText \in Ahead \ QueryWords
      /\ "not" \in Alphabet /\ "not" \in Ahead \ QueryWords /\ "near" \in Alphabet
  BY TokensDiffer, AreTexts DEF AllOperators, Ahead
<1>2. /\ \A t \in Ahead \ QueryWords : Past(t, M) = Past(t, P)
      /\ \A t \in B \cup {EndOfText} : Past(t, P) = {}
      /\ Past("not", P) = M
  BY PastMeta, PastPrimary
<1> HIDE DEF P, M
<1>3. <<>> \notin M
  <2>1. Past(EndOfText, M) = {}
    BY <1>1, <1>2
  <2> QED BY <2>1, PastHas
<1>4. \A t \in B, v \in Texts : First(t, v) \notin M
  <2> TAKE t \in B, v \in Texts
  <2>1. Past(t, M) = {} /\ t \in Alphabet
    BY <1>1, <1>2
  <2> QED BY <2>1, PastHas
<1>5. ASSUME NEW v \in Texts PROVE First("not", First("near", v)) \notin M
  <2>1. First("near", v) \in Texts /\ First("near", v) \notin M
    BY <1>1, <1>4, FirstSame
  <2>2. First("near", v) \notin Past("not", M)
    BY <1>1, <1>2, <2>1
  <2> QED BY <1>1, <2>1, <2>2, PastHas
<1> QED BY <1>3, <1>4, <1>5 DEF M

\* What comes after the first tokens of the rest of a query and what ends it
LEMMA PastRest ==
  ASSUME NEW X \in SUBSET Texts, Ends(X)
  PROVE  /\ \A t \in {"and", "or", "near"} :
              Past(t, Cat(Rests, X)) = Cat(MetaTexts, Cat(Rests, X))
         /\ Past("near", Past("not", Cat(Rests, X))) = Cat(MetaTexts, Cat(Rests, X))
         /\ \A t \in Ahead \ {"near"} :
              Past(t, Past("not", Cat(Rests, X)))
                = Past(t, Past("not", Cat(MetaTexts, Cat(Rests, X))))
         /\ \A t \in Alphabet \ {"and", "or", "near", "not", ")"} :
              Past(t, Cat(Rests, X)) = Past(t, Cat(MetaTexts, Cat(Rests, X)))
         /\ \A t \in {")", EndOfText} : Past(t, Cat(Rests, X)) = Past(t, X)
<1> DEFINE Y == Cat(Rests, X)
           M == Cat(MetaTexts, Y)
           A == {"and", "or", "near"}
<1>1. Y \in SUBSET Texts
  BY AreTexts, CatFacts
<1>2. M \in SUBSET Texts
  BY <1>1, AreTexts, CatFacts
<1>3. \A s : s \in Y <=> \/ s \in X \cup M
                         \/ \E t \in A, y \in M : s = First(t, y)
                         \/ \E y \in M : s = First("not", First("near", y))
  BY RestThen
<1>4. /\ <<>> \notin M
      /\ \A t \in {"and", "or", "near", ")", "="}, v \in Texts : First(t, v) \notin M
      /\ \A v \in Texts : First("not", First("near", v)) \notin M
  BY <1>1, MetaBegins
<1> HIDE DEF Y, M
<1>5. /\ A \subseteq Alphabet /\ "not" \in Alphabet /\ "near" \in Alphabet /\ ")" \in Alphabet
      /\ EndOfText \notin Alphabet
  BY AreTexts DEF AllOperators
<1>6. \A y \in M : First("near", y) \in Texts
  BY <1>2, <1>5, FirstSame
<1>7. ASSUME NEW t \in Alphabet, NEW v \in Texts, t # ")" PROVE First(t, v) \notin X
  <2>1. \A x \in Texts : First(t, v) # First(")", x)
    BY <1>5, <1>7, FirstSame
  <2>2. First(t, v) # <<>>
    BY FirstSame
  <2> QED BY <2>1, <2>2 DEF Ends
<1>8. ASSUME NEW t \in Alphabet, NEW v \in Texts
      PROVE  First(t, v) \in Y <=>
               \/ First(t, v) \in X \cup M
               \/ t \in A /\ v \in M
               \/ t = "not" /\ \E y \in M : v = First("near", y)
  <2>1. \A a \in A, y \in M : First(t, v) = First(a, y) <=> t = a /\ v = y
    BY <1>2, <1>5, FirstSame
  <2>2. \A y \in M : First(t, v) = First("not", First("near", y))
                     <=> t = "not" /\ v = First("near", y)
    BY <1>5, <1>6, FirstSame
  <2> QED BY <1>3, <2>1, <2>2
<1>9. \A t \in A : Past(t, Y) = M
  <2> TAKE t \in A
  <2>1. t \in Alphabet /\ t # ")" /\ t # "not" /\ t \in {"and", "or", "near", ")", "="}
    BY <1>5
  <2>2. \A v \in Texts : First(t, v) \in Y <=> v \in M
    BY <1>4, <1>7, <1>8, <2>1
  <2>3. \A v : v \in Past(t, Y) <=> v \in Texts /\ First(t, v) \in Y
    BY <2>1, PastHas
  <2> QED BY <1>2, <2>2, <2>3
<1>10. \A v \in Texts : v \in Past("not", Y)
                        <=> v \in Past("not", M) \/ \E y \in M : v = First("near", y)
  <2> TAKE v \in Texts
  <2>1. "not" # ")" /\ "not" \notin A
    OBVIOUS
  <2>2. First("not", v) \in Y <=> First("not", v) \in M \/ \E y \in M : v = First("near", y)
    BY <1>5, <1>7, <1>8, <2>1
  <2> QED BY <1>5, <2>2, PastHas
<1>11. \A y \in Texts : First("near", y) \notin Past("not", M)
  BY <1>4, <1>5, PastHas
<1>12. Past("near", Past("not", Y)) = M
  <2>1. \A v \in Texts : First("near", v) \in Past("not", Y) <=> v \in M
    <3> TAKE v \in Texts
    <3>1. First("near", v) \in Texts /\ First("near", v) \notin Past("not", M)
      BY <1>5, <1>11, FirstSame
    <3>2. \A y \in M : First("near", v) = First("near", y) <=> v = y
      BY <1>2, <1>5, FirstSame
    <3> QED BY <1>10, <3>1, <3>2
  <2>2. \A v : v \in Past("near", Past("not", Y))
               <=> v \in Texts /\ First("near", v) \in Past("not", Y)
    BY <1>5, PastHas
  <2> QED BY <1>2, <2>1, <2>2
<1>13. ASSUME NEW t \in Ahead \ {"near"}
       PROVE  Past(t, Past("not", Y)) = Past(t, Past("not", M))
  <2>1. CASE t = EndOfText
    <3>1. \A y \in M : First("near", y) # <<>>
      BY <1>2, <1>5, FirstSame
    <3>2. <<>> \in Texts
      BY Joined, AreTexts DEF Relops
    <3>3. <<>> \in Past("not", Y) <=> <<>> \in Past("not", M)
      BY <1>10, <3>1, <3>2
    <3>4. \A v : v \in Past(t, Past("not", Y)) <=> v \in Past(t, Past("not", M))
      BY <2>1, <3>3, PastHas
    <3> QED BY <3>4
  <2>2. CASE t \in Alphabet
    <3>1. \A v : /\ v \in Past(t, Past("not", Y)) <=> v \in Texts /\ First(t, v) \in Past("not", Y)
                 /\ v \in Past(t, Past("not", M)) <=> v \in Texts /\ First(t, v) \in Past("not", M)
      BY <2>2, PastHas
    <3>2. \A v \in Texts : First(t, v) \in Past("not", Y) <=> First(t, v) \in Past("not", M)
      <4> TAKE v \in Texts
      <4>1. First(t, v) \in Texts /\ \A y \in M : First(t, v) # First("near", y)
        BY <1>2, <1>5, <1>13, <2>2, FirstSame
      <4> QED BY <1>10, <4>1
    <3> QED BY <3>1, <3>2
  <2> QED BY <2>1, <2>2 DEF Ahead
<1>14. ASSUME NEW t \in Alphabet \ {"and", "or", "near", "not", ")"}
       PROVE  Past(t, Y) = Past(t, M)
  <2>1. \A v : /\ v \in Past(t, Y) <=> v \in Texts /\ First(t, v) \in Y
               /\ v \in Past(t, M) <=> v \in Texts /\ First(t, v) \in M
    BY PastHas
  <2>2. \A v \in Texts : First(t, v) \in Y <=> First(t, v) \in M
    BY <1>7, <1>8
  <2> QED BY <2>1, <2>2
<1>15. Past(")", Y) = Past(")", X)
  <2>1. \A v : /\ v \in Past(")", Y) <=> v \in Texts /\ First(")", v) \in Y
               /\ v \in Past(")", X) <=> v \in Texts /\ First(")", v) \in X
    BY <1>5, PastHas
  <2>2. ")" \notin A /\ ")" # "not"
    OBVIOUS
  <2>3. \A v \in Texts : First(")", v) \in Y <=> First(")", v) \in X
    BY <1>4, <1>5, <1>8, <2>2
  <2> QED BY <2>1, <2>3
<1>16. Past(EndOfText, Y) = Past(EndOfText, X)
  <2>1. \A t \in A, y \in M : First(t, y) # <<>>
    BY <1>2, <1>5, FirstSame
  <2>2. \A y \in M : First("not", First("near", y)) # <<>>
    BY <1>5, <1>6, FirstSame
  <2>3. <<>> \in Y <=> <<>> \in X
    BY <1>3, <1>4, <2>1, <2>2
  <2>4. \A v : v \in Past(EndOfText, Y) <=> v \in Past(EndOfText, X)
    BY <2>3, PastHas
  <2> QED BY <2>4
<1> QED BY <1>9, <1>12, <1>13, <1>14, <1>15, <1>16 DEF Y, M

-----------------------------------------------------------------------------
(***************************************************************************)
(* The stream.  What was put back comes before what is yet to be read; of  *)
(* that nothing is known until the end of the text has been seen.          *)
(***************************************************************************)

Futures(s) == IF s.end THEN {<<>>} ELSE Texts
Before(t, r) == IF t = EndOfText THEN r ELSE First(t, r)
Unread(s, r) ==
  IF s.back = <<>> THEN r
  ELSE IF Len(s.back) = 1 THEN Before(s.back[1], r)
  ELSE First(s.back[2], Before(s.back[1], r))

\* The text, whatever more there is of it, is a query if and only if what is
\* unread of it is in E.
Reads(s, E) == \A r \in Futures(s) : s.text \o r \in QueryTexts <=> Unread(s, r) \in E

\* The end of the text is put back first, and no other token than these
\* second.
StackOK(s) ==
  /\ s.back # <<>> => (s.end <=> s.back[1] = EndOfText)
  /\ Len(s.back) = 2 => s.back[2] \in QueryWords \cup {"not"}
  /\ \A i \in 1..Len(s.back) : s.back[i] = EndOfText \/ s.back[i] \in ToSet(s.text)

StreamGood(s) == StreamOK(s) /\ StackOK(s)

\* Tokens and texts of the stream are tokens and texts of the grammar.
LEMMA StreamTexts ==
  ASSUME NEW s, StreamGood(s)
  PROVE  /\ s.text \in Texts /\ Len(s.back) \in 0..2 /\ (s.back = <<>> <=> Len(s.back) = 0)
         /\ s.back \in Seq(AnyToken)
         /\ \A i \in 1..Len(s.back) : s.back[i] \in Ahead
         /\ \A r \in Futures(s) : r \in Texts /\ Unread(s, r) \in Texts
         /\ s = [text |-> s.text, end |-> s.end, back |-> s.back] /\ s.end \in BOOLEAN
         /\ <<>> \in Texts /\ Tokens \subseteq Alphabet
<1>1. Tokens \subseteq Alphabet /\ AnyToken \subseteq Ahead
  BY QueryAssumption DEF Tokens, Alphabet, AnyToken, Ahead
<1>2. s.text \in Texts
  BY <1>1 DEF StreamGood, StreamOK, Texts
<1>3. /\ Len(s.back) \in 0..2 /\ (s.back = <<>> <=> Len(s.back) = 0)
      /\ s.back \in Seq(AnyToken)
      /\ \A i \in 1..Len(s.back) : s.back[i] \in AnyToken
  <2>1. s.back \in Seq(AnyToken) /\ Len(s.back) <= 2
    BY DEF StreamGood, StreamOK
  <2>2. Len(s.back) \in Nat /\ (s.back = <<>> <=> Len(s.back) = 0)
    BY <2>1, LenProperties, EmptySeq
  <2>3. \A i \in 1..Len(s.back) : s.back[i] \in AnyToken
    BY <2>1, ElementOfSeq
  <2>4. \A k \in Nat : k <= 2 => k \in 0..2
    OBVIOUS
  <2> QED BY <2>1, <2>2, <2>3, <2>4, Zenon
<1>4. \A i \in 1..Len(s.back) : s.back[i] \in Ahead
  BY <1>1, <1>3
<1>5. <<>> \in Texts
  BY Joined, AreTexts DEF Relops
<1>6. ASSUME NEW r \in Futures(s) PROVE r \in Texts /\ Unread(s, r) \in Texts
  <2>1. r \in Texts
    BY <1>5 DEF Futures
  <2>2. \A t \in Ahead : Before(t, r) \in Texts
    BY <2>1, FirstSame DEF Before, Ahead
  <2>3. CASE s.back = <<>>
    BY <2>1, <2>3 DEF Unread
  <2>4. CASE Len(s.back) = 1
    <3>1. Before(s.back[1], r) \in Texts /\ s.back # <<>>
      <4>1. 1 \in 1..Len(s.back)
        BY <2>4
      <4> QED BY <1>3, <1>4, <2>2, <2>4, <4>1
    <3> QED BY <2>1, <2>4, <3>1 DEF Unread
  <2>5. CASE Len(s.back) = 2
    <3>1. Before(s.back[1], r) \in Texts /\ s.back # <<>> /\ Len(s.back) # 1
      <4>1. 1 \in 1..Len(s.back)
        BY <2>5
      <4> QED BY <1>3, <1>4, <2>2, <2>5, <4>1
    <3>2. s.back[2] \in Alphabet
      BY <2>5, TokensDiffer DEF StreamGood, StackOK, AllOperators
    <3>3. First(s.back[2], Before(s.back[1], r)) \in Texts
      BY <3>1, <3>2, FirstSame
    <3> QED BY <2>1, <3>1, <3>3 DEF Unread
  <2> QED BY <1>3, <2>3, <2>4, <2>5
<1> QED BY <1>1, <1>2, <1>3, <1>4, <1>5, <1>6 DEF StreamGood, StreamOK

\* A token that was put back is taken again.
LEMMA TookBack ==
  ASSUME NEW s, StreamGood(s), s.back # <<>>, NEW e \in Extracted(s)
  PROVE  /\ StreamGood(e.in) /\ e.token \in Ahead /\ e.in.text = s.text
         /\ e.in.back # <<>> => e.token \in QueryWords \cup {"not"}
         /\ e.token = EndOfText => e.in.end /\ e.in.back = <<>>
         /\ e.token # EndOfText => e.token \in ToSet(s.text)
         /\ e.in.back = <<>> => (e.in.end <=> e.token = EndOfText)
         /\ \A E : Reads(s, E) => Reads(e.in, Past(e.token, E))
<1> DEFINE b == s.back
           c == SubSeq(b, 1, Len(b) - 1)
           t == b[Len(b)]
<1>1. /\ s.text \in Texts /\ Len(b) \in 1..2 /\ b \in Seq(AnyToken)
      /\ \A i \in 1..Len(b) : b[i] \in Ahead
      /\ s = [text |-> s.text, end |-> s.end, back |-> b]
      /\ \A r \in Futures(s) : r \in Texts /\ Unread(s, r) \in Texts
  BY StreamTexts
<1>2. /\ c \in Seq(AnyToken) /\ Len(c) = Len(b) - 1
      /\ \A i \in 1..(Len(b) - 1) : c[i] = b[i]
  BY <1>1, FrontFacts
<1>3. e.token = t /\ e.in = [s EXCEPT !.back = SubSeq(@, 1, Len(@) - 1)]
  BY DEF Extracted
<1>4. e.in = [text |-> s.text, end |-> s.end, back |-> c]
  BY <1>1, <1>3
<1>5. /\ s.end <=> b[1] = EndOfText
      /\ Len(b) = 2 => b[2] \in QueryWords \cup {"not"}
      /\ \A i \in 1..Len(b) : b[i] = EndOfText \/ b[i] \in ToSet(s.text)
  BY DEF StreamGood, StackOK
<1>6. QueryWords \cup {"not"} \subseteq Alphabet /\ EndOfText \notin Alphabet
  BY TokensDiffer, AreTexts DEF AllOperators
<1>7. e.in.text = s.text /\ e.in.end = s.end /\ e.in.back = c
  BY <1>4
<1>8. StreamOK(e.in)
  BY ExtractedFacts DEF StreamGood
<1> HIDE DEF c
<1>9. CASE Len(b) = 1
  <2>1. c = <<>> /\ Len(c) = 0 /\ t = b[1] /\ 1 \in 1..Len(b)
    BY <1>2, <1>9
  <2>2. StackOK(e.in)
    <3>1. \A i \in 1..Len(c) : FALSE
      BY <2>1
    <3> QED BY <1>7, <2>1, <3>1 DEF StackOK
  <2>3. ASSUME NEW E, Reads(s, E), NEW r \in Futures(e.in)
        PROVE  s.text \o r \in QueryTexts <=> r \in Past(t, E)
    <3>1. r \in Futures(s) /\ r \in Texts
      BY <1>1, <1>7, <2>3 DEF Futures
    <3>2. s.text \o r \in QueryTexts <=> Unread(s, r) \in E
      BY <2>3, <3>1 DEF Reads
    <3>3. Unread(s, r) = Before(t, r)
      BY <1>9, <2>1 DEF Unread
    <3>4. CASE t = EndOfText
      <4>1. r = <<>> /\ Before(t, r) = r
        BY <1>5, <2>1, <3>1, <3>4 DEF Futures, Before
      <4> QED BY <3>2, <3>3, <3>4, <4>1, PastHas
    <3>5. CASE t \in Alphabet
      <4>1. Before(t, r) = First(t, r)
        BY <1>6, <3>5 DEF Before
      <4> QED BY <3>1, <3>2, <3>3, <3>5, <4>1, PastHas
    <3> QED BY <1>1, <2>1, <3>4, <3>5 DEF Ahead
  <2>4. \A E : Reads(s, E) => Reads(e.in, Past(t, E))
    <3>1. \A r : Unread(e.in, r) = r
      BY <1>7, <2>1 DEF Unread
    <3> QED BY <1>7, <2>3, <3>1 DEF Reads
  <2>5. t \in Ahead /\ (t # EndOfText => t \in ToSet(s.text)) /\ (s.end <=> t = EndOfText)
    BY <1>1, <1>5, <2>1
  <2> HIDE DEF t, b
  <2> QED BY <1>3, <1>7, <1>8, <2>1, <2>2, <2>4, <2>5 DEF StreamGood
<1>10. CASE Len(b) = 2
  <2>1. Len(c) = 1 /\ c # <<>> /\ c[1] = b[1] /\ t = b[2] /\ 1 \in 1..Len(b) /\ 2 \in 1..Len(b)
    <3>1. Len(c) = 1 /\ 1 \in 1..(Len(b) - 1)
      BY <1>2, <1>10
    <3>2. c # <<>> /\ c[1] = b[1]
      BY <1>2, <3>1, LenProperties
    <3>3. t = b[2]
      BY <1>10
    <3> HIDE DEF t, b
    <3> QED BY <1>10, <3>1, <3>2, <3>3
  <2>2. t \in QueryWords \cup {"not"} /\ t \in Alphabet /\ t # EndOfText /\ t \in ToSet(s.text)
    BY <1>5, <1>6, <1>10, <2>1
  <2>3. StackOK(e.in)
    <3>1. \A i \in 1..Len(c) : i = 1
      BY <2>1
    <3>2. \A i \in 1..Len(c) : c[i] = EndOfText \/ c[i] \in ToSet(s.text)
      BY <1>5, <2>1, <3>1
    <3> QED BY <1>5, <1>7, <2>1, <3>2 DEF StackOK
  <2>4. ASSUME NEW E, Reads(s, E), NEW r \in Futures(e.in)
        PROVE  s.text \o r \in QueryTexts <=> Unread(e.in, r) \in Past(t, E)
    <3>1. r \in Futures(s) /\ r \in Texts
      BY <1>1, <1>7, <2>4 DEF Futures
    <3>2. s.text \o r \in QueryTexts <=> Unread(s, r) \in E
      BY <2>4, <3>1 DEF Reads
    <3>3. Unread(s, r) = First(t, Before(b[1], r)) /\ Unread(e.in, r) = Before(b[1], r)
      BY <1>7, <1>10, <2>1 DEF Unread
    <3>4. Before(b[1], r) \in Texts
      BY <1>1, <2>1, <3>1, FirstSame DEF Before, Ahead
    <3> QED BY <2>2, <3>2, <3>3, <3>4, PastHas
  <2>5. \A E : Reads(s, E) => Reads(e.in, Past(t, E))
    BY <1>7, <2>4 DEF Reads
  <2>6. t \in Ahead
    BY <2>2 DEF Ahead
  <2> HIDE DEF t, b
  <2> QED BY <1>3, <1>7, <1>8, <2>1, <2>2, <2>3, <2>5, <2>6 DEF StreamGood
<1> HIDE DEF b
<1> QED BY <1>1, <1>9, <1>10

\* A token is taken that was not put back.
LEMMA TookNew ==
  ASSUME NEW s, StreamGood(s), s.back = <<>>, NEW e \in Extracted(s)
  PROVE  /\ StreamGood(e.in) /\ e.token \in Ahead /\ ToSet(s.text) \subseteq ToSet(e.in.text)
         /\ e.in.back = <<>> /\ (e.in.end <=> e.token = EndOfText)
         /\ e.token # EndOfText => e.token \in ToSet(e.in.text)
         /\ \A E : Reads(s, E) => Reads(e.in, Past(e.token, E))
<1>1. /\ s.text \in Texts /\ s = [text |-> s.text, end |-> s.end, back |-> s.back]
      /\ \A r \in Futures(s) : r \in Texts /\ Unread(s, r) \in Texts
      /\ s.end \in BOOLEAN /\ <<>> \in Texts /\ Tokens \subseteq Alphabet
  BY StreamTexts
<1>2. EndOfText \notin Alphabet
  BY AreTexts
<1>3. StreamOK(e.in) /\ e.in.back = <<>>
  BY ExtractedFacts DEF StreamGood
<1>4. StackOK(e.in)
  <2>1. Len(e.in.back) = 0
    BY <1>3
  <2>2. \A i \in 1..Len(e.in.back) : FALSE
    BY <2>1
  <2> QED BY <1>3, <2>1, <2>2 DEF StackOK
<1>5. \A r : Unread(s, r) = r /\ Unread(e.in, r) = r
  BY <1>3 DEF Unread
<1>6. CASE e = [token |-> EndOfText, in |-> [s EXCEPT !.end = TRUE]]
  <2>1. e.token = EndOfText /\ e.in.text = s.text /\ e.in.end = TRUE
    <3>1. e.in = [text |-> s.text, end |-> TRUE, back |-> s.back]
      BY <1>1, <1>6
    <3> QED BY <1>6, <3>1
  <2>2. ASSUME NEW E, Reads(s, E) PROVE Reads(e.in, Past(EndOfText, E))
    <3>1. <<>> \in Futures(s) /\ Futures(e.in) = {<<>>}
      BY <1>1, <2>1 DEF Futures
    <3>2. s.text \o <<>> \in QueryTexts <=> <<>> \in E
      BY <1>5, <2>2, <3>1 DEF Reads
    <3>3. <<>> \in Past(EndOfText, E) <=> <<>> \in E
      BY PastHas
    <3> QED BY <1>5, <2>1, <3>1, <3>2, <3>3 DEF Reads
  <2> QED BY <1>3, <1>4, <2>1, <2>2 DEF StreamGood, Ahead
<1>7. ASSUME NEW t \in Tokens, ~s.end, e = [token |-> t, in |-> [s EXCEPT !.text = Append(@, t)]]
      PROVE  /\ e.token \in Ahead /\ ToSet(s.text) \subseteq ToSet(e.in.text)
             /\ (e.in.end <=> e.token = EndOfText)
             /\ e.token # EndOfText => e.token \in ToSet(e.in.text)
             /\ \A E : Reads(s, E) => Reads(e.in, Past(e.token, E))
  <2>1. e.token = t /\ e.in.text = Append(s.text, t) /\ e.in.end = FALSE
    <3>1. e.in = [text |-> Append(s.text, t), end |-> s.end, back |-> s.back]
      BY <1>1, <1>7
    <3> QED BY <1>1, <1>7, <3>1
  <2>2. t \in Alphabet /\ t # EndOfText
    BY <1>1, <1>2
  <2>3. /\ Append(s.text, t) \in Texts /\ Len(Append(s.text, t)) = Len(s.text) + 1
        /\ \A i \in 1..Len(s.text) : Append(s.text, t)[i] = s.text[i]
        /\ Append(s.text, t)[Len(s.text) + 1] = t
        /\ Append(s.text, t) = s.text \o <<t>>
        /\ Len(s.text) \in Nat /\ DOMAIN s.text = 1..Len(s.text)
        /\ DOMAIN Append(s.text, t) = 1..(Len(s.text) + 1)
    BY <1>1, <2>2, AppendProperties, AppendIsConcat, LenProperties DEF Texts
  <2>4. ToSet(s.text) \subseteq ToSet(Append(s.text, t)) /\ t \in ToSet(Append(s.text, t))
    <3>1. /\ Len(s.text) + 1 \in DOMAIN Append(s.text, t)
          /\ \A i \in DOMAIN s.text : i \in 1..Len(s.text) /\ i \in DOMAIN Append(s.text, t)
      BY <2>3
    <3>2. \A i \in DOMAIN s.text : s.text[i] \in ToSet(Append(s.text, t))
      BY <2>3, <3>1, Zenon DEF ToSet
    <3>3. t \in ToSet(Append(s.text, t))
      BY <2>3, <3>1, Zenon DEF ToSet
    <3> QED BY <3>2, <3>3 DEF ToSet
  <2>5. ASSUME NEW E, Reads(s, E) PROVE Reads(e.in, Past(t, E))
    <3>1. Futures(s) = Texts /\ Futures(e.in) = Texts
      BY <1>7, <2>1 DEF Futures
    <3>2. ASSUME NEW r \in Texts
          PROVE  Append(s.text, t) \o r \in QueryTexts <=> r \in Past(t, E)
      <4>1. First(t, r) \in Texts
        BY <2>2, FirstSame
      <4>2. s.text \o First(t, r) \in QueryTexts <=> First(t, r) \in E
        BY <1>5, <2>5, <3>1, <4>1 DEF Reads
      <4>3. Append(s.text, t) \o r = s.text \o First(t, r)
        <5>1. <<t>> \in Texts
          BY <2>2, Firsts
        <5>2. (s.text \o <<t>>) \o r = s.text \o (<<t>> \o r)
          BY <1>1, <5>1, Regrouped
        <5> QED BY <2>3, <5>2 DEF First
      <4> QED BY <2>2, <4>2, <4>3, PastHas
    <3> QED BY <1>5, <2>1, <3>1, <3>2 DEF Reads
  <2> QED BY <2>1, <2>2, <2>4, <2>5 DEF Ahead
<1>8. \/ e = [token |-> EndOfText, in |-> [s EXCEPT !.end = TRUE]]
      \/ ~s.end /\ \E t \in Tokens : e = [token |-> t, in |-> [s EXCEPT !.text = Append(@, t)]]
  <2>1. \/ e = [token |-> EndOfText, in |-> [s EXCEPT !.end = TRUE]]
        \/ \E t \in IF s.end \/ Len(s.text) >= MaxTokens THEN {} ELSE Tokens :
             e = [token |-> t, in |-> [s EXCEPT !.text = Append(@, t)]]
    BY DEF Extracted
  <2> QED BY <2>1
<1> QED BY <1>3, <1>4, <1>6, <1>7, <1>8 DEF StreamGood

\* A token is taken.
LEMMA Took ==
  ASSUME NEW s, StreamGood(s), NEW e \in Extracted(s)
  PROVE  /\ StreamGood(e.in) /\ e.token \in Ahead /\ ToSet(s.text) \subseteq ToSet(e.in.text)
         /\ e.in.back # <<>> => e.token \in QueryWords \cup {"not"}
         /\ e.token = EndOfText => e.in.end /\ e.in.back = <<>>
         /\ e.token # EndOfText => e.token \in ToSet(e.in.text)
         /\ e.in.back = <<>> => (e.in.end <=> e.token = EndOfText)
         /\ Len(e.in.back) <= 1 /\ (Len(s.back) <= 1 => e.in.back = <<>>)
         /\ \A E : Reads(s, E) => Reads(e.in, Past(e.token, E))
<1>1. Len(s.back) \in 0..2 /\ (s.back = <<>> <=> Len(s.back) = 0)
  BY StreamTexts
<1>2. CASE s.back = <<>>
  <2>1. e.in.back = <<>> /\ Len(e.in.back) = 0
    BY <1>2, TookNew
  <2>2. 0 <= 1
    OBVIOUS
  <2>3. Len(e.in.back) <= 1
    BY <2>1, <2>2, Zenon
  <2>4. /\ StreamGood(e.in) /\ e.token \in Ahead /\ ToSet(s.text) \subseteq ToSet(e.in.text)
        /\ (e.in.end <=> e.token = EndOfText)
        /\ e.token # EndOfText => e.token \in ToSet(e.in.text)
        /\ \A E : Reads(s, E) => Reads(e.in, Past(e.token, E))
    BY <1>2, TookNew
  <2> QED BY <2>1, <2>3, <2>4, Zenon
<1>3. CASE s.back # <<>>
  <2>1. StreamGood(e.in) /\ Len(e.in.back) = Len(s.back) - 1
    BY <1>3, TookBack, ExtractedFacts DEF StreamGood
  <2>2. Len(e.in.back) \in 0..2 /\ (e.in.back = <<>> <=> Len(e.in.back) = 0)
    BY <2>1, StreamTexts
  <2>3. Len(e.in.back) <= 1 /\ (Len(s.back) <= 1 => e.in.back = <<>>)
    <3>1. \A k, l \in 0..2 : k = l - 1 => k <= 1 /\ (l <= 1 => k = 0)
      OBVIOUS
    <3> QED BY <1>1, <2>1, <2>2, <3>1, Zenon
  <2>4. ToSet(s.text) \subseteq ToSet(e.in.text)
    BY <1>3, TookBack
  <2> QED BY <1>3, <2>3, <2>4, TookBack
<1> QED BY <1>2, <1>3

\* A token is put back.
LEMMA PutOne ==
  ASSUME NEW s, StreamGood(s), NEW t \in Ahead, t = EndOfText \/ t \in ToSet(s.text),
         \/ s.back = <<>> /\ (s.end <=> t = EndOfText)
         \/ Len(s.back) = 1 /\ t \in QueryWords \cup {"not"}
  PROVE  /\ StreamGood(PutBack(s, t)) /\ PutBack(s, t).text = s.text
         /\ PutBack(s, t).end = s.end /\ Len(PutBack(s, t).back) = Len(s.back) + 1
         /\ PutBack(s, t).back[Len(s.back) + 1] = t
         /\ \A E : Reads(s, Past(t, E)) => Reads(PutBack(s, t), E)
<1> DEFINE p == PutBack(s, t)
           c == Append(s.back, t)
<1>1. /\ s.text \in Texts /\ Len(s.back) \in 0..2 /\ (s.back = <<>> <=> Len(s.back) = 0)
      /\ s.back \in Seq(AnyToken)
      /\ \A i \in 1..Len(s.back) : s.back[i] \in Ahead
      /\ \A r \in Futures(s) : r \in Texts /\ Unread(s, r) \in Texts
      /\ s = [text |-> s.text, end |-> s.end, back |-> s.back]
  BY StreamTexts
<1>2. p = [text |-> s.text, end |-> s.end, back |-> c]
  BY <1>1 DEF PutBack
<1>3. p.text = s.text /\ p.end = s.end /\ p.back = c
  BY <1>2
<1>4. Len(s.back) = 0 \/ Len(s.back) = 1
  BY <1>1
<1>5. /\ Len(c) = Len(s.back) + 1 /\ c[Len(s.back) + 1] = t
      /\ \A i \in 1..Len(s.back) : c[i] = s.back[i]
  <2>1. s.back \in Seq(AnyToken \cup {t}) /\ t \in AnyToken \cup {t}
    BY <1>1
  <2> QED BY <2>1, AppendProperties
<1>6. t \in AnyToken
  <2>1. CASE t = EndOfText
    BY <2>1 DEF AnyToken
  <2>2. CASE t \in ToSet(s.text)
    <3>1. s.text \in Seq(Tokens)
      BY DEF StreamGood, StreamOK
    <3>2. PICK i \in DOMAIN s.text : t = s.text[i]
      BY <2>2 DEF ToSet
    <3> QED BY <3>1, <3>2, ElementOfSeq, LenProperties DEF AnyToken
  <2> QED BY <2>1, <2>2
<1>7. StreamOK(p)
  <2>1. Len(s.back) <= 1
    <3>1. 0 <= 1 /\ 1 <= 1
      OBVIOUS
    <3> QED BY <1>4, <3>1, Zenon
  <2> QED BY <1>6, <2>1, PutBackFacts DEF StreamGood
<1>8. QueryWords \cup {"not"} \subseteq Alphabet /\ EndOfText \notin Alphabet
  BY TokensDiffer, AreTexts DEF AllOperators
<1> HIDE DEF p, c
<1>9. CASE s.back = <<>>
  <2>1. Len(c) = 1 /\ c[1] = t /\ c # <<>>
    <3>1. Len(s.back) = 0 /\ 0 + 1 = 1
      BY <1>1, <1>9
    <3>2. Len(c) = 1 /\ c[1] = t
      BY <1>5, <3>1
    <3> QED BY <3>2, LenProperties
  <2>2. s.end <=> t = EndOfText
    BY <1>1, <1>9
  <2>3. StackOK(p)
    <3>1. \A i \in 1..Len(c) : i = 1
      BY <2>1
    <3>2. \A i \in 1..Len(c) : c[i] = EndOfText \/ c[i] \in ToSet(s.text)
      BY <2>1, <3>1
    <3> QED BY <1>3, <2>1, <2>2, <3>2 DEF StackOK
  <2>4. \A r : Unread(s, r) = r /\ Unread(p, r) = Before(t, r)
    BY <1>3, <1>9, <2>1 DEF Unread
  <2>5. ASSUME NEW E, Reads(s, Past(t, E)), NEW r \in Futures(s)
        PROVE  s.text \o r \in QueryTexts <=> Before(t, r) \in E
    <3>1. s.text \o r \in QueryTexts <=> r \in Past(t, E)
      BY <2>4, <2>5 DEF Reads
    <3>2. r \in Texts
      BY <1>1
    <3>3. CASE t = EndOfText
      <4>1. r = <<>> /\ Before(t, r) = r
        BY <2>2, <3>3 DEF Futures, Before
      <4> QED BY <3>1, <3>3, <4>1, PastHas
    <3>4. CASE t \in Alphabet
      BY <1>8, <3>1, <3>2, <3>4, PastHas DEF Before
    <3> QED BY <3>3, <3>4 DEF Ahead
  <2>6. \A E : Reads(s, Past(t, E)) => Reads(p, E)
    <3>1. Futures(p) = Futures(s)
      BY <1>3 DEF Futures
    <3> QED BY <1>3, <2>4, <2>5, <3>1 DEF Reads
  <2> QED BY <1>3, <1>5, <1>7, <2>3, <2>6 DEF StreamGood, p
<1>10. CASE Len(s.back) = 1
  <2>1. Len(c) = 2 /\ c[1] = s.back[1] /\ c[2] = t /\ c # <<>> /\ s.back # <<>> /\ Len(c) # 1
    <3>1. 1 + 1 = 2 /\ 1 \in 1..1
      OBVIOUS
    <3>2. Len(c) = 2 /\ c[1] = s.back[1] /\ c[2] = t
      BY <1>5, <1>10, <3>1
    <3> QED BY <1>1, <1>10, <3>2, LenProperties
  <2>2. t \in QueryWords \cup {"not"} /\ t \in Alphabet /\ t # EndOfText
    BY <1>1, <1>8, <1>10
  <2>3. StackOK(p)
    <3>1. \A i \in 1..Len(c) : i = 1 \/ i = 2
      BY <2>1
    <3>2. 1 \in 1..Len(s.back)
      BY <1>10
    <3>3. /\ s.end <=> s.back[1] = EndOfText
          /\ s.back[1] = EndOfText \/ s.back[1] \in ToSet(s.text)
      BY <2>1, <3>2 DEF StreamGood, StackOK
    <3>4. \A i \in 1..Len(c) : c[i] = EndOfText \/ c[i] \in ToSet(s.text)
      BY <2>1, <3>1, <3>3
    <3> QED BY <1>3, <2>1, <2>2, <3>3, <3>4 DEF StackOK
  <2>4. \A r : /\ Unread(s, r) = Before(s.back[1], r)
               /\ Unread(p, r) = First(t, Before(s.back[1], r))
    BY <1>3, <1>10, <2>1 DEF Unread
  <2>5. ASSUME NEW E, Reads(s, Past(t, E)), NEW r \in Futures(s)
        PROVE  s.text \o r \in QueryTexts <=> Unread(p, r) \in E
    <3>1. s.text \o r \in QueryTexts <=> Before(s.back[1], r) \in Past(t, E)
      BY <2>4, <2>5 DEF Reads
    <3>2. Before(s.back[1], r) \in Texts
      BY <1>1, <2>4
    <3> QED BY <2>2, <2>4, <3>1, <3>2, PastHas
  <2>6. \A E : Reads(s, Past(t, E)) => Reads(p, E)
    <3>1. Futures(p) = Futures(s)
      BY <1>3 DEF Futures
    <3> QED BY <1>3, <2>5, <3>1 DEF Reads
  <2> QED BY <1>3, <1>5, <1>7, <2>3, <2>6 DEF StreamGood, p
<1> QED BY <1>1, <1>4, <1>9, <1>10

\* A token is taken and put back.
LEMMA TookAndPut ==
  ASSUME NEW s, StreamGood(s), NEW e \in Extracted(s)
  PROVE  /\ StreamGood(PutBack(e.in, e.token)) /\ PutBack(e.in, e.token).text = e.in.text
         /\ PutBack(e.in, e.token).end = e.in.end
         /\ PutBack(e.in, e.token).back # <<>>
         /\ e.token \notin QueryWords \cup {"not"} =>
              /\ Len(PutBack(e.in, e.token).back) = 1
              /\ PutBack(e.in, e.token).back[1] = e.token
         /\ \A E : Reads(e.in, Past(e.token, E)) => Reads(PutBack(e.in, e.token), E)
<1>1. /\ StreamGood(e.in) /\ e.token \in Ahead
      /\ e.token # EndOfText => e.token \in ToSet(e.in.text)
      /\ e.in.back # <<>> => e.token \in QueryWords \cup {"not"}
      /\ e.in.back = <<>> => (e.in.end <=> e.token = EndOfText)
      /\ Len(e.in.back) <= 1
  BY Took
<1>2. Len(e.in.back) \in 0..2 /\ (e.in.back = <<>> <=> Len(e.in.back) = 0)
  BY <1>1, StreamTexts
<1>3. \/ e.in.back = <<>> /\ (e.in.end <=> e.token = EndOfText)
      \/ Len(e.in.back) = 1 /\ e.token \in QueryWords \cup {"not"}
  <2>1. e.in.back # <<>> => Len(e.in.back) = 1
    BY <1>1, <1>2
  <2> QED BY <1>1, <2>1
<1>4. /\ StreamGood(PutBack(e.in, e.token)) /\ PutBack(e.in, e.token).text = e.in.text
      /\ PutBack(e.in, e.token).end = e.in.end
      /\ Len(PutBack(e.in, e.token).back) = Len(e.in.back) + 1
      /\ PutBack(e.in, e.token).back[Len(e.in.back) + 1] = e.token
      /\ \A E : Reads(e.in, Past(e.token, E)) => Reads(PutBack(e.in, e.token), E)
  BY <1>1, <1>3, PutOne
<1>5. PutBack(e.in, e.token).back # <<>>
  <2>1. Len(e.in.back) + 1 # 0
    BY <1>2
  <2> QED BY <1>4, <2>1, StreamTexts
<1>6. e.in.back = <<>> => Len(e.in.back) + 1 = 1
  BY <1>2
<1> QED BY <1>1, <1>4, <1>5, <1>6

\* Two tokens are taken and put back.
LEMMA TookAndPutTwo ==
  ASSUME NEW s, StreamGood(s), NEW e \in Extracted(s), NEW f \in Extracted(e.in),
         e.token \in QueryWords \cup {"not"}
  PROVE  /\ StreamGood(PutBack(PutBack(f.in, f.token), e.token))
         /\ PutBack(PutBack(f.in, f.token), e.token).text = f.in.text
         /\ \A E : Reads(f.in, Past(f.token, Past(e.token, E)))
                     => Reads(PutBack(PutBack(f.in, f.token), e.token), E)
<1>1. /\ StreamGood(e.in) /\ e.token \in Ahead
      /\ e.token # EndOfText => e.token \in ToSet(e.in.text)
      /\ Len(e.in.back) <= 1
  BY Took
<1>2. /\ StreamGood(f.in) /\ f.token \in Ahead /\ ToSet(e.in.text) \subseteq ToSet(f.in.text)
      /\ f.token # EndOfText => f.token \in ToSet(f.in.text)
      /\ f.in.back = <<>> /\ (f.in.end <=> f.token = EndOfText)
  BY <1>1, Took
<1> DEFINE p == PutBack(f.in, f.token)
<1>3. /\ StreamGood(p) /\ p.text = f.in.text /\ Len(p.back) = Len(f.in.back) + 1
      /\ \A E : Reads(f.in, Past(f.token, E)) => Reads(p, E)
  BY <1>2, PutOne
<1>4. Len(p.back) = 1
  <2>1. Len(f.in.back) = 0
    BY <1>2
  <2> HIDE DEF p
  <2> QED BY <1>3, <2>1
<1> HIDE DEF p
<1>5. e.token \in ToSet(p.text)
  <2>1. e.token # EndOfText
    BY TokensDiffer, AreTexts DEF AllOperators
  <2> QED BY <1>1, <1>2, <1>3, <2>1
<1>6. /\ StreamGood(PutBack(p, e.token)) /\ PutBack(p, e.token).text = p.text
      /\ \A E : Reads(p, Past(e.token, E)) => Reads(PutBack(p, e.token), E)
  BY <1>1, <1>3, <1>4, <1>5, PutOne
<1> QED BY <1>3, <1>6 DEF p

-----------------------------------------------------------------------------
(***************************************************************************)
(* The callers.  Each has a part of the text still to come after what it   *)
(* waits for, before what the caller below it waits for: parse_primary()   *)
(* a ")", parse_query2() the rest of its query.                            *)
(***************************************************************************)

QueryKinds == {"first operand", "right operand", "operator"}

Resume(at, X) ==
  IF at = "not" THEN X ELSE IF at = "parenthesis" THEN Closed(X) ELSE Cat(Rests, X)

\* parse_query2() is called by parse_query() or for what is in parentheses.
Waits(c, X) ==
  \E K \in [0..Len(c) -> SUBSET Texts] :
    /\ K[0] = {<<>>} /\ K[Len(c)] = X
    /\ \A i \in 1..Len(c) : /\ K[i] = Resume(c[i].at, K[i - 1])
                            /\ c[i].at \in QueryKinds => i = 1 \/ c[i - 1].at = "parenthesis"
    /\ \A i \in 0..Len(c) : NoEquals(K[i])

\* What may come where a caller goes on
LEMMA ResumeFacts ==
  ASSUME NEW X \in SUBSET Texts, NoEquals(X), NEW at
  PROVE  Resume(at, X) \in SUBSET Texts /\ NoEquals(Resume(at, X))
<1>1. "=" \in Alphabet /\ ")" \in Alphabet /\ "not" \in Alphabet /\ "near" \in Alphabet
      /\ {"and", "or", "near"} \subseteq Alphabet
  BY AreTexts DEF AllOperators
<1>2. Closed(X) \in SUBSET Texts /\ Cat(Rests, X) \in SUBSET Texts
  BY AreTexts, CatFacts
<1>3. Cat(MetaTexts, Cat(Rests, X)) \in SUBSET Texts
  BY <1>2, AreTexts, CatFacts
<1>4. NoEquals(Closed(X))
  <2>1. \A v \in Texts, x \in X : First("=", v) # First(")", x)
    BY <1>1, FirstSame
  <2> QED BY <2>1 DEF NoEquals, Closed
<1>5. NoEquals(Cat(Rests, X))
  <2> SUFFICES ASSUME NEW v \in Texts PROVE First("=", v) \notin Cat(Rests, X)
    BY DEF NoEquals
  <2> DEFINE M == Cat(MetaTexts, Cat(Rests, X))
  <2>1. First("=", v) \notin X /\ First("=", v) \notin M
    BY <1>2, MetaBegins DEF NoEquals
  <2>2. \A t \in {"and", "or", "near"}, y \in M : First("=", v) # First(t, y)
    BY <1>1, <1>3, FirstSame
  <2>3. ASSUME NEW y \in M PROVE First("=", v) # First("not", First("near", y))
    <3>1. First("near", y) \in Texts
      BY <1>1, <1>3, FirstSame
    <3> QED BY <1>1, <3>1, FirstSame
  <2>4. First("=", v) \in Cat(Rests, X) <=>
          \/ First("=", v) \in X \cup M
          \/ \E t \in {"and", "or", "near"}, y \in M : First("=", v) = First(t, y)
          \/ \E y \in M : First("=", v) = First("not", First("near", y))
    BY RestThen
  <2> HIDE DEF M
  <2> QED BY <2>1, <2>2, <2>3, <2>4
<1> QED BY <1>2, <1>4, <1>5 DEF Resume

\* Nothing comes after the whole text.
LEMMA WaitsNone == Waits(<<>>, {<<>>})
<1> DEFINE K == [i \in 0..0 |-> {<<>>}]
<1>1. <<>> \in Texts /\ \A v \in Texts : First("=", v) # <<>>
  BY Joined, AreTexts, FirstSame DEF Relops, AllOperators
<1>2. K \in [0..0 -> SUBSET Texts] /\ K[0] = {<<>>} /\ NoEquals({<<>>})
  BY <1>1 DEF NoEquals
<1>3. Len(<<>>) = 0 /\ (\A i \in 1..0 : FALSE) /\ \A i \in 0..0 : i = 0
  OBVIOUS
<1> HIDE DEF K
<1> QED BY <1>2, <1>3 DEF Waits

\* What may come is text that does not begin with "=".
LEMMA WaitsText ==
  ASSUME NEW c, CallsOK(c), NEW X, Waits(c, X)
  PROVE  X \in SUBSET Texts /\ NoEquals(X) /\ (c = <<>> => X = {<<>>})
<1>1. Len(c) \in Nat /\ (c = <<>> => Len(c) = 0)
  BY LenProperties, EmptySeq DEF CallsOK
<1>2. PICK K \in [0..Len(c) -> SUBSET Texts] :
        K[0] = {<<>>} /\ K[Len(c)] = X /\ \A i \in 0..Len(c) : NoEquals(K[i])
  BY DEF Waits
<1>3. Len(c) \in 0..Len(c)
  BY <1>1
<1> QED BY <1>1, <1>2, <1>3

\* One more caller waits.
LEMMA WaitsPushed ==
  ASSUME NEW c, CallsOK(c), NEW X, Waits(c, X), NEW f,
         f.at \in QueryKinds => c = <<>> \/ c[Len(c)].at = "parenthesis"
  PROVE  Waits(Append(c, f), Resume(f.at, X))
<1>1. Len(c) \in Nat /\ (c = <<>> => Len(c) = 0)
  BY LenProperties, EmptySeq DEF CallsOK
<1>2. PICK K \in [0..Len(c) -> SUBSET Texts] :
        /\ K[0] = {<<>>} /\ K[Len(c)] = X
        /\ \A i \in 1..Len(c) : /\ K[i] = Resume(c[i].at, K[i - 1])
                                /\ c[i].at \in QueryKinds => i = 1 \/ c[i - 1].at = "parenthesis"
        /\ \A i \in 0..Len(c) : NoEquals(K[i])
  BY DEF Waits
<1> DEFINE d == Append(c, f)
           n == Len(c) + 1
           Z == Resume(f.at, X)
           L == [i \in 0..n |-> IF i = n THEN Z ELSE K[i]]
<1>3. /\ Len(d) = n /\ d[n] = f
      /\ \A i \in 1..Len(c) : d[i] = c[i]
  <2>1. PICK S : c \in Seq(S)
    BY DEF CallsOK
  <2>2. c \in Seq(S \cup {f}) /\ f \in S \cup {f}
    BY <2>1
  <2> QED BY <2>2, AppendProperties
<1>4. X \in SUBSET Texts /\ NoEquals(X)
  BY WaitsText
<1>5. Z \in SUBSET Texts /\ NoEquals(Z)
  BY <1>4, ResumeFacts
<1>6. /\ n \in Nat \ {0} /\ n - 1 = Len(c) /\ n \in 0..n /\ 0 \in 0..n /\ n # 0
      /\ \A i \in 0..n : i = n \/ i \in 0..Len(c)
      /\ \A i \in 0..Len(c) : i \in 0..n /\ i # n
      /\ \A i \in 1..n : i = n \/ i \in 1..Len(c)
      /\ \A i \in 1..Len(c) : i \in 0..Len(c) /\ i - 1 \in 0..Len(c)
      /\ \A i \in 1..Len(c) : i # 1 => i - 1 \in 1..Len(c)
      /\ 0 \in 0..Len(c) /\ Len(c) \in 0..Len(c)
      /\ Len(c) # 0 => Len(c) \in 1..Len(c)
      /\ Len(c) = 0 => n = 1
  BY <1>1
<1> HIDE DEF d, n, Z
<1>7. /\ L \in [0..n -> SUBSET Texts] /\ L[n] = Z
      /\ \A i \in 0..Len(c) : L[i] = K[i]
  BY <1>5, <1>6
<1> HIDE DEF L
<1>8. \A i \in 0..n : NoEquals(L[i])
  BY <1>2, <1>5, <1>6, <1>7
<1>9. \A i \in 1..n : /\ L[i] = Resume(d[i].at, L[i - 1])
                      /\ d[i].at \in QueryKinds => i = 1 \/ d[i - 1].at = "parenthesis"
  <2> TAKE i \in 1..n
  <2>1. CASE i \in 1..Len(c)
    <3>1. L[i] = K[i] /\ L[i - 1] = K[i - 1] /\ d[i] = c[i] /\ (i # 1 => d[i - 1] = c[i - 1])
      BY <1>3, <1>6, <1>7, <2>1
    <3> QED BY <1>2, <2>1, <3>1
  <2>2. CASE i = n
    <3>1. L[i] = Z /\ d[i] = f /\ i - 1 = Len(c) /\ L[i - 1] = X
      BY <1>2, <1>3, <1>6, <1>7, <2>2
    <3>2. f.at \in QueryKinds => i = 1 \/ d[i - 1].at = "parenthesis"
      <4>1. CASE c = <<>>
        BY <1>1, <1>6, <2>2, <4>1
      <4>2. CASE c # <<>> /\ Len(c) # 0
        <5>1. d[i - 1] = c[Len(c)]
          BY <1>3, <1>6, <3>1, <4>2
        <5> QED BY <4>2, <5>1
      <4>3. CASE Len(c) = 0
        BY <1>6, <2>2, <4>3
      <4> QED BY <4>1, <4>2, <4>3
    <3> QED BY <3>1, <3>2 DEF Z
  <2> QED BY <1>6, <2>1, <2>2
<1>10. L[0] = {<<>>}
  BY <1>2, <1>6, <1>7
<1>11. Waits(d, Z)
  BY <1>3, <1>7, <1>8, <1>9, <1>10 DEF Waits
<1> QED BY <1>11 DEF d, Z

\* A caller goes on.
LEMMA WaitsPopped ==
  ASSUME NEW c, CallsOK(c), c # <<>>, NEW X, Waits(c, X)
  PROVE  \E Y \in SUBSET Texts :
           /\ Waits(SubSeq(c, 1, Len(c) - 1), Y) /\ X = Resume(c[Len(c)].at, Y)
           /\ c[Len(c)].at \in QueryKinds =>
                /\ Ends(Y)
                /\ LET b == SubSeq(c, 1, Len(c) - 1)
                   IN b = <<>> \/ b[Len(b)].at = "parenthesis"
<1> DEFINE b == SubSeq(c, 1, Len(c) - 1)
           n == Len(c)
<1>1. n \in Nat \ {0} /\ Len(b) = n - 1 /\ \A i \in 1..(n - 1) : b[i] = c[i]
  <2>1. PICK S : c \in Seq(S)
    BY DEF CallsOK
  <2> QED BY <2>1, FrontFacts
<1>2. PICK K \in [0..n -> SUBSET Texts] :
        /\ K[0] = {<<>>} /\ K[n] = X
        /\ \A i \in 1..n : /\ K[i] = Resume(c[i].at, K[i - 1])
                           /\ c[i].at \in QueryKinds => i = 1 \/ c[i - 1].at = "parenthesis"
        /\ \A i \in 0..n : NoEquals(K[i])
  BY DEF Waits
<1> DEFINE L == [i \in 0..(n - 1) |-> K[i]]
<1>3. /\ n \in 1..n /\ n - 1 \in 0..(n - 1) /\ 0 \in 0..(n - 1) /\ n - 1 \in 0..n
      /\ \A i \in 0..(n - 1) : i \in 0..n
      /\ \A i \in 1..(n - 1) : i \in 1..n /\ i \in 0..(n - 1) /\ i - 1 \in 0..(n - 1)
      /\ \A i \in 1..(n - 1) : i # 1 => i - 1 \in 1..(n - 1)
      /\ n # 1 => n - 1 \in 1..(n - 1) /\ n - 1 # 0 /\ n - 1 \in 1..n /\ (n - 1) - 1 \in 0..n
      /\ n = 1 => n - 1 = 0
  BY <1>1
<1> HIDE DEF b, n
<1>4. L \in [0..(n - 1) -> SUBSET Texts] /\ \A i \in 0..(n - 1) : L[i] = K[i]
  BY <1>3
<1> HIDE DEF L
<1>5. \A i \in 1..(n - 1) : /\ L[i] = Resume(b[i].at, L[i - 1])
                            /\ b[i].at \in QueryKinds => i = 1 \/ b[i - 1].at = "parenthesis"
  <2> TAKE i \in 1..(n - 1)
  <2>1. L[i] = K[i] /\ L[i - 1] = K[i - 1] /\ b[i] = c[i] /\ (i # 1 => b[i - 1] = c[i - 1])
    BY <1>1, <1>3, <1>4
  <2> QED BY <1>2, <1>3, <2>1
<1>6. Waits(b, K[n - 1])
  <2>1. /\ L[0] = {<<>>} /\ L[n - 1] = K[n - 1]
        /\ \A i \in 0..(n - 1) : NoEquals(L[i])
    BY <1>2, <1>3, <1>4
  <2> QED BY <1>1, <1>4, <1>5, <2>1 DEF Waits
<1>7. K[n - 1] \in SUBSET Texts /\ X = Resume(c[n].at, K[n - 1])
  BY <1>2, <1>3
<1>8. ASSUME c[n].at \in QueryKinds
      PROVE  Ends(K[n - 1]) /\ (b = <<>> \/ b[Len(b)].at = "parenthesis")
  <2>1. CASE n = 1
    <3>1. K[n - 1] = {<<>>} /\ Len(b) = 0
      BY <1>1, <1>2, <1>3, <2>1
    <3>2. b = <<>>
      <4>1. PICK S : c \in Seq(S)
        BY DEF CallsOK
      <4>2. b \in Seq(S)
        BY <4>1, FrontFacts DEF b
      <4> QED BY <3>1, <4>2, EmptySeq
    <3> QED BY <3>1, <3>2 DEF Ends
  <2>2. CASE n # 1
    <3>1. c[n - 1].at = "parenthesis" /\ b[Len(b)] = c[n - 1]
      BY <1>1, <1>2, <1>3, <1>8, <2>2
    <3>2. K[n - 1] = Resume("parenthesis", K[(n - 1) - 1]) /\ K[(n - 1) - 1] \in SUBSET Texts
      BY <1>2, <1>3, <2>2, <3>1
    <3>3. Ends(K[n - 1])
      BY <3>2 DEF Ends, Resume, Closed
    <3> QED BY <3>1, <3>3
  <2> QED BY <2>1, <2>2
<1> QED BY <1>6, <1>7, <1>8 DEF b, n

-----------------------------------------------------------------------------
(***************************************************************************)
(* A node for "not", and a relop with "near" in it, come from such a token *)
(* in the text.  H is the set of tokens of the text read.                  *)
(***************************************************************************)

ResultGood(r, H) ==
  /\ r = [node |-> r.node, ignore |-> r.ignore, ands |-> r.ands]
  /\ r.node.op = "not" => "not" \in H

FrameGood(f, H) ==
  /\ f.at \in {"operator", "right operand"} => ResultGood(f.lhs, H)
  /\ f.at = "not" => "not" \in H
  /\ f.at = "right operand" => /\ f.relop \in {"and", "or", "near", "not near"}
                               /\ f.relop \in {"near", "not near"} => "near" \in H

FramesGood(c, H) == \A i \in 1..Len(c) : FrameGood(c[i], H)

\* Of more text, what is said holds as well.
LEMMA FramesGrow ==
  ASSUME NEW H, NEW G, H \subseteq G
  PROVE  /\ \A c : FramesGood(c, H) => FramesGood(c, G)
         /\ \A r : ResultGood(r, H) => ResultGood(r, G)
BY DEF FramesGood, FrameGood, ResultGood

\* One caller more, one less
LEMMA FramesPushed ==
  ASSUME NEW c, CallsOK(c), NEW H, FramesGood(c, H)
  PROVE  /\ \A f : FrameGood(f, H) => FramesGood(Append(c, f), H)
         /\ c # <<>> => FramesGood(SubSeq(c, 1, Len(c) - 1), H) /\ FrameGood(c[Len(c)], H)
<1>1. PICK S : c \in Seq(S)
  BY DEF CallsOK
<1>2. ASSUME NEW f, FrameGood(f, H) PROVE FramesGood(Append(c, f), H)
  <2>1. c \in Seq(S \cup {f}) /\ f \in S \cup {f}
    BY <1>1
  <2>2. /\ Len(Append(c, f)) = Len(c) + 1 /\ Len(c) \in Nat
        /\ \A i \in 1..Len(c) : Append(c, f)[i] = c[i]
        /\ Append(c, f)[Len(c) + 1] = f
    BY <2>1, AppendProperties, LenProperties
  <2>3. \A i \in 1..(Len(c) + 1) : i = Len(c) + 1 \/ i \in 1..Len(c)
    BY <2>2
  <2> QED BY <1>2, <2>2, <2>3 DEF FramesGood
<1>3. ASSUME c # <<>>
      PROVE  FramesGood(SubSeq(c, 1, Len(c) - 1), H) /\ FrameGood(c[Len(c)], H)
  <2>1. /\ Len(SubSeq(c, 1, Len(c) - 1)) = Len(c) - 1 /\ Len(c) \in Nat \ {0}
        /\ \A i \in 1..(Len(c) - 1) : SubSeq(c, 1, Len(c) - 1)[i] = c[i]
    BY <1>1, <1>3, FrontFacts
  <2>2. Len(c) \in 1..Len(c) /\ \A i \in 1..(Len(c) - 1) : i \in 1..Len(c)
    BY <2>1
  <2> QED BY <2>1, <2>2 DEF FramesGood
<1> QED BY <1>2, <1>3

\* A result is good if its node is.
LEMMA MadeGood ==
  ASSUME NEW H, NEW n, NEW g, NEW a, n.op = "not" => "not" \in H
  PROVE  ResultGood([node |-> n, ignore |-> g, ands |-> a], H)
<1> DEFINE r == [node |-> n, ignore |-> g, ands |-> a]
<1>1. r.node = n /\ r = [node |-> r.node, ignore |-> r.ignore, ands |-> r.ands]
  OBVIOUS
<1> HIDE DEF r
<1>2. ResultGood(r, H)
  BY <1>1 DEF ResultGood
<1> QED BY <1>2 DEF r

\* Operands joined by a relop are a node for that relop, or one of them.
LEMMA JoinGood ==
  ASSUME NEW H, NEW l, NEW r, NEW op \in {"and", "or", "near", "not near"},
         ResultGood(l, H), ResultGood(r, H)
  PROVE  ResultGood(Join(l, op, r), H) /\ ResultGood(Ended(l), H)
<1>1. ASSUME l.ignore PROVE ResultGood(Join(l, op, r), H)
  <2>1. CASE r.ignore
    <3>1. Join(l, op, r) = l
      BY <1>1, <2>1 DEF Join
    <3> QED BY <3>1
  <2>2. CASE ~r.ignore
    <3>1. Join(l, op, r) = [r EXCEPT !.ands = l.ands]
      BY <1>1, <2>2 DEF Join
    <3>2. r = [node |-> r.node, ignore |-> r.ignore, ands |-> r.ands]
      BY DEF ResultGood
    <3>3. Join(l, op, r) = [node |-> r.node, ignore |-> r.ignore, ands |-> l.ands]
      BY <3>1, <3>2
    <3>4. r.node.op = "not" => "not" \in H
      BY DEF ResultGood
    <3>5. ResultGood([node |-> r.node, ignore |-> r.ignore, ands |-> l.ands], H)
      BY <3>4, MadeGood
    <3> QED BY <3>3, <3>5
  <2> QED BY <2>1, <2>2
<1>2. ASSUME ~l.ignore PROVE ResultGood(Join(l, op, r), H)
  <2>1. CASE r.ignore
    <3>1. Join(l, op, r) = l
      BY <1>2, <2>1 DEF Join
    <3> QED BY <3>1
  <2>2. CASE ~r.ignore /\ op = "and"
    <3>1. Join(l, op, r) = [l EXCEPT !.ands = Append(@, r.node)]
      BY <1>2, <2>2 DEF Join
    <3>2. l = [node |-> l.node, ignore |-> l.ignore, ands |-> l.ands]
      BY DEF ResultGood
    <3> DEFINE a == Append(l.ands, r.node)
    <3>3. Join(l, op, r) = [node |-> l.node, ignore |-> l.ignore, ands |-> a]
      BY <3>1, <3>2
    <3> HIDE DEF a
    <3>4. l.node.op = "not" => "not" \in H
      BY DEF ResultGood
    <3>5. ResultGood([node |-> l.node, ignore |-> l.ignore, ands |-> a], H)
      BY <3>4, MadeGood
    <3> QED BY <3>3, <3>5
  <2>3. CASE ~r.ignore /\ op # "and"
    <3>1. Join(l, op, r) = Result(Node(op, <<Left(l), r.node>>))
      BY <1>2, <2>3 DEF Join
    <3> DEFINE n == Node(op, <<Left(l), r.node>>)
    <3>2. n.op = op /\ op # "not"
      BY DEF Node
    <3>3. Join(l, op, r) = [node |-> n, ignore |-> FALSE, ands |-> <<>>]
      BY <3>1 DEF Result
    <3> HIDE DEF n
    <3> QED BY <3>2, <3>3, MadeGood
  <2> QED BY <2>1, <2>2, <2>3
<1>3. ResultGood(Ended(l), H)
  <2>1. CASE l.ands = <<>>
    <3>1. Ended(l) = l
      BY <2>1 DEF Ended
    <3> QED BY <3>1
  <2>2. CASE l.ands # <<>>
    <3> DEFINE n == Node("and", Append(l.ands, l.node))
    <3>1. l = [node |-> l.node, ignore |-> l.ignore, ands |-> l.ands]
      BY DEF ResultGood
    <3>2. Ended(l) = [l EXCEPT !.node = n, !.ands = <<>>] /\ n.op = "and"
      BY <2>2 DEF Ended, Node
    <3> HIDE DEF n
    <3>3. Ended(l) = [node |-> n, ignore |-> l.ignore, ands |-> <<>>]
      BY <3>1, <3>2
    <3>4. ResultGood([node |-> n, ignore |-> l.ignore, ands |-> <<>>], H)
      BY <3>2, MadeGood
    <3> QED BY <3>3, <3>4
  <2> QED BY <2>1, <2>2
<1>4. ResultGood(Join(l, op, r), H)
  BY <1>1, <1>2
<1> QED BY <1>3, <1>4

\* What the parser calls nonsense has both of "near" and "not".
LEMMA NonsenseHas ==
  ASSUME NEW H, NEW f, NEW r, FrameGood(f, H), f.at = "right operand", ResultGood(r, H),
         Nonsense(f.lhs, f.relop, r)
  PROVE  {"near", "not"} \subseteq H
<1>1. "near" \in H /\ ResultGood(f.lhs, H)
  BY DEF FrameGood, Nonsense
<1>2. "not" \in {Left(f.lhs).op, r.node.op}
  BY DEF Nonsense
<1>3. CASE Left(f.lhs).op = "not"
  <2>1. f.lhs.node.op = "not"
    BY <1>3 DEF Left, Node
  <2> QED BY <1>1, <2>1 DEF ResultGood
<1>4. CASE r.node.op = "not"
  BY <1>1, <1>4 DEF ResultGood
<1> QED BY <1>1, <1>2, <1>3, <1>4

\* The stream is good after every step, and no less text was read.
LEMMA GoodStep ==
  ASSUME StreamGood(in), [ParserNext \/ EndQuery]_parserVars
  PROVE  StreamGood(in') /\ ToSet(in.text) \subseteq ToSet(in'.text)
<1>1. CASE ParseMeta
  <2>1. PICK e \in Extracted(in) :
          \/ in' = PutBack(e.in, e.token)
          \/ e.token \in QueryWords /\ \E f \in Extracted(e.in) :
               in' = f.in \/ in' = PutBack(PutBack(f.in, f.token), e.token)
    BY <1>1 DEF ParseMeta
  <2>2. StreamGood(e.in) /\ ToSet(in.text) \subseteq ToSet(e.in.text)
    BY Took
  <2>3. CASE in' = PutBack(e.in, e.token)
    BY <2>2, <2>3, TookAndPut
  <2>4. ASSUME NEW f \in Extracted(e.in), e.token \in QueryWords,
               in' = f.in \/ in' = PutBack(PutBack(f.in, f.token), e.token)
        PROVE  StreamGood(in') /\ ToSet(in.text) \subseteq ToSet(in'.text)
    <3>1. StreamGood(f.in) /\ ToSet(in.text) \subseteq ToSet(f.in.text)
      BY <2>2, Took
    <3> QED BY <2>2, <2>4, <3>1, TookAndPutTwo
  <2> QED BY <2>1, <2>3, <2>4
<1>2. CASE ParseRelop
  <2>1. PICK e \in Extracted(in) :
          \/ in' = e.in \/ in' = PutBack(e.in, e.token)
          \/ e.token = "not" /\ \E f \in Extracted(e.in) :
               in' = f.in \/ in' = PutBack(PutBack(f.in, f.token), e.token)
    BY <1>2 DEF ParseRelop, Operator
  <2>2. StreamGood(e.in) /\ ToSet(in.text) \subseteq ToSet(e.in.text)
    BY Took
  <2>3. CASE in' = e.in \/ in' = PutBack(e.in, e.token)
    BY <2>2, <2>3, TookAndPut
  <2>4. ASSUME NEW f \in Extracted(e.in), e.token = "not",
               in' = f.in \/ in' = PutBack(PutBack(f.in, f.token), e.token)
        PROVE  StreamGood(in') /\ ToSet(in.text) \subseteq ToSet(in'.text)
    <3>1. StreamGood(f.in) /\ ToSet(in.text) \subseteq ToSet(f.in.text)
      BY <2>2, Took
    <3> QED BY <2>2, <2>4, <3>1, TookAndPutTwo
  <2> QED BY <2>1, <2>3, <2>4
<1>3. CASE NoRelop
  <2>1. PICK e \in Extracted(in) : in' = e.in \/ in' = PutBack(e.in, e.token)
    BY <1>3 DEF NoRelop
  <2> QED BY <2>1, Took, TookAndPut
<1>4. CASE ParseWord \/ ParseLeftParen \/ ParseNot \/ NoPrimary \/ ParenReturns
  <2>1. PICK e \in Extracted(in) : in' = e.in
    BY <1>4 DEF ParseWord, ParseLeftParen, ParseNot, NoPrimary, ParenReturns
  <2> QED BY <2>1, Took
<1>5. CASE FirstReturns \/ RightReturns \/ NotReturns \/ EndQuery \/ UNCHANGED parserVars
  BY <1>5 DEF FirstReturns, RightReturns, NotReturns, EndQuery, parserVars
<1> QED BY <1>1, <1>2, <1>3, <1>4, <1>5 DEF ParserNext

ToldInv ==
  /\ TypeInv /\ StreamGood(in)
  /\ FramesGood(calls, ToSet(in.text)) /\ ResultGood(ret, ToSet(in.text))

\* At first nothing is said.
LEMMA ToldInit == ParserInit => ToldInv
<1> SUFFICES ASSUME ParserInit PROVE ToldInv
  OBVIOUS
<1>1. TypeInv /\ StreamOK(in)
  BY TypeInit, StreamInit DEF StreamInv
<1>2. in.back = <<>> /\ in.end = FALSE /\ calls = <<FirstOperand(NoMeta)>>
      /\ ret = Result(EmptyNode)
  BY DEF ParserInit
<1>3. StackOK(in)
  <2>1. Len(in.back) = 0 /\ \A i \in 1..0 : FALSE
    BY <1>2
  <2> QED BY <1>2, <2>1 DEF StackOK
<1>4. FramesGood(calls, ToSet(in.text))
  <2>1. Len(calls) = 1 /\ \A i \in 1..1 : i = 1
    BY <1>2
  <2>2. FrameGood(calls[1], ToSet(in.text))
    BY <1>2 DEF FirstOperand, Frame, FrameGood
  <2> QED BY <2>1, <2>2 DEF FramesGood
<1>5. ResultGood(ret, ToSet(in.text))
  BY <1>2 DEF Result, EmptyNode, Node, ResultGood
<1> QED BY <1>1, <1>3, <1>4, <1>5 DEF ToldInv, StreamGood

\* Every step says no more than the text.
LEMMA ToldStep == ToldInv /\ [ParserNext \/ EndQuery]_parserVars => ToldInv'
<1> SUFFICES ASSUME ToldInv, [ParserNext \/ EndQuery]_parserVars PROVE ToldInv'
  OBVIOUS
<1> DEFINE H == ToSet(in.text)
           G == ToSet(in'.text)
<1>1. TypeInv' /\ StreamGood(in') /\ H \subseteq G
  BY TypeStep, GoodStep DEF ToldInv
<1> HIDE DEF H, G
<1>2. FramesGood(calls, G) /\ ResultGood(ret, G)
  BY <1>1, FramesGrow DEF ToldInv, H
<1>3. CallsOK(calls) /\ StreamGood(in)
  BY DEF ToldInv, TypeInv
<1>4. calls # <<>> => FramesGood(Below, G) /\ FrameGood(Top, G) /\ CallsOK(Below)
  BY <1>2, <1>3, FramesPushed, Popped DEF Below, Top
<1>5. Running => calls # <<>>
  BY DEF ToldInv, TypeInv
<1> SUFFICES FramesGood(calls', G) /\ ResultGood(ret', G)
  BY <1>1 DEF ToldInv, G
<1>6. CASE ParseMeta \/ NoPrimary \/ EndQuery \/ UNCHANGED parserVars
  BY <1>2, <1>6 DEF ParseMeta, NoPrimary, EndQuery, parserVars
<1>7. CASE ParseWord
  <2>1. ret' = IgnoredResult \/ ret' = Result(EmptyNode) \/ \E w : ret' = Result(WordNode(w, meta))
    BY <1>7 DEF ParseWord
  <2>2. ResultGood(ret', G)
    BY <2>1 DEF ResultGood, IgnoredResult, Result, EmptyNode, Node, WordNode
  <2> QED BY <1>2, <1>7, <2>2 DEF ParseWord
<1>8. CASE ParseLeftParen
  <2> DEFINE f == Frame("parenthesis", meta, EmptyNode, "")
  <2>1. FrameGood(f, G) /\ FrameGood(FirstOperand(meta), G)
    BY DEF Frame, FirstOperand, FrameGood
  <2>2. CallsOK(Append(calls, f))
    <3>1. FrameOK(f) /\ calls # <<>>
      BY <1>5, <1>8, FrameFacts DEF ToldInv, TypeInv, Kinds, ParseLeftParen, Running
    <3> QED BY <1>3, <3>1, Pushed
  <2>3. FramesGood(Append(calls, f), G)
    BY <1>2, <1>3, <2>1, FramesPushed
  <2>4. FramesGood(Append(Append(calls, f), FirstOperand(meta)), G)
    BY <2>1, <2>2, <2>3, FramesPushed
  <2> QED BY <1>2, <1>8, <2>4 DEF ParseLeftParen
<1>9. CASE ParseNot
  <2>1. "not" \in G
    <3>1. PICK e \in Extracted(in) : e.token = "not" /\ in' = e.in
      BY <1>9 DEF ParseNot
    <3> QED BY <1>3, <3>1, Took DEF G, EndOfText
  <2>2. FrameGood(Frame("not", meta, EmptyNode, ""), G)
    BY <2>1 DEF Frame, FrameGood
  <2> QED BY <1>2, <1>3, <1>9, <2>2, FramesPushed DEF ParseNot
<1>10. CASE FirstReturns
  <2>1. calls # <<>> /\ calls' = Append(Below, Frame("operator", Top.meta, ret, "")) /\ ret' = ret
    BY <1>5, <1>10 DEF FirstReturns, Running
  <2>2. FrameGood(Frame("operator", Top.meta, ret, ""), G)
    BY <1>2 DEF Frame, FrameGood
  <2> QED BY <1>2, <1>4, <2>1, <2>2, FramesPushed
<1>11. CASE RightReturns
  <2>1. calls # <<>> /\ ret' = ret /\ Top.at = "right operand"
    BY <1>5, <1>11 DEF RightReturns, Running
  <2> DEFINE f == Frame("operator", Top.meta, Join(Top.lhs, Top.relop, ret), "")
  <2>2. calls' = calls \/ calls' = Append(Below, f)
    BY <1>11 DEF RightReturns
  <2>3. FrameGood(f, G)
    <3>1. ResultGood(Top.lhs, G) /\ Top.relop \in {"and", "or", "near", "not near"}
      BY <1>4, <2>1 DEF FrameGood
    <3>2. ResultGood(Join(Top.lhs, Top.relop, ret), G)
      BY <1>2, <3>1, JoinGood
    <3> QED BY <3>2 DEF Frame, FrameGood
  <2> QED BY <1>2, <1>4, <2>1, <2>2, <2>3, FramesPushed
<1>12. CASE NotReturns
  <2>1. calls # <<>> /\ calls' = Below /\ Top.at = "not" /\ ret' = Result(Node("not", <<ret.node>>))
    BY <1>5, <1>12 DEF NotReturns, Running
  <2>2. "not" \in G
    BY <1>4, <2>1 DEF FrameGood
  <2>3. ResultGood(ret', G)
    BY <2>1, <2>2 DEF ResultGood, Result, Node
  <2> QED BY <1>4, <2>1, <2>3
<1>13. CASE ParenReturns
  <2>1. calls # <<>> /\ ret' = ret /\ (calls' = Below \/ calls' = calls)
    BY <1>5, <1>13 DEF ParenReturns, Running
  <2> QED BY <1>2, <1>4, <2>1
<1>14. CASE ParseRelop
  <2> DEFINE f(op) == Frame("right operand", Top.meta, Top.lhs, op)
  <2>1. PICK e \in Extracted(in) :
          \/ e.token \in {"and", "or", "near"} /\ Operator(e.token, e.in)
          \/ /\ e.token = "not"
             /\ \E g \in Extracted(e.in) : \/ g.token = "near" /\ Operator("not near", g.in)
                                           \/ \E s : Operator("and", s)
          \/ \E s : Operator("and", s)
    BY <1>14 DEF ParseRelop
  <2>2. \E op \in {"and", "or", "near", "not near"} :
          calls' = Append(Below, f(op)) /\ (op \in {"near", "not near"} => "near" \in G)
    <3>1. CASE e.token \in {"and", "or", "near"} /\ Operator(e.token, e.in)
      <4>1. in' = e.in /\ calls' = Append(Below, f(e.token))
        BY <3>1 DEF Operator
      <4>2. e.token = "near" => "near" \in G
        BY <1>3, <4>1, Took DEF G, EndOfText
      <4> QED BY <3>1, <4>1, <4>2
    <3>2. ASSUME NEW g \in Extracted(e.in), g.token = "near", Operator("not near", g.in)
          PROVE  calls' = Append(Below, f("not near")) /\ "near" \in G
      <4>1. in' = g.in /\ calls' = Append(Below, f("not near"))
        BY <3>2 DEF Operator
      <4>2. StreamGood(e.in)
        BY <1>3, Took
      <4>3. "near" \in G
        BY <3>2, <4>1, <4>2, Took DEF G, EndOfText
      <4> QED BY <4>1, <4>3
    <3>3. ASSUME NEW s, Operator("and", s) PROVE calls' = Append(Below, f("and"))
      BY <3>3 DEF Operator
    <3> HIDE DEF f
    <3>4. CASE \E s : Operator("and", s)
      BY <3>3, <3>4
    <3>5. CASE \E g \in Extracted(e.in) : g.token = "near" /\ Operator("not near", g.in)
      BY <3>2, <3>5
    <3> QED BY <2>1, <3>1, <3>4, <3>5
  <2>3. PICK op \in {"and", "or", "near", "not near"} :
          calls' = Append(Below, f(op)) /\ (op \in {"near", "not near"} => "near" \in G)
    BY <2>2
  <2>4. calls # <<>> /\ Top.at = "operator" /\ ret' = ret
    BY <1>5, <1>14 DEF ParseRelop, Operator, Running, ToldInv, TypeInv
  <2>5. FrameGood(f(op), G)
    BY <1>4, <2>3, <2>4 DEF Frame, FrameGood
  <2> QED BY <1>2, <1>4, <2>3, <2>4, <2>5, FramesPushed
<1>15. CASE NoRelop
  <2>1. calls # <<>> /\ Top.at = "operator" /\ calls' = Below /\ ret' = Ended(Top.lhs)
    BY <1>5, <1>15 DEF NoRelop, Running, ToldInv, TypeInv
  <2>2. ResultGood(Top.lhs, G)
    BY <1>4, <2>1 DEF FrameGood
  <2>3. ResultGood(ret', G)
    BY <2>1, <2>2, JoinGood
  <2> QED BY <1>4, <2>1, <2>3
<1> QED
  BY <1>6, <1>7, <1>8, <1>9, <1>10, <1>11, <1>12, <1>13, <1>14, <1>15 DEF ParserNext

-----------------------------------------------------------------------------
(***************************************************************************)
(* The parser.  Where it is, and what its callers wait for, say which      *)
(* texts may come: those that make the whole text a query, and no others.  *)
(***************************************************************************)

\* What may come at a function of the parser before what may come after it
Still(p, X) ==
  IF p = "meta" THEN Cat(MetaTexts, X)
  ELSE IF p = "primary" THEN Cat(PrimaryTexts, X) ELSE X

OnItsWay(c, p, s) == \E X : Waits(c, X) /\ Reads(s, Still(p, X))

GrammarInv ==
  /\ Running => OnItsWay(calls, pc, in)
  /\ pc = "parsed" =>
       /\ Reads(in, {<<>>})
       /\ in.end => in.back = <<>>
       /\ ~in.end => Len(in.back) = 1 /\ in.back[1] = ")"
  /\ pc = "malformed" => Reads(in, {}) \/ {"near", "not"} \subseteq ToSet(in.text)
  /\ pc = "answered" => in.text \in QueryTexts

\* Nothing comes after the texts of a set.
LEMMA CatNone ==
  ASSUME NEW A \in SUBSET Texts
  PROVE  Cat(A, {<<>>}) = A
<1>1. <<>> \in Texts /\ \A a \in A : a \o <<>> = a
  BY Joined, AreTexts DEF Relops
<1> DEFINE B == {<<>>}
<1>2. \A b : b \in B <=> b = <<>>
  OBVIOUS
<1> HIDE DEF B
<1>3. ASSUME NEW s \in Cat(A, B) PROVE s \in A
  <2>1. PICK a \in A, b \in B : s = a \o b
    BY <1>3, CatHas
  <2> QED BY <1>1, <1>2, <2>1
<1>4. ASSUME NEW s \in A PROVE s \in Cat(A, B)
  <2>1. s = s \o <<>> /\ <<>> \in B
    BY <1>1, <1>2
  <2> QED BY <2>1, CatHas
<1>5. Cat(A, B) = A
  BY <1>3, <1>4
<1> QED BY <1>5 DEF B

\* Where a ")" is to come
LEMMA PastClosed ==
  ASSUME NEW Y \in SUBSET Texts
  PROVE  Past(")", Closed(Y)) = Y /\ \A t \in Ahead \ {")"} : Past(t, Closed(Y)) = {}
<1>1. ")" \in Alphabet /\ EndOfText \notin Alphabet
  BY AreTexts DEF AllOperators
<1>2. \A s : s \in Closed(Y) <=> \E y \in Y : s = First(")", y)
  BY DEF Closed
<1>3. \A v : v \in Past(")", Closed(Y)) <=> v \in Y
  <2>1. \A v \in Texts, y \in Y : First(")", v) = First(")", y) <=> v = y
    BY <1>1, FirstSame
  <2> QED BY <1>1, <1>2, <2>1, PastHas
<1>4. ASSUME NEW t \in Ahead \ {")"}, NEW v PROVE v \notin Past(t, Closed(Y))
  <2>1. CASE t = EndOfText
    <3>1. \A y \in Y : First(")", y) # <<>>
      BY <1>1, FirstSame
    <3> QED BY <1>2, <2>1, <3>1, PastHas
  <2>2. CASE t \in Alphabet
    <3>1. \A w \in Texts, y \in Y : First(t, w) # First(")", y)
      BY <1>1, <1>4, <2>2, FirstSame
    <3> QED BY <1>2, <2>2, <3>1, PastHas
  <2> QED BY <2>1, <2>2 DEF Ahead
<1> QED BY <1>3, <1>4

\* At the end of the text nothing may come.
LEMMA AtEnd ==
  ASSUME NEW s, s.end, s.back = <<>>, NEW E, Reads(s, Past(EndOfText, E))
  PROVE  Reads(s, E)
<1>1. ASSUME NEW r \in Futures(s) PROVE s.text \o r \in QueryTexts <=> Unread(s, r) \in E
  <2>1. r = <<>> /\ Unread(s, r) = r
    BY DEF Futures, Unread
  <2>2. s.text \o r \in QueryTexts <=> r \in Past(EndOfText, E)
    BY <1>1, <2>1 DEF Reads
  <2> QED BY <2>1, <2>2, PastHas
<1> QED BY <1>1 DEF Reads

\* parse_query2() goes on and waits again.
LEMMA TopReplaced ==
  ASSUME NEW c, CallsOK(c), c # <<>>, NEW X, Waits(c, X), c[Len(c)].at \in QueryKinds,
         NEW f, f.at \in QueryKinds
  PROVE  \E Y \in SUBSET Texts :
           /\ Waits(Append(SubSeq(c, 1, Len(c) - 1), f), X)
           /\ Waits(SubSeq(c, 1, Len(c) - 1), Y)
           /\ X = Cat(Rests, Y) /\ Ends(Y)
<1> DEFINE b == SubSeq(c, 1, Len(c) - 1)
<1>1. PICK Y \in SUBSET Texts :
        /\ Waits(b, Y) /\ X = Resume(c[Len(c)].at, Y) /\ Ends(Y)
        /\ b = <<>> \/ b[Len(b)].at = "parenthesis"
  BY WaitsPopped
<1>2. CallsOK(b)
  BY Popped
<1> HIDE DEF b
<1>3. Waits(Append(b, f), Resume(f.at, Y))
  BY <1>1, <1>2, WaitsPushed
<1>4. \A at \in QueryKinds : Resume(at, Y) = Cat(Rests, Y)
  BY DEF Resume, QueryKinds
<1>5. X = Cat(Rests, Y) /\ Waits(Append(b, f), X)
  BY <1>1, <1>3, <1>4
<1> QED BY <1>1, <1>5 DEF b

\* The parser begins before a whole query.
LEMMA GrammarInit == ParserInit => GrammarInv
<1> SUFFICES ASSUME ParserInit PROVE GrammarInv
  OBVIOUS
<1> DEFINE f == FirstOperand(NoMeta)
           X == Cat(Rests, {<<>>})
<1>1. /\ in.text = <<>> /\ in.end = FALSE /\ in.back = <<>>
      /\ pc = "meta" /\ calls = <<f>> /\ f.at = "first operand"
  BY DEF ParserInit, FirstOperand, Frame
<1>2. CallsOK(<<>>) /\ Append(<<>>, f) = <<f>>
  BY DEF CallsOK
<1>3. Waits(calls, X)
  <2>1. Waits(Append(<<>>, f), Resume(f.at, {<<>>}))
    BY <1>2, WaitsNone, WaitsPushed
  <2>2. Resume(f.at, {<<>>}) = X
    BY <1>1 DEF Resume
  <2> QED BY <1>1, <1>2, <2>1, <2>2
<1>4. Reads(in, Still(pc, X))
  <2>1. Still(pc, X) = QueryTexts
    BY <1>1, AreTexts, CatNone, QueryIs DEF Still
  <2>2. ASSUME NEW r \in Futures(in) PROVE in.text \o r = r /\ Unread(in, r) = r
    <3>1. r \in Texts
      BY <1>1, <2>2 DEF Futures
    <3> QED BY <1>1, <3>1, Joined DEF Unread
  <2> QED BY <2>1, <2>2 DEF Reads
<1> HIDE DEF f, X
<1>5. OnItsWay(calls, pc, in)
  BY <1>3, <1>4 DEF OnItsWay
<1> QED BY <1>1, <1>5 DEF GrammarInv

\* parse_meta() and parse_primary(): what may come before a caller goes on
LEMMA OperandStep ==
  ASSUME StreamGood(in), TypeInv, GrammarInv,
         ParseMeta \/ ParseWord \/ ParseLeftParen \/ ParseNot \/ NoPrimary
  PROVE  GrammarInv'
<1>1. CallsOK(calls) /\ calls # <<>>
  BY DEF TypeInv, Running, ParseMeta, ParseWord, ParseLeftParen, ParseNot, NoPrimary
<1>2. PICK X : Waits(calls, X) /\ Reads(in, Still(pc, X))
  BY DEF GrammarInv, OnItsWay, Running, ParseMeta, ParseWord, ParseLeftParen, ParseNot, NoPrimary
<1>3. X \in SUBSET Texts /\ NoEquals(X)
  BY <1>1, <1>2, WaitsText
<1>4. ASSUME pc' \in {"meta", "primary", "return", "relop"}, OnItsWay(calls', pc', in')
      PROVE  GrammarInv'
  BY <1>4 DEF GrammarInv
<1> DEFINE P == Cat(PrimaryTexts, X)
           M == Cat(MetaTexts, X)
<1>5. CASE ParseMeta
  <2>1. pc = "meta" /\ pc' = "primary" /\ calls' = calls /\ Reads(in, M)
    BY <1>2, <1>5 DEF ParseMeta, Still
  <2>2. PICK e \in Extracted(in) :
          \/ e.token \notin QueryWords /\ in' = PutBack(e.in, e.token)
          \/ e.token \in QueryWords /\ \E f \in Extracted(e.in) :
               \/ f.token = "=" /\ in' = f.in
               \/ f.token # "=" /\ in' = PutBack(PutBack(f.in, f.token), e.token)
    BY <1>5 DEF ParseMeta
  <2>3. StreamGood(e.in) /\ e.token \in Ahead /\ Reads(e.in, Past(e.token, M))
    BY <2>1, Took
  <2>4. /\ \A t \in Ahead \ QueryWords : Past(t, M) = Past(t, P)
        /\ \A w \in QueryWords : Past("=", Past(w, M)) = P
        /\ \A w \in QueryWords, t \in Ahead \ {"="} : Past(t, Past(w, M)) = Past(t, Past(w, P))
    BY <1>3, PastMeta
  <2> HIDE DEF P, M
  <2>5. ASSUME e.token \notin QueryWords, in' = PutBack(e.in, e.token)
        PROVE  Reads(in', P)
    <3>1. Reads(e.in, Past(e.token, P))
      BY <2>3, <2>4, <2>5
    <3> QED BY <2>5, <3>1, TookAndPut
  <2>6. ASSUME e.token \in QueryWords, NEW f \in Extracted(e.in),
               \/ f.token = "=" /\ in' = f.in
               \/ f.token # "=" /\ in' = PutBack(PutBack(f.in, f.token), e.token)
        PROVE  Reads(in', P)
    <3>1. f.token \in Ahead /\ Reads(f.in, Past(f.token, Past(e.token, M)))
      BY <2>3, Took
    <3>2. CASE f.token = "=" /\ in' = f.in
      BY <2>4, <2>6, <3>1, <3>2
    <3>3. CASE f.token # "=" /\ in' = PutBack(PutBack(f.in, f.token), e.token)
      <4>1. Reads(f.in, Past(f.token, Past(e.token, P)))
        BY <2>4, <2>6, <3>1, <3>3
      <4> QED BY <2>6, <3>3, <4>1, TookAndPutTwo
    <3> QED BY <2>6, <3>2, <3>3
  <2>7. Reads(in', P)
    BY <2>2, <2>5, <2>6
  <2>8. OnItsWay(calls', pc', in')
    BY <1>2, <2>1, <2>7 DEF OnItsWay, Still, P
  <2> QED BY <1>4, <2>1, <2>8
<1>6. pc = "primary" => \A e \in Extracted(in) : Reads(e.in, Past(e.token, P))
  <2>1. pc = "primary" => Reads(in, P)
    BY <1>2 DEF Still
  <2> HIDE DEF P
  <2> QED BY <2>1, Took
<1>7. /\ \A t \in QueryWords \cup Wildcards : Past(t, P) = X
      /\ Past("(", P) = Cat(QueryTexts, Closed(X))
      /\ Past("not", P) = M
      /\ \A t \in {"and", "or", "near", ")", "=", EndOfText} : Past(t, P) = {}
  BY <1>3, PastPrimary
<1> HIDE DEF P
<1>8. CASE ParseWord
  <2>1. PICK e \in Extracted(in) : e.token \in QueryWords \cup Wildcards /\ in' = e.in
    BY <1>8 DEF ParseWord
  <2>2. pc = "primary" /\ pc' = "return" /\ calls' = calls
    BY <1>8 DEF ParseWord
  <2>3. Reads(in', X)
    BY <1>6, <1>7, <2>1, <2>2
  <2>4. OnItsWay(calls', pc', in')
    BY <1>2, <2>2, <2>3 DEF OnItsWay, Still
  <2> QED BY <1>4, <2>2, <2>4
<1>9. CASE ParseLeftParen
  <2> DEFINE f == Frame("parenthesis", meta, EmptyNode, "")
             g == FirstOperand(meta)
             c == Append(calls, f)
             Y == Cat(Rests, Closed(X))
  <2>1. pc = "primary" /\ pc' = "meta" /\ calls' = Append(c, g)
    BY <1>9 DEF ParseLeftParen
  <2>2. /\ f.at = "parenthesis" /\ g.at = "first operand" /\ FrameOK(f)
    BY FrameFacts DEF Frame, FirstOperand, TypeInv, Kinds
  <2>3. PICK e \in Extracted(in) : e.token = "(" /\ in' = e.in
    BY <1>9 DEF ParseLeftParen
  <2>4. Reads(in', Cat(QueryTexts, Closed(X)))
    BY <1>6, <1>7, <2>1, <2>3
  <2>5. Cat(QueryTexts, Closed(X)) = Cat(MetaTexts, Y)
    <3>1. Closed(X) \in SUBSET Texts
      BY <1>3, AreTexts, CatFacts
    <3>2. Cat(MetaTexts, Cat(Rests, Closed(X))) = Cat(Cat(MetaTexts, Rests), Closed(X))
      BY <3>1, AreTexts, CatFacts
    <3> QED BY <3>2, QueryIs
  <2> HIDE DEF f, g
  <2>6. CallsOK(c) /\ c # <<>> /\ c[Len(c)] = f
    BY <1>1, <2>2, Pushed
  <2>7. Waits(c, Closed(X))
    <3>1. Waits(c, Resume(f.at, X))
      BY <1>1, <1>2, <2>2, WaitsPushed DEF QueryKinds
    <3> QED BY <2>2, <3>1 DEF Resume
  <2> HIDE DEF c
  <2>8. Waits(Append(c, g), Y)
    <3>1. Waits(Append(c, g), Resume(g.at, Closed(X)))
      BY <2>2, <2>6, <2>7, WaitsPushed
    <3> QED BY <2>2, <3>1 DEF Resume
  <2> HIDE DEF Y
  <2>9. OnItsWay(calls', pc', in')
    BY <2>1, <2>4, <2>5, <2>8 DEF OnItsWay, Still
  <2> QED BY <1>4, <2>1, <2>9
<1>10. CASE ParseNot
  <2> DEFINE f == Frame("not", meta, EmptyNode, "")
  <2>1. pc = "primary" /\ pc' = "meta" /\ calls' = Append(calls, f)
    BY <1>10 DEF ParseNot
  <2>2. f.at = "not"
    BY DEF Frame
  <2>3. PICK e \in Extracted(in) : e.token = "not" /\ in' = e.in
    BY <1>10 DEF ParseNot
  <2>4. Reads(in', M)
    BY <1>6, <1>7, <2>1, <2>3
  <2> HIDE DEF f
  <2>5. Waits(Append(calls, f), X)
    <3>1. Waits(Append(calls, f), Resume(f.at, X))
      BY <1>1, <1>2, <2>2, WaitsPushed DEF QueryKinds
    <3> QED BY <2>2, <3>1 DEF Resume
  <2>6. OnItsWay(calls', pc', in')
    BY <2>1, <2>4, <2>5 DEF OnItsWay, Still
  <2> QED BY <1>4, <2>1, <2>6
<1>11. CASE NoPrimary
  <2>1. PICK e \in Extracted(in) :
          e.token \in {"and", "or", "near", ")", "=", EndOfText} /\ in' = e.in
    BY <1>11 DEF NoPrimary
  <2>2. pc = "primary" /\ pc' = "malformed"
    BY <1>11 DEF NoPrimary
  <2>3. Reads(in', {})
    BY <1>6, <1>7, <2>1, <2>2
  <2> QED BY <2>2, <2>3 DEF GrammarInv, Running
<1> QED BY <1>5, <1>8, <1>9, <1>10, <1>11

\* The callers go on with what was returned.
LEMMA ReturnStep ==
  ASSUME ToldInv, GrammarInv, FirstReturns \/ RightReturns \/ NotReturns \/ ParenReturns
  PROVE  GrammarInv'
<1>1. pc = "return" /\ CallsOK(calls) /\ calls # <<>> /\ StreamGood(in)
  BY DEF ToldInv, TypeInv, Running, FirstReturns, RightReturns, NotReturns, ParenReturns
<1>2. PICK X : Waits(calls, X) /\ Reads(in, X)
  BY <1>1 DEF GrammarInv, OnItsWay, Running, Still
<1>3. ASSUME pc' \in {"return", "relop"}, \E Z : Waits(calls', Z) /\ Reads(in', Z)
      PROVE  GrammarInv'
  <2>1. \A Z : Still(pc', Z) = Z
    BY <1>3 DEF Still
  <2>2. OnItsWay(calls', pc', in')
    BY <1>3, <2>1 DEF OnItsWay
  <2> QED BY <1>3, <2>2 DEF GrammarInv
<1>4. CASE FirstReturns
  <2> DEFINE f == Frame("operator", Top.meta, ret, "")
  <2>1. Top.at = "first operand" /\ pc' = "relop" /\ calls' = Append(Below, f) /\ in' = in
    BY <1>4 DEF FirstReturns
  <2>2. f.at \in QueryKinds /\ Top.at \in QueryKinds
    BY <2>1 DEF Frame, QueryKinds
  <2> HIDE DEF f
  <2>3. Waits(Append(Below, f), X)
    BY <1>1, <1>2, <2>2, TopReplaced DEF Below, Top
  <2> QED BY <1>2, <1>3, <2>1, <2>3
<1>5. CASE RightReturns
  <2>1. Top.at = "right operand" /\ in' = in
    BY <1>5 DEF RightReturns
  <2>2. CASE Nonsense(Top.lhs, Top.relop, ret)
    <3>1. FrameGood(Top, ToSet(in.text)) /\ ResultGood(ret, ToSet(in.text))
      BY <1>1, FramesPushed DEF ToldInv, Top
    <3>2. {"near", "not"} \subseteq ToSet(in.text)
      BY <2>1, <2>2, <3>1, NonsenseHas
    <3>3. pc' = "malformed"
      BY <1>5, <2>2 DEF RightReturns
    <3> QED BY <2>1, <3>2, <3>3 DEF GrammarInv, Running
  <2>3. CASE ~Nonsense(Top.lhs, Top.relop, ret)
    <3> DEFINE f == Frame("operator", Top.meta, Join(Top.lhs, Top.relop, ret), "")
    <3>1. pc' = "relop" /\ calls' = Append(Below, f)
      BY <1>5, <2>3 DEF RightReturns
    <3>2. f.at \in QueryKinds /\ Top.at \in QueryKinds
      BY <2>1 DEF Frame, QueryKinds
    <3> HIDE DEF f
    <3>3. Waits(Append(Below, f), X)
      BY <1>1, <1>2, <3>2, TopReplaced DEF Below, Top
    <3> QED BY <1>2, <1>3, <2>1, <3>1, <3>3
  <2> QED BY <2>2, <2>3
<1>6. CASE NotReturns
  <2>1. Top.at = "not" /\ pc' = "return" /\ calls' = Below /\ in' = in
    BY <1>6 DEF NotReturns
  <2>2. PICK Y \in SUBSET Texts : Waits(Below, Y) /\ X = Resume(Top.at, Y)
    BY <1>1, <1>2, WaitsPopped DEF Below, Top
  <2>3. X = Y
    BY <2>1, <2>2 DEF Resume
  <2> QED BY <1>2, <1>3, <2>1, <2>2, <2>3
<1>7. CASE ParenReturns
  <2>1. Top.at = "parenthesis"
    BY <1>7 DEF ParenReturns
  <2>2. PICK Y \in SUBSET Texts : Waits(Below, Y) /\ X = Resume(Top.at, Y)
    BY <1>1, <1>2, WaitsPopped DEF Below, Top
  <2>3. X = Closed(Y)
    BY <2>1, <2>2 DEF Resume
  <2>4. PICK e \in Extracted(in) :
          /\ in' = e.in
          /\ IF e.token = ")" THEN calls' = Below /\ pc' = pc ELSE pc' = "malformed"
    BY <1>7 DEF ParenReturns
  <2>5. e.token \in Ahead /\ Reads(in', Past(e.token, Closed(Y)))
    BY <1>1, <1>2, <2>3, <2>4, Took
  <2>6. CASE e.token = ")"
    <3>1. Reads(in', Y)
      BY <2>5, <2>6, PastClosed
    <3>2. calls' = Below /\ pc' = "return"
      BY <1>1, <2>4, <2>6
    <3> QED BY <1>3, <2>2, <3>1, <3>2
  <2>7. CASE e.token # ")"
    <3>1. Reads(in', {})
      BY <2>5, <2>7, PastClosed
    <3>2. pc' = "malformed"
      BY <2>4, <2>7
    <3> QED BY <3>1, <3>2 DEF GrammarInv, Running
  <2> QED BY <2>6, <2>7
<1> QED BY <1>4, <1>5, <1>6, <1>7

\* parse_relop(): before another operand, or at the end of a query
LEMMA RelopStep ==
  ASSUME StreamGood(in), StreamGood(in'), TypeInv, GrammarInv, ParseRelop \/ NoRelop
  PROVE  GrammarInv'
<1>1. pc = "relop" /\ CallsOK(calls) /\ calls # <<>> /\ Top.at \in QueryKinds
  BY DEF TypeInv, Running, ParseRelop, NoRelop, QueryKinds
<1>2. PICK X : Waits(calls, X) /\ Reads(in, X)
  BY <1>1 DEF GrammarInv, OnItsWay, Running, Still
<1> DEFINE M == Cat(MetaTexts, X)
<1>3. CASE ParseRelop
  <2> DEFINE f(op) == Frame("right operand", Top.meta, Top.lhs, op)
  <2>1. \A op : f(op).at \in QueryKinds
    BY DEF Frame, QueryKinds
  <2>2. PICK e \in Extracted(in) :
          \/ e.token \in {"and", "or", "near"} /\ in' = e.in
          \/ /\ e.token = "not"
             /\ \E g \in Extracted(e.in) :
                  \/ g.token = "near" /\ in' = g.in
                  \/ g.token # "near" /\ in' = PutBack(PutBack(g.in, g.token), e.token)
          \/ /\ e.token \notin {"and", "or", "near", "not", ")", EndOfText}
             /\ in' = PutBack(e.in, e.token)
    BY <1>3 DEF ParseRelop, Operator
  <2>3. pc' = "meta" /\ \E op : calls' = Append(Below, f(op))
    BY <1>3 DEF ParseRelop, Operator
  <2> HIDE DEF f
  <2>4. PICK op : calls' = Append(Below, f(op))
    BY <2>3
  <2>5. PICK Y \in SUBSET Texts :
          Waits(Append(Below, f(op)), X) /\ X = Cat(Rests, Y) /\ Ends(Y)
    <3> DEFINE h == f(op)
    <3>1. h.at \in QueryKinds
      BY <2>1
    <3> HIDE DEF h
    <3>2. \E Y \in SUBSET Texts : Waits(Append(Below, h), X) /\ X = Cat(Rests, Y) /\ Ends(Y)
      BY <1>1, <1>2, <3>1, TopReplaced DEF Below, Top
    <3> QED BY <3>2 DEF h
  <2>6. /\ \A t \in {"and", "or", "near"} : Past(t, X) = M
        /\ Past("near", Past("not", X)) = M
        /\ \A t \in Ahead \ {"near"} : Past(t, Past("not", X)) = Past(t, Past("not", M))
        /\ \A t \in Alphabet \ {"and", "or", "near", "not", ")"} : Past(t, X) = Past(t, M)
    BY <2>5, PastRest
  <2>7. StreamGood(e.in) /\ e.token \in Ahead /\ Reads(e.in, Past(e.token, X))
    BY <1>2, Took
  <2> HIDE DEF M
  <2>8. Reads(in', M)
    <3>1. CASE e.token \in {"and", "or", "near"} /\ in' = e.in
      BY <2>6, <2>7, <3>1
    <3>2. ASSUME e.token = "not", NEW g \in Extracted(e.in),
                 \/ g.token = "near" /\ in' = g.in
                 \/ g.token # "near" /\ in' = PutBack(PutBack(g.in, g.token), e.token)
          PROVE  Reads(in', M)
      <4>1. g.token \in Ahead /\ Reads(g.in, Past(g.token, Past("not", X)))
        BY <2>7, <3>2, Took
      <4>2. CASE g.token = "near" /\ in' = g.in
        BY <2>6, <4>1, <4>2
      <4>3. CASE g.token # "near" /\ in' = PutBack(PutBack(g.in, g.token), e.token)
        <5>1. Reads(g.in, Past(g.token, Past(e.token, M)))
          BY <2>6, <3>2, <4>1, <4>3
        <5> QED BY <3>2, <4>3, <5>1, TookAndPutTwo
      <4> QED BY <3>2, <4>2, <4>3
    <3>3. CASE /\ e.token \notin {"and", "or", "near", "not", ")", EndOfText}
               /\ in' = PutBack(e.in, e.token)
      <4>1. e.token \in Alphabet \ {"and", "or", "near", "not", ")"}
        BY <2>7, <3>3 DEF Ahead
      <4>2. Reads(e.in, Past(e.token, M))
        BY <2>6, <2>7, <4>1
      <4> QED BY <3>3, <4>2, TookAndPut
    <3> QED BY <2>2, <3>1, <3>2, <3>3
  <2>9. OnItsWay(calls', pc', in')
    BY <2>3, <2>4, <2>5, <2>8 DEF OnItsWay, Still, M
  <2> QED BY <2>3, <2>9 DEF GrammarInv
<1>4. CASE NoRelop
  <2>1. PICK Y \in SUBSET Texts : Waits(Below, Y) /\ X = Cat(Rests, Y) /\ Ends(Y)
    BY <1>1, <1>2, TopReplaced DEF Below, Top
  <2>2. PICK e \in Extracted(in) :
          \/ e.token = EndOfText /\ in' = e.in
          \/ e.token = ")" /\ in' = PutBack(e.in, e.token)
    BY <1>4 DEF NoRelop
  <2>3. \A t \in {")", EndOfText} : Past(t, X) = Past(t, Y)
    BY <2>1, PastRest
  <2>4. Reads(e.in, Past(e.token, Y))
    BY <1>2, <2>2, <2>3, Took
  <2>5. /\ Reads(in', Y)
        /\ in'.end => in'.back = <<>>
        /\ ~in'.end => Len(in'.back) = 1 /\ in'.back[1] = ")"
    <3>1. CASE e.token = EndOfText /\ in' = e.in
      <4>1. in'.end /\ in'.back = <<>>
        BY <3>1, Took
      <4> QED BY <2>4, <3>1, <4>1, AtEnd
    <3>2. CASE e.token = ")" /\ in' = PutBack(e.in, e.token)
      <4>1. ")" \notin QueryWords \cup {"not"} /\ ")" # EndOfText
        BY TokensDiffer DEF AllOperators, EndOfText
      <4>2. Reads(in', Y) /\ in'.back # <<>> /\ Len(in'.back) = 1 /\ in'.back[1] = ")"
        BY <2>4, <3>2, <4>1, TookAndPut
      <4>3. in'.end <=> in'.back[1] = EndOfText
        BY <4>2 DEF StreamGood, StackOK
      <4> QED BY <4>1, <4>2, <4>3
    <3> QED BY <2>2, <3>1, <3>2
  <2>6. calls' = Below /\ pc' = IF Below = <<>> THEN "parsed" ELSE "return"
    BY <1>4 DEF NoRelop
  <2>7. CASE Below = <<>>
    <3>1. Y = {<<>>}
      <4>1. CallsOK(Below)
        BY <1>1, Popped DEF Below
      <4> QED BY <2>1, <2>7, <4>1, WaitsText
    <3>2. pc' = "parsed"
      BY <2>6, <2>7
    <3> QED BY <2>5, <3>1, <3>2 DEF GrammarInv, Running
  <2>8. CASE Below # <<>>
    <3>1. pc' = "return"
      BY <2>6, <2>8
    <3>2. OnItsWay(calls', pc', in')
      BY <2>1, <2>5, <2>6, <3>1 DEF OnItsWay, Still
    <3> QED BY <3>1, <3>2 DEF GrammarInv
  <2> QED BY <2>7, <2>8
<1> QED BY <1>3, <1>4

\* search(): what was parsed is the whole text, or more of it is left.
LEMMA EndStep ==
  ASSUME StreamGood(in), GrammarInv, EndQuery
  PROVE  GrammarInv'
<1>1. /\ pc = "parsed" /\ in' = in
      /\ \/ pc' = "internal error"
         \/ in.end /\ pc' = "answered"
         \/ ~in.end /\ pc' = "malformed"
  BY DEF EndQuery
<1>2. /\ Reads(in, {<<>>})
      /\ in.end => in.back = <<>>
      /\ ~in.end => Len(in.back) = 1 /\ in.back[1] = ")"
  BY <1>1 DEF GrammarInv
<1>3. CASE in.end
  <2>1. <<>> \in Futures(in) /\ Unread(in, <<>>) = <<>>
    BY <1>2, <1>3 DEF Futures, Unread
  <2>2. in.text \o <<>> \in QueryTexts
    BY <1>2, <2>1 DEF Reads
  <2>3. in.text \in QueryTexts
    BY <2>2, StreamTexts, Joined
  <2> QED BY <1>1, <1>3, <2>3 DEF GrammarInv, Running
<1>4. CASE ~in.end
  <2>1. ")" # EndOfText /\ ")" \in Alphabet /\ in.back # <<>>
    BY <1>2, <1>4, TokensDiffer, StreamTexts DEF AllOperators, EndOfText
  <2>2. ASSUME NEW r \in Futures(in) PROVE in.text \o r \notin QueryTexts
    <3>1. Unread(in, r) = First(")", r)
      BY <1>2, <1>4, <2>1 DEF Unread, Before
    <3>2. First(")", r) # <<>>
      BY <1>4, <2>1, FirstSame DEF Futures
    <3> QED BY <1>2, <3>1, <3>2 DEF Reads
  <2>3. Reads(in, {})
    BY <2>2 DEF Reads
  <2> QED BY <1>1, <1>4, <2>3 DEF GrammarInv, Running
<1> QED BY <1>3, <1>4

\* Every step keeps to the grammar.
LEMMA GrammarStep ==
  ToldInv /\ GrammarInv /\ [ParserNext \/ EndQuery]_parserVars => GrammarInv'
<1> SUFFICES ASSUME ToldInv, GrammarInv, [ParserNext \/ EndQuery]_parserVars
             PROVE  GrammarInv'
  OBVIOUS
<1>1. StreamGood(in) /\ StreamGood(in') /\ TypeInv
  BY GoodStep DEF ToldInv
<1>2. CASE ParseMeta \/ ParseWord \/ ParseLeftParen \/ ParseNot \/ NoPrimary
  BY <1>1, <1>2, OperandStep
<1>3. CASE FirstReturns \/ RightReturns \/ NotReturns \/ ParenReturns
  BY <1>3, ReturnStep
<1>4. CASE ParseRelop \/ NoRelop
  BY <1>1, <1>4, RelopStep
<1>5. CASE EndQuery
  BY <1>1, <1>5, EndStep
<1>6. CASE UNCHANGED parserVars
  BY <1>6 DEF parserVars, GrammarInv, Running
<1> QED BY <1>2, <1>3, <1>4, <1>5, <1>6 DEF ParserNext

\* What no query begins with has no end that makes it one.
LEMMA NoEnd ==
  ASSUME NEW s, StreamGood(s), Reads(s, {})
  PROVE  ~(IF s.end THEN IsQuery(s.text) ELSE CanEnd(s.text))
<1>1. s.text \in Texts /\ <<>> \in Texts
  BY StreamTexts
<1>2. CASE s.end
  <2>1. s.text \o <<>> \notin QueryTexts
    BY <1>2 DEF Reads, Futures
  <2>2. s.text \o <<>> = s.text
    BY <1>1, Joined
  <2> QED BY <1>1, <1>2, <2>1, <2>2 DEF QueryTexts
<1>3. CASE ~s.end
  <2>1. \A r \in Texts : s.text \o r \notin QueryTexts
    BY <1>3 DEF Reads, Futures
  <2>2. ASSUME NEW w \in {<<>>} \cup {<<q>> : q \in QueryWords}, NEW n \in 0..Len(s.text)
        PROVE  ~IsQuery(s.text \o w \o [i \in 1..n |-> ")"])
    <3> DEFINE z == [i \in 1..n |-> ")"]
    <3>1. w \in Texts
      <4>1. \A q \in QueryWords : <<q>> \in Texts
        BY TokensDiffer DEF Texts
      <4> QED BY <1>1, <4>1
    <3>2. z \in Texts
      <4>1. n \in Nat /\ ")" \in Alphabet
        BY <1>1, TokensDiffer DEF Texts, AllOperators
      <4> QED BY <4>1, FunctionIsSeq DEF Texts
    <3> HIDE DEF z
    <3>3. w \o z \in Texts /\ (s.text \o w) \o z = s.text \o (w \o z)
      <4>1. w \o z \in Texts
        BY <3>1, <3>2, Joined
      <4>2. s.text \in Texts /\ w \in Texts /\ z \in Texts
        BY <1>1, <3>1, <3>2
      <4>3. (s.text \o w) \o z = s.text \o (w \o z)
        BY <4>2, Regrouped
      <4> QED BY <4>1, <4>3
    <3>4. (s.text \o w) \o z \in Texts /\ (s.text \o w) \o z \notin QueryTexts
      BY <1>1, <2>1, <3>3, Joined
    <3>5. ~IsQuery((s.text \o w) \o z)
      BY <3>4 DEF QueryTexts
    <3> QED BY <3>5 DEF z
  <2> QED BY <1>3, <2>2 DEF CanEnd
<1> QED BY <1>2, <1>3

\* The parser answers the texts of the grammar, and rejects what is not the
\* beginning of one unless there is a "near" and a "not" in it: queries of
\* any length, nested to any depth, over any words and any index.
THEOREM ParserAcceptsTheGrammar == ParserSpec => []AcceptsTheGrammar
<1>1. ToldInv /\ GrammarInv => AcceptsTheGrammar
  <2> SUFFICES ASSUME ToldInv, GrammarInv PROVE AcceptsTheGrammar
    OBVIOUS
  <2>1. pc = "answered" => IsQuery(in.text)
    BY DEF GrammarInv, QueryTexts
  <2>2. ASSUME pc = "malformed", Reads(in, {})
        PROVE  ~(IF in.end THEN IsQuery(in.text) ELSE CanEnd(in.text))
    BY <2>2, NoEnd DEF ToldInv
  <2> QED BY <2>1, <2>2 DEF AcceptsTheGrammar, GrammarInv
<1> QED BY <1>1, ToldInit, ToldStep, GrammarInit, GrammarStep, PTL DEF ParserSpec

\* More than TLC can check: what is rejected has no end at all, of any length,
\* that makes it a query.
HasNoEnd(s) == \A r \in IF s.end THEN {<<>>} ELSE Texts : ~IsQuery(s.text \o r)

\* The parser gives up (parse_query2(), parse_primary() and their callers
\* return false) on no text that some end would make a query, unless there is
\* a "near" and a "not" in it.
THEOREM ParserRejectsNoBeginning ==
  ParserSpec => [](pc = "malformed" => \/ HasNoEnd(in)
                                       \/ {"near", "not"} \subseteq ToSet(in.text))
<1> DEFINE Rejected == pc = "malformed" => \/ HasNoEnd(in)
                                           \/ {"near", "not"} \subseteq ToSet(in.text)
<1>1. ToldInv /\ GrammarInv => Rejected
  <2> SUFFICES ASSUME ToldInv, GrammarInv, pc = "malformed", Reads(in, {})
               PROVE  HasNoEnd(in)
    BY DEF GrammarInv
  <2>1. ASSUME NEW r \in Futures(in) PROVE ~IsQuery(in.text \o r)
    <3>1. in.text \o r \in Texts
      BY StreamTexts, Joined DEF ToldInv
    <3>2. in.text \o r \notin QueryTexts
      BY DEF Reads
    <3> QED BY <3>1, <3>2 DEF QueryTexts
  <2> QED BY <2>1 DEF HasNoEnd, Futures
<1>2. ParserSpec => []Rejected
  BY <1>1, ToldInit, ToldStep, GrammarInit, GrammarStep, PTL DEF ParserSpec
<1> QED BY <1>2
=============================================================================
