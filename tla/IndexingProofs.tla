--------------------------- MODULE IndexingProofs ---------------------------
(***************************************************************************)
(* Proofs about the indexers: suspensions of indexing go with the open     *)
(* elements, and boundaries with the multiparts, whatever is indexed.      *)
(***************************************************************************)
EXTENDS IndexingProps, ListLemmas

-----------------------------------------------------------------------------
\* Sequences, of whatever values, and numbers

IsSeq(s) == s \in Seq({s[i] : i \in DOMAIN s})

\* A sequence is a function on 1 to its length.
LEMMA SeqFacts ==
  ASSUME NEW s, IsSeq(s)
  PROVE  Len(s) \in Nat /\ DOMAIN s = 1..Len(s)
BY DEF IsSeq

\* A sequence over a set is one over its own elements.
LEMMA SeqIsSeq ==
  ASSUME NEW S, NEW s \in Seq(S)
  PROVE  IsSeq(s)
BY DEF IsSeq

\* The stacks are empty at first: that is a sequence too.
LEMMA EmptyIsSeq == IsSeq(<<>>) /\ Len(<<>>) = 0
<1>1. <<>> \in Seq({}) /\ Len(<<>>) = 0
  OBVIOUS
<1>2. QED BY <1>1, SeqIsSeq

\* A sequence over some values is one over more.
LEMMA SeqOver ==
  ASSUME NEW s, IsSeq(s), NEW e
  PROVE  s \in Seq({s[i] : i \in DOMAIN s} \cup {e})
BY DEF IsSeq

\* push_back(): the elements below stay, and the new one is the last.
LEMMA AppendIsSeq ==
  ASSUME NEW s, IsSeq(s), NEW e
  PROVE  /\ IsSeq(Append(s, e)) /\ Len(Append(s, e)) = Len(s) + 1
         /\ \A i \in 1..Len(s) : Append(s, e)[i] = s[i]
         /\ Append(s, e)[Len(s) + 1] = e
<1> DEFINE S == {s[i] : i \in DOMAIN s} \cup {e}
<1>1. s \in Seq(S) /\ e \in S
  BY SeqOver
<1> HIDE DEF S
<1>2. Append(s, e) \in Seq(S)
  BY <1>1
<1>3. IsSeq(Append(s, e))
  BY <1>2, SeqIsSeq
<1>4. QED BY <1>1, <1>3

\* pop_back(), any number of times: the elements left stay.
LEMMA SubSeqIsSeq ==
  ASSUME NEW s, IsSeq(s), NEW n \in 0..Len(s)
  PROVE  /\ IsSeq(SubSeq(s, 1, n)) /\ Len(SubSeq(s, 1, n)) = n
         /\ \A i \in 1..n : SubSeq(s, 1, n)[i] = s[i]
<1> DEFINE S == {s[i] : i \in DOMAIN s}
<1>1. s \in Seq(S) /\ Len(s) \in Nat
  BY DEF IsSeq
<1> HIDE DEF S
<1>2. SubSeq(s, 1, n) \in Seq(S)
  BY <1>1
<1>3. IsSeq(SubSeq(s, 1, n))
  BY <1>2, SeqIsSeq
<1>4. QED BY <1>1, <1>3

\* A change of the last element leaves the others alone.
LEMMA ExceptIsSeq ==
  ASSUME NEW s, IsSeq(s), NEW n \in 1..Len(s), NEW e
  PROVE  LET t == [s EXCEPT ![n] = e]
         IN IsSeq(t) /\ Len(t) = Len(s) /\ t[n] = e /\ \A i \in 1..Len(s) : i # n => t[i] = s[i]
<1> DEFINE S == {s[i] : i \in DOMAIN s} \cup {e}
           t == [s EXCEPT ![n] = e]
<1>1. s \in Seq(S) /\ e \in S
  BY SeqOver
<1> HIDE DEF S
<1>2. t \in Seq(S)
  BY <1>1
<1>3. IsSeq(t)
  BY <1>2, SeqIsSeq
<1>4. QED BY <1>1, <1>3

\* Positions of a sequence are finitely many.
LEMMA PositionsFinite ==
  ASSUME NEW s, IsSeq(s), NEW P \in SUBSET DOMAIN s
  PROVE  IsFiniteSet(P) /\ Cardinality(P) \in Nat
<1>1. IsFiniteSet(1..Len(s))
  BY SeqFacts, FS_Interval
<1>2. QED BY <1>1, SeqFacts, FS_Subset, FS_CardinalityType

-----------------------------------------------------------------------------
\* Closing elements

\* A tag closes no more elements than are open.
LEMMA ClosedInRange ==
  ASSUME NEW stack, IsSeq(stack), NEW tag
  PROVE  Closed(stack, tag) \in 0..Len(stack)
<1> DEFINE S == {k \in 0..Len(stack) : LastClosed(stack, tag, k)}
<1>1. Len(stack) \in S /\ S \subseteq 0..Len(stack) /\ S \in SUBSET Nat
  BY SeqFacts DEF LastClosed
<1>2. PICK k \in S : \A j \in S : k <= j
  BY <1>1, LeastNumber
<1>3. k \in 0..Len(stack) /\ LastClosed(stack, tag, k)
  OBVIOUS
<1>4. \A j \in 0..(k - 1) : ~LastClosed(stack, tag, j)
  BY <1>2, <1>3, SeqFacts
<1>5. QED BY <1>3, <1>4 DEF Closed

\* The elements to be skipped can be counted.
LEMMA SkippedCounted ==
  ASSUME NEW stack, IsSeq(stack)
  PROVE  IsFiniteSet(Skipped(stack)) /\ Cardinality(Skipped(stack)) \in Nat
BY PositionsFinite DEF Skipped

\* Of the elements to be skipped, those above a height are closed, and those up
\* to it stay on the stack.
LEMMA ClosingKeeps ==
  ASSUME NEW stack, IsSeq(stack), NEW height \in 0..Len(stack)
  PROVE  /\ IsSeq(SubSeq(stack, 1, height))
         /\ Cardinality({k \in Skipped(stack) : k > height}) \in Nat
         /\ Cardinality(Skipped(stack)) = Cardinality(Skipped(SubSeq(stack, 1, height)))
                                            + Cardinality({k \in Skipped(stack) : k > height})
<1> DEFINE left == SubSeq(stack, 1, height)
           closed == {k \in Skipped(stack) : k > height}
<1>1. /\ IsSeq(left) /\ Len(left) = height /\ \A i \in 1..height : left[i] = stack[i]
      /\ DOMAIN left = 1..height /\ DOMAIN stack = 1..Len(stack) /\ Len(stack) \in Nat
  BY SubSeqIsSeq, SeqFacts
<1> HIDE DEF left
<1>2. Skipped(stack) = Skipped(left) \cup closed /\ Skipped(left) \cap closed = {}
  BY <1>1 DEF Skipped
<1>3. closed \in SUBSET DOMAIN stack
  BY DEF Skipped
<1> HIDE DEF closed
<1>4. /\ IsFiniteSet(Skipped(left)) /\ Cardinality(Skipped(left)) \in Nat
      /\ IsFiniteSet(closed) /\ Cardinality(closed) \in Nat
  BY <1>1, <1>3, SkippedCounted, PositionsFinite
<1>5. Cardinality(Skipped(stack)) = Cardinality(Skipped(left)) + Cardinality(closed)
                                      - Cardinality(Skipped(left) \cap closed)
  BY <1>2, <1>4, FS_Union
<1>6. Cardinality(Skipped(left) \cap closed) = 0
  BY <1>2, FS_EmptySet, Zenon
<1>7. QED BY <1>1, <1>4, <1>5, <1>6 DEF left, closed

\* An element that is pushed counts if it is skipped.
LEMMA PushingSuspends ==
  ASSUME NEW stack, IsSeq(stack), NEW e
  PROVE  /\ IsSeq(Append(stack, e))
         /\ e.skip => Cardinality(Skipped(Append(stack, e))) = Cardinality(Skipped(stack)) + 1
         /\ ~e.skip => Cardinality(Skipped(Append(stack, e))) = Cardinality(Skipped(stack))
<1> DEFINE n == Len(stack)
           pushed == Append(stack, e)
<1>1. /\ IsSeq(pushed) /\ DOMAIN pushed = 1..(n + 1) /\ DOMAIN stack = 1..n /\ n \in Nat
      /\ \A i \in 1..n : pushed[i] = stack[i]
      /\ pushed[n + 1] = e
  BY AppendIsSeq, SeqFacts
<1> HIDE DEF pushed
<1>2. ASSUME e.skip
      PROVE  Skipped(pushed) = Skipped(stack) \cup {n + 1}
  BY <1>1, <1>2 DEF Skipped
<1>3. ASSUME ~e.skip
      PROVE  Skipped(pushed) = Skipped(stack)
  BY <1>1, <1>3 DEF Skipped
<1>4. n + 1 \notin Skipped(stack) /\ IsFiniteSet(Skipped(stack))
  BY <1>1, SkippedCounted DEF Skipped
<1>5. QED BY <1>1, <1>2, <1>3, <1>4, FS_AddElement DEF pushed

-----------------------------------------------------------------------------
\* Suspensions of indexing and the elements that are open

\* In a file of HTML no other function is called than that of its indexer.
HtmlAlone ==
  document.format = "html" => IsSeq(frames) /\ \A i \in DOMAIN frames : frames[i].fn = "html"

SuspensionInv ==
  /\ IsSeq(elementStack) /\ suspended \in Nat
  /\ HtmlAlone
  /\ SuspendedByOpenElements

\* A step that touches neither the stack nor the count keeps them in agreement.
LEMMA SuspensionUnchanged ==
  ASSUME SuspensionInv, HtmlAlone', UNCHANGED <<suspended, elementStack>>,
         (document.format = "html")' => document.format = "html"
  PROVE  SuspensionInv'
BY DEF SuspensionInv, SuspendedByOpenElements, IsSeq, Skipped

\* With the count reset there are no more suspensions than elements, and as many
\* if the stack is empty or the file is not one of HTML.
LEMMA SuspensionReset ==
  ASSUME IsSeq(elementStack)', HtmlAlone', suspended' = 0,
         (document.format = "html")' => elementStack' = <<>>
  PROVE  SuspensionInv'
<1>1. Cardinality(Skipped(elementStack')) \in Nat
  BY SkippedCounted DEF IsSeq
<1>2. ASSUME elementStack' = <<>>
      PROVE  Cardinality(Skipped(elementStack')) = 0
  <2>1. Skipped(elementStack') = {}
    BY <1>2 DEF Skipped
  <2>2. QED BY <2>1, FS_EmptySet, Zenon
<1>3. QED BY <1>1, <1>2 DEF SuspensionInv, SuspendedByOpenElements, Skipped

\* A tag closes elements, and may open one.
LEMMA SuspensionTag ==
  ASSUME SuspensionInv, NEW i, ParseTag(i), HtmlAlone', document' = document
  PROVE  SuspensionInv'
<1> DEFINE tag    == text[i]
           bare   == [name |-> tag.name, end |-> tag.end]
           height == Len(elementStack) - Closed(elementStack, bare)
           left   == SubSeq(elementStack, 1, height)
           pushed == [name |-> tag.name, skip |-> tag.skip]
           closed == Cardinality({k \in Skipped(elementStack) : k > height})
           resume == Resumed(closed)
           total  == Cardinality(Skipped(elementStack))
           stays  == Cardinality(Skipped(left))
<1>1. IsSeq(elementStack) /\ Len(elementStack) \in Nat /\ height \in 0..Len(elementStack)
  BY SeqFacts, ClosedInRange DEF SuspensionInv
<1>2. IsSeq(left) /\ closed \in Nat /\ total = stays + closed
  BY <1>1, ClosingKeeps
<1>3. \/ elementStack' = left /\ suspended' = resume
      \/ elementStack' = Append(left, pushed) /\ tag.skip /\ suspended' = resume + 1
      \/ elementStack' = Append(left, pushed) /\ ~tag.skip /\ suspended' = resume
  BY DEF ParseTag
<1>4. pushed.skip = tag.skip
  OBVIOUS
<1>5. /\ suspended \in Nat /\ suspended <= total
      /\ document.format = "html" => suspended = total
  BY DEF SuspensionInv, SuspendedByOpenElements
<1> HIDE DEF height, left, bare, tag, pushed, closed, total
<1>6. stays \in Nat
  BY <1>2, SkippedCounted
<1> HIDE DEF stays
<1>7. /\ resume \in Nat /\ resume <= stays
      /\ document.format = "html" => resume = stays
  BY <1>2, <1>5, <1>6 DEF Resumed
<1> HIDE DEF resume
<1>8. ASSUME NEW stack, IsSeq(stack), elementStack' = stack,
             NEW more \in 0..1, suspended' = resume + more,
             Cardinality(Skipped(stack)) = stays + more
      PROVE  SuspensionInv'
  <2>1. IsSeq(elementStack)' /\ Skipped(elementStack)' = Skipped(stack)
    BY <1>8 DEF IsSeq, Skipped
  <2>2. suspended' \in Nat /\ suspended' <= Cardinality(Skipped(stack))
    BY <1>6, <1>7, <1>8
  <2>3. document.format = "html" => suspended' = Cardinality(Skipped(stack))
    BY <1>7, <1>8
  <2>4. SuspendedByOpenElements'
    BY <2>1, <2>2, <2>3 DEF SuspendedByOpenElements
  <2>5. QED BY <2>1, <2>2, <2>4 DEF SuspensionInv
<1>9. ASSUME elementStack' = left, suspended' = resume
      PROVE  SuspensionInv'
  <2>1. suspended' = resume + 0 /\ Cardinality(Skipped(left)) = stays + 0 /\ 0 \in 0..1
    BY <1>6, <1>7, <1>9 DEF stays
  <2>2. QED BY <1>2, <1>8, <1>9, <2>1
<1>10. ASSUME elementStack' = Append(left, pushed), tag.skip, suspended' = resume + 1
       PROVE  SuspensionInv'
  <2>1. /\ IsSeq(Append(left, pushed))
        /\ Cardinality(Skipped(Append(left, pushed))) = stays + 1
    BY <1>2, <1>4, <1>10, PushingSuspends DEF stays
  <2>2. 1 \in 0..1
    OBVIOUS
  <2>3. QED BY <1>8, <1>10, <2>1, <2>2
<1>11. ASSUME elementStack' = Append(left, pushed), ~tag.skip, suspended' = resume
       PROVE  SuspensionInv'
  <2>1. /\ IsSeq(Append(left, pushed))
        /\ Cardinality(Skipped(Append(left, pushed))) = stays
    BY <1>2, <1>4, <1>11, PushingSuspends DEF stays
  <2>2. suspended' = resume + 0 /\ stays = stays + 0 /\ 0 \in 0..1
    BY <1>6, <1>7, <1>11
  <2>3. QED BY <1>8, <1>11, <2>1, <2>2
<1>12. QED BY <1>3, <1>9, <1>10, <1>11

\* In a file of HTML only its indexer goes on.
LEMMA HtmlGoesOn ==
  ASSUME HtmlAlone, Index
  PROVE  HtmlAlone' /\ (document.format = "html" => HtmlBody)
<1>1. document' = document
  BY DEF Index
<1>2. SUFFICES ASSUME document.format = "html"
               PROVE  /\ HtmlBody /\ IsSeq(frames)'
                      /\ (\A i \in DOMAIN frames : frames[i].fn = "html")'
  BY <1>1 DEF HtmlAlone
<1>3. IsSeq(frames) /\ \A i \in DOMAIN frames : frames[i].fn = "html"
  BY <1>2 DEF HtmlAlone
<1>4. frames # <<>> => Len(frames) \in DOMAIN frames /\ Top.fn = "html"
  BY <1>3, SeqFacts DEF IsSeq, Top
<1>5. ~InFunction("headers") /\ ~InFunction("multipart") /\ ~InFunction("vcard")
      /\ ~InFunction("plain")
  BY <1>4 DEF InFunction
<1>6. HtmlBody
  BY <1>5 DEF Index, Mail, EncodingHeader, TypeHeader, OtherHeader, EndsHeaders, SkipBody,
              PlainBody, FilteredBody, OtherBody, FindFirstBoundary, NextPart, EndMultipart,
              VcardType, EndVcard, PlainText
<1>7. frames # <<>> /\ (GoOn(Html(Top.at + 1, Top.end)) \/ Return)
  BY <1>6 DEF HtmlBody, InFunction
<1> DEFINE n == Len(frames)
<1>8. n \in Nat /\ n \in 1..n /\ DOMAIN frames = 1..n /\ n - 1 \in 0..n
  BY <1>3, <1>4, <1>7, SeqFacts
<1>9. CASE GoOn(Html(Top.at + 1, Top.end))
  <2> DEFINE f == Html(Top.at + 1, Top.end)
             t == [frames EXCEPT ![n] = f]
  <2>1. f.fn = "html"
    BY DEF Html
  <2> HIDE DEF f
  <2>2. IsSeq(t) /\ Len(t) = n /\ t[n] = f /\ \A i \in 1..n : i # n => t[i] = frames[i]
    BY <1>3, <1>8, ExceptIsSeq
  <2>3. frames' = t
    BY <1>9 DEF GoOn, f
  <2> HIDE DEF t, n
  <2>4. DOMAIN t = 1..n
    BY <2>2, SeqFacts
  <2>5. \A i \in DOMAIN t : t[i].fn = "html"
    BY <1>3, <1>8, <2>1, <2>2, <2>4
  <2>6. QED BY <1>6, <2>2, <2>3, <2>5 DEF IsSeq
<1>10. CASE Return
  <2> DEFINE t == SubSeq(frames, 1, n - 1)
  <2>1. IsSeq(t) /\ Len(t) = n - 1 /\ \A i \in 1..(n - 1) : t[i] = frames[i]
    BY <1>3, <1>8, SubSeqIsSeq
  <2>2. frames' = t
    BY <1>10 DEF Return
  <2> HIDE DEF t, n
  <2>3. DOMAIN t = 1..(n - 1)
    BY <2>1, SeqFacts
  <2>4. \A i \in DOMAIN t : t[i].fn = "html"
    BY <1>3, <1>8, <2>1, <2>3
  <2>5. QED BY <1>6, <2>1, <2>2, <2>4 DEF IsSeq
<1>11. QED BY <1>7, <1>9, <1>10

\* Every step of an indexer keeps the count in agreement with the open elements.
LEMMA SuspensionIndex ==
  ASSUME SuspensionInv, Index
  PROVE  SuspensionInv'
<1>0. HtmlAlone' /\ (document.format = "html" => HtmlBody) /\ document' = document
  BY HtmlGoesOn DEF SuspensionInv, Index
<1>1. CASE HtmlBody
  <2>1. CASE \E i : HtmlLine(i)
    <3>1. PICK i : HtmlLine(i)
      BY <2>1
    <3>2. QED BY <1>0, <3>1, SuspensionTag, SuspensionUnchanged DEF HtmlLine
  <2>2. QED BY <1>0, <1>1, <2>1, SuspensionUnchanged DEF HtmlBody, htmlVars
<1>2. CASE FilteredBody
  <2>1. elementStack' = elementStack /\ (suspended' = 0 \/ suspended' = suspended)
    BY <1>2 DEF FilteredBody
  <2>2. IsSeq(elementStack)'
    BY <2>1 DEF SuspensionInv, IsSeq
  <2>3. document.format # "html"
    BY <1>0, <1>2 DEF FilteredBody, EndsHeaders, HtmlBody, InFunction
  <2>4. QED BY <1>0, <2>1, <2>2, <2>3, SuspensionReset, SuspensionUnchanged
<1>3. CASE \/ EncodingHeader \/ TypeHeader \/ OtherHeader \/ SkipBody \/ PlainBody \/ OtherBody
           \/ FindFirstBoundary \/ NextPart \/ EndMultipart \/ VcardType \/ EndVcard \/ PlainText
  BY <1>0, <1>3, SuspensionUnchanged
  DEF EncodingHeader, TypeHeader, OtherHeader, SkipBody, PlainBody, OtherBody, FindFirstBoundary,
      NextPart, EndMultipart, VcardType, EndVcard, PlainText, htmlVars
<1>4. QED BY <1>1, <1>2, <1>3 DEF Index, Mail

\* Whatever files, parts and filters come one after the other: indexing is
\* suspended no more often than there are open elements to be skipped, and
\* exactly as often in a file of HTML.
THEOREM SuspensionsHaveElements == Spec => []SuspendedByOpenElements
<1>1. Init => SuspensionInv
  <2>1. SUFFICES ASSUME Init PROVE SuspensionInv
    OBVIOUS
  <2>2. elementStack = <<>> /\ suspended = 0 /\ IsSeq(<<>>)
    BY <2>1, EmptyIsSeq DEF Init
  <2>3. document.format # "html"
    BY <2>1 DEF Init, NoDocument
  <2>4. Skipped(<<>>) = {}
    BY DEF Skipped
  <2>5. Cardinality(Skipped(<<>>)) = 0
    BY <2>4, FS_EmptySet, Zenon
  <2>6. QED BY <2>2, <2>3, <2>5 DEF SuspensionInv, SuspendedByOpenElements, HtmlAlone
<1>2. SuspensionInv /\ [Next]_vars => SuspensionInv'
  <2>1. SUFFICES ASSUME SuspensionInv, [Next]_vars PROVE SuspensionInv'
    OBVIOUS
  <2>2. ASSUME NEW d \in Documents, IndexFile(d) PROVE SuspensionInv'
    <3>1. /\ suspended' = 0 /\ elementStack' = (IF d.format = "html" THEN <<>> ELSE elementStack)
          /\ document'.format = d.format
      BY <2>2 DEF IndexFile, BeginText
    <3>2. IsSeq(elementStack)'
      <4>1. CASE elementStack' = <<>>
        BY <4>1, EmptyIsSeq DEF IsSeq
      <4>2. CASE elementStack' = elementStack
        BY <2>1, <4>2 DEF SuspensionInv, IsSeq
      <4>3. QED BY <3>1, <4>1, <4>2
    <3>3. HtmlAlone'
      <4>1. SUFFICES ASSUME d.format = "html"
                     PROVE  IsSeq(frames)' /\ (\A i \in DOMAIN frames : frames[i].fn = "html")'
        BY <3>1 DEF HtmlAlone
      <4>2. PICK f : frames' = <<f>> /\ f.fn = "html"
        BY <2>2, <4>1 DEF IndexFile, Html
      <4>3. <<f>> \in Seq({f})
        OBVIOUS
      <4>4. IsSeq(<<f>>)
        BY <4>3, SeqIsSeq
      <4>5. QED BY <4>2, <4>4 DEF IsSeq
    <3>4. QED BY <3>1, <3>2, <3>3, SuspensionReset
  <2>3. CASE Index
    BY <2>1, <2>3, SuspensionIndex
  <2>4. CASE FileDone
    <3>1. document'.format # "html" /\ UNCHANGED <<suspended, elementStack>>
      BY <2>4 DEF FileDone, NoDocument
    <3>2. HtmlAlone'
      BY <3>1 DEF HtmlAlone
    <3>3. QED BY <2>1, <3>1, <3>2, SuspensionUnchanged
  <2>5. CASE UNCHANGED vars
    <3>1. UNCHANGED <<suspended, elementStack, frames, document>>
      BY <2>5 DEF vars, htmlVars, mailVars
    <3>2. HtmlAlone'
      BY <2>1, <3>1 DEF SuspensionInv, HtmlAlone, IsSeq
    <3>3. QED BY <2>1, <3>1, <3>2, SuspensionUnchanged
  <2>6. QED BY <2>1, <2>2, <2>3, <2>4, <2>5 DEF Next
<1>3. SuspensionInv => SuspendedByOpenElements
  BY DEF SuspensionInv
<1>4. QED BY <1>1, <1>2, <1>3, PTL DEF Spec

-----------------------------------------------------------------------------
\* Boundaries and the calls that take them off the stack

IsCall(f) == f.fn = "multipart" \/ (f.fn = "headers" /\ f.content = "multipart")
Calls(s) == {i \in DOMAIN s : IsCall(s[i])}

\* A frame of headers has the fields of one.
IsFrame(f) ==
  f.fn = "headers" =>
    f = [fn |-> "headers", at |-> f.at, end |-> f.end, content |-> f.content, binary |-> f.binary]
AreFrames(s) == IsSeq(s) /\ \A i \in DOMAIN s : IsFrame(s[i])

BoundaryInv ==
  /\ AreFrames(frames)
  /\ IsSeq(boundaryStack)
  /\ Cardinality(Calls(frames)) <= Len(boundaryStack)

\* The calls that are to take a boundary off the stack can be counted.
LEMMA CallsCounted ==
  ASSUME NEW s, IsSeq(s)
  PROVE  IsFiniteSet(Calls(s)) /\ Cardinality(Calls(s)) \in Nat
BY PositionsFinite DEF Calls

\* A call that goes on is at most one more to take a boundary off, and none more
\* if it was one.
LEMMA CallGoesOn ==
  ASSUME NEW s, AreFrames(s), s # <<>>, NEW f, IsFrame(f)
  PROVE  LET t == [s EXCEPT ![Len(s)] = f]
         IN /\ AreFrames(t) /\ Len(t) = Len(s)
            /\ Cardinality(Calls(t)) <= Cardinality(Calls(s)) + 1
            /\ (IsCall(f) => IsCall(s[Len(s)])) => Cardinality(Calls(t)) <= Cardinality(Calls(s))
<1> DEFINE n == Len(s)
           t == [s EXCEPT ![n] = f]
<1>1. n \in Nat /\ n # 0 /\ DOMAIN s = 1..n /\ n \in 1..n /\ IsSeq(s)
  BY SeqFacts DEF AreFrames, IsSeq
<1>2. /\ IsSeq(t) /\ Len(t) = n /\ t[n] = f /\ \A i \in 1..n : i # n => t[i] = s[i]
  BY <1>1, ExceptIsSeq
<1>3. DOMAIN t = 1..n
  BY <1>2, SeqFacts
<1> HIDE DEF t, n
<1>4. AreFrames(t)
  BY <1>1, <1>2, <1>3 DEF AreFrames
<1>5. Calls(t) \subseteq Calls(s) \cup {n}
  BY <1>1, <1>2, <1>3 DEF Calls
<1>6. (IsCall(f) => IsCall(s[n])) => Calls(t) \subseteq Calls(s)
  BY <1>1, <1>2, <1>3 DEF Calls
<1>7. /\ IsFiniteSet(Calls(s)) /\ IsFiniteSet(Calls(t))
      /\ Cardinality(Calls(s)) \in Nat /\ Cardinality(Calls(t)) \in Nat
  BY <1>1, <1>2, CallsCounted
<1>8. /\ IsFiniteSet(Calls(s) \cup {n})
      /\ Cardinality(Calls(s) \cup {n}) <= Cardinality(Calls(s)) + 1
  <2>1. CASE n \in Calls(s)
    <3>1. Calls(s) \cup {n} = Calls(s)
      BY <2>1
    <3>2. IsFiniteSet(Calls(s) \cup {n})
      BY <3>1, <1>7, Zenon
    <3>3. Cardinality(Calls(s) \cup {n}) = Cardinality(Calls(s))
      BY <3>1, Zenon
    <3>4. QED BY <3>2, <3>3, <1>7
  <2>2. CASE n \notin Calls(s)
    <3>1. /\ IsFiniteSet(Calls(s) \cup {n})
          /\ Cardinality(Calls(s) \cup {n}) = Cardinality(Calls(s)) + 1
      BY <2>2, <1>7, FS_AddElement, Zenon
    <3>2. QED BY <3>1, <1>7
  <2>3. QED BY <2>1, <2>2
<1>9. Cardinality(Calls(t)) <= Cardinality(Calls(s)) + 1
  <2>1. Cardinality(Calls(t)) <= Cardinality(Calls(s) \cup {n})
    BY <1>5, <1>8, FS_Subset
  <2>2. Cardinality(Calls(s) \cup {n}) \in Nat
    BY <1>8, FS_CardinalityType
  <2>3. QED BY <2>1, <2>2, <1>7, <1>8
<1>10. (IsCall(f) => IsCall(s[n])) => Cardinality(Calls(t)) <= Cardinality(Calls(s))
  BY <1>6, <1>7, FS_Subset
<1>11. QED BY <1>2, <1>4, <1>9, <1>10 DEF n, t

\* A call that returns is one fewer, if it is one to take a boundary off.
LEMMA CallReturns ==
  ASSUME NEW s, AreFrames(s), s # <<>>
  PROVE  LET t == SubSeq(s, 1, Len(s) - 1)
         IN /\ AreFrames(t)
            /\ Cardinality(Calls(t)) <= Cardinality(Calls(s))
            /\ IsCall(s[Len(s)]) => Cardinality(Calls(t)) = Cardinality(Calls(s)) - 1
<1> DEFINE n == Len(s)
           t == SubSeq(s, 1, n - 1)
<1>1. n \in Nat /\ n # 0 /\ DOMAIN s = 1..n /\ n \in 1..n /\ n - 1 \in 0..n /\ IsSeq(s)
  BY SeqFacts DEF AreFrames, IsSeq
<1>2. IsSeq(t) /\ Len(t) = n - 1 /\ \A i \in 1..(n - 1) : t[i] = s[i]
  BY <1>1, SubSeqIsSeq
<1>3. DOMAIN t = 1..(n - 1)
  BY <1>2, SeqFacts
<1> HIDE DEF t, n
<1>4. AreFrames(t)
  BY <1>1, <1>2, <1>3 DEF AreFrames
<1>5. Calls(t) = Calls(s) \ {n}
  BY <1>1, <1>2, <1>3 DEF Calls
<1>6. IsCall(s[n]) => n \in Calls(s)
  BY <1>1 DEF Calls
<1>7. IsFiniteSet(Calls(s)) /\ Cardinality(Calls(s)) \in Nat
  BY <1>1, CallsCounted
<1>8. Cardinality(Calls(t)) <= Cardinality(Calls(s))
  BY <1>5, <1>7, FS_Subset
<1>9. IsCall(s[n]) => Cardinality(Calls(t)) = Cardinality(Calls(s)) - 1
  BY <1>5, <1>6, <1>7, FS_RemoveElement
<1>10. QED BY <1>4, <1>8, <1>9 DEF n, t

\* A call of a function that takes no boundary off adds none.
LEMMA CallsAnother ==
  ASSUME NEW s, AreFrames(s), NEW f, IsFrame(f), ~IsCall(f)
  PROVE  AreFrames(Append(s, f)) /\ Calls(Append(s, f)) = Calls(s)
<1> DEFINE n == Len(s)
           t == Append(s, f)
<1>1. n \in Nat /\ DOMAIN s = 1..n /\ IsSeq(s)
  BY SeqFacts DEF AreFrames
<1>2. IsSeq(t) /\ Len(t) = n + 1 /\ t[n + 1] = f /\ \A i \in 1..n : t[i] = s[i]
  BY <1>1, AppendIsSeq
<1>3. DOMAIN t = 1..(n + 1)
  BY <1>2, SeqFacts
<1> HIDE DEF t
<1>4. AreFrames(t)
  BY <1>1, <1>2, <1>3 DEF AreFrames
<1>5. Calls(t) = Calls(s)
  BY <1>1, <1>2, <1>3 DEF Calls
<1>6. QED BY <1>4, <1>5 DEF t

\* A step that leaves both stacks alone keeps a boundary for every call.
LEMMA BoundaryUnchanged ==
  ASSUME BoundaryInv, UNCHANGED <<frames, boundaryStack>>
  PROVE  BoundaryInv'
BY DEF BoundaryInv, AreFrames, IsSeq, Calls, IsCall, IsFrame

\* The innermost call.
LEMMA TopFacts ==
  ASSUME BoundaryInv, frames # <<>>
  PROVE  /\ Len(frames) \in DOMAIN frames
         /\ IsFrame(Top)
BY SeqFacts DEF BoundaryInv, AreFrames, IsSeq, Top

\* A step that leaves the stack of boundaries alone and goes on with a call
\* that is to take one off only where there was one.
LEMMA BoundaryGoesOn ==
  ASSUME BoundaryInv, frames # <<>>, NEW f, IsFrame(f), IsCall(f) => IsCall(Top),
         GoOn(f), boundaryStack' = boundaryStack
  PROVE  BoundaryInv'
<1> DEFINE t == [frames EXCEPT ![Len(frames)] = f]
<1>1. AreFrames(t) /\ Cardinality(Calls(t)) <= Cardinality(Calls(frames)) /\ Len(t) = Len(frames)
  BY CallGoesOn DEF BoundaryInv, Top
<1>2. frames' = t
  BY DEF GoOn
<1> HIDE DEF t
<1>3. /\ Cardinality(Calls(t)) \in Nat /\ Cardinality(Calls(frames)) \in Nat
      /\ Len(boundaryStack) \in Nat
  BY <1>1, CallsCounted, SeqFacts DEF AreFrames, BoundaryInv
<1>4. Cardinality(Calls(t)) <= Len(boundaryStack)
  BY <1>1, <1>3 DEF BoundaryInv
<1>5. Calls(frames)' = Calls(t) /\ AreFrames(frames)' /\ IsSeq(boundaryStack)'
  BY <1>1, <1>2 DEF Calls, BoundaryInv, AreFrames, IsSeq, IsCall, IsFrame
<1>6. (Cardinality(Calls(frames)) <= Len(boundaryStack))'
  BY <1>4, <1>5
<1>7. QED BY <1>5, <1>6 DEF BoundaryInv

\* A step that leaves the stack of boundaries alone and returns.
LEMMA BoundaryReturns ==
  ASSUME BoundaryInv, frames # <<>>, Return, boundaryStack' = boundaryStack
  PROVE  BoundaryInv'
<1> DEFINE t == SubSeq(frames, 1, Len(frames) - 1)
<1>1. AreFrames(t) /\ Cardinality(Calls(t)) <= Cardinality(Calls(frames))
  BY CallReturns DEF BoundaryInv
<1>2. frames' = t
  BY DEF Return
<1> HIDE DEF t
<1>3. /\ Cardinality(Calls(t)) \in Nat /\ Cardinality(Calls(frames)) \in Nat
      /\ Len(boundaryStack) \in Nat
  BY <1>1, CallsCounted, SeqFacts DEF AreFrames, BoundaryInv
<1>4. Cardinality(Calls(t)) <= Len(boundaryStack)
  BY <1>1, <1>3 DEF BoundaryInv
<1>5. Calls(frames)' = Calls(t) /\ AreFrames(frames)' /\ IsSeq(boundaryStack)'
  BY <1>1, <1>2 DEF Calls, BoundaryInv, AreFrames, IsSeq, IsCall, IsFrame
<1>6. (Cardinality(Calls(frames)) <= Len(boundaryStack))'
  BY <1>4, <1>5
<1>7. QED BY <1>5, <1>6 DEF BoundaryInv

\* A header that announces a multipart puts its boundary on the stack, however
\* many announced one before it.
LEMMA BoundaryAnnounced ==
  ASSUME BoundaryInv, frames # <<>>, NEW f, IsFrame(f), NEW b,
         GoOn(f), boundaryStack' = Append(boundaryStack, b)
  PROVE  BoundaryInv'
<1> DEFINE t == [frames EXCEPT ![Len(frames)] = f]
<1>1. AreFrames(t) /\ Cardinality(Calls(t)) <= Cardinality(Calls(frames)) + 1
  BY CallGoesOn DEF BoundaryInv
<1>2. frames' = t
  BY DEF GoOn
<1> HIDE DEF t
<1>3. /\ Cardinality(Calls(t)) \in Nat /\ Cardinality(Calls(frames)) \in Nat
      /\ Len(boundaryStack) \in Nat
  BY <1>1, CallsCounted, SeqFacts DEF AreFrames, BoundaryInv
<1>4. IsSeq(Append(boundaryStack, b)) /\ Len(Append(boundaryStack, b)) = Len(boundaryStack) + 1
  BY AppendIsSeq DEF BoundaryInv
<1>5. Cardinality(Calls(t)) <= Len(Append(boundaryStack, b))
  BY <1>1, <1>3, <1>4 DEF BoundaryInv
<1>6. Calls(frames)' = Calls(t) /\ AreFrames(frames)' /\ IsSeq(boundaryStack)'
  BY <1>1, <1>2, <1>4 DEF Calls, BoundaryInv, AreFrames, IsSeq, IsCall, IsFrame
<1>7. (Cardinality(Calls(frames)) <= Len(boundaryStack))'
  BY <1>5, <1>6
<1>8. QED BY <1>6, <1>7 DEF BoundaryInv

\* A multipart that ends takes its own boundary off the stack.
LEMMA BoundaryTakenOff ==
  ASSUME BoundaryInv, EndMultipart
  PROVE  BoundaryInv'
<1> DEFINE t == SubSeq(frames, 1, Len(frames) - 1)
           n == Len(boundaryStack)
<1>1. frames # <<>> /\ IsCall(Top) /\ Return /\ boundaryStack' = Front(boundaryStack)
  BY DEF EndMultipart, InFunction, IsCall
<1>2. AreFrames(t) /\ Cardinality(Calls(t)) = Cardinality(Calls(frames)) - 1
  BY <1>1, CallReturns DEF BoundaryInv, Top
<1>3. frames' = t
  BY <1>1 DEF Return
<1> HIDE DEF t
<1>4. /\ Cardinality(Calls(t)) \in Nat /\ Cardinality(Calls(frames)) \in Nat /\ n \in Nat
  BY <1>2, CallsCounted, SeqFacts DEF AreFrames, BoundaryInv
<1>5. n >= 1 /\ Cardinality(Calls(t)) <= n - 1
  BY <1>2, <1>4 DEF BoundaryInv
<1>6. boundaryStack' = SubSeq(boundaryStack, 1, n - 1)
  BY <1>1 DEF Front
<1>7. IsSeq(SubSeq(boundaryStack, 1, n - 1)) /\ Len(SubSeq(boundaryStack, 1, n - 1)) = n - 1
  <2>1. IsSeq(boundaryStack) /\ n - 1 \in 0..n
    BY <1>4, <1>5 DEF BoundaryInv
  <2>2. QED BY <2>1, SubSeqIsSeq
<1>8. Calls(frames)' = Calls(t) /\ AreFrames(frames)' /\ IsSeq(boundaryStack)'
  BY <1>2, <1>3, <1>6, <1>7 DEF Calls, AreFrames, IsSeq, IsCall, IsFrame
<1>9. Len(boundaryStack)' = n - 1
  BY <1>6, <1>7
<1>10. (Cardinality(Calls(frames)) <= Len(boundaryStack))'
  BY <1>5, <1>8, <1>9
<1>11. QED BY <1>8, <1>10 DEF BoundaryInv

\* A part is read by a call of its own, above that of its multipart.
LEMMA BoundaryOfPart ==
  ASSUME BoundaryInv, NextPart
  PROVE  BoundaryInv'
<1>1. frames # <<>> /\ IsCall(Top) /\ boundaryStack' = boundaryStack /\ Top.fn = "multipart"
  BY DEF NextPart, InFunction, IsCall
<1>2. PICK b, i, j : frames' = Append([frames EXCEPT ![Len(frames)] = AfterPart(b)], Headers(i, j))
  BY DEF NextPart
<1> DEFINE f == AfterPart(b)
           t == [frames EXCEPT ![Len(frames)] = f]
           u == Append(t, Headers(i, j))
<1>3. IsFrame(f)
  BY DEF AfterPart, Multipart, IsFrame
<1>4. IsFrame(Headers(i, j)) /\ ~IsCall(Headers(i, j))
  BY DEF Headers, IsFrame, IsCall
<1>5. frames' = u
  BY <1>2
<1> HIDE DEF f
<1>6. AreFrames(t) /\ Cardinality(Calls(t)) <= Cardinality(Calls(frames))
  BY <1>1, <1>3, CallGoesOn DEF BoundaryInv, Top
<1> HIDE DEF t
<1>7. AreFrames(u) /\ Calls(u) = Calls(t)
  BY <1>4, <1>6, CallsAnother
<1> HIDE DEF u
<1>8. /\ Cardinality(Calls(t)) \in Nat /\ Cardinality(Calls(frames)) \in Nat
      /\ Len(boundaryStack) \in Nat
  BY <1>6, CallsCounted, SeqFacts DEF AreFrames, BoundaryInv
<1>9. Cardinality(Calls(t)) <= Len(boundaryStack)
  BY <1>6, <1>8 DEF BoundaryInv
<1>10. Calls(frames)' = Calls(t) /\ AreFrames(frames)' /\ IsSeq(boundaryStack)'
  BY <1>1, <1>5, <1>7 DEF Calls, BoundaryInv, AreFrames, IsSeq, IsCall, IsFrame
<1>11. (Cardinality(Calls(frames)) <= Len(boundaryStack))'
  BY <1>1, <1>9, <1>10
<1>12. QED BY <1>10, <1>11 DEF BoundaryInv

\* What a frame of headers is when two of its fields change.
LEMMA FrameWithEncoding ==
  ASSUME NEW f, IsFrame(f), f.fn = "headers", NEW i, NEW v
  PROVE  [f EXCEPT !.at = i, !.binary = v] =
           [fn |-> "headers", at |-> i, end |-> f.end, content |-> f.content, binary |-> v]
<1> DEFINE g == [f EXCEPT !.at = i]
<1>1. g = [fn |-> "headers", at |-> i, end |-> f.end, content |-> f.content, binary |-> f.binary]
  BY DEF IsFrame
<1>2. [f EXCEPT !.at = i, !.binary = v] = [g EXCEPT !.binary = v]
  OBVIOUS
<1> HIDE DEF g
<1>3. [g EXCEPT !.binary = v] =
        [fn |-> "headers", at |-> i, end |-> f.end, content |-> f.content, binary |-> v]
  BY <1>1
<1>4. QED BY <1>2, <1>3

\* The same, of the type that a header gives.
LEMMA FrameWithType ==
  ASSUME NEW f, IsFrame(f), f.fn = "headers", NEW i, NEW c
  PROVE  [f EXCEPT !.at = i, !.content = c] =
           [fn |-> "headers", at |-> i, end |-> f.end, content |-> c, binary |-> f.binary]
<1> DEFINE g == [f EXCEPT !.at = i]
<1>1. g = [fn |-> "headers", at |-> i, end |-> f.end, content |-> f.content, binary |-> f.binary]
  BY DEF IsFrame
<1>2. [f EXCEPT !.at = i, !.content = c] = [g EXCEPT !.content = c]
  OBVIOUS
<1> HIDE DEF g
<1>3. [g EXCEPT !.content = c] =
        [fn |-> "headers", at |-> i, end |-> f.end, content |-> c, binary |-> f.binary]
  BY <1>1
<1>4. QED BY <1>2, <1>3

\* Every step of an indexer keeps a boundary for every call.
LEMMA BoundaryIndex ==
  ASSUME BoundaryInv, Index
  PROVE  BoundaryInv'
<1>1. CASE EncodingHeader
  <2>1. PICK i, v : GoOn([Top EXCEPT !.at = i, !.binary = v])
    BY <1>1 DEF EncodingHeader
  <2>2. frames # <<>> /\ Top.fn = "headers" /\ IsFrame(Top) /\ boundaryStack' = boundaryStack
    BY <1>1, TopFacts DEF EncodingHeader, InFunction
  <2> DEFINE f == [Top EXCEPT !.at = i, !.binary = v]
  <2>3. f = [fn |-> "headers", at |-> i, end |-> Top.end, content |-> Top.content, binary |-> v]
    BY <2>2, FrameWithEncoding
  <2>4. IsFrame(f) /\ (IsCall(f) => IsCall(Top))
    BY <2>2, <2>3 DEF IsFrame, IsCall
  <2>5. QED BY <2>1, <2>2, <2>4, BoundaryGoesOn
<1>2. CASE TypeHeader
  <2> DEFINE line == text[NextHeader]
             type == IF line.value = "blank" THEN Top.content ELSE ContentTypeOf(line)
             f == [Top EXCEPT !.at = AfterHeader, !.content = type]
  <2>1. /\ GoOn(f)
        /\ boundaryStack' = IF line.value # "blank" /\ type = "multipart"
                            THEN Append(boundaryStack, line.boundary) ELSE boundaryStack
    BY <1>2 DEF TypeHeader
  <2>2. frames # <<>> /\ Top.fn = "headers" /\ IsFrame(Top)
    BY <1>2, TopFacts DEF TypeHeader, InFunction
  <2>3. f = [fn |-> "headers", at |-> AfterHeader, end |-> Top.end, content |-> type,
             binary |-> Top.binary]
    BY <2>2, FrameWithType
  <2>4. line.value = "blank" => type = Top.content
    OBVIOUS
  <2> HIDE DEF f, type, line
  <2>5. IsFrame(f)
    BY <2>3 DEF IsFrame
  <2>6. CASE line.value # "blank" /\ type = "multipart"
    BY <2>1, <2>2, <2>5, <2>6, BoundaryAnnounced
  <2>7. CASE ~(line.value # "blank" /\ type = "multipart")
    <3>1. IsCall(f) => IsCall(Top)
      BY <2>2, <2>3, <2>4, <2>7 DEF IsCall
    <3>2. QED BY <2>1, <2>2, <2>5, <2>7, <3>1, BoundaryGoesOn
  <2>8. QED BY <2>6, <2>7
<1>3. CASE OtherHeader
  <2>1. PICK i : GoOn([Top EXCEPT !.at = i])
    BY <1>3 DEF OtherHeader
  <2>2. frames # <<>> /\ Top.fn = "headers" /\ IsFrame(Top) /\ boundaryStack' = boundaryStack
    BY <1>3, TopFacts DEF OtherHeader, InFunction
  <2> DEFINE f == [Top EXCEPT !.at = i]
  <2>3. f = [fn |-> "headers", at |-> i, end |-> Top.end, content |-> Top.content,
             binary |-> Top.binary]
    BY <2>2 DEF IsFrame
  <2>4. IsFrame(f) /\ (IsCall(f) => IsCall(Top))
    BY <2>2, <2>3 DEF IsFrame, IsCall
  <2>5. QED BY <2>1, <2>2, <2>4, BoundaryGoesOn
<1>4. CASE SkipBody \/ PlainBody \/ FilteredBody \/ EndVcard \/ PlainText
  <2>1. frames # <<>> /\ Return /\ boundaryStack' = boundaryStack
    BY <1>4 DEF SkipBody, PlainBody, FilteredBody, EndVcard, PlainText, EndsHeaders, InFunction
  <2>2. QED BY <2>1, BoundaryReturns
<1>5. CASE OtherBody
  <2>1. /\ frames # <<>> /\ Top.fn = "headers" /\ boundaryStack' = boundaryStack
        /\ Top.content \in {"rfc822", "html", "vcard", "multipart"}
    BY <1>5 DEF OtherBody, EndsHeaders, InFunction, HasBody
  <2>2. PICK f : /\ GoOn(f) /\ IsFrame(f)
                 /\ (f.fn = "headers" => f.content = "plain")
                 /\ (f.fn = "multipart" => Top.content = "multipart")
    BY <1>5, <2>1 DEF OtherBody, Headers, Html, Vcard, Multipart, IsFrame
  <2>3. IsCall(f) => IsCall(Top)
    BY <2>1, <2>2 DEF IsCall
  <2>4. QED BY <2>1, <2>2, <2>3, BoundaryGoesOn
<1>6. CASE FindFirstBoundary
  <2>1. frames # <<>> /\ IsCall(Top) /\ boundaryStack' = boundaryStack
    BY <1>6 DEF FindFirstBoundary, InFunction, IsCall
  <2>2. PICK f : GoOn(f) /\ f.fn = "multipart"
    BY <1>6 DEF FindFirstBoundary, Multipart
  <2>3. QED BY <2>1, <2>2, BoundaryGoesOn DEF IsFrame
<1>7. CASE VcardType
  <2>1. frames # <<>> /\ boundaryStack' = boundaryStack
    BY <1>7 DEF VcardType, InFunction
  <2>2. PICK i, j : GoOn(Vcard(i, j))
    BY <1>7 DEF VcardType
  <2>3. IsFrame(Vcard(i, j)) /\ ~IsCall(Vcard(i, j))
    BY DEF Vcard, IsFrame, IsCall
  <2>4. QED BY <2>1, <2>2, <2>3, BoundaryGoesOn
<1>8. CASE HtmlBody
  <2>1. frames # <<>> /\ boundaryStack' = boundaryStack
    BY <1>8 DEF HtmlBody, InFunction
  <2>2. CASE Return
    BY <2>1, <2>2, BoundaryReturns
  <2>3. CASE GoOn(Html(Top.at + 1, Top.end))
    <3>1. IsFrame(Html(Top.at + 1, Top.end)) /\ ~IsCall(Html(Top.at + 1, Top.end))
      BY DEF Html, IsFrame, IsCall
    <3>2. QED BY <2>1, <2>3, <3>1, BoundaryGoesOn
  <2>4. QED BY <1>8, <2>2, <2>3 DEF HtmlBody
<1>9. QED BY <1>1, <1>2, <1>3, <1>4, <1>5, <1>6, <1>7, <1>8, BoundaryTakenOff, BoundaryOfPart
          DEF Index, Mail

\* Whatever headers a mail has and however its parts nest: every call that is to
\* take a boundary off the stack finds one there.
THEOREM BoundariesAtHand == Spec => []BoundaryAtHand
<1>1. Init => BoundaryInv
  <2>1. SUFFICES ASSUME Init PROVE BoundaryInv
    OBVIOUS
  <2>2. frames = <<>> /\ boundaryStack = <<>> /\ IsSeq(<<>>) /\ Len(<<>>) = 0
    BY <2>1, EmptyIsSeq DEF Init
  <2>3. DOMAIN frames = {}
    BY <2>2, SeqFacts
  <2>4. Calls(frames) = {} /\ AreFrames(frames)
    BY <2>2, <2>3 DEF Calls, AreFrames
  <2>5. Cardinality(Calls(frames)) = 0
    BY <2>4, FS_EmptySet, Zenon
  <2>6. QED BY <2>2, <2>4, <2>5 DEF BoundaryInv
<1>2. BoundaryInv /\ [Next]_vars => BoundaryInv'
  <2>1. SUFFICES ASSUME BoundaryInv, [Next]_vars PROVE BoundaryInv'
    OBVIOUS
  <2>2. ASSUME NEW d \in Documents, IndexFile(d) PROVE BoundaryInv'
    <3>1. PICK f : frames' = <<f>> /\ IsFrame(f) /\ ~IsCall(f)
      <4>1. d.format \in Formats
        BY DocumentsAssumption
      <4>2. QED BY <2>2, <4>1
            DEF IndexFile, Formats, Plain, Html, Headers, IsFrame, IsCall
    <3>2. IsSeq(<<f>>) /\ DOMAIN <<f>> = {1} /\ <<f>>[1] = f
      BY SeqIsSeq DEF IsSeq
    <3>3. Calls(<<f>>) = {} /\ AreFrames(<<f>>)
      BY <3>1, <3>2 DEF Calls, AreFrames
    <3>4. Cardinality(Calls(<<f>>)) = 0
      BY <3>3, FS_EmptySet, Zenon
    <3>5. boundaryStack' = <<>> \/ boundaryStack' = boundaryStack
      BY <2>2 DEF IndexFile
    <3>6. IsSeq(boundaryStack)' /\ Len(boundaryStack)' >= 0
      <4>1. CASE boundaryStack' = <<>>
        BY <4>1, EmptyIsSeq DEF IsSeq
      <4>2. CASE boundaryStack' = boundaryStack
        <5>1. IsSeq(boundaryStack) /\ Len(boundaryStack) \in Nat
          BY <2>1, SeqFacts DEF BoundaryInv
        <5>2. QED BY <4>2, <5>1 DEF IsSeq
      <4>3. QED BY <3>5, <4>1, <4>2
    <3>7. Calls(frames)' = Calls(<<f>>) /\ AreFrames(frames)'
      BY <3>1, <3>3 DEF Calls, AreFrames, IsSeq, IsCall, IsFrame
    <3>8. (Cardinality(Calls(frames)) <= Len(boundaryStack))'
      BY <3>4, <3>6, <3>7
    <3>9. QED BY <3>6, <3>7, <3>8 DEF BoundaryInv
  <2>3. CASE Index
    BY <2>1, <2>3, BoundaryIndex
  <2>4. CASE FileDone
    BY <2>1, <2>4, BoundaryUnchanged DEF FileDone, mailVars
  <2>5. CASE UNCHANGED vars
    BY <2>1, <2>5, BoundaryUnchanged DEF vars, mailVars
  <2>6. QED BY <2>1, <2>2, <2>3, <2>4, <2>5 DEF Next
<1>3. BoundaryInv => BoundaryAtHand
  BY DEF BoundaryInv, BoundaryAtHand, MultipartCalls, Calls, IsCall
<1>4. QED BY <1>1, <1>2, <1>3, PTL DEF Spec
-----------------------------------------------------------------------------
(* Types: what is indexed lies in the text, under an id that there is.     *)

\* A sequence of elements of a set is one of any set that has them.
LEMMA SeqWider ==
  ASSUME NEW S, NEW T, S \subseteq T, NEW s \in Seq(S)
  PROVE  s \in Seq(T)
OBVIOUS

\* The text is a sequence of lines.
LEMMA TextFacts ==
  ASSUME TextInv
  PROVE  /\ Len(text) \in Nat /\ DOMAIN text = 1..Len(text)
         /\ \A k \in DOMAIN text : IsLine(text[k])
<1>1. CASE text = <<>>
  BY <1>1, EmptyIsSeq, SeqFacts
<1>2. ASSUME NEW d \in Documents, text = d.lines
      PROVE  IsSeq(text) /\ \A k \in DOMAIN text : IsLine(text[k])
  BY <1>2, DocumentsAssumption DEF IsSeq
<1>3. QED BY <1>1, <1>2, SeqFacts DEF TextInv

\* The places of words: lines up to the n-th, and ids of m meta names
WordsOf(n, m) == [line : 1..n, meta : -1..(m - 1)]

\* The words of lines are added at these lines, under the id that is given.
LEMMA WordsAddedType ==
  ASSUME TextInv, NEW i \in Nat, i >= 1, NEW j \in Nat, j <= Len(text) + 1,
         NEW m \in Nat, NEW id \in -1..(m - 1), NEW n
  PROVE  WordsAdded(i, j, id, n) \in Seq(WordsOf(Len(text), m))
<1> DEFINE X == WordsOf(Len(text), m)
           words == [k \in 1..(j - i) |->
             IF text[i + k - 1].kind = "blank" THEN <<>> ELSE <<[line |-> i + k - 1, meta |-> id]>>]
<1>1. <<>> \in Seq(X)
  OBVIOUS
<1>2. ASSUME NEW k \in 1..(j - i)
      PROVE  words[k] \in Seq(X)
  <2>1. [line |-> i + k - 1, meta |-> id] \in X
    BY TextFacts DEF WordsOf
  <2> HIDE DEF X
  <2>2. <<[line |-> i + k - 1, meta |-> id]>> \in Seq(X)
    BY <2>1
  <2>3. QED BY <1>1, <2>2
<1>3. words \in Seq(Seq(X))
  <2>1. words = [k \in 1..(j - i) |-> words[k]]
    OBVIOUS
  <2> HIDE DEF words, X
  <2>2. PICK n1 \in Nat : 1..(j - i) = 1..n1
    <3>1. CASE j >= i
      BY <3>1
    <3>2. CASE j < i
      <4>1. 1..(j - i) = 1..0
        BY <3>2
      <4>2. QED BY <4>1
    <3>3. QED BY <3>1, <3>2
  <2>3. words \in [1..n1 -> Seq(X)]
    BY <2>1, <2>2, <1>2
  <2>4. QED BY <2>3, FunctionIsSeq
<1>4. FlattenSeq(words) \in Seq(X)
  <2> HIDE DEF words, X
  <2>1. QED BY <1>3, FlattenType
<1>5. QED BY <1>1, <1>4 DEF WordsAdded

\* Words that are added after others, when there are as many meta names or more
LEMMA WordsJoined ==
  ASSUME NEW n \in Nat, NEW m \in Nat, NEW k \in Nat, m <= k,
         NEW s \in Seq(WordsOf(n, m)), NEW t \in Seq(WordsOf(n, k))
  PROVE  s \in Seq(WordsOf(n, k)) /\ s \o t \in Seq(WordsOf(n, k))
<1>1. WordsOf(n, m) \subseteq WordsOf(n, k)
  BY DEF WordsOf
<1> HIDE DEF WordsOf
<1>2. s \in Seq(WordsOf(n, k))
  BY <1>1, SeqWider
<1>3. QED BY <1>2

\* find_meta() yields an id that there is, and takes no name away.
LEMMA MetaIdsType ==
  ASSUME metaIds \in Seq(STRING), NEW name \in STRING
  PROVE  /\ MetaIdsWith(name) \in Seq(STRING)
         /\ Len(metaIds) \in Nat /\ Len(MetaIdsWith(name)) \in Nat
         /\ Len(metaIds) <= Len(MetaIdsWith(name))
         /\ FindMeta(name) \in -1..(Len(MetaIdsWith(name)) - 1)
<1>1. MetaWanted(name) => MetaName(name) \in STRING
  BY MetaAssumption DEF MetaWanted, MetaName
<1>2. PICK S, n, ids : S = STRING /\ n = MetaName(name) /\ ids = MetaIdsWith(name)
  OBVIOUS
<1>3. metaIds \in Seq(S) /\ (MetaWanted(name) => n \in S)
  BY <1>1, <1>2
<1>4. ids = IF MetaWanted(name) /\ ~Contains(metaIds, n) THEN Append(metaIds, n) ELSE metaIds
  BY <1>2 DEF MetaIdsWith
<1>5. ids \in Seq(S) /\ Len(metaIds) <= Len(ids) /\ Len(metaIds) \in Nat /\ Len(ids) \in Nat
  <2>1. CASE MetaWanted(name) /\ ~Contains(metaIds, n)
    <3>1. ids = Append(metaIds, n) /\ n \in S /\ metaIds \in Seq(S)
      BY <2>1, <1>3, <1>4
    <3>2. QED BY <3>1
  <2>2. CASE ~(MetaWanted(name) /\ ~Contains(metaIds, n))
    <3>1. ids = metaIds /\ metaIds \in Seq(S)
      BY <2>2, <1>3, <1>4
    <3>2. QED BY <3>1
  <2>3. QED BY <2>1, <2>2
<1>6. MetaWanted(name) => \E i \in DOMAIN ids : ids[i] = n
  <2>1. CASE MetaWanted(name) /\ Contains(metaIds, n)
    BY <2>1, <1>3, <1>4 DEF Contains
  <2>2. CASE MetaWanted(name) /\ ~Contains(metaIds, n)
    <3>1. ids = Append(metaIds, n) /\ n \in S
      BY <2>2, <1>3, <1>4
    <3>2. Len(metaIds) + 1 \in DOMAIN ids /\ ids[Len(metaIds) + 1] = n
      BY <3>1, <1>3
    <3>3. QED BY <3>2
  <2>3. QED BY <2>1, <2>2
<1>7. FindMeta(name) \in -1..(Len(ids) - 1)
  <2>1. CASE MetaWanted(name)
    <3>1. PICK id : id = CHOOSE i \in DOMAIN ids : ids[i] = n
      OBVIOUS
    <3>2. id \in DOMAIN ids
      BY <2>1, <3>1, <1>6
    <3>3. FindMeta(name) = id - 1
      BY <2>1, <3>1, <1>2 DEF FindMeta
    <3>4. DOMAIN ids = 1..Len(ids)
      BY <1>5
    <3>5. QED BY <3>2, <3>3, <3>4, <1>5
  <2>2. CASE ~MetaWanted(name)
    BY <2>2, <1>5 DEF FindMeta, NoMeta
  <2>3. QED BY <2>1, <2>2
<1>8. QED BY <1>2, <1>5, <1>7

\* The words that were added, and the names they were added under
WordsOK ==
  /\ metaIds \in Seq(STRING)
  /\ indexed \in Seq(WordsOf(Len(text), Len(metaIds)))

\* A step that adds no words and no names
LEMMA WordsUnchanged ==
  ASSUME WordsOK, UNCHANGED <<text, metaIds, indexed>>
  PROVE  WordsOK'
BY DEF WordsOK, WordsOf

\* A step that adds the words of some lines under an id that there is by then
LEMMA WordsAddedOK ==
  ASSUME WordsOK, TextInv, text' = text, metaIds' \in Seq(STRING), Len(metaIds) <= Len(metaIds'),
         NEW i \in Nat, i >= 1, NEW j \in Nat, j <= Len(text) + 1,
         NEW id \in -1..(Len(metaIds') - 1), NEW n,
         indexed' = indexed \/ indexed' = indexed \o WordsAdded(i, j, id, n)
  PROVE  WordsOK'
<1>1. /\ Len(metaIds) \in Nat /\ Len(metaIds') \in Nat /\ Len(text) \in Nat
      /\ indexed \in Seq(WordsOf(Len(text), Len(metaIds)))
  BY TextFacts DEF WordsOK
<1>2. WordsAdded(i, j, id, n) \in Seq(WordsOf(Len(text), Len(metaIds')))
  BY <1>1, WordsAddedType
<1>3. indexed' \in Seq(WordsOf(Len(text), Len(metaIds')))
  <2>1. PICK n1 \in Nat, m \in Nat, k \in Nat :
          n1 = Len(text) /\ m = Len(metaIds) /\ k = Len(metaIds')
    BY <1>1
  <2>2. PICK t : t = WordsAdded(i, j, id, n)
    OBVIOUS
  <2>3. /\ m <= k /\ indexed \in Seq(WordsOf(n1, m)) /\ t \in Seq(WordsOf(n1, k))
        /\ indexed' = indexed \/ indexed' = indexed \o t
    BY <1>1, <1>2, <2>1, <2>2
  <2>4. indexed \in Seq(WordsOf(n1, k)) /\ indexed \o t \in Seq(WordsOf(n1, k))
    BY <2>3, WordsJoined
  <2>5. indexed' \in Seq(WordsOf(n1, k))
    BY <2>3, <2>4
  <2>6. QED BY <2>1, <2>5
<1>4. QED BY <1>3 DEF WordsOK, WordsOf

\* The words of lines without a name
LEMMA IndexWordsOK ==
  ASSUME WordsOK, TextInv, text' = text, metaIds' = metaIds,
         NEW i \in Nat, i >= 1, NEW j \in Nat, j <= Len(text) + 1, IndexWords(i, j, NoMeta)
  PROVE  WordsOK'
<1>1. metaIds' \in Seq(STRING) /\ Len(metaIds) \in Nat /\ Len(metaIds) <= Len(metaIds')
  BY DEF WordsOK
<1>2. NoMeta \in -1..(Len(metaIds') - 1)
  BY <1>1 DEF NoMeta
<1>3. indexed' = indexed \o WordsAdded(i, j, NoMeta, suspended)
  BY DEF IndexWords
<1>4. QED BY <1>1, <1>2, <1>3, WordsAddedOK

-----------------------------------------------------------------------------
\* Ranges of lines

\* The first of some lines, or the end, is not beyond the end.
LEMMA FirstInRange ==
  ASSUME NEW i \in Nat, NEW j \in Nat, i <= j, NEW S \in SUBSET (i..(j - 1))
  PROVE  First(S, j) \in i..j /\ First(S, j) \in S \cup {j}
<1>1. S \cup {j} \in SUBSET Nat /\ S \cup {j} # {}
  OBVIOUS
<1>2. \E x \in S \cup {j} : \A y \in S \cup {j} : x <= y
  BY <1>1, LeastNumber
<1>3. First(S, j) \in S \cup {j}
  BY <1>2 DEF First, Min
<1>4. S \cup {j} \subseteq i..j
  OBVIOUS
<1>5. QED BY <1>3, <1>4, Zenon

\* A frame's range lies in a text of n lines.
InText(f, n) == 1 <= f.at /\ f.at <= f.end /\ f.end <= n + 1

\* The types of frames: their ranges are numbers.
LEMMA FrameFacts ==
  ASSUME NEW f \in Frame
  PROVE  /\ f.at \in Nat /\ f.end \in Nat
         /\ f.fn \in {"headers", "multipart", "vcard", "html", "plain"}
         /\ f.fn = "headers" => /\ f \in [fn : {"headers"}, at : Nat, end : Nat,
                                          content : ContentTypes, binary : BOOLEAN]
                                /\ f.content \in ContentTypes /\ f.binary \in BOOLEAN
BY DEF Frame

FramesOK(s, n) == s \in Seq(Frame) /\ \A i \in DOMAIN s : InText(s[i], n)

\* A call goes on.
LEMMA FramesGoOn ==
  ASSUME NEW n, NEW s, FramesOK(s, n), s # <<>>, NEW f \in Frame, InText(f, n)
  PROVE  FramesOK([s EXCEPT ![Len(s)] = f], n) /\ [s EXCEPT ![Len(s)] = f] # <<>>
<1> DEFINE t == [s EXCEPT ![Len(s)] = f]
<1>1. /\ s \in Seq(Frame) /\ Len(s) \in 1..Len(s) /\ DOMAIN s = 1..Len(s)
  BY DEF FramesOK
<1>2. t \in Seq(Frame) /\ Len(t) = Len(s) /\ DOMAIN t = 1..Len(s)
  BY <1>1
<1>3. \A i \in 1..Len(s) : t[i] = IF i = Len(s) THEN f ELSE s[i]
  BY <1>1
<1>4. \A i \in DOMAIN t : InText(t[i], n)
  BY <1>1, <1>2, <1>3 DEF FramesOK
<1>5. t # <<>>
  BY <1>1, <1>2
<1>6. QED BY <1>2, <1>4, <1>5 DEF FramesOK

\* A call that returns leaves the others as they are.
LEMMA FramesReturn ==
  ASSUME NEW n, NEW s, FramesOK(s, n), s # <<>>
  PROVE  FramesOK(SubSeq(s, 1, Len(s) - 1), n)
BY DEF FramesOK

\* A call of another function comes on top.
LEMMA FramesCall ==
  ASSUME NEW n, NEW s, FramesOK(s, n), NEW f \in Frame, InText(f, n)
  PROVE  FramesOK(Append(s, f), n)
BY DEF FramesOK

-----------------------------------------------------------------------------
\* What every step of the indexers keeps
TypeInv == TypeOK /\ TextInv

\* The call that is in progress
LEMMA TopType ==
  ASSUME TypeInv, frames # <<>>
  PROVE  /\ Top \in Frame /\ InText(Top, Len(text)) /\ FramesOK(frames, Len(text))
         /\ Len(text) \in Nat /\ WordsOK
<1>1. Len(text) \in Nat /\ DOMAIN text = 1..Len(text)
  BY TextFacts DEF TypeInv
<1>2. FramesOK(frames, Len(text))
  BY DEF TypeInv, TypeOK, FramesOK, InText
<1>3. WordsOK
  BY <1>1 DEF TypeInv, TypeOK, WordsOK, WordsOf
<1>4. Top \in Frame /\ InText(Top, Len(text))
  BY <1>2 DEF FramesOK, Top
<1>5. QED BY <1>1, <1>2, <1>3, <1>4

\* What a step must keep beyond the frames and the words
OthersOK ==
  /\ suspended \in Nat
  /\ elementStack \in Seq([name : Stacked, skip : BOOLEAN])
  /\ boundaryStack \in Seq(STRING)
  /\ didLastHeader \in BOOLEAN

\* What a step of an indexer has to show
LEMMA TypeStep ==
  ASSUME TypeInv, text' = text, files' = files, WordsOK', OthersOK',
         FramesOK(frames', Len(text))
  PROVE  TypeInv'
<1>1. Len(text) \in Nat /\ DOMAIN text = 1..Len(text)
  BY TextFacts DEF TypeInv
<1>2. TextInv'
  BY DEF TypeInv, TextInv
<1>3. \A i \in DOMAIN frames' :
        /\ 1 <= frames'[i].at /\ frames'[i].at <= frames'[i].end
        /\ frames'[i].end <= Len(text') + 1
  BY DEF FramesOK, InText
<1>4. /\ metaIds' \in Seq(STRING)
      /\ indexed' \in Seq([line : DOMAIN text', meta : -1..(Len(metaIds') - 1)])
  BY <1>1 DEF WordsOK, WordsOf
<1>5. frames' \in Seq(Frame) /\ files' \in 0..MaxFiles
  BY DEF FramesOK, TypeInv, TypeOK
<1>6. TypeOK'
  BY <1>3, <1>4, <1>5 DEF OthersOK, TypeOK
<1>7. QED BY <1>2, <1>6 DEF TypeInv

\* The other variables as they are
LEMMA OthersFacts ==
  ASSUME TypeInv
  PROVE  OthersOK
BY DEF TypeInv, TypeOK, OthersOK

\* A step that leaves them alone, but for the flag of the last header
LEMMA OthersUnchanged ==
  ASSUME TypeInv, UNCHANGED <<suspended, elementStack, boundaryStack>>, didLastHeader' \in BOOLEAN
  PROVE  OthersOK'
BY OthersFacts DEF OthersOK

-----------------------------------------------------------------------------
\* Where parse_header() finds a header, and where it leaves the iterator

\* A header, its value and the line behind it lie in the range that is read.
LEMMA HeaderInRange ==
  ASSUME TypeInv, frames # <<>>, FindsHeader
  PROVE  /\ NextHeader \in Top.at..(Top.end - 1) /\ NextHeader \in DOMAIN text
         /\ NextValueEnd \in (NextHeader + 1)..Top.end
         /\ AfterHeader \in Top.at..Top.end
         /\ text[NextHeader].name \in STRING /\ text[NextHeader].boundary \in STRING
<1> DEFINE i == Top.at
           j == Top.end
<1>1. i \in Nat /\ j \in Nat /\ 1 <= i /\ i <= j /\ j <= Len(text) + 1 /\ Len(text) \in Nat
  BY TopType, FrameFacts DEF InText
<1>2. HeaderAt(i, j) \in i..j
  <2> DEFINE S == {k \in i..(j - 1) : text[k].kind # "envelope"}
  <2>1. S \in SUBSET (i..(j - 1))
    OBVIOUS
  <2>2. HeaderAt(i, j) = First(S, j)
    BY DEF HeaderAt
  <2> HIDE DEF S, i, j
  <2>3. QED BY <2>1, <2>2, <1>1, FirstInRange
<1>3. NextHeader = HeaderAt(i, j) /\ NextHeader < j /\ text[NextHeader].kind = "header"
  BY DEF FindsHeader, IsHeader, NextHeader
<1> DEFINE h == NextHeader
<1>4. h \in i..(j - 1) /\ h \in DOMAIN text /\ h \in Nat
  <2> HIDE DEF i, j
  <2>1. QED BY <1>1, <1>2, <1>3, TextFacts DEF TypeInv
<1>5. NextValueEnd \in (h + 1)..j
  <2> DEFINE S == {k \in (h + 1)..(j - 1) : text[k].kind # "folded"}
  <2>1. S \in SUBSET ((h + 1)..(j - 1))
    OBVIOUS
  <2>2. NextValueEnd = First(S, j)
    BY DEF NextValueEnd, ValueEnd
  <2> HIDE DEF S, i, j, h
  <2>3. h + 1 \in Nat /\ h + 1 <= j
    BY <1>1, <1>4
  <2>4. QED BY <2>1, <2>2, <2>3, <1>1, FirstInRange
<1>6. AfterHeader \in i..j
  <2>1. AfterHeader = AfterValue(NextValueEnd, j)
    BY DEF AfterHeader
  <2> HIDE DEF i, j, h
  <2>2. QED BY <2>1, <1>1, <1>4, <1>5 DEF AfterValue
<1>7. IsLine(text[h])
  BY <1>4, TextFacts DEF TypeInv
<1>8. QED BY <1>3, <1>4, <1>5, <1>6, <1>7 DEF IsLine

\* What is left when there is no further header
LEMMA AfterHeadersInRange ==
  ASSUME TypeInv, frames # <<>>
  PROVE  AfterHeaders \in Top.at..Top.end
<1> DEFINE i == Top.at
           j == Top.end
<1>1. i \in Nat /\ j \in Nat /\ i <= j
  BY TopType, FrameFacts DEF InText
<1>2. NextHeader \in i..j
  <2> DEFINE S == {k \in i..(j - 1) : text[k].kind # "envelope"}
  <2>1. S \in SUBSET (i..(j - 1))
    OBVIOUS
  <2>2. NextHeader = First(S, j)
    BY DEF NextHeader, HeaderAt
  <2> HIDE DEF S, i, j
  <2>3. QED BY <2>1, <2>2, <1>1, FirstInRange
<1>3. AfterHeaders = IF didLastHeader THEN i ELSE IF NextHeader < j THEN NextHeader + 1 ELSE j
  BY DEF AfterHeaders
<1> HIDE DEF i, j
<1>4. AfterHeaders \in i..j
  BY <1>1, <1>2, <1>3
<1>5. QED BY <1>4 DEF i, j

\* A header's value is indexed under an id that there is.
LEMMA IndexHeaderOK ==
  ASSUME TypeInv, frames # <<>>, FindsHeader, IndexHeader, text' = text
  PROVE  WordsOK'
<1> DEFINE name == text[NextHeader].name
<1>1. /\ name \in STRING /\ NextHeader \in Nat /\ NextHeader >= 1
      /\ NextValueEnd \in Nat /\ NextValueEnd <= Len(text) + 1
  BY HeaderInRange, TopType, FrameFacts DEF InText
<1>2. WordsOK /\ TextInv /\ metaIds \in Seq(STRING)
  BY TopType DEF TypeInv, TypeOK
<1>3. CASE MetaWanted(name)
  <2>1. /\ metaIds' = MetaIdsWith(name)
        /\ indexed' = indexed \o WordsAdded(NextHeader, NextValueEnd, FindMeta(name), suspended)
    BY <1>3 DEF IndexHeader, IndexWords
  <2> HIDE DEF name
  <2>2. /\ metaIds' \in Seq(STRING) /\ Len(metaIds) <= Len(metaIds')
        /\ FindMeta(name) \in -1..(Len(metaIds') - 1)
    BY <1>1, <1>2, <2>1, MetaIdsType
  <2>3. QED BY <1>1, <1>2, <2>1, <2>2, WordsAddedOK
<1>4. CASE ~MetaWanted(name)
  <2>1. UNCHANGED <<text, metaIds, indexed>>
    BY <1>4 DEF IndexHeader
  <2>2. QED BY <1>2, <2>1, WordsUnchanged
<1>5. QED BY <1>3, <1>4

-----------------------------------------------------------------------------
\* What the steps make of frames

\* The call in progress goes on with another frame.
LEMMA GoOnOK ==
  ASSUME TypeInv, frames # <<>>, NEW f \in Frame, InText(f, Len(text)), GoOn(f)
  PROVE  FramesOK(frames', Len(text))
<1>1. FramesOK([frames EXCEPT ![Len(frames)] = f], Len(text))
  BY TopType, FramesGoOn
<1>2. QED BY <1>1 DEF GoOn

\* The call in progress returns.
LEMMA ReturnOK ==
  ASSUME TypeInv, frames # <<>>, Return
  PROVE  FramesOK(frames', Len(text))
<1>1. FramesOK(SubSeq(frames, 1, Len(frames) - 1), Len(text))
  BY TopType, FramesReturn
<1>2. QED BY <1>1 DEF Return

\* A range within that of a frame lies in the text, too.
LEMMA WithinFrame ==
  ASSUME TypeInv, frames # <<>>, NEW i \in Top.at..Top.end
  PROVE  /\ i \in Nat /\ 1 <= i /\ i <= Top.end /\ Top.end \in Nat /\ Top.end <= Len(text) + 1
         /\ Len(text) \in Nat
BY TopType, FrameFacts DEF InText

\* Frames of any function with a range in the text
LEMMA NewFrames ==
  ASSUME NEW n \in Nat, NEW i \in Nat, NEW j \in Nat, 1 <= i, i <= j, j <= n + 1
  PROVE  /\ Headers(i, j) \in Frame /\ InText(Headers(i, j), n)
         /\ \A phase \in {"preamble", "parts", "done"} :
              Multipart(i, j, phase) \in Frame /\ InText(Multipart(i, j, phase), n)
         /\ Vcard(i, j) \in Frame /\ InText(Vcard(i, j), n)
         /\ Html(i, j) \in Frame /\ InText(Html(i, j), n)
         /\ Plain(i, j) \in Frame /\ InText(Plain(i, j), n)
BY DEF Headers, Multipart, Vcard, Html, Plain, Frame, InText, ContentTypes

\* A frame of headers, further on in its range
LEMMA HeadersOnward ==
  ASSUME TypeInv, frames # <<>>, Top.fn = "headers", NEW i \in Top.at..Top.end,
         NEW c \in ContentTypes, NEW b \in BOOLEAN,
         NEW f, f = [fn |-> "headers", at |-> i, end |-> Top.end, content |-> c, binary |-> b]
  PROVE  f \in Frame /\ InText(f, Len(text))
BY WithinFrame DEF Frame, InText

\* A frame of headers has the fields of one, with their types.
LEMMA HeadersIsFrame ==
  ASSUME TypeInv, frames # <<>>, Top.fn = "headers"
  PROVE  IsFrame(Top) /\ Top.content \in ContentTypes /\ Top.binary \in BOOLEAN
BY TopType, FrameFacts DEF IsFrame

\* Content-Transfer-Encoding
LEMMA TypeEncodingHeader ==
  ASSUME TypeInv, EncodingHeader, files' = files
  PROVE  TypeInv'
<1>1. /\ frames # <<>> /\ Top.fn = "headers" /\ FindsHeader
      /\ text' = text /\ UNCHANGED <<suspended, metaIds, indexed, elementStack, boundaryStack>>
      /\ didLastHeader' \in BOOLEAN
  BY DEF EncodingHeader, InFunction, ParseHeader, htmlVars
<1>2. PICK b \in BOOLEAN : GoOn([Top EXCEPT !.at = AfterHeader, !.binary = b])
  <2>1. Top.binary \in BOOLEAN
    BY <1>1, HeadersIsFrame
  <2>2. QED BY <2>1 DEF EncodingHeader
<1> DEFINE f == [Top EXCEPT !.at = AfterHeader, !.binary = b]
<1>3. f = [fn |-> "headers", at |-> AfterHeader, end |-> Top.end, content |-> Top.content,
           binary |-> b]
  BY <1>1, HeadersIsFrame, FrameWithEncoding
<1> HIDE DEF f
<1>4. f \in Frame /\ InText(f, Len(text))
  BY <1>1, <1>3, HeaderInRange, HeadersIsFrame, HeadersOnward
<1>5. FramesOK(frames', Len(text))
  BY <1>1, <1>2, <1>4, GoOnOK DEF f
<1>6. WordsOK'
  BY <1>1, TopType, WordsUnchanged
<1>7. OthersOK'
  BY <1>1, OthersUnchanged
<1>8. QED BY <1>1, <1>5, <1>6, <1>7, TypeStep

\* Content-Type, which may put a boundary on the stack
LEMMA TypeTypeHeader ==
  ASSUME TypeInv, TypeHeader, files' = files
  PROVE  TypeInv'
<1> DEFINE line == text[NextHeader]
           type == IF line.value = "blank" THEN Top.content ELSE ContentTypeOf(line)
           f == [Top EXCEPT !.at = AfterHeader, !.content = type]
<1>1. /\ frames # <<>> /\ Top.fn = "headers" /\ FindsHeader
      /\ text' = text /\ UNCHANGED <<suspended, elementStack>>
      /\ didLastHeader' \in BOOLEAN /\ GoOn(f)
      /\ \/ boundaryStack' = boundaryStack
         \/ boundaryStack' = Append(boundaryStack, line.boundary)
      /\ UNCHANGED <<metaIds, indexed>> \/ IndexHeader
  BY DEF TypeHeader, InFunction, ParseHeader
<1>2. type \in ContentTypes
  <2>1. Top.content \in ContentTypes
    BY <1>1, HeadersIsFrame
  <2>2. QED BY <2>1 DEF ContentTypeOf, ContentTypes
<1>3. line.boundary \in STRING
  BY <1>1, HeaderInRange
<1>4. f = [fn |-> "headers", at |-> AfterHeader, end |-> Top.end, content |-> type,
           binary |-> Top.binary]
  <2> HIDE DEF type, line
  <2>1. IsFrame(Top) /\ Top.fn = "headers"
    BY <1>1, HeadersIsFrame
  <2>2. QED BY <2>1, FrameWithType
<1> HIDE DEF f, type
<1>5. f \in Frame /\ InText(f, Len(text))
  BY <1>1, <1>2, <1>4, HeaderInRange, HeadersIsFrame, HeadersOnward
<1>6. FramesOK(frames', Len(text))
  BY <1>1, <1>5, GoOnOK
<1>7. WordsOK'
  BY <1>1, TopType, WordsUnchanged, IndexHeaderOK
<1>8. OthersOK'
  <2>1. PICK S, b : S = STRING /\ b = line.boundary
    OBVIOUS
  <2>2. boundaryStack \in Seq(S) /\ b \in S
    BY <1>3, <2>1, OthersFacts DEF OthersOK
  <2>3. Append(boundaryStack, b) \in Seq(S)
    BY <2>2
  <2>4. boundaryStack' \in Seq(S)
    BY <1>1, <2>1, <2>2, <2>3
  <2>5. QED BY <1>1, <2>1, <2>4, OthersFacts DEF OthersOK
<1>9. QED BY <1>1, <1>6, <1>7, <1>8, TypeStep

\* Any other header
LEMMA TypeOtherHeader ==
  ASSUME TypeInv, OtherHeader, files' = files
  PROVE  TypeInv'
<1> DEFINE f == [Top EXCEPT !.at = AfterHeader]
<1>1. /\ frames # <<>> /\ Top.fn = "headers" /\ FindsHeader
      /\ text' = text /\ UNCHANGED <<suspended, elementStack, boundaryStack>>
      /\ didLastHeader' \in BOOLEAN /\ GoOn(f) /\ IndexHeader
  BY DEF OtherHeader, InFunction, ParseHeader
<1>2. f = [fn |-> "headers", at |-> AfterHeader, end |-> Top.end, content |-> Top.content,
           binary |-> Top.binary]
  BY <1>1, HeadersIsFrame DEF IsFrame
<1> HIDE DEF f
<1>3. f \in Frame /\ InText(f, Len(text))
  BY <1>1, <1>2, HeaderInRange, HeadersIsFrame, HeadersOnward
<1>4. FramesOK(frames', Len(text))
  BY <1>1, <1>3, GoOnOK
<1>5. WordsOK'
  BY <1>1, IndexHeaderOK
<1>6. OthersOK'
  BY <1>1, OthersUnchanged
<1>7. QED BY <1>1, <1>4, <1>5, <1>6, TypeStep

\* A type of a vCard, read as a header is
LEMMA TypeVcardType ==
  ASSUME TypeInv, VcardType, files' = files
  PROVE  TypeInv'
<1>1. /\ frames # <<>> /\ FindsHeader /\ text' = text
      /\ UNCHANGED <<suspended, elementStack, boundaryStack>>
      /\ didLastHeader' \in BOOLEAN /\ GoOn(Vcard(AfterHeader, Top.end)) /\ IndexHeader
  BY DEF VcardType, InFunction, ParseHeader
<1>2. Vcard(AfterHeader, Top.end) \in Frame /\ InText(Vcard(AfterHeader, Top.end), Len(text))
  BY <1>1, HeaderInRange, WithinFrame, NewFrames
<1>3. FramesOK(frames', Len(text))
  BY <1>1, <1>2, GoOnOK
<1>4. WordsOK'
  BY <1>1, IndexHeaderOK
<1>5. OthersOK'
  BY <1>1, OthersUnchanged
<1>6. QED BY <1>1, <1>3, <1>4, <1>5, TypeStep

\* Bodies of a mail: what follows the headers lies in their range.
LEMMA TypeBody ==
  ASSUME TypeInv, SkipBody \/ PlainBody \/ FilteredBody \/ OtherBody, files' = files
  PROVE  TypeInv'
<1>1. /\ frames # <<>> /\ Top.fn = "headers" /\ text' = text
      /\ UNCHANGED <<metaIds, elementStack, boundaryStack>> /\ didLastHeader' \in BOOLEAN
  BY DEF SkipBody, PlainBody, FilteredBody, OtherBody, EndsHeaders, InFunction, ParseHeader,
         htmlVars
<1>2. /\ AfterHeaders \in Nat /\ 1 <= AfterHeaders /\ AfterHeaders <= Top.end
      /\ Top.end \in Nat /\ Top.end <= Len(text) + 1 /\ Len(text) \in Nat
  BY <1>1, AfterHeadersInRange, WithinFrame
<1>3. WordsOK /\ TextInv /\ OthersOK
  BY <1>1, TopType, OthersFacts DEF TypeInv
<1>4. CASE SkipBody
  <2>1. Return /\ UNCHANGED <<suspended, indexed>>
    BY <1>4 DEF SkipBody, htmlVars
  <2>2. FramesOK(frames', Len(text)) /\ WordsOK' /\ OthersOK'
    BY <1>1, <1>3, <2>1, ReturnOK, WordsUnchanged, OthersUnchanged
  <2>3. QED BY <1>1, <2>2, TypeStep
<1>5. CASE PlainBody
  <2>1. Return /\ suspended' = suspended /\ IndexWords(AfterHeaders, Top.end, NoMeta)
    BY <1>5 DEF PlainBody
  <2>2. WordsOK'
    BY <1>1, <1>2, <1>3, <2>1, IndexWordsOK
  <2>3. FramesOK(frames', Len(text)) /\ OthersOK'
    BY <1>1, <2>1, ReturnOK, OthersUnchanged
  <2>4. QED BY <1>1, <2>2, <2>3, TypeStep
<1>6. CASE FilteredBody
  <2>1. /\ Return /\ suspended' \in {0, suspended}
        /\ \/ indexed' = indexed
           \/ indexed' = indexed \o WordsAdded(AfterHeaders, Top.end, NoMeta, 0)
    BY <1>6 DEF FilteredBody
  <2>2. WordsOK'
    <3>1. metaIds' \in Seq(STRING) /\ Len(metaIds) \in Nat /\ Len(metaIds) <= Len(metaIds')
      BY <1>1, <1>3 DEF WordsOK
    <3>2. NoMeta \in -1..(Len(metaIds') - 1)
      BY <3>1, <1>1 DEF NoMeta
    <3>3. QED BY <1>1, <1>2, <1>3, <2>1, <3>1, <3>2, WordsAddedOK
  <2>3. FramesOK(frames', Len(text))
    BY <1>1, <2>1, ReturnOK
  <2>4. OthersOK'
    BY <1>1, <1>3, <2>1 DEF OthersOK
  <2>5. QED BY <1>1, <2>2, <2>3, <2>4, TypeStep
<1>7. CASE OtherBody
  <2>1. UNCHANGED <<suspended, indexed>> /\ HasBody({"rfc822", "html", "vcard", "multipart"})
    BY <1>7 DEF OtherBody, htmlVars
  <2>2. PICK f \in Frame : GoOn(f) /\ InText(f, Len(text))
    <3>1. \A f \in {Headers(AfterHeaders, Top.end), Html(AfterHeaders, Top.end),
                    Vcard(AfterHeaders, Top.end), Multipart(AfterHeaders, Top.end, "preamble")} :
            f \in Frame /\ InText(f, Len(text))
      BY <1>2, NewFrames
    <3>2. \/ GoOn(Headers(AfterHeaders, Top.end)) \/ GoOn(Html(AfterHeaders, Top.end))
          \/ GoOn(Vcard(AfterHeaders, Top.end))
          \/ GoOn(Multipart(AfterHeaders, Top.end, "preamble"))
      BY <1>7, <2>1 DEF OtherBody, HasBody
    <3>3. QED BY <3>1, <3>2
  <2>3. FramesOK(frames', Len(text)) /\ WordsOK' /\ OthersOK'
    BY <1>1, <1>3, <2>1, <2>2, GoOnOK, WordsUnchanged, OthersUnchanged
  <2>4. QED BY <1>1, <2>3, TypeStep
<1>8. QED BY <1>4, <1>5, <1>6, <1>7

\* The end of a vCard, and the lines of a plain text
LEMMA TypeLeaf ==
  ASSUME TypeInv, EndVcard \/ PlainText, files' = files
  PROVE  TypeInv'
<1>1. /\ frames # <<>> /\ text' = text /\ Return
      /\ UNCHANGED <<suspended, metaIds, elementStack, boundaryStack>>
      /\ didLastHeader' \in BOOLEAN
      /\ indexed' = indexed \/ IndexWords(Top.at, Top.end, NoMeta)
  BY OthersFacts DEF EndVcard, PlainText, InFunction, ParseHeader, htmlVars, OthersOK
<1>2. WordsOK /\ TextInv
  BY <1>1, TopType DEF TypeInv
<1>3. Top.at \in Nat /\ 1 <= Top.at /\ Top.end \in Nat /\ Top.end <= Len(text) + 1
  BY <1>1, TopType, FrameFacts DEF InText
<1>4. WordsOK'
  BY <1>1, <1>2, <1>3, WordsUnchanged, IndexWordsOK
<1>5. FramesOK(frames', Len(text)) /\ OthersOK'
  BY <1>1, ReturnOK, OthersUnchanged
<1>6. QED BY <1>1, <1>4, <1>5, TypeStep

-----------------------------------------------------------------------------
\* Multiparts

\* The next boundary, or the end, lies in the range that is read.
LEMMA BoundaryInRange ==
  ASSUME NEW i \in Nat, NEW j \in Nat, i <= j
  PROVE  NextBoundary(i, j) \in i..j
<1> DEFINE S == {k \in LinesOf(i, j, "boundary") : BoundaryCmp(text[k], Last(boundaryStack))}
<1>1. S \in SUBSET (i..(j - 1))
  BY DEF LinesOf
<1>2. NextBoundary(i, j) = First(S, j)
  BY DEF NextBoundary
<1> HIDE DEF S
<1>3. QED BY <1>1, <1>2, FirstInRange

\* The steps of index_multipart(): a part's range lies within that of its multipart.
LEMMA TypeMultipart ==
  ASSUME TypeInv, FindFirstBoundary \/ NextPart \/ EndMultipart, files' = files
  PROVE  TypeInv'
<1>1. /\ frames # <<>> /\ text' = text
      /\ UNCHANGED <<suspended, metaIds, indexed, elementStack, didLastHeader>>
  BY DEF FindFirstBoundary, NextPart, EndMultipart, InFunction, htmlVars
<1> DEFINE i == Top.at
           j == Top.end
           b == NextBoundary(i, j)
           n == Len(text)
<1>2. i \in Nat /\ j \in Nat /\ 1 <= i /\ i <= j /\ j <= n + 1 /\ n \in Nat
  BY <1>1, TopType, FrameFacts DEF InText
<1>3. b \in i..j
  BY <1>2, BoundaryInRange
<1>4. WordsOK' /\ OthersOK /\ FramesOK(frames, n)
  BY <1>1, TopType, WordsUnchanged, OthersFacts
<1>5. CASE FindFirstBoundary
  <2>1. /\ boundaryStack' = boundaryStack
        /\ \/ b < j /\ GoOn(Multipart(b + 1, j, "parts"))
           \/ GoOn(Multipart(b, j, "done"))
    BY <1>5 DEF FindFirstBoundary
  <2> HIDE DEF i, j, b, n
  <2>2. /\ b < j => /\ Multipart(b + 1, j, "parts") \in Frame
                    /\ InText(Multipart(b + 1, j, "parts"), n)
        /\ Multipart(b, j, "done") \in Frame /\ InText(Multipart(b, j, "done"), n)
    BY <1>2, <1>3, NewFrames
  <2>3. FramesOK(frames', n)
    BY <1>1, <2>1, <2>2, GoOnOK DEF n
  <2>4. OthersOK'
    BY <1>1, <1>4, <2>1 DEF OthersOK
  <2>5. QED BY <1>1, <1>4, <2>3, <2>4, TypeStep DEF n
<1>6. CASE NextPart
  <2> DEFINE partEnd == IF b = j THEN b - 1 ELSE b
             f == AfterPart(b)
             t == [frames EXCEPT ![Len(frames)] = f]
  <2>1. i < j /\ boundaryStack' = boundaryStack /\ frames' = Append(t, Headers(i, partEnd))
    BY <1>6 DEF NextPart
  <2>2. f = IF b = j THEN Multipart(b, j, "parts")
            ELSE Multipart(b + 1, j, IF text[b].final THEN "done" ELSE "parts")
    BY DEF AfterPart
  <2> HIDE DEF i, j, b, n, f
  <2>3. f \in Frame /\ InText(f, n)
    BY <1>2, <1>3, <2>2, NewFrames
  <2>4. Headers(i, partEnd) \in Frame /\ InText(Headers(i, partEnd), n)
    <3>1. partEnd \in Nat /\ i <= partEnd /\ partEnd <= n + 1
      BY <1>2, <1>3, <2>1
    <3>2. QED BY <1>2, <3>1, NewFrames
  <2>5. FramesOK(t, n)
    BY <1>1, <1>4, <2>3, FramesGoOn
  <2> HIDE DEF t, partEnd
  <2>6. FramesOK(frames', n)
    BY <2>1, <2>4, <2>5, FramesCall
  <2>7. OthersOK'
    BY <1>1, <1>4, <2>1 DEF OthersOK
  <2>8. QED BY <1>1, <1>4, <2>6, <2>7, TypeStep DEF n
<1>7. CASE EndMultipart
  <2>1. Return /\ boundaryStack' = Front(boundaryStack)
    BY <1>7 DEF EndMultipart
  <2>2. FramesOK(frames', n)
    BY <1>1, <2>1, ReturnOK
  <2>3. boundaryStack' \in Seq(STRING)
    <3>1. PICK S, s : S = STRING /\ s = boundaryStack
      OBVIOUS
    <3>2. s \in Seq(S)
      BY <1>4, <3>1 DEF OthersOK
    <3>3. SubSeq(s, 1, Len(s) - 1) \in Seq(S)
      BY <3>2
    <3>4. QED BY <2>1, <3>1, <3>3 DEF Front
  <2>4. OthersOK'
    BY <1>1, <1>4, <2>3 DEF OthersOK
  <2>5. QED BY <1>1, <1>4, <2>2, <2>4, TypeStep
<1>8. QED BY <1>5, <1>6, <1>7

-----------------------------------------------------------------------------
\* Pages

\* The words of an attribute are added under an id that there is.
LEMMA IndexAttributeOK ==
  ASSUME TypeInv, WordsOK, text' = text, NEW i \in DOMAIN text, text[i].kind = "tag",
         IndexAttribute(i)
  PROVE  WordsOK'
<1> DEFINE tag == text[i]
           ofMeta == tag.attr = "content" /\ tag.name = "meta"
<1>1. /\ TextInv /\ tag.meta \in STRING
      /\ i \in Nat /\ 1 <= i /\ i + 1 \in Nat /\ i + 1 <= Len(text) + 1
      /\ metaIds \in Seq(STRING)
  BY TextFacts DEF TypeInv, IsLine, WordsOK
<1>2. /\ metaIds' = IF ofMeta THEN MetaIdsWith(tag.meta) ELSE metaIds
      /\ \/ indexed' = indexed
         \/ indexed' = indexed \o WordsAdded(i, i + 1,
                                 IF ofMeta THEN FindMeta(tag.meta) ELSE NoMeta, suspended')
  BY DEF IndexAttribute
<1>3. PICK id : /\ id = IF ofMeta THEN FindMeta(tag.meta) ELSE NoMeta
  OBVIOUS
<1> HIDE DEF tag
<1>4. /\ metaIds' \in Seq(STRING) /\ Len(metaIds) <= Len(metaIds') /\ id \in -1..(Len(metaIds') - 1)
  <2>1. CASE ofMeta
    BY <1>1, <1>2, <1>3, <2>1, MetaIdsType
  <2>2. CASE ~ofMeta
    <3>1. metaIds' = metaIds /\ id = -1 /\ Len(metaIds) \in Nat
      BY <1>1, <1>2, <1>3, <2>2 DEF NoMeta
    <3>2. QED BY <1>1, <3>1
  <2>3. QED BY <2>1, <2>2
<1> HIDE DEF ofMeta
<1>5. PICK n : n = suspended'
  OBVIOUS
<1>6. indexed' = indexed \/ indexed' = indexed \o WordsAdded(i, i + 1, id, n)
  BY <1>2, <1>3, <1>5
<1>7. QED BY <1>1, <1>4, <1>6, WordsAddedOK

\* A tag closes elements, and may open one.
LEMMA TypeTag ==
  ASSUME TypeInv, WordsOK, text' = text, NEW i \in DOMAIN text, text[i].kind = "tag", ParseTag(i)
  PROVE  /\ WordsOK' /\ suspended' \in Nat
         /\ elementStack' \in Seq([name : Stacked, skip : BOOLEAN])
<1> DEFINE tag    == text[i]
           bare   == [name |-> tag.name, end |-> tag.end]
           height == Len(elementStack) - Closed(elementStack, bare)
           left   == SubSeq(elementStack, 1, height)
           pushed == [name |-> tag.name, skip |-> tag.skip]
           closed == {k \in Skipped(elementStack) : k > height}
           resume == Resumed(Cardinality(closed))
           E      == [name : Stacked, skip : BOOLEAN]
<1>1. tag.skip \in BOOLEAN
  BY TextFacts DEF TypeInv, IsLine
<1>2. elementStack \in Seq(E) /\ IsSeq(elementStack) /\ suspended \in Nat
  BY SeqIsSeq DEF TypeInv, TypeOK
<1>3. /\ \/ elementStack' = left
         \/ tag.name \in Stacked /\ elementStack' = Append(left, pushed)
      /\ suspended' = resume \/ suspended' = resume + 1
      /\ UNCHANGED <<metaIds, indexed>> \/ IndexAttribute(i)
  BY DEF ParseTag
<1>4. WordsOK'
  BY <1>3, WordsUnchanged, IndexAttributeOK
<1>5. height \in 0..Len(elementStack)
  BY <1>2, SeqFacts, ClosedInRange
<1>6. resume \in Nat
  <2>1. closed \in SUBSET DOMAIN elementStack
    BY DEF Skipped
  <2>2. Cardinality(closed) \in Nat
    BY <1>2, <2>1, PositionsFinite
  <2> HIDE DEF closed
  <2>3. QED BY <1>2, <2>2 DEF Resumed
<1>7. tag.name \in Stacked => pushed \in E
  <2> HIDE DEF tag
  <2>1. QED BY <1>1
<1> HIDE DEF tag, height, E, pushed, resume
<1>8. left \in Seq(E)
  BY <1>2, <1>5
<1> HIDE DEF left
<1>9. elementStack' \in Seq(E)
  BY <1>3, <1>7, <1>8
<1>10. suspended' \in Nat
  BY <1>3, <1>6
<1>11. QED BY <1>4, <1>9, <1>10 DEF E

\* A line of a page, or the end of its range
LEMMA TypeHtmlBody ==
  ASSUME TypeInv, HtmlBody, files' = files
  PROVE  TypeInv'
<1>1. frames # <<>> /\ text' = text /\ UNCHANGED <<boundaryStack, didLastHeader>>
  BY DEF HtmlBody, InFunction
<1> DEFINE i == Top.at
           j == Top.end
           n == Len(text)
<1>2. i \in Nat /\ j \in Nat /\ 1 <= i /\ i <= j /\ j <= n + 1 /\ n \in Nat
  BY <1>1, TopType, FrameFacts DEF InText
<1>3. WordsOK /\ OthersOK /\ TextInv
  BY <1>1, TopType, OthersFacts DEF TypeInv
<1>4. CASE i < j
  <2>1. HtmlLine(i) /\ GoOn(Html(i + 1, j))
    BY <1>4 DEF HtmlBody
  <2>2. i \in DOMAIN text
    BY <1>2, <1>3, <1>4, TextFacts
  <2> HIDE DEF i, j, n
  <2>3. Html(i + 1, j) \in Frame /\ InText(Html(i + 1, j), n)
    BY <1>2, <1>4, NewFrames
  <2>4. FramesOK(frames', n)
    BY <1>1, <2>1, <2>3, GoOnOK DEF n
  <2>5. /\ WordsOK' /\ suspended' \in Nat
        /\ elementStack' \in Seq([name : Stacked, skip : BOOLEAN])
    <3>1. CASE text[i].kind = "tag" /\ ParseTag(i)
      BY <1>1, <1>3, <2>2, <3>1, TypeTag
    <3>2. CASE IndexWords(i, i + 1, NoMeta) /\ UNCHANGED <<suspended, metaIds, elementStack>>
      <4>1. i + 1 \in Nat /\ i + 1 <= Len(text) + 1 /\ i >= 1
        BY <1>2, <1>4 DEF n
      <4>2. WordsOK'
        BY <1>1, <1>2, <1>3, <3>2, <4>1, IndexWordsOK
      <4>3. QED BY <1>3, <3>2, <4>2 DEF OthersOK
    <3>3. QED BY <2>1, <3>1, <3>2 DEF HtmlLine
  <2>6. OthersOK'
    BY <1>1, <1>3, <2>5 DEF OthersOK
  <2>7. QED BY <1>1, <2>4, <2>5, <2>6, TypeStep DEF n
<1>5. CASE ~(i < j)
  <2>1. Return /\ UNCHANGED <<suspended, metaIds, indexed, elementStack>>
    BY <1>5 DEF HtmlBody, htmlVars
  <2>2. FramesOK(frames', n) /\ WordsOK'
    BY <1>1, <1>3, <2>1, ReturnOK, WordsUnchanged
  <2>3. OthersOK'
    BY <1>1, <1>3, <2>1 DEF OthersOK
  <2>4. QED BY <1>1, <2>2, <2>3, TypeStep
<1>6. QED BY <1>4, <1>5

-----------------------------------------------------------------------------
\* Every step of an indexer keeps ranges in the text and ids in the table.
LEMMA TypeIndex ==
  ASSUME TypeInv, Index
  PROVE  TypeInv'
<1>1. files' = files
  BY DEF Index
<1>2. QED BY <1>1, TypeEncodingHeader, TypeTypeHeader, TypeOtherHeader, TypeVcardType, TypeBody,
             TypeLeaf, TypeMultipart, TypeHtmlBody
          DEF Index, Mail

\* A file is begun: the range is the whole text.
LEMMA TypeIndexFile ==
  ASSUME TypeInv, NEW d \in Documents, IndexFile(d)
  PROVE  TypeInv'
<1> DEFINE n == Len(d.lines)
<1>1. IsSeq(d.lines) /\ d.format \in {"text", "html", "mail"}
  BY DocumentsAssumption DEF IsSeq, Formats
<1>2. n \in Nat /\ DOMAIN d.lines = 1..n
  BY <1>1, SeqFacts
<1>3. /\ text' = d.lines /\ suspended' = 0 /\ indexed' = <<>> /\ metaIds' = metaIds
      /\ elementStack' \in {<<>>, elementStack} /\ boundaryStack' \in {<<>>, boundaryStack}
      /\ didLastHeader' \in {FALSE, didLastHeader} /\ files' = files + 1 /\ files < MaxFiles
  BY DEF IndexFile, BeginText
<1>4. PICK f \in Frame : frames' = <<f>> /\ InText(f, n)
  <2>1. /\ Plain(1, n + 1) \in Frame /\ InText(Plain(1, n + 1), n)
        /\ Html(1, n + 1) \in Frame /\ InText(Html(1, n + 1), n)
        /\ Headers(1, n + 1) \in Frame /\ InText(Headers(1, n + 1), n)
    <3>1. PICK j : j = n + 1
      OBVIOUS
    <3>2. j \in Nat /\ 1 \in Nat /\ 1 <= 1 /\ 1 <= j /\ j <= n + 1
      BY <1>2, <3>1
    <3> HIDE DEF n
    <3>3. QED BY <1>2, <3>1, <3>2, NewFrames
  <2>2. \/ frames' = <<Plain(1, n + 1)>> \/ frames' = <<Html(1, n + 1)>>
        \/ frames' = <<Headers(1, n + 1)>>
    BY <1>1 DEF IndexFile
  <2>3. QED BY <2>1, <2>2
<1>5. frames' \in Seq(Frame) /\ \A k \in DOMAIN frames' : frames'[k] = f
  BY <1>4
<1>6. \A k \in DOMAIN frames' :
        1 <= frames'[k].at /\ frames'[k].at <= frames'[k].end /\ frames'[k].end <= Len(text') + 1
  BY <1>3, <1>4, <1>5 DEF InText
<1>7. /\ suspended' \in Nat /\ metaIds' \in Seq(STRING)
      /\ elementStack' \in Seq([name : Stacked, skip : BOOLEAN])
      /\ boundaryStack' \in Seq(STRING) /\ didLastHeader' \in BOOLEAN
  <2>1. PICK S, E : S = STRING /\ E = [name : Stacked, skip : BOOLEAN]
    OBVIOUS
  <2>2. /\ suspended' \in Nat /\ metaIds \in Seq(S) /\ didLastHeader \in BOOLEAN
        /\ elementStack \in Seq(E) /\ boundaryStack \in Seq(S)
    BY <1>3, <2>1 DEF TypeInv, TypeOK
  <2>3. <<>> \in Seq(E) /\ <<>> \in Seq(S)
    OBVIOUS
  <2>4. elementStack' \in Seq(E) /\ boundaryStack' \in Seq(S) /\ didLastHeader' \in BOOLEAN
    BY <1>3, <2>2, <2>3
  <2>5. QED BY <1>3, <2>1, <2>2, <2>4
<1>8. indexed' \in Seq([line : DOMAIN text', meta : -1..(Len(metaIds') - 1)])
  BY <1>3
<1>9. files' \in 0..MaxFiles
  BY <1>3, DocumentsAssumption DEF TypeInv, TypeOK
<1>10. TypeOK'
  BY <1>5, <1>6, <1>7, <1>8, <1>9 DEF TypeOK
<1>11. TextInv'
  BY <1>3 DEF TextInv
<1>12. QED BY <1>10, <1>11 DEF TypeInv

\* Whatever documents are indexed: no call reads beyond its range, nor its range
\* beyond the text, and words are added at lines of the text under ids of names
\* that find_meta() has seen.
THEOREM RangesLieInText == Spec => []TypeOK
<1>1. Init => TypeInv
  <2>1. SUFFICES ASSUME Init PROVE TypeInv
    OBVIOUS
  <2>2. DOMAIN frames = {}
    BY <2>1, SeqFacts, EmptyIsSeq DEF Init
  <2>3. /\ suspended \in Nat /\ metaIds = <<>> /\ indexed = <<>> /\ elementStack = <<>>
        /\ boundaryStack = <<>> /\ frames = <<>> /\ didLastHeader \in BOOLEAN
        /\ files \in 0..MaxFiles /\ text = <<>>
    <3>1. 0 \in 0..MaxFiles
      BY DocumentsAssumption
    <3>2. QED BY <2>1, <3>1, Zenon DEF Init
  <2>4. \A S : <<>> \in Seq(S)
    OBVIOUS
  <2>5. TypeOK
    BY <2>2, <2>3, <2>4, Zenon DEF TypeOK
  <2>6. QED BY <2>3, <2>5 DEF TypeInv, TextInv
<1>2. TypeInv /\ [Next]_vars => TypeInv'
  <2>1. SUFFICES ASSUME TypeInv, [Next]_vars PROVE TypeInv'
    OBVIOUS
  <2>2. ASSUME NEW d \in Documents, IndexFile(d) PROVE TypeInv'
    BY <2>1, <2>2, TypeIndexFile
  <2>3. CASE Index
    BY <2>1, <2>3, TypeIndex
  <2>4. CASE FileDone
    <3>1. /\ text' = <<>> /\ indexed' = <<>> /\ frames = <<>>
          /\ UNCHANGED <<suspended, metaIds, elementStack, frames, boundaryStack, didLastHeader,
                         files>>
      BY <2>4 DEF FileDone, mailVars
    <3>2. DOMAIN frames' = {}
      BY <3>1, SeqFacts, EmptyIsSeq
    <3>3. /\ suspended' \in Nat /\ metaIds' \in Seq(STRING) /\ files' \in 0..MaxFiles
          /\ elementStack' \in Seq([name : Stacked, skip : BOOLEAN])
          /\ boundaryStack' \in Seq(STRING) /\ didLastHeader' \in BOOLEAN /\ frames' \in Seq(Frame)
      BY <2>1, <3>1 DEF TypeInv, TypeOK
    <3>4. indexed' \in Seq([line : DOMAIN text', meta : -1..(Len(metaIds') - 1)])
      BY <3>1
    <3>5. TypeOK'
      BY <3>2, <3>3, <3>4 DEF TypeOK
    <3>6. TextInv'
      BY <3>1 DEF TextInv
    <3>7. QED BY <3>5, <3>6 DEF TypeInv
  <2>5. CASE UNCHANGED vars
    BY <2>1, <2>5 DEF vars, htmlVars, mailVars, TypeInv, TypeOK, TextInv
  <2>6. QED BY <2>1, <2>2, <2>3, <2>4, <2>5 DEF Next
<1>3. TypeInv => TypeOK
  BY DEF TypeInv
<1>4. QED BY <1>1, <1>2, <1>3, PTL DEF Spec
=============================================================================
