--------------------------- MODULE IndexingProps ---------------------------
(***************************************************************************)
(* What is expected of the indexers.                                       *)
(***************************************************************************)
EXTENDS Indexing

Frame ==
  [fn : {"headers"}, at : Nat, end : Nat, content : ContentTypes, binary : BOOLEAN]
  \cup [fn : {"multipart"}, at : Nat, end : Nat, phase : {"preamble", "parts", "done"}]
  \cup [fn : {"vcard", "html", "plain"}, at : Nat, end : Nat]

\* The variables have their types; ranges lie within the text.
TypeOK ==
  /\ suspended \in Nat
  /\ metaIds \in Seq(STRING)
  /\ indexed \in Seq([line : DOMAIN text, meta : -1..(Len(metaIds) - 1)])
  /\ elementStack \in Seq([name : Stacked, skip : BOOLEAN])
  /\ boundaryStack \in Seq(STRING)
  /\ didLastHeader \in BOOLEAN
  /\ frames \in Seq(Frame)
  /\ \A i \in DOMAIN frames :
       1 <= frames[i].at /\ frames[i].at <= frames[i].end /\ frames[i].end <= Len(text) + 1
  /\ files \in 0..MaxFiles

\* What is indexed is the text of a document, and nothing in between.
TextInv == text = <<>> \/ \E d \in Documents : text = d.lines

\* No suspension of indexing is without an open element that will end it: there
\* are no more than elements to be skipped on the stack.  In a file of HTML
\* there are exactly as many, whatever files before it have left open; a mail
\* does not clear the stack, and its filters reset the count in its midst, so
\* that there may be elements open that suspend nothing.
SuspendedByOpenElements ==
  /\ suspended <= Cardinality(Skipped(elementStack))
  /\ document.format = "html" => suspended = Cardinality(Skipped(elementStack))

\* The calls that will take a boundary off the stack.
MultipartCalls ==
  {i \in DOMAIN frames : \/ frames[i].fn = "multipart"
                         \/ frames[i].fn = "headers" /\ frames[i].content = "multipart"}

\* Every call of index_multipart() has a boundary on the stack, and so has
\* every one that headers have announced: neither back() nor pop_back() ever
\* meets an empty stack, whatever headers a mail has.
BoundaryAtHand == Cardinality(MultipartCalls) <= Len(boundaryStack)

\* A well-formed file is indexed as its author meant it: when it is done, the
\* words of exactly the lines that are neither in an element to be skipped nor
\* in a part or header that is not to be indexed have been added, once each, in
\* order, under the right meta name.
IndexedAsWritten ==
  document # NoDocument /\ frames = <<>> /\ document.known =>
    /\ Len(indexed) = Len(document.words)
    /\ \A i \in DOMAIN indexed :
         /\ indexed[i].line = document.words[i].line
         /\ document.words[i].meta =
              IF indexed[i].meta = NoMeta THEN "none" ELSE metaIds[indexed[i].meta + 1]

\* Every file comes to its end, whatever lines it has.
EveryFileEnds == frames # <<>> ~> frames = <<>>
=============================================================================
