---------------------------- MODULE MailIndexer ----------------------------
(***************************************************************************)
(* The indexer of mail (mod_mail.cpp, multipart.cpp, vcard.cpp).  Its      *)
(* functions call each other: index_words() reads the headers and then,    *)
(* for a multipart, calls index_multipart(), which calls index_words() for *)
(* every part.  The calls are a stack of frames, each with the range of    *)
(* lines it has left.  What is static in the code is a variable of its own.*)
(***************************************************************************)
EXTENDS HtmlIndexer

CONSTANT
  Alike  \* pairs of boundaries, the second's line taken for the first's

VARIABLES
  frames,        \* calls in progress, the innermost last
  boundaryStack, \* boundary_stack_
  didLastHeader  \* did_last_header_

mailVars == <<frames, boundaryStack, didLastHeader>>

\* Left out: text/enriched, which is for the indexer of RTF.
ContentTypes == {"unknown", "filter", "plain", "html", "vcard", "rfc822", "multipart"}

\* index_words() of a mail: its message_type is that of a message without
\* headers, until they are read.
Headers(i, j) == [fn |-> "headers", at |-> i, end |-> j, content |-> "plain", binary |-> FALSE]
Multipart(i, j, phase) == [fn |-> "multipart", at |-> i, end |-> j, phase |-> phase]
Vcard(i, j) == [fn |-> "vcard", at |-> i, end |-> j]
Html(i, j) == [fn |-> "html", at |-> i, end |-> j]
Plain(i, j) == [fn |-> "plain", at |-> i, end |-> j]

Top == frames[Len(frames)]
InFunction(fn) == frames # <<>> /\ Top.fn = fn
GoOn(frame) == frames' = [frames EXCEPT ![Len(frames)] = frame]
Return == frames' = SubSeq(frames, 1, Len(frames) - 1)

\* Lines i to j - 1 of some kind, and the first line of them that is P, or j.
LinesOf(i, j, kind) == {k \in i..(j - 1) : text[k].kind = kind}
First(S, j) == Min(S \cup {j})

\* boundary_cmp(): it steps past the boundary's last character before it knows
\* that the line has the same one, and does not look at what is after it.
BoundaryCmp(line, b) == line.boundary = b \/ <<b, line.boundary>> \in Alike

NextBoundary(i, j) ==
  First({k \in LinesOf(i, j, "boundary") : BoundaryCmp(text[k], Last(boundaryStack))}, j)

-----------------------------------------------------------------------------
\* parse_header(): lines of an envelope are stepped over; a line that is not a
\* header is the end of the headers, and is lost unless it is blank.  Lines
\* that begin with space go on with the value of the header before them.

HeaderAt(i, j) == First({k \in i..(j - 1) : text[k].kind # "envelope"}, j)
ValueEnd(h, j) == First({k \in (h + 1)..(j - 1) : text[k].kind # "folded"}, j)
IsHeader(i, j) == HeaderAt(i, j) < j /\ text[HeaderAt(i, j)].kind = "header"

\* A blank line, or no line, after a header: it was the last.
IsLast(e, j) == e = j \/ text[e].kind = "blank"

\* Mutant: it steps over a blank line where there is none.
AfterValueAndBlank(e, j) == IF e = j \/ text[e].kind = "blank" THEN e + 1 ELSE e

AfterValue(e, j) == IF e < j /\ text[e].kind = "blank" THEN e + 1 ELSE e

\* It finds a header, whose value ends before line e, or it finds none.
FindsHeader == ~didLastHeader /\ IsHeader(Top.at, Top.end)
NextHeader == HeaderAt(Top.at, Top.end)
NextValueEnd == ValueEnd(NextHeader, Top.end)

ParseHeader == didLastHeader' = (FindsHeader /\ IsLast(NextValueEnd, Top.end))

\* Where it leaves the iterator.
AfterHeader == AfterValue(NextValueEnd, Top.end)
AfterHeaders ==
  IF didLastHeader THEN Top.at
  ELSE IF NextHeader < Top.end THEN NextHeader + 1 ELSE Top.end

-----------------------------------------------------------------------------
\* index_headers()

\* The type that a Content-Type header gives.
ContentTypeOf(line) ==
  IF \/ line.charset = "unknown"
     \/ line.value = "multipart" /\ line.boundary = ""
     \/ line.value \notin ContentTypes
  THEN "unknown" ELSE line.value

\* Content-Transfer-Encoding: "binary" or one that is decoded, or another.
EncodingHeader ==
  /\ InFunction("headers") /\ FindsHeader /\ ParseHeader
  /\ text[NextHeader].name = "content-transfer-encoding"
  /\ GoOn([Top EXCEPT !.at = AfterHeader,
                      !.binary = CASE text[NextHeader].value = "binary"  -> TRUE
                                   [] text[NextHeader].value = "decoded" -> FALSE
                                   [] OTHER                              -> @])
  /\ UNCHANGED <<text, htmlVars, boundaryStack>>

\* A header's value is indexed under the header's name.
IndexHeader ==
  IF MetaWanted(text[NextHeader].name)
  THEN /\ metaIds' = MetaIdsWith(text[NextHeader].name)
       /\ IndexWords(NextHeader, NextValueEnd, FindMeta(text[NextHeader].name))
  ELSE UNCHANGED <<metaIds, indexed>>

\* Content-Type, whose value is also indexed unless it is blank or names a
\* type that has a filter, and any other header.
TypeHeader ==
  /\ InFunction("headers") /\ FindsHeader /\ ParseHeader
  /\ text[NextHeader].name = "content-type"
  /\ LET line == text[NextHeader]
         type == IF line.value = "blank" THEN Top.content ELSE ContentTypeOf(line)
     IN /\ GoOn([Top EXCEPT !.at = AfterHeader, !.content = type])
        /\ boundaryStack' = IF line.value # "blank" /\ type = "multipart"
                            THEN Append(boundaryStack, line.boundary) ELSE boundaryStack
        /\ IF line.value = "blank" \/ type = "filter"
           THEN UNCHANGED <<metaIds, indexed>> ELSE IndexHeader
  /\ UNCHANGED <<text, suspended, elementStack>>

OtherHeader ==
  /\ InFunction("headers") /\ FindsHeader /\ ParseHeader
  /\ text[NextHeader].name \notin {"content-transfer-encoding", "content-type"}
  /\ GoOn([Top EXCEPT !.at = AfterHeader])
  /\ IndexHeader
  /\ UNCHANGED <<text, suspended, elementStack, boundaryStack>>

-----------------------------------------------------------------------------
\* index_words(): after the headers, the body by its type.

EndsHeaders == InFunction("headers") /\ ~FindsHeader /\ ParseHeader
HasBody(types) == Top.content \in types /\ ~Top.binary

\* What cannot be indexed is left alone, and so is a boundary that its headers
\* put on the stack.
SkipBody ==
  /\ EndsHeaders /\ ~HasBody(ContentTypes \ {"unknown"})
  /\ Return
  /\ UNCHANGED <<text, htmlVars, boundaryStack>>

PlainBody ==
  /\ EndsHeaders /\ HasBody({"plain"})
  /\ IndexWords(AfterHeaders, Top.end, NoMeta)
  /\ Return
  /\ UNCHANGED <<text, suspended, metaIds, elementStack, boundaryStack>>

\* index_via_filter(): what the filter writes is a file of its own to
\* index_file(), with the same words; the filter may also fail.
FilteredBody ==
  /\ EndsHeaders /\ HasBody({"filter"})
  /\ \/ /\ suspended' = 0
        /\ indexed' = indexed \o WordsAdded(AfterHeaders, Top.end, NoMeta, 0)
     \/ UNCHANGED <<suspended, indexed>>
  /\ Return
  /\ UNCHANGED <<text, metaIds, elementStack, boundaryStack>>

\* A body that a function of its own goes through.
OtherBody ==
  /\ EndsHeaders /\ HasBody({"rfc822", "html", "vcard", "multipart"})
  /\ GoOn(CASE Top.content = "rfc822"    -> Headers(AfterHeaders, Top.end)
            [] Top.content = "html"      -> Html(AfterHeaders, Top.end)
            [] Top.content = "vcard"     -> Vcard(AfterHeaders, Top.end)
            [] Top.content = "multipart" -> Multipart(AfterHeaders, Top.end, "preamble"))
  /\ UNCHANGED <<text, htmlVars, boundaryStack>>

-----------------------------------------------------------------------------
\* index_multipart()

\* The lines before the first boundary are stepped over.
FindFirstBoundary ==
  /\ InFunction("multipart") /\ Top.phase = "preamble"
  /\ LET b == NextBoundary(Top.at, Top.end)
     IN GoOn(IF b < Top.end THEN Multipart(b + 1, Top.end, "parts")
                            ELSE Multipart(b, Top.end, "done"))
  /\ UNCHANGED <<text, htmlVars, boundaryStack, didLastHeader>>

\* Mutant: without a boundary the loop goes on where it was.
AfterPartUnmoved(b) ==
  IF b = Top.end THEN Top
  ELSE Multipart(b + 1, Top.end, IF text[b].final THEN "done" ELSE "parts")

\* What is left after a part that ends at boundary b, if that is one.
AfterPart(b) ==
  IF b = Top.end THEN Multipart(b, Top.end, "parts")
  ELSE Multipart(b + 1, Top.end, IF text[b].final THEN "done" ELSE "parts")

\* A part ends at the next boundary.  Where there is none it ends before the
\* last line.  It is the last part if its boundary is followed by "--".
NextPart ==
  /\ InFunction("multipart") /\ Top.phase = "parts" /\ Top.at < Top.end
  /\ LET b == NextBoundary(Top.at, Top.end)
         partEnd == IF b = Top.end THEN b - 1 ELSE b
     IN frames' = Append([frames EXCEPT ![Len(frames)] = AfterPart(b)],
                         Headers(Top.at, partEnd))
  /\ UNCHANGED <<text, htmlVars, boundaryStack, didLastHeader>>

\* Mutant: index_words() clears the stack.
EndMultipartClearing ==
  /\ InFunction("multipart")
  /\ Top.phase = "done" \/ (Top.phase = "parts" /\ Top.at = Top.end)
  /\ Return
  /\ boundaryStack' = <<>>
  /\ UNCHANGED <<text, htmlVars, didLastHeader>>

\* It returns, and index_words() takes the boundary off the stack.
EndMultipart ==
  /\ InFunction("multipart")
  /\ Top.phase = "done" \/ (Top.phase = "parts" /\ Top.at = Top.end)
  /\ Return
  /\ boundaryStack' = Front(boundaryStack)
  /\ UNCHANGED <<text, htmlVars, didLastHeader>>

-----------------------------------------------------------------------------
\* index_vcard(): its types are parsed as headers are.

VcardType ==
  /\ InFunction("vcard") /\ FindsHeader /\ ParseHeader
  /\ GoOn(Vcard(AfterHeader, Top.end))
  /\ IndexHeader
  /\ UNCHANGED <<text, suspended, elementStack, boundaryStack>>

EndVcard ==
  /\ InFunction("vcard") /\ ~FindsHeader /\ ParseHeader
  /\ Return
  /\ UNCHANGED <<text, htmlVars, boundaryStack>>

\* index_words() of the indexer of HTML, for a part or for a whole file.
HtmlBody ==
  /\ InFunction("html")
  /\ IF Top.at < Top.end
     THEN HtmlLine(Top.at) /\ GoOn(Html(Top.at + 1, Top.end))
     ELSE Return /\ UNCHANGED htmlVars
  /\ UNCHANGED <<text, boundaryStack, didLastHeader>>

Mail ==
  \/ EncodingHeader \/ TypeHeader \/ OtherHeader
  \/ SkipBody \/ PlainBody \/ FilteredBody \/ OtherBody
  \/ FindFirstBoundary \/ NextPart \/ EndMultipart
  \/ VcardType \/ EndVcard \/ HtmlBody
=============================================================================
