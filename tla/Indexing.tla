------------------------------ MODULE Indexing ------------------------------
(***************************************************************************)
(* Files indexed one after the other (do_file() of do_file.cpp), each by   *)
(* the indexer of its format.  The indexers' static variables go on from   *)
(* one file to the next.                                                   *)
(*                                                                         *)
(* A document is a format, its lines, and what its author meant: the lines *)
(* whose words are to be found, with the names they are to be found under, *)
(* or nothing for one that is not well-formed.                             *)
(***************************************************************************)
EXTENDS MailIndexer

CONSTANTS
  Documents,  \* files to index
  MaxFiles    \* how many are

Formats == {"text", "html", "mail"}

\* What the indexers take from a line has its type.
IsLine(line) ==
  /\ line.kind = "tag" => line.skip \in BOOLEAN /\ line.meta \in STRING
  /\ line.kind = "header" => line.name \in STRING /\ line.boundary \in STRING

ASSUME DocumentsAssumption ==
  /\ \A d \in Documents :
       /\ d.format \in Formats
       /\ d.lines # <<>> /\ d.lines \in Seq({d.lines[i] : i \in DOMAIN d.lines})
       /\ \A i \in DOMAIN d.lines : IsLine(d.lines[i])
  /\ MaxFiles \in Nat

VARIABLES
  document,   \* the document that is indexed
  files       \* how many have been begun

vars == <<text, htmlVars, mailVars, document, files>>

NoDocument == [format |-> "none"]

Init ==
  /\ text = <<>> /\ suspended = 0 /\ metaIds = <<>> /\ indexed = <<>>
  /\ elementStack = <<>>
  /\ frames = <<>> /\ boundaryStack = <<>> /\ didLastHeader = FALSE
  /\ document = NoDocument /\ files = 0

-----------------------------------------------------------------------------
\* The indexer's find_title() begins a new file, then index_file() calls its
\* index_words().
IndexFile(d) ==
  /\ document = NoDocument /\ files < MaxFiles
  /\ files' = files + 1
  /\ document' = [format |-> d.format, known |-> d.known, words |-> d.words]
  /\ BeginText(d.lines)
  /\ elementStack' = IF d.format = "html" THEN <<>> ELSE elementStack
  /\ IF d.format = "mail" THEN boundaryStack' = <<>> /\ didLastHeader' = FALSE
                          ELSE UNCHANGED <<boundaryStack, didLastHeader>>
  /\ frames' = LET j == Len(d.lines) + 1
               IN <<CASE d.format = "text" -> Plain(1, j)
                      [] d.format = "html" -> Html(1, j)
                      [] d.format = "mail" -> Headers(1, j)>>
  /\ UNCHANGED metaIds

\* index_words() of a plain text.
PlainText ==
  /\ InFunction("plain")
  /\ IndexWords(Top.at, Top.end, NoMeta)
  /\ Return
  /\ UNCHANGED <<text, suspended, metaIds, elementStack, boundaryStack, didLastHeader>>

\* index_file() has returned: the file is unmapped.
FileDone ==
  /\ document # NoDocument /\ frames = <<>>
  /\ document' = NoDocument
  /\ text' = <<>> /\ indexed' = <<>>
  /\ UNCHANGED <<suspended, metaIds, elementStack, mailVars, files>>

Index == (Mail \/ PlainText) /\ UNCHANGED <<document, files>>

Next ==
  \/ \E d \in Documents : IndexFile(d)
  \/ Index
  \/ FileDone

Spec == Init /\ [][Next]_vars

\* One process indexes, and never waits.
FairSpec == Spec /\ WF_vars(Index)
=============================================================================
