----------------------------- MODULE MCIndexing -----------------------------
(***************************************************************************)
(* Documents for TLC.  They are put together from lines with what their    *)
(* author meant: the meta name a line's words are to be found under,       *)
(* "none", or "lost" when they are not to be found.                        *)
(***************************************************************************)
EXTENDS IndexingProps

CONSTANT Hard  \* well-formed documents that the code does not index as meant

MCIncludeMeta == [subject |-> "subject", fn |-> "name", title |-> "subject"]
MCAlike == IF Hard = "alike" THEN {<<"b1", "b2">>, <<"b2", "b1">>} ELSE {}

Line(line, as) == <<[line |-> line, as |-> as]>>
Words == Line([kind |-> "words"], "none")
Blank == Line([kind |-> "blank"], "lost")
Lost(f) == [i \in DOMAIN f |-> [f[i] EXCEPT !.as = "lost"]]
Joined(fs) == FlattenSeq(fs)

Document(format, known, f) ==
  LET found == SelectSeq([i \in DOMAIN f |-> i], LAMBDA i : f[i].as # "lost")
  IN [format |-> format, known |-> known, lines |-> [i \in DOMAIN f |-> f[i].line],
      words |-> [k \in DOMAIN found |-> [line |-> found[k], meta |-> f[found[k]].as]]]

-----------------------------------------------------------------------------
\* HTML: elements, whose end tags may be left out where others end them.

Tag(name, end, skip, attr, meta) ==
  [kind |-> "tag", name |-> name, end |-> end, skip |-> skip, attr |-> attr, meta |-> meta]
BeginTag(name, skip) == Line(Tag(name, FALSE, skip, "none", "none"), "lost")
EndTag(name) == Line(Tag(name, TRUE, FALSE, "none", "none"), "lost")
TagWith(name, skip, attr, meta, as) == Line(Tag(name, FALSE, skip, attr, meta), as)

Open(name, skip, f) == BeginTag(name, skip) \o (IF skip THEN Lost(f) ELSE f)
Element(name, skip, f) == Open(name, skip, f) \o EndTag(name)

Image(skip) == TagWith("img", skip, "alt", "none", IF skip THEN "lost" ELSE "none")
MetaTag == TagWith("meta", FALSE, "content", "title", "subject")
Unknown == TagWith("blah", TRUE, "title", "none", "none")
Table(skip, f) == TagWith("table", skip, "summary", "none", IF skip THEN "lost" ELSE "none")
                  \o (IF skip THEN Lost(f) ELSE f) \o EndTag("table")

Inlines == {Words, Element("span", TRUE, Words) \o Words, Image(TRUE) \o Image(FALSE)}
Flows(f) == {f, Open("p", TRUE, f), Open("p", FALSE, f) \o Open("p", TRUE, f)}
Cells == {Open("td", s, Words) \o Open("td", t, Words) : s, t \in BOOLEAN}
         \cup {Open("th", TRUE, Words) \o Element("td", FALSE, Words)}
CellsWithParagraphs ==
  {Open("td", TRUE, Open("p", FALSE, Words)) \o Open("td", FALSE, Words)}

Blocks ==
  {Element("div", s, f) : s \in BOOLEAN, f \in UNION {Flows(x) : x \in Inlines}}
  \cup {Element("ul", FALSE, Open("li", s, f) \o Open("li", ~s, Words)) :
          s \in BOOLEAN, f \in Flows(Words) \cup {Element("ul", FALSE, Open("li", TRUE, Words)) \o Words}}
  \cup {Table(s, Open("tr", t, c) \o Open("tr", FALSE, Words)) : s, t \in BOOLEAN, c \in Cells}
  \cup (IF Hard = "cells" THEN {Table(FALSE, Open("tr", FALSE, c)) : c \in CellsWithParagraphs} ELSE {})

Pages ==
  {b \o Words : b \in Blocks} \cup {Open("p", TRUE, Words) \o b : b \in Blocks}
  \cup {MetaTag \o Unknown \o Words \o Open("p", s, Words) : s \in BOOLEAN}

-----------------------------------------------------------------------------
\* Mail: headers, a blank line and a body, which may have parts.

Header(name, as) ==
  Line([kind |-> "header", name |-> name, value |-> "words", charset |-> "known",
        boundary |-> ""], as)
Type(value, boundary) ==
  Line([kind |-> "header", name |-> "content-type", value |-> value, charset |-> "known",
        boundary |-> boundary], "lost")
UnknownCharset ==
  Line([kind |-> "header", name |-> "content-type", value |-> "plain", charset |-> "unknown",
        boundary |-> ""], "lost")
Encoding(value) ==
  Line([kind |-> "header", name |-> "content-transfer-encoding", value |-> value,
        charset |-> "known", boundary |-> ""], "lost")
Boundary(b, final) == Line([kind |-> "boundary", boundary |-> b, final |-> final], "lost")
Envelope == Line([kind |-> "envelope"], "lost")
Folded(as) == Line([kind |-> "folded"], as)

Subject == Header("subject", "subject") \o Folded("subject")
Card == Header("fn", "name") \o Header("tel", "lost") \o Folded("lost")

\* HTML in mail leaves no element open: one that is skipped would skip the
\* words of the parts after it.
MailPages == {Element("div", TRUE, Open("p", TRUE, Words)) \o Words}
             \cup (IF Hard = "open" THEN {Words \o Open("p", TRUE, Words)} ELSE {})

Leaves ==
  {Blank \o Words, Subject \o Encoding("decoded") \o Blank \o Words,
   Type("image", "") \o Blank \o Lost(Words), UnknownCharset \o Blank \o Lost(Words),
   Type("plain", "") \o Encoding("binary") \o Blank \o Lost(Words),
   Type("vcard", "") \o Blank \o Card,
   Type("rfc822", "") \o Blank \o Subject \o Blank \o Words}
  \cup {Type("html", "") \o Blank \o p : p \in MailPages}

\* A filter may fail.
Filtered == Type("filter", "") \o Blank \o Words

Mixed(b, parts) ==
  Type("multipart", b) \o Blank \o Lost(Words)
  \o Joined([i \in DOMAIN parts |-> Boundary(b, FALSE) \o parts[i]])
  \o Boundary(b, TRUE) \o Lost(Words)

Few == {Blank \o Words, Type("image", "") \o Blank \o Lost(Words)}
Nested == {Mixed("b2", <<x>>) : x \in Leaves} \cup {Mixed("b2", <<x, y>>) : x, y \in Few}
          \cup (IF Hard = "binary" THEN {Encoding("binary") \o Lost(Mixed("b2", <<x>>)) : x \in Few} ELSE {})

Mails ==
  {Mixed("b1", <<x>>) : x \in Leaves \cup Nested}
  \cup {Mixed("b1", <<x, y>>) : x \in Leaves \cup Nested, y \in Few}
  \cup {Mixed("b1", <<x, y>>) : x \in Few, y \in Leaves \cup Nested}

\* Mails with a line lost, or with parts that leave something behind them.
Without(f, i) == SubSeq(f, 1, i - 1) \o SubSeq(f, i + 1, Len(f))
OpenHtml == Type("html", "") \o Blank \o Element("div", FALSE, Words) \o Open("div", TRUE, Words)
Damaged ==
  UNION {{Without(m, i) : i \in DOMAIN m} : m \in {Mixed("b1", <<x>>) : x \in Nested \cup Leaves}}
  \cup UNION {{Mixed("b1", <<x, Filtered>>), Mixed("b1", <<x, y>>)} :
                x \in {OpenHtml, Encoding("binary") \o Mixed("b2", <<Words>>),
                       Type("multipart", "b2") \o Type("plain", "") \o Blank \o Words},
                y \in {OpenHtml, Blank \o Words, Mixed("b3", <<OpenHtml>>)}}

MCDocuments ==
  {Document("html", TRUE, p) : p \in Pages}
  \cup {Document("mail", TRUE, Envelope \o Subject \o m) : m \in Mails \cup Leaves}
  \cup {Document("mail", FALSE, m) : m \in Damaged}
  \cup {Document("text", TRUE, Words \o Blank \o Words)}
=============================================================================
