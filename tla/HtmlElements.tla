---------------------------- MODULE HtmlElements ----------------------------
(***************************************************************************)
(* The table of HTML and XHTML elements (elements.h, elements.cpp) and the *)
(* stack of open elements (mod_html.cpp).  A tag is the name of an element *)
(* and whether it is its end tag; the table says of every element whether  *)
(* it has an end tag, and what tags end it.                                *)
(***************************************************************************)
EXTENDS Naturals, Sequences

Start(names) == {[name |-> n, end |-> FALSE] : n \in names}
End(names)   == {[name |-> n, end |-> TRUE] : n \in names}
Tags(names)  == Start(names) \cup End(names)

\* Elements without an end tag.
Forbidden ==
  {"area", "base", "basefont", "br", "col", "frame", "hr", "img", "input", "isindex",
   "keygen", "link", "meta", "nobr", "param", "plaintext", "source", "spacer", "track", "wbr"}

\* Elements that only their own end tag ends.
Required ==
  {"a", "abbr", "acronym", "action", "address", "applet", "article", "aside", "audio", "b",
   "bdi", "bdo", "big", "blink", "blockcode", "blockquote", "button", "canvas", "caption",
   "center", "cite", "code", "data", "datalist", "del", "dfn", "dir", "di", "div", "dl",
   "em", "embed", "fieldset", "figcaption", "figure", "font", "footer", "form", "frameset",
   "group", "h", "h1", "h2", "h3", "h4", "h5", "h6", "header", "heading", "i", "iframe",
   "ilayer", "ins", "kbd", "l", "label", "layer", "legend", "line", "map", "mark", "menu",
   "meter", "multicol", "name", "nav", "nl", "noembed", "noframes", "nolayer", "noscript",
   "object", "ol", "optgroup", "output", "pre", "progress", "q", "quote", "rb", "rbc",
   "rp", "rt", "rtc", "ruby", "s", "samp", "script", "section", "select", "server",
   "small", "span", "strike", "strong", "style", "sub", "summary", "sup", "table",
   "template", "textarea", "time", "title", "tt", "u", "ul", "var", "video", "xmp"}

\* The elements whose end tag may be left out, with the tags that end them.
\* Of p: some strings of the table have no comma between them, so that it has
\* "/tbodytd" instead of "/tbody" and "td", and likewise neither "/tfoot" and
\* "th" nor "/thead" and "tr".
ClosedByOthers ==
  [body     |-> End({"body", "html"}),
   colgroup |-> Tags({"colgroup"}) \cup Start({"tbody", "tfoot", "thead", "tr"}) \cup End({"table"}),
   dd       |-> Tags({"dd", "dt"}) \cup End({"dl"}),
   dt       |-> Tags({"dt"}) \cup End({"dl"}),
   head     |-> Tags({"body"}) \cup End({"head", "html"}),
   html     |-> End({"html"}),
   li       |-> Tags({"li"}) \cup End({"ol", "ul"}),
   option   |-> Tags({"option"}) \cup End({"optgroup", "select"}),
   p        |-> Tags({"address", "applet", "blockquote", "caption", "center", "dd", "div",
                      "dl", "dt", "embed", "form", "frame", "frameset", "h1", "h2", "h3",
                      "h4", "h5", "h6", "layer", "li", "map", "multicol", "noembed",
                      "noframes", "nolayer", "noscript", "object", "ol", "p", "pre",
                      "script", "select", "style", "table", "ul", "xmp"})
                \cup Start({"br", "hr", "plaintext", "tbody", "tfoot", "thead"})
                \cup End({"body", "html", "td", "th", "tr"}),
   tbody    |-> Tags({"tbody"}),
   td       |-> Tags({"tbody", "td", "tfoot", "tr"}) \cup Start({"th"}) \cup End({"table"}),
   tfoot    |-> Start({"tbody", "thead"}) \cup End({"tfoot"}),
   th       |-> Tags({"tfoot", "th", "tr", "tbody"}) \cup Start({"td"}) \cup End({"table"}),
   thead    |-> Start({"tbody", "tfoot"}) \cup End({"thead"}),
   tr       |-> Tags({"tbody", "tfoot", "tr"}) \cup End({"thead", "table"})]

\* The elements of the table that are pushed: "access" is among them, ended by
\* a tag no element has.
Stacked == Required \cup {"access"} \cup DOMAIN ClosedByOthers

CloseTags(name) ==
  CASE name \in DOMAIN ClosedByOthers -> ClosedByOthers[name]
    [] name = "access"                -> End({"acces"})
    [] OTHER                          -> End({name})

-----------------------------------------------------------------------------
\* The stack: names of open elements, each with whether its words are skipped.

\* The open element that is the k-th from the top, for k from 1.
FromTop(stack, k) == stack[Len(stack) - k + 1]

\* Mutant: an end tag goes on after the element it is the end tag of.
LastClosedGoingOn(stack, tag, k) ==
  k = Len(stack) \/ tag \notin CloseTags(FromTop(stack, k + 1).name)

\* Is the k-th of the stack the last that a tag closes?  A tag goes on closing
\* until it meets an element that it does not close, or has closed the one it
\* is the end tag of.
LastClosed(stack, tag, k) ==
  \/ k = Len(stack)
  \/ tag \notin CloseTags(FromTop(stack, k + 1).name)
  \/ k > 0 /\ tag.end /\ FromTop(stack, k).name = tag.name

\* How many elements a tag closes.
Closed(stack, tag) ==
  CHOOSE k \in 0..Len(stack) :
    LastClosed(stack, tag, k) /\ \A j \in 0..(k - 1) : ~LastClosed(stack, tag, j)
=============================================================================
