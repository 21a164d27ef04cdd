---------------------------- MODULE HtmlIndexer ----------------------------
(***************************************************************************)
(* The indexer of HTML (mod_html.cpp), run with at least one class of      *)
(* elements whose words are not to be indexed.  A tag of the text says     *)
(* whether its class attribute names such a class, and may have one other  *)
(* attribute with words.                                                   *)
(***************************************************************************)
EXTENDS Indexer, HtmlElements, FiniteSetsExt

VARIABLE elementStack  \* element_stack: [name, skip]

htmlVars == <<suspended, metaIds, indexed, elementStack>>

Skipped(stack) == {i \in DOMAIN stack : stack[i].skip}

-----------------------------------------------------------------------------
\* The attributes that are read, in tags of which elements.
ReadsAttribute(tag) ==
  \/ tag.attr = "title"
  \/ tag.attr = "alt" /\ tag.name \in {"area", "img", "input"}
  \/ tag.attr = "content" /\ tag.name = "meta"
  \/ tag.attr = "standby" /\ tag.name = "object"
  \/ tag.attr = "summary" /\ tag.name = "table"

\* parse_html_tag(), after it closed elements and when the tag is not skipped:
\* words of the attribute are added, under the name of meta data for a meta
\* element.
IndexAttribute(i) ==
  LET tag == text[i]
      ofMeta == tag.attr = "content" /\ tag.name = "meta"
  IN /\ metaIds' = IF ofMeta THEN MetaIdsWith(tag.meta) ELSE metaIds
     /\ indexed' =
          IF ReadsAttribute(tag) /\ (ofMeta => MetaWanted(tag.meta))
          THEN indexed \o WordsAdded(i, i + 1, IF ofMeta THEN FindMeta(tag.meta) ELSE NoMeta,
                                     suspended')
          ELSE indexed

\* A tag, which closes elements first.
ParseTag(i) ==
  LET tag    == text[i]
      bare   == [name |-> tag.name, end |-> tag.end]
      height == Len(elementStack) - Closed(elementStack, bare)
      left   == SubSeq(elementStack, 1, height)
      resume == Cardinality({k \in Skipped(elementStack) : k > height})
  IN \/ /\ tag.end                               \* an end tag: it has no attributes
        /\ elementStack' = left
        /\ suspended' = Resumed(resume)
        /\ UNCHANGED <<metaIds, indexed>>
     \/ /\ ~tag.end /\ tag.name \in Stacked
        /\ elementStack' = Append(left, [name |-> tag.name, skip |-> tag.skip])
        /\ IF tag.skip THEN /\ suspended' = Resumed(resume) + 1
                            /\ UNCHANGED <<metaIds, indexed>>
                       ELSE suspended' = Resumed(resume) /\ IndexAttribute(i)
     \/ /\ ~tag.end /\ tag.name \notin Stacked
        /\ elementStack' = left
        /\ suspended' = Resumed(resume)
        /\ IF tag.skip /\ tag.name \in Forbidden   \* an unknown element is not skipped
           THEN UNCHANGED <<metaIds, indexed>> ELSE IndexAttribute(i)

\* One line of HTML, by index_words() of the indexer of HTML.
HtmlLine(i) ==
  \/ text[i].kind = "tag" /\ ParseTag(i)
  \/ /\ text[i].kind # "tag"
     /\ IndexWords(i, i + 1, NoMeta)
     /\ UNCHANGED <<suspended, metaIds, elementStack>>
=============================================================================
