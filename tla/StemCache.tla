----------------------------- MODULE StemCache -----------------------------
(***************************************************************************)
(* Threads of the search daemon that stem words (less_stem::stem_word() of *)
(* stem_word.cpp).  Every thread copies its word to a buffer of its own;   *)
(* the end of the word being stemmed, word_end, is one for all of them,    *)
(* and so is the cache.  Nothing is locked: the line that is meant to lock *)
(* the cache's mutex declares a function that takes a mutex.               *)
(*                                                                         *)
(* Threads are numbered as their stacks are in memory.  What is in memory  *)
(* outside the buffers matches no suffix, an access of the cache is one    *)
(* step, and so are two statements with no access to shared data between   *)
(* them: in a data race more can go wrong than here.                       *)
(***************************************************************************)
EXTENDS Stemmer

CONSTANTS
  Threads,    \* search threads: natural numbers, by the addresses of their stacks
  QueryWords  \* words of queries

VARIABLES
  cache,    \* cache: from words to stems
  wordEnd,  \* word_end: [of, at]
  buffer,   \* word_buf of each thread, with the character that ends it
  call      \* of each thread, its call of stem_word(): where it is, its word,
            \* list and rule, the place and the letter where a suffix is chopped
            \* off, and what is returned

vars == <<cache, wordEnd, buffer, call>>

NoResult == "none"
Idle == [pc |-> "idle", word |-> "", list |-> 1, rule |-> 1,
         suffix |-> [of |-> 0, at |-> 0], letter |-> "", result |-> NoResult]

Init ==
  /\ cache = [w \in {} |-> ""]
  /\ wordEnd = [of |-> 0, at |-> 0]
  /\ buffer = [t \in Threads |-> Nul]
  /\ call = [t \in Threads |-> Idle]

-----------------------------------------------------------------------------
\* Memory

Known(p) == p.of \in Threads /\ p.at \in 1..Len(buffer[p.of])
At(p) == IF Known(p) THEN Letter(buffer[p.of], p.at) ELSE "?"
Less(p, q) == p.of < q.of \/ (p.of = q.of /\ p.at < q.at)
Minus(p, n) == [p EXCEPT !.at = @ - n]
WordBuf(t) == [of |-> t, at |-> 1]

\* What is from p on to the first character that ends a word.
StringAt(p) ==
  LET ends == {i \in p.at..Len(buffer[p.of]) : Letter(buffer[p.of], i) = Nul}
  IN IF ~Known(p) \/ ends = {} THEN "?"
     ELSE SubSeq(buffer[p.of], p.at, (CHOOSE i \in ends : \A j \in ends : i <= j) - 1)

Write(p, s) ==
  buffer' = [buffer EXCEPT ![p.of] = SubSeq(@, 1, p.at - 1) \o s
                                     \o SubSeq(@, p.at + Len(s), Len(@))]

EndsWithCvc(t) ==
  /\ ~Less(wordEnd, [of |-> t, at |-> 4])
  /\ IsCvc(At(Minus(wordEnd, 3)), At(Minus(wordEnd, 2)), At(Minus(wordEnd, 1)))

-----------------------------------------------------------------------------
CurrentList(t) == RuleLists[call[t].list]
CurrentRule(t) == CurrentList(t)[call[t].rule]

GoOn(t, c) == call' = [call EXCEPT ![t] = c]

\* A word that is in the cache has its stem from there.
LookUp(t, w) ==
  /\ call[t].pc = "idle"
  /\ IF w \in DOMAIN cache
     THEN /\ GoOn(t, [call[t] EXCEPT !.pc = "done", !.word = w, !.result = cache[w]])
          /\ UNCHANGED buffer
     ELSE /\ GoOn(t, [call[t] EXCEPT !.pc = "copied", !.word = w])
          /\ buffer' = [buffer EXCEPT ![t] = w \o Nul]
  /\ UNCHANGED <<cache, wordEnd>>

PointToEnd(t) ==
  /\ call[t].pc = "copied"
  /\ wordEnd' = [of |-> t, at |-> Len(call[t].word) + 1]
  /\ GoOn(t, [call[t] EXCEPT !.pc = "compare"])
  /\ UNCHANGED <<cache, buffer>>

\* replace_suffix(): one rule's suffix is looked for before word_end.
Compare(t) ==
  /\ call[t].pc = "compare" /\ call[t].rule <= Len(CurrentList(t))
  /\ LET suffix == Minus(wordEnd, Len(CurrentRule(t).old))
     IN GoOn(t, IF Less(suffix, WordBuf(t)) \/ StringAt(suffix) # CurrentRule(t).old
                THEN [call[t] EXCEPT !.rule = @ + 1]
                ELSE [call[t] EXCEPT !.pc = "chop", !.suffix = suffix])
  /\ UNCHANGED <<cache, wordEnd, buffer>>

Chop(t) ==
  /\ call[t].pc = "chop"
  /\ GoOn(t, [call[t] EXCEPT !.pc = "test", !.letter = At(call[t].suffix)])
  /\ Write(call[t].suffix, Nul)
  /\ UNCHANGED <<cache, wordEnd>>

Test(t) ==
  /\ call[t].pc = "test"
  /\ LET rest == StringAt(WordBuf(t))
     IN GoOn(t, [call[t] EXCEPT
                   !.pc = IF /\ WordSize(rest) > CurrentRule(t).min
                             /\ Holds(CurrentRule(t).condition, rest, EndsWithCvc(t))
                          THEN "replace" ELSE "put_back"])
  /\ UNCHANGED <<cache, wordEnd, buffer>>

PutBack(t) ==
  /\ call[t].pc = "put_back"
  /\ Write(call[t].suffix, call[t].letter)
  /\ GoOn(t, [call[t] EXCEPT !.pc = "compare", !.rule = @ + 1])
  /\ UNCHANGED <<cache, wordEnd>>

\* A list whose rule was applied, or which has no more rules, is done with.
Replace(t) ==
  /\ call[t].pc = "replace"
  /\ Write(call[t].suffix, CurrentRule(t).new \o Nul)
  /\ wordEnd' = Minus(call[t].suffix, -Len(CurrentRule(t).new))
  /\ GoOn(t, [call[t] EXCEPT !.pc = "next"])
  /\ UNCHANGED cache

TakeNextList(t) ==
  /\ call[t].pc = "next" \/ (call[t].pc = "compare" /\ call[t].rule > Len(CurrentList(t)))
  /\ LET n == NextList(call[t].list, call[t].rule)
     IN GoOn(t, IF n > Len(RuleLists) THEN [call[t] EXCEPT !.pc = "insert"]
                ELSE [call[t] EXCEPT !.pc = "compare", !.list = n, !.rule = 1])
  /\ UNCHANGED <<cache, wordEnd, buffer>>

Insert(t) ==
  /\ call[t].pc = "insert"
  /\ LET stem == StringAt(WordBuf(t))
     IN /\ cache' = [w \in DOMAIN cache \cup {call[t].word} |->
                       IF w = call[t].word THEN stem ELSE cache[w]]
        /\ GoOn(t, [call[t] EXCEPT !.pc = "done", !.result = stem])
  /\ UNCHANGED <<wordEnd, buffer>>

StemWord(t) ==
  \/ \E w \in QueryWords : LookUp(t, w)
  \/ PointToEnd(t) \/ Compare(t) \/ Chop(t) \/ Test(t) \/ PutBack(t) \/ Replace(t)
  \/ TakeNextList(t) \/ Insert(t)

Next == \E t \in Threads : StemWord(t)

Spec == Init /\ [][Next]_vars

-----------------------------------------------------------------------------
\* stem_word() says that word_end is protected by the cache's lock: then a
\* thread that stems a word is not disturbed, and what it returns is the stem
\* of its word, whatever other threads do meanwhile.
ReturnsTheStem ==
  \A t \in Threads : call[t].pc = "done" => call[t].result = Stem(call[t].word)
=============================================================================
