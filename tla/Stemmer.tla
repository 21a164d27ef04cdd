------------------------------ MODULE Stemmer ------------------------------
(***************************************************************************)
(* The rules that reduce a word to its stem (stem_word.cpp).  Words are    *)
(* strings of small letters; Nul is the character that ends one.           *)
(***************************************************************************)
EXTENDS Integers, Sequences, FiniteSets

Nul == "."

Letter(w, i) == SubSeq(w, i, i)
IsVowel(c) == c \in {"a", "e", "i", "o", "u"}

\* word_size(): how often a consonant comes after a vowel.
WordSize(w) ==
  LET vowel[i \in 1..Len(w)] ==
        \/ IsVowel(Letter(w, i))
        \/ i > 1 /\ Letter(w, i) = "y" /\ ~vowel[i - 1]
  IN Cardinality({i \in 2..Len(w) : vowel[i - 1] /\ ~vowel[i]})

HasVowel(w) ==
  \E i \in 1..Len(w) : IsVowel(Letter(w, i)) \/ (i > 1 /\ Letter(w, i) = "y")

\* ends_with_cvc(), by the three characters before word_end.
IsCvc(c1, c2, c3) ==
  /\ ~IsVowel(c1)
  /\ IsVowel(c2) \/ c2 = "y"
  /\ ~IsVowel(c3) /\ c3 \notin {"w", "x", "y"}

\* The condition of a rule, for what is left of a word without its suffix.
Holds(condition, w, endsWithCvc) ==
  CASE condition = "none"      -> TRUE
    [] condition = "has_vowel" -> HasVowel(w)
    [] condition = "add_e"     -> WordSize(w) = 1 /\ endsWithCvc
    [] condition = "remove_e"  -> WordSize(w) = 1 /\ ~endsWithCvc

-----------------------------------------------------------------------------
\* The lists of rules: an old suffix and a new one, what the size of the rest
\* must exceed, and a condition.

Rule(old, new, min, condition) == [old |-> old, new |-> new, min |-> min, condition |-> condition]

Rules(min, pairs) == [k \in DOMAIN pairs |-> Rule(pairs[k][1], pairs[k][2], min, "none")]

Rules1a == Rules(-1, <<<<"sses", "ss">>, <<"ies", "i">>, <<"ss", "ss">>, <<"s", "">>>>)
Rules1b == <<Rule("eed", "ee", 0, "none"), Rule("ed", "", -1, "has_vowel"),
             Rule("ing", "", -1, "has_vowel")>>
Rules1b1 ==
  Rules(-1, <<<<"at", "ate">>, <<"bl", "ble">>, <<"iz", "ize">>, <<"bb", "b">>, <<"dd", "d">>,
              <<"ff", "f">>, <<"gg", "g">>, <<"mm", "m">>, <<"nn", "n">>, <<"pp", "p">>,
              <<"rr", "r">>, <<"tt", "t">>, <<"ww", "w">>, <<"xx", "x">>>>)
  \o <<Rule("", "e", -1, "add_e")>>
Rules1c == <<Rule("y", "i", -1, "has_vowel")>>
Rules2 ==
  Rules(0, <<<<"ational", "ate">>, <<"tional", "tion">>, <<"enci", "ence">>, <<"anci", "ance">>,
             <<"izer", "ize">>, <<"abli", "able">>, <<"alli", "al">>, <<"entli", "ent">>,
             <<"eli", "e">>, <<"ousli", "ous">>, <<"ization", "ize">>, <<"ation", "ate">>,
             <<"ator", "ate">>, <<"alism", "al">>, <<"iveness", "ive">>, <<"fulnes", "ful">>,
             <<"ousness", "ous">>, <<"aliti", "al">>, <<"iviti", "ive">>, <<"biliti", "ble">>>>)
Rules3 ==
  Rules(0, <<<<"icate", "ic">>, <<"ative", "">>, <<"alize", "al">>, <<"iciti", "ic">>,
             <<"ical", "ic">>, <<"ful", "">>, <<"ness", "">>>>)
Rules4 ==
  Rules(1, <<<<"al", "">>, <<"ance", "">>, <<"ence", "">>, <<"er", "">>, <<"ic", "">>,
             <<"able", "">>, <<"ible", "">>, <<"ant", "">>, <<"ement", "">>, <<"ment", "">>,
             <<"ent", "">>, <<"sion", "s">>, <<"tion", "t">>, <<"ou", "">>, <<"ism", "">>,
             <<"ate", "">>, <<"iti", "">>, <<"ous", "">>, <<"ive", "">>, <<"ize", "">>>>)
Rules5a == <<Rule("e", "", 1, "none"), Rule("e", "", -1, "remove_e")>>
Rules5b == Rules(1, <<<<"ll", "l">>>>)

RuleLists == <<Rules1a, Rules1b, Rules1b1, Rules1c, Rules2, Rules3, Rules4, Rules5a, Rules5b>>

\* The list tried after list n, whose k-th rule was applied: the third only
\* after a rule that takes off "ed" or "ing".
NextList(n, k) == IF n = 2 /\ k \notin {2, 3} THEN 4 ELSE n + 1

-----------------------------------------------------------------------------
\* The stem of a word that is stemmed undisturbed: word_end is then the end of
\* the word, beyond the suffix that is chopped off while a condition is tested.

Applies(w, rule) ==
  LET rest == SubSeq(w, 1, Len(w) - Len(rule.old))
      chopped == rest \o Nul \o SubSeq(w, Len(rest) + 2, Len(w))
      before(i) == Letter(chopped, Len(w) + 1 - i)
  IN /\ Len(rule.old) <= Len(w)
     /\ SubSeq(w, Len(rest) + 1, Len(w)) = rule.old
     /\ WordSize(rest) > rule.min
     /\ Holds(rule.condition, rest, Len(w) >= 3 /\ IsCvc(before(3), before(2), before(1)))

\* The first rule of a list that applies, or the number after the last.
FirstRule(w, list) ==
  CHOOSE k \in 1..(Len(list) + 1) :
    /\ k <= Len(list) => Applies(w, list[k])
    /\ \A j \in 1..(k - 1) : ~Applies(w, list[j])

\* stemmed[n]: a word before list n is tried.
Stem(word) ==
  LET after[n \in 1..Len(RuleLists) + 1] ==
        IF n = 1 THEN [word |-> word, next |-> 1]
        ELSE LET last == after[n - 1]
                 list == RuleLists[n - 1]
                 k == FirstRule(last.word, list)
             IN IF last.next > n - 1 THEN last
                ELSE [word |-> IF k > Len(list) THEN last.word
                               ELSE SubSeq(last.word, 1, Len(last.word) - Len(list[k].old))
                                    \o list[k].new,
                      next |-> NextList(n - 1, k)]
  IN after[Len(RuleLists) + 1].word
=============================================================================
