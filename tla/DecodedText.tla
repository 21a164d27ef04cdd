---------------------------- MODULE DecodedText ----------------------------
(***************************************************************************)
(* Encoded text and the iterators that decode it (encoded_char.h, and the  *)
(* decoders of encodings/ and charsets/).  A character is the number of a  *)
(* byte, a pointer its place in the text.                                  *)
(*                                                                         *)
(* Copies of an iterator, and iterators of ranges within its range, read   *)
(* parts of a text again.  The decoder of Base64 is the only one with a    *)
(* state, one for all iterators: the group it decoded last.                *)
(***************************************************************************)
EXTENDS Integers, SequencesExt

CONSTANTS
  Texts,         \* texts to read
  MaxTexts,      \* how many are
  Iterators,     \* iterators there may be
  FirstIterator, \* the one of the whole text
  Copied,        \* decoders of texts whose iterators are copied
  CharIsSigned   \* is a char above 127 negative?

Decoders == {"none", "base64", "quoted-printable", "utf-8", "utf-16be", "utf-16le"}

ASSUME TextAssumption ==
  /\ \A t \in Texts : t.decoder \in Decoders /\ t.bytes \in Seq(0..255)
  /\ MaxTexts \in Nat
  /\ FirstIterator \in Iterators
  /\ Copied \subseteq Decoders
  /\ CharIsSigned \in BOOLEAN

VARIABLES
  text,      \* the text that is read
  texts,     \* how many have been begun
  iterators, \* [begin, end, pos, decoded, ch, delta], and nth, the number of the
             \* character that has been reached by going from one to the next
  group      \* what the Base64 decoder decoded: its prev_c_ and buf

vars == <<text, texts, iterators, group>>

NoText == [decoder |-> "none", bytes |-> <<>>, known |-> FALSE, chars |-> <<>>]
NoIterator ==
  [begin |-> 0, end |-> 0, pos |-> 0, decoded |-> FALSE, ch |-> 0, delta |-> 0, nth |-> 0]
Unknown == -1     \* what is in memory after buf
NoGroup == [prevC |-> -99, buf |-> <<0, 0, 0, Unknown>>]    \* -99: far from all positions

Space == 32
CR == 13
LF == 10
Equals == 61

\* The byte at p of bytes b
At(b, p) == IF p \in DOMAIN b THEN b[p] ELSE 0

SkipNewline(b, c, end) ==
  LET afterCR == IF c # end /\ At(b, c) = CR THEN c + 1 ELSE c
  IN IF afterCR # end /\ At(b, afterCR) = LF THEN afterCR + 1 ELSE afterCR

\* What a decoder returns: a character and where it goes on; with the last group.
Char(ch, c) == [ch |-> ch, c |-> c]
Decoded(ch, c, last) == [ch |-> ch, c |-> c, group |-> last]

-----------------------------------------------------------------------------
\* iso8859_1_map: characters from first to last have the same ASCII equivalent,
\* letters also as small ones; all others of 128 and more are spaces.

Equivalents ==
  { <<161, 161, 33>>, <<163, 163, 35>>, <<166, 166, 124>>, <<171, 171, 34>>, <<173, 173, 45>>,
    <<178, 178, 50>>, <<179, 179, 51>>, <<180, 180, 39>>, <<183, 183, 46>>, <<185, 185, 49>>,
    <<187, 187, 34>>, <<191, 191, 63>>, <<223, 223, 115>>, <<255, 255, 121>> }
LetterEquivalents ==
  { <<192, 197, 65>>, <<198, 198, 69>>, <<199, 199, 67>>, <<200, 203, 69>>, <<204, 207, 73>>,
    <<208, 208, 68>>, <<209, 209, 78>>, <<210, 214, 79>>, <<216, 216, 79>>, <<217, 220, 85>>,
    <<221, 221, 89>> }

Latin1ToAscii(c) ==
  LET same == Equivalents \cup LetterEquivalents
              \cup {<<e[1] + 32, e[2] + 32, e[3] + 32>> : e \in LetterEquivalents}
      found == {e \in same : e[1] <= c /\ c <= e[2]}
  IN IF c \in 9..13 \cup 32..126 THEN c
     ELSE IF found # {} THEN (CHOOSE e \in found : TRUE)[3] ELSE Space

UnicodeToAscii(u) == IF u \in 0..255 THEN Latin1ToAscii(u) ELSE Space

-----------------------------------------------------------------------------
\* Base64.  A line has no blanks.

AlphabetIndex(b) ==
  CASE b \in 65..90  -> b - 65
    [] b \in 97..122 -> b - 71
    [] b \in 48..57  -> b + 4
    [] b = 43        -> 62
    [] b = 47        -> 63
    [] b = Equals    -> 64
    [] OTHER         -> 0      \* other bytes are ignored

\* The first position of the line that c is in, within the range.
LineBegin(b, begin, c) ==
  LET p == CHOOSE q \in begin..c :
             /\ q = begin \/ At(b, q) \in {CR, LF}
             /\ \A r \in (q + 1)..c : At(b, r) \notin {CR, LF}
  IN IF p > begin THEN p + 1 ELSE p

Group(b, g) ==
  LET chars == IF At(b, g + 2) = Equals THEN 1 ELSE IF At(b, g + 3) = Equals THEN 2 ELSE 3
      bits(i) == IF i <= chars THEN AlphabetIndex(At(b, g + i)) * 64 ^ (3 - i) ELSE 0
      value == bits(0) + bits(1) + bits(2) + bits(3)
  IN <<(value \div 65536) % 256, (value \div 256) % 256, value % 256, Unknown>>

\* The 3rd character is followed by the 4th byte of the group, not a character.
AfterDecoded(c, end, delta) == IF c + 1 # end /\ delta = 2 THEN c + 2 ELSE c + 1

Base64(b, last, begin, c, end) ==
  LET start == SkipNewline(b, c, end)
      line  == IF start = c /\ c > begin THEN LineBegin(b, begin, c) ELSE start
      delta == (start - line) % 4
      first == start - delta
      new   == [prevC |-> start, buf |-> Group(b, first)]
      known == c - last.prevC
  IN CASE known \in 0..2 -> Decoded(last.buf[known + 1], AfterDecoded(c, end, known), last)
       [] known \notin 0..2 /\ (start = end \/ end \in (first + 1)..(first + 3)) ->
            Decoded(Space, end, last)
       [] OTHER -> Decoded(new.buf[delta + 1], AfterDecoded(start, end, delta), new)

-----------------------------------------------------------------------------
\* Quoted-Printable

HexValue(b) ==
  CASE b \in 48..57  -> b - 48
    [] b \in 65..70  -> b - 55
    [] b \in 97..102 -> b - 87
    [] OTHER         -> -1

\* A quoted line break, after which the next line begins with "=" again.
QuotedAgain(b, p, end) ==
  /\ p # end /\ At(b, p) \in {CR, LF}
  /\ LET next == SkipNewline(b, p, end) IN next # end /\ At(b, next) = Equals

\* What "=" before p quotes otherwise
Quoted(b, p, end) ==
  LET next == SkipNewline(b, p, end)
  IN CASE p = end -> Char(Space, p)
       [] p # end /\ At(b, p) \in {CR, LF} ->
            IF next = end THEN Char(Space, next) ELSE Char(At(b, next), next + 1)
       [] OTHER ->
            IF HexValue(At(b, p)) < 0 \/ p + 1 = end THEN Char(Space, p + 1)
            ELSE IF HexValue(At(b, p + 1)) < 0 THEN Char(Space, p + 2)
            ELSE Char(HexValue(At(b, p)) * 16 + HexValue(At(b, p + 1)), p + 2)

AfterEquals(b, end) ==
  LET after[p \in 1..end] ==
        IF QuotedAgain(b, p, end) THEN after[SkipNewline(b, p, end) + 1] ELSE Quoted(b, p, end)
  IN after

QuotedPrintable(b, c, end) ==
  IF At(b, c) # Equals THEN Char(At(b, c), c + 1) ELSE AfterEquals(b, end)[c + 1]

-----------------------------------------------------------------------------
\* UTF-8 and UTF-16

TrailingBytes(b) ==
  CASE b < 192        -> 0
    [] b \in 192..223 -> 1
    [] b \in 224..239 -> 2
    [] b \in 240..247 -> 3
    [] b \in 248..251 -> 4
    [] OTHER          -> 5

\* What is subtracted to take the marking bits of all bytes away: of sequences
\* of five and six bytes no code point is near those of ASCII.
Offset(n) == <<0, 12416, 925824, 63447168>>[n + 1]

\* Mutant: the bytes of which no first one follows are not gone over.
OutOfSyncStays(c, end) == Char(Space, c)

\* No byte up to the end begins a character.
OutOfSync(c, end) == Char(Space, end)

\* The first byte of the next character, or the end
FirstByte(b, c, end) ==
  CHOOSE p \in c..end : /\ p = end \/ At(b, p) >= 192
                        /\ \A q \in c..(p - 1) : At(b, q) < 192

\* The last byte of the character that begins at "first", before the limit
LastByte(b, first, limit) ==
  LET n == TrailingBytes(At(b, first)) IN IF first + n < limit THEN first + n ELSE limit - 1

Utf8At(b, first, last) ==
  LET n     == TrailingBytes(At(b, first))
      bytes == SubSeq(b, first, last)
      sum   == FoldLeft(LAMBDA u, x : u * 64 + x, 0, bytes)
               * (IF Len(bytes) <= n THEN 64 ELSE 1)    \* it ends too soon
  IN IF At(b, first) >= 254 THEN Char(Space, first + 1)
     ELSE Char(IF n > 3 THEN Space ELSE UnicodeToAscii(sum - Offset(n)), last + 1)

\* An end that is itself the first byte of a character goes unseen.
Utf8(b, c, end) ==
  LET first == FirstByte(b, c, end)
      limit == IF first = end THEN Len(b) + 1 ELSE end
  IN CASE At(b, c) < 128                                     -> Char(At(b, c), c + 1)
       [] At(b, c) >= 128 /\ first = end /\ At(b, end) < 192 -> OutOfSync(c, end)
       [] OTHER -> Utf8At(b, first, LastByte(b, first, limit))

\* A char that is negative makes a number beyond all characters.
Utf16(c, end, high, low) ==
  IF c = end \/ c + 1 = end THEN Char(Space, c)
  ELSE Char(IF CharIsSigned /\ low > 127 THEN Space ELSE UnicodeToAscii(high * 256 + low), c + 2)

-----------------------------------------------------------------------------
\* What the decoders without a state read at c of a range of text t
Read(t, c, end) ==
  LET b == t.bytes
  IN CASE t.decoder = "quoted-printable" -> QuotedPrintable(b, c, end)
       [] t.decoder = "utf-8"            -> Utf8(b, c, end)
       [] t.decoder = "utf-16be"         -> Utf16(c, end, At(b, c), At(b, c + 1))
       [] t.decoder = "utf-16le"         -> Utf16(c, end, At(b, c + 1), At(b, c))
       [] OTHER                          -> Char(Latin1ToAscii(At(b, c)), c + 1)

\* decode(): the character at c of a range, when "last" is the group decoded last.
Decode(t, last, begin, c, end) ==
  IF t.decoder = "base64" THEN Base64(t.bytes, last, begin, c, end)
  ELSE LET d == Read(t, c, end) IN Decoded(d.ch, d.c, last)

BeginOf(begin, end, nth) ==
  [NoIterator EXCEPT !.begin = begin, !.pos = begin, !.end = end, !.nth = nth]

AtEnd(i) == iterators[i].pos = iterators[i].end

Init ==
  /\ text = NoText /\ texts = 0
  /\ iterators = [i \in Iterators |-> NoIterator]
  /\ group = NoGroup

\* Mutant: the decoder is not reset, and the new text is where the old one was.
BeginWithGroup(t) ==
  /\ texts < MaxTexts /\ AtEnd(FirstIterator)
  /\ texts' = texts + 1
  /\ text' = t
  /\ iterators' = [i \in Iterators |->
                     IF i = FirstIterator THEN BeginOf(1, Len(t.bytes) + 1, 1) ELSE NoIterator]
  /\ UNCHANGED group

\* Another file, or part of a mail, when one has been read: reset_all() is
\* called, and it is read from its beginning.
Begin(t) ==
  /\ texts < MaxTexts /\ AtEnd(FirstIterator)
  /\ texts' = texts + 1
  /\ text' = t
  /\ iterators' = [i \in Iterators |->
                     IF i = FirstIterator THEN BeginOf(1, Len(t.bytes) + 1, 1) ELSE NoIterator]
  /\ group' = [group EXCEPT !.prevC = NoGroup.prevC]

\* Only the first iterator reads a text of which no copies are read.
Reads(i) == ~AtEnd(i) /\ (i = FirstIterator \/ text.decoder \in Copied)

DecodeAt(it, last) == Decode(text, last, it.begin, it.pos, it.end)
AsDecoded(it, d) == [it EXCEPT !.decoded = TRUE, !.ch = d.ch, !.delta = d.c - it.pos]
GoneTo(it, c) ==
  [it EXCEPT !.pos = c, !.decoded = FALSE, !.ch = 0, !.delta = 0, !.nth = @ + 1]

\* operator*
Dereference(i) ==
  /\ Reads(i) /\ ~iterators[i].decoded
  /\ LET d == DecodeAt(iterators[i], group)
     IN /\ iterators' = [iterators EXCEPT ![i] = AsDecoded(@, d)]
        /\ group' = d.group
  /\ UNCHANGED <<text, texts>>

\* operator++: a character that has not been decoded is, for its length.
Increment(i) ==
  /\ Reads(i)
  /\ LET it == iterators[i]
         d == IF it.decoded THEN Decoded(it.ch, it.pos + it.delta, group) ELSE DecodeAt(it, group)
     IN /\ iterators' = [iterators EXCEPT ![i] = GoneTo(@, d.c)]
        /\ group' = d.group
  /\ UNCHANGED <<text, texts>>

\* *c++, as the words of a file are read: j is the copy that is dereferenced
\* when c has gone on, so the character is decoded a second time.
PostIncrement(i, j) ==
  /\ Reads(i) /\ ~iterators[i].decoded /\ j \notin {i, FirstIterator}
  /\ LET it == iterators[i]
         first == DecodeAt(it, group)
         again == DecodeAt(it, first.group)
     IN /\ iterators' = [iterators EXCEPT ![i] = GoneTo(it, first.c),
                                          ![j] = AsDecoded(it, again)]
        /\ group' = again.group
  /\ UNCHANGED <<text, texts>>

Copy(i, j) ==
  /\ text.decoder \in Copied /\ iterators[i] # NoIterator
  /\ iterators' = [iterators EXCEPT ![j] = iterators[i]]
  /\ UNCHANGED <<text, texts, group>>

\* A range from an iterator to its end, or to another iterator, and its begin().
RangeFrom(i, end, j) ==
  /\ text.decoder \in Copied /\ iterators[i] # NoIterator
  /\ iterators[i].pos <= end
  /\ iterators' = [iterators EXCEPT ![j] = BeginOf(iterators[i].pos, end, iterators[i].nth)]
  /\ UNCHANGED <<text, texts, group>>

Next ==
  \/ \E t \in Texts : Begin(t)
  \/ \E i \in Iterators : Dereference(i) \/ Increment(i)
  \/ \E i, j \in Iterators :
       PostIncrement(i, j) \/ Copy(i, j) \/ RangeFrom(i, iterators[i].end, j)
  \/ \E i, j, k \in Iterators : RangeFrom(i, iterators[k].pos, j)

Spec == Init /\ [][Next]_vars

-----------------------------------------------------------------------------
\* The place of the n-th character of a text
CharAt(t, n) == IF n <= Len(t.chars) THEN t.chars[n].at ELSE Len(t.bytes) + 1

\* Whatever iterators have read before, and wherever they are: one that has
\* gone over n - 1 characters of a well-formed text is where the n-th is
\* encoded, and decodes that.
ReadsWhatWasEncoded ==
  \A i \in Iterators : text.known /\ iterators[i] # NoIterator =>
    /\ iterators[i].pos = CharAt(text, iterators[i].nth)
    /\ iterators[i].decoded => iterators[i].ch = text.chars[iterators[i].nth].ch

\* Iterator i goes on to the next character.
GoesOn(i) ==
  /\ iterators'[i].nth = iterators[i].nth + 1
  /\ Increment(i) \/ \E j \in Iterators : PostIncrement(i, j)

\* An iterator that goes on to the next character goes forward and stays in its
\* range, in whatever text, so that reading a range comes to its end.
StepsForward ==
  [][\A i \in Iterators : GoesOn(i) =>
       /\ iterators[i].pos < iterators'[i].pos
       /\ iterators'[i].pos <= iterators[i].end]_vars

-----------------------------------------------------------------------------
\* What is asked of the texts: those in UTF-16 have no half character; of those
\* whose characters are known, each has its place, where one in Base64 has them
\* by three in groups, in lines of whole groups, and any other has them when it
\* is read straight through.

WholeTexts ==
  \A t \in Texts : t.decoder \in {"utf-16be", "utf-16le"} => Len(t.bytes) % 2 = 0

HasChars(t) == t.chars \in Seq([ch : Int, at : Nat]) /\ CharAt(t, 1) = 1

ReadStraight ==
  \A t \in Texts : t.known /\ t.decoder # "base64" =>
    /\ HasChars(t)
    /\ \A n \in DOMAIN t.chars :
         /\ t.chars[n].at <= Len(t.bytes)
         /\ Read(t, t.chars[n].at, Len(t.bytes) + 1) = Char(t.chars[n].ch, CharAt(t, n + 1))

\* The character after k groups begins a group, of which a line break may be the
\* first byte, or is what a line break at the end is read as.
InGroup(t, k) ==
  LET c == CharAt(t, 3 * k + 1)
      g == SkipNewline(t.bytes, c, Len(t.bytes) + 1)
  IN /\ c <= Len(t.bytes)
     /\ \/ /\ g = Len(t.bytes) + 1
           /\ Len(t.chars) = 3 * k + 1 /\ t.chars[3 * k + 1].ch = Space
        \/ /\ g + 3 <= Len(t.bytes) /\ 3 * k + 3 <= Len(t.chars)
           /\ c = g /\ c > 1 => (g - LineBegin(t.bytes, 1, g)) % 4 = 0
           /\ \A i \in 1..3 : t.chars[3 * k + i].ch = Group(t.bytes, g)[i]
           /\ CharAt(t, 3 * k + 2) = g + 1 /\ CharAt(t, 3 * k + 3) = g + 2
           /\ CharAt(t, 3 * k + 4) = g + 4

InGroups ==
  \A t \in Texts : t.known /\ t.decoder = "base64" =>
    /\ HasChars(t)
    /\ \A k \in 0..Len(t.chars) : 3 * k + 1 \in DOMAIN t.chars => InGroup(t, k)
=============================================================================
