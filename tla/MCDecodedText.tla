--------------------------- MODULE MCDecodedText ---------------------------
(***************************************************************************)
(* Texts for TLC, with the characters that were encoded and where.         *)
(***************************************************************************)
EXTENDS DecodedText

CONSTANTS
  UpTo,  \* characters of a text
  Hard   \* what the code does not read: "odd" texts in UTF-16, with half a
         \* character at the end, or accents in UTF-16 where chars are "signed"

\* Pieces of a text: bytes, and the character they are.
Piece(ch, bytes) == [ch |-> ch, bytes |-> bytes]

Text(decoder, pieces, after) ==
  LET length(n) == FoldLeft(LAMBDA s, p : s + Len(p.bytes), 0, SubSeq(pieces, 1, n))
  IN [decoder |-> decoder, known |-> TRUE,
      bytes |-> FlattenSeq([n \in DOMAIN pieces |-> pieces[n].bytes]) \o after,
      chars |-> [n \in DOMAIN pieces |-> [ch |-> pieces[n].ch, at |-> length(n - 1) + 1]]]

PiecesOf(decoder) ==
  CASE decoder = "none" -> {Piece(97, <<97>>), Piece(101, <<233>>)}
    [] decoder = "quoted-printable" ->
         {Piece(97, <<97>>), Piece(LF, <<LF>>), Piece(61, <<61, 51, 68>>),
          Piece(98, <<61, CR, LF, 98>>), Piece(233, <<61, LF, 61, CR, LF, 61, 101, 57>>)}
    [] decoder = "utf-8" ->
         {Piece(97, <<97>>), Piece(101, <<195, 169>>), Piece(Space, <<226, 130, 172>>),
          Piece(Space, <<240, 159, 152, 128>>)}
    [] decoder = "utf-16be" ->
         {Piece(97, <<0, 97>>), Piece(Space, <<32, 172>>)}
         \cup (IF CharIsSigned /\ Hard # "signed" THEN {} ELSE {Piece(101, <<0, 233>>)})
    [] decoder = "utf-16le" ->
         {Piece(97, <<97, 0>>), Piece(Space, <<172, 32>>)}
         \cup (IF CharIsSigned /\ Hard # "signed" THEN {} ELSE {Piece(101, <<233, 0>>)})

-----------------------------------------------------------------------------
\* Three characters as a group; the second and third may be padding, which is
\* decoded as characters 0.  A line break belongs to the character after it.

Letter(v) ==
  CASE v < 26 -> v + 65 [] v \in 26..51 -> v + 71 [] v \in 52..61 -> v - 4
    [] v = 62 -> 43 [] OTHER -> 47

GroupPieces(x, y, z, padding, break) ==
  LET value == x * 65536 + y * 256 + z
      letter(i) == IF i > 4 - padding THEN Equals ELSE Letter((value \div 64 ^ (4 - i)) % 64)
  IN <<Piece(x, break \o <<letter(1)>>), Piece(y, <<letter(2)>>),
       Piece(z, <<letter(3), letter(4)>>)>>

Groups(break) ==
  {GroupPieces(104, 105, 60, 0, break), GroupPieces(0, 255, 233, 0, break)}
Padded(break) == {GroupPieces(104, 105, 0, 1, break), GroupPieces(104, 0, 0, 2, break)}

Breaks == {<<>>, <<LF>>, <<CR, LF>>}
Base64Texts ==
  {Text("base64", g \o FlattenSeq(gs), <<>>) :
     g \in Groups(<<>>), gs \in UNION {BoundedSeq(Groups(b), 1) : b \in Breaks}}
  \cup {Text("base64", g \o h \o p \o <<Piece(Space, <<LF>>)>>, <<>>) :
          g \in Groups(<<>>), h \in Groups(<<LF>>), p \in Padded(<<>>)}

Known ==
  Base64Texts
  \cup UNION {{Text(d, ps, <<>>) : ps \in BoundedSeq(PiecesOf(d), UpTo)} : d \in Decoders \ {"base64"}}

\* Texts cut off, or begun, anywhere.
Cut(t) ==
  {[t EXCEPT !.bytes = SubSeq(@, i, j), !.known = FALSE, !.chars = <<>>] :
     i \in 1..2, j \in (Len(t.bytes) - 4)..Len(t.bytes)}
Whole(t) == t.decoder \in {"utf-16be", "utf-16le"} => Hard = "odd" \/ Len(t.bytes) % 2 = 0

MCTexts == Known \cup {t \in UNION {Cut(k) : k \in {x \in Known : x.chars # <<>>}} : Whole(t)}

ASSUME HardTexts == Hard = "none" => WholeTexts /\ ReadStraight /\ InGroups
=============================================================================
