--------------------------- MODULE MCClaimIntake ---------------------------
(***************************************************************************)
(* A small instance of ClaimIntake: texts of every shape the chunker tells *)
(* apart, without lines to quote, and a few texts with two lines, over two *)
(* chunks, that claims can be drawn from.                                  *)
(***************************************************************************)
EXTENDS ClaimIntake

CONSTANTS first, second, joint, name

Unit(length, lines) == [length |-> length, lines |-> lines]

(* A character stands for each page marker.                                 *)
TextOf(pages, split) ==
  [pages |-> pages, split |-> split, garbled |-> FALSE, preamble |-> {},
   outside |-> IF split = "MARKERS" THEN Len(pages) ELSE 0]

UpTo(n, S) == UNION {[1..m -> S] : m \in 1..n}

(* One to three pages, empty, short, half a chunk or longer than a chunk.   *)
(* A form feed makes two pages at least.                                    *)
PagedTexts ==
  {TextOf(pages, IF Len(pages) = 1 THEN "MARKERS" ELSE "FORM_FEED") :
     pages \in UpTo(3, {<<>>, <<Unit(1, {})>>, <<Unit(6, {})>>, <<Unit(12, {})>>})}

(* Paragraphs without pages, one of them possibly too long to be cut; the   *)
(* short ones fill a chunk exactly with and without their separators.       *)
FlatTexts ==
  {TextOf(<<units>>, "NONE") :
     units \in UpTo(4, {Unit(4, {}), Unit(5, {}), Unit(12, {})})}

QuotedTexts ==
  LET one == <<Unit(4, {first})>>
      two == <<Unit(4, {second})>>
  IN
  {TextOf(<<one, <<Unit(4, {first, second})>>, one>>, "FORM_FEED"),
   TextOf(<<two, one, one, one, two>>, "FORM_FEED"),
   TextOf(<< <<Unit(6, {first}), Unit(6, {first, second})>> >>, "NONE"),
   TextOf(<< <<Unit(4, {first}), Unit(4, {second})>> >>, "NONE"),
   TextOf(<< <<Unit(8, {first})>> >>, "MARKERS"),
   [TextOf(<< <<Unit(8, {first})>> >>, "MARKERS") EXCEPT !.garbled = TRUE],
   [TextOf(<<one, one>>, "MARKERS")
      EXCEPT !.preamble = {second}, !.outside = @ + 4]}

MCTexts == PagedTexts \cup FlatTexts \cup QuotedTexts

MCAnswerIds == {<<name>>, <<2, name>>}
=============================================================================
