----------------------------- MODULE MCEnvBlock -----------------------------
(***************************************************************************)
(* Blocks of two strings, of three shorter ones, and of one that a word    *)
(* cannot count.                                                           *)
(***************************************************************************)
EXTENDS EnvReference

CONSTANTS
  MaxString,       \* the length of a string of two
  MaxShortString,  \* of one of three
  MaxLongString    \* of one alone

MCChar == {"a", "A", "="}

Strings(n) == BoundedSeq(MCChar, n) \ {<<>>}

BlockOf(strings) == BufferOf(FlattenSeq([i \in DOMAIN strings |-> Append(strings[i], UNICODE_NULL)]))

MCBlocks ==
  {BlockOf(strings) : strings \in
     BoundedSeq(Strings(MaxString), 2) \cup BoundedSeq(Strings(MaxShortString), 3)
       \cup BoundedSeq(Strings(MaxLongString), 1)}

MCNames == {<<"a">>, <<"=", "a">>, <<"A", "A">>}

\* None, a character, two and a half, three.
MCMaximums == {0, 4, 10, 12}
=============================================================================
