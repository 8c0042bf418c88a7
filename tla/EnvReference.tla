---------------------------- MODULE EnvReference ----------------------------
(***************************************************************************)
(* What a query should answer, from the strings of the block.              *)
(***************************************************************************)
EXTENDS EnvBlock, SequencesExt

Starts == {i \in DOMAIN Environment : i = 0 \/ Environment[i - 1] = UNICODE_NULL}

String(i) ==
  Between(Environment, i, Min({e \in DOMAIN Environment : e >= i /\ Environment[e] = UNICODE_NULL}))

\* The position of the "=" that ends the name, 0 for none.
Separator(s) == Min({Len(s) + 1} \cup {k \in 2..Len(s) : s[k] = "="}) % (Len(s) + 1)

NameIn(s)  == SubSeq(s, 1, Separator(s) - 1)
ValueIn(s) == SubSeq(s, Separator(s) + 1, Len(s))

Matches == {i \in Starts : Separator(String(i)) # 0 /\ RtlEqualUnicodeString(NameIn(String(i)), Name)}

\* No name and no value is longer than a word can count.
Countable == \A i \in Starts : LengthInBytes(String(i)) < WordSize
-----------------------------------------------------------------------------
(***************************************************************************)
(* The answer is the value of the first variable of that name: all of it   *)
(* when it fits, with its terminator when that fits too, or else the       *)
(* length it has.  (Behind 16 bits of bytes the lengths wrap.)             *)
(***************************************************************************)
FirstMatchAnswered ==
  Status # "searching" /\ Countable =>
    IF Matches = {} \/ ~HasBlock THEN Status = "VARIABLE_NOT_FOUND"
    ELSE \A value \in {ValueIn(String(Min(Matches)))} :
           /\ Length = LengthInBytes(value)
           /\ Status = IF Length <= MaximumLength THEN "SUCCESS" ELSE "BUFFER_TOO_SMALL"
           /\ Status = "SUCCESS" =>
                /\ SubSeq(Buffer, 1, Len(value)) = value
                /\ Length + SizeofWCHAR <= MaximumLength => Buffer[Len(value) + 1] = UNICODE_NULL
=============================================================================
