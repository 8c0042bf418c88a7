------------------------------ MODULE EnvBlock ------------------------------
(***************************************************************************)
(* RtlQueryEnvironmentVariable_U (env.c): one call of it, which looks for  *)
(* Name in the block of strings that its caller passes.  A step is an      *)
(* iteration of the loop over the strings.  Lengths are in bytes, in words *)
(* of WordSize values; indices of the block are from 0.                    *)
(*                                                                         *)
(* A caller that passes no block gets none: RtlGetCurrentPeb() is NULL, so *)
(* that the PEB lock of the function is never taken.                       *)
(***************************************************************************)
EXTENDS DosPath

CONSTANTS
  Char,      \* the characters of the strings
  Blocks,    \* the blocks that callers pass
  Names,     \* the names they look for
  Maximums,  \* the bytes of memory they provide for the value
  WordSize   \* 65536, the values of a USHORT

ASSUME CharAssumption == "=" \in Char /\ UNICODE_NULL \notin Char

\* A block ends with an empty string, the only one; each has its terminator.
ASSUME BlocksAssumption ==
  \A b \in Blocks :
    LET last == Cardinality(DOMAIN b) - 1
    IN  /\ last \in Nat
        /\ b \in [0..last -> Char \cup {UNICODE_NULL}]
        /\ b[last] = UNICODE_NULL
        /\ last > 0 => b[last - 1] = UNICODE_NULL
        /\ \A i \in 0..(last - 1) : b[i] = UNICODE_NULL => i > 0 /\ b[i - 1] # UNICODE_NULL

ASSUME NamesAssumption == Names \subseteq Seq(Char)

ASSUME WordAssumption ==
  /\ WordSize \in Nat \ {0} /\ WordSize % SizeofWCHAR = 0
  /\ Maximums \subseteq 0..(WordSize - 1)

VARIABLES
  Environment,    \* the block
  HasBlock,       \* FALSE when the caller passes NULL
  Name,
  MaximumLength,  \* of Value
  Length,         \* of Value
  Buffer,         \* what has been copied to the memory of Value
  wcs,
  Status          \* "searching", or what is returned

vars == <<Environment, HasBlock, Name, MaximumLength, Length, Buffer, wcs, Status>>

\* The function sets Length to 0, and so has RtlGetFullPathName_Ustr before.
Init ==
  /\ Environment \in Blocks
  /\ HasBlock \in BOOLEAN
  /\ Name \in Names
  /\ MaximumLength \in Maximums
  /\ Length = 0
  /\ Buffer = <<>>
  /\ wcs = 0
  /\ Status = "searching"
-----------------------------------------------------------------------------
Word(n) == n % WordSize

\* e is where the string that starts at i has its terminator.
StringEnd(i, e) ==
  /\ i <= e
  /\ Environment[e] = UNICODE_NULL
  /\ \A j \in i..(e - 1) : Environment[j] # UNICODE_NULL

\* The search starts behind the first character, which may be "=" itself.
EqualsFromStart(q) ==
  /\ wcs <= q
  /\ Environment[q] = "="
  /\ \A j \in wcs..(q - 1) : Environment[j] \notin {"=", UNICODE_NULL}

EqualsAt(q) ==
  /\ wcs < q
  /\ Environment[q] = "="
  /\ \A j \in (wcs + 1)..(q - 1) : Environment[j] \notin {"=", UNICODE_NULL}

NoEquals == \A q \in DOMAIN Environment : ~EqualsAt(q)

\* With no word to count in.
BytesBetweenWide(first, last) == (last - first) * SizeofWCHAR

BytesBetween(first, last) == Word((last - first) * SizeofWCHAR)

\* The string at first, of as many characters as its length says.
Counted(first, last) ==
  Between(Environment, first, first + (BytesBetween(first, last) \div SizeofWCHAR))

Return(status) == Status' = status /\ UNCHANGED <<Environment, HasBlock, Name, MaximumLength>>

Searching == Status = "searching" /\ HasBlock

AtString == Searching /\ Environment[wcs] # UNICODE_NULL

NoBlock ==
  /\ Status = "searching" /\ ~HasBlock
  /\ Return("VARIABLE_NOT_FOUND")
  /\ UNCHANGED <<Length, Buffer, wcs>>

\* The search for "=" has lost the string's start and begins again.
SkipStringRereads ==
  /\ AtString
  /\ NoEquals
  /\ UNCHANGED vars

SkipString ==
  /\ AtString
  /\ NoEquals
  /\ \E e \in DOMAIN Environment : StringEnd(wcs, e) /\ wcs' = e + 1
  /\ Return("searching")
  /\ UNCHANGED <<Length, Buffer>>

\* The terminator of the value is taken for the end of the block.
OtherVariableStays ==
  /\ AtString
  /\ \E q, e \in DOMAIN Environment :
       /\ EqualsAt(q) /\ StringEnd(q + 1, e)
       /\ ~RtlEqualUnicodeString(Counted(wcs, q), Name)
       /\ wcs' = e
  /\ Return("searching")
  /\ UNCHANGED <<Length, Buffer>>

OtherVariable ==
  /\ AtString
  /\ \E q, e \in DOMAIN Environment :
       /\ EqualsAt(q) /\ StringEnd(q + 1, e)
       /\ ~RtlEqualUnicodeString(Counted(wcs, q), Name)
       /\ wcs' = e + 1
  /\ Return("searching")
  /\ UNCHANGED <<Length, Buffer>>

\* The value and its terminator, whatever the memory holds.
CopiedUnbounded(bytes) == (bytes + SizeofWCHAR) \div SizeofWCHAR

\* The value and its terminator, or as much of it as the memory holds.
Copied(bytes) == Min({bytes + SizeofWCHAR, MaximumLength}) \div SizeofWCHAR

VariableFits ==
  /\ AtString
  /\ \E q, e \in DOMAIN Environment :
       /\ EqualsAt(q) /\ StringEnd(q + 1, e)
       /\ RtlEqualUnicodeString(Counted(wcs, q), Name)
       /\ Length' = BytesBetween(q + 1, e)
       /\ Length' <= MaximumLength
       /\ Buffer' = Between(Environment, q + 1, q + 1 + Copied(Length'))
       /\ wcs' = e
  /\ Return("SUCCESS")

VariableTooLong ==
  /\ AtString
  /\ \E q, e \in DOMAIN Environment :
       /\ EqualsAt(q) /\ StringEnd(q + 1, e)
       /\ RtlEqualUnicodeString(Counted(wcs, q), Name)
       /\ Length' = BytesBetween(q + 1, e)
       /\ Length' > MaximumLength
       /\ wcs' = e
  /\ Return("BUFFER_TOO_SMALL")
  /\ UNCHANGED Buffer

NotFound ==
  /\ Searching
  /\ Environment[wcs] = UNICODE_NULL
  /\ Return("VARIABLE_NOT_FOUND")
  /\ UNCHANGED <<Length, Buffer, wcs>>

Returned == Status # "searching" /\ UNCHANGED vars

Next ==
  \/ NoBlock \/ SkipString \/ OtherVariable \/ VariableFits \/ VariableTooLong \/ NotFound
  \/ Returned

Spec == Init /\ [][Next]_vars /\ WF_vars(Next)
-----------------------------------------------------------------------------
TypeOK ==
  /\ HasBlock \in BOOLEAN
  /\ Name \in Names /\ MaximumLength \in Maximums
  /\ Length \in 0..(WordSize - 1)
  /\ Buffer \in Seq(Char \cup {UNICODE_NULL})
  /\ wcs \in DOMAIN Environment
  /\ Status \in {"searching", "SUCCESS", "BUFFER_TOO_SMALL", "VARIABLE_NOT_FOUND"}

(***************************************************************************)
(* The loop looks at starts of strings only: it neither takes a value for  *)
(* a name, nor one string's end for the block's.                           *)
(***************************************************************************)
AtStartOfString ==
  Status = "searching" /\ wcs > 0 => Environment[wcs - 1] = UNICODE_NULL

(***************************************************************************)
(* Whatever the length of the value, and although it wraps at 16 bits, no  *)
(* more is written than the caller has memory for.                         *)
(***************************************************************************)
CopyFits == LengthInBytes(Buffer) <= MaximumLength

(***************************************************************************)
(* The call returns.                                                       *)
(***************************************************************************)
Ended == <>(Status # "searching")
=============================================================================
