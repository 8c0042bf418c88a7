--------------------------- MODULE EnvBlockProofs ---------------------------
(***************************************************************************)
(* The query of the environment, for every block, name, size of memory and *)
(* width of the words that count bytes.  IInv is inductive.                *)
(***************************************************************************)
EXTENDS EnvReference, ComponentLemmas

LastIndex == Cardinality(DOMAIN Environment) - 1

IInv ==
  /\ Environment \in Blocks
  /\ TypeOK
  /\ AtStartOfString
  /\ CopyFits
-----------------------------------------------------------------------------
(***************************************************************************)
(* What a block is, and where its strings end.                             *)
(***************************************************************************)
LEMMA BlockFacts ==
  ASSUME Environment \in Blocks
  PROVE  /\ LastIndex \in Nat
         /\ DOMAIN Environment = 0..LastIndex
         /\ \A i \in 0..LastIndex : Environment[i] \in Char \cup {UNICODE_NULL}
         /\ Environment[LastIndex] = UNICODE_NULL
         /\ LastIndex > 0 => Environment[LastIndex - 1] = UNICODE_NULL
         /\ \A i \in 0..(LastIndex - 1) :
              Environment[i] = UNICODE_NULL => i > 0 /\ Environment[i - 1] # UNICODE_NULL
  BY BlocksAssumption DEF LastIndex

(***************************************************************************)
(* A string that starts in front of the last index ends there too: the     *)
(* block has another terminator to come.                                   *)
(***************************************************************************)
LEMMA EndInside ==
  ASSUME Environment \in Blocks,
         NEW i \in 0..(LastIndex - 1), NEW e \in DOMAIN Environment, StringEnd(i, e)
  PROVE  e < LastIndex /\ i <= e
  <1>1. SUFFICES ASSUME e = LastIndex PROVE FALSE
    BY BlockFacts DEF StringEnd
  <1>2. LastIndex - 1 \in i..(e - 1)
    BY BlockFacts, <1>1
  <1>. QED
    BY <1>2, BlockFacts DEF StringEnd

(***************************************************************************)
(* So does a value, which starts behind a "=".                             *)
(***************************************************************************)
LEMMA ValueInside ==
  ASSUME Environment \in Blocks,
         NEW q \in DOMAIN Environment, NEW e \in DOMAIN Environment,
         EqualsAt(q), StringEnd(q + 1, e)
  PROVE  e < LastIndex /\ q + 1 <= e /\ q \in Nat /\ e \in Nat
  <1>1. Environment[q] # UNICODE_NULL
    BY CharAssumption DEF EqualsAt
  <1>2. q \in 0..LastIndex /\ q # LastIndex /\ q # LastIndex - 1
    BY <1>1, BlockFacts
  <1>3. q + 1 \in 0..(LastIndex - 1)
    BY <1>2, BlockFacts
  <1>. QED
    BY <1>2, <1>3, EndInside, BlockFacts

(***************************************************************************)
(* Arithmetic: words, and characters in bytes.                             *)
(***************************************************************************)
LEMMA WordSmaller ==
  ASSUME NEW n \in Nat
  PROVE  Word(n) \in 0..(WordSize - 1) /\ Word(n) <= n
  BY WordAssumption DEF Word

LEMMA MinOfTwo ==
  ASSUME NEW a \in Int, NEW b \in Int
  PROVE  Min({a, b}) \in {a, b} /\ Min({a, b}) <= a /\ Min({a, b}) <= b
  <1>1. \E x \in {a, b} : \A y \in {a, b} : x <= y
    OBVIOUS
  <1>. QED
    BY <1>1 DEF Min

(***************************************************************************)
(* What is copied is in the memory of the caller and in the string.        *)
(***************************************************************************)
LEMMA CopiedBounded ==
  ASSUME NEW bytes \in Nat, MaximumLength \in Nat
  PROVE  /\ Copied(bytes) \in Nat
         /\ Copied(bytes) * SizeofWCHAR <= MaximumLength
         /\ Copied(bytes) * SizeofWCHAR <= bytes + SizeofWCHAR
  <1> DEFINE m == Min({bytes + SizeofWCHAR, MaximumLength})
  <1>1. m \in Nat /\ m <= MaximumLength /\ m <= bytes + SizeofWCHAR
    BY MinOfTwo, SizeofWCHARAssumption
  <1>2. Copied(bytes) = m \div SizeofWCHAR
    BY DEF Copied
  <1> HIDE DEF m
  <1>3. CASE SizeofWCHAR = 2
    BY <1>1, <1>2, <1>3
  <1>4. CASE SizeofWCHAR = 4
    BY <1>1, <1>2, <1>4
  <1>. QED
    BY <1>3, <1>4, SizeofWCHARAssumption

LEMMA CopiedCharacters ==
  ASSUME NEW i \in Nat, NEW e \in Nat, i <= e, MaximumLength \in Nat
  PROVE  /\ BytesBetween(i, e) \in 0..(WordSize - 1)
         /\ Copied(BytesBetween(i, e)) \in 0..(e - i + 1)
         /\ Copied(BytesBetween(i, e)) * SizeofWCHAR <= MaximumLength
  <1> DEFINE bytes == BytesBetween(i, e)
  <1>1. (e - i) * SizeofWCHAR \in Nat
    BY SizeofWCHARAssumption
  <1>2. bytes \in 0..(WordSize - 1) /\ bytes <= (e - i) * SizeofWCHAR
    BY <1>1, WordSmaller DEF BytesBetween
  <1>3. bytes \in Nat
    BY <1>2, WordAssumption
  <1> HIDE DEF bytes
  <1>4. /\ Copied(bytes) \in Nat
        /\ Copied(bytes) * SizeofWCHAR <= MaximumLength
        /\ Copied(bytes) * SizeofWCHAR <= (e - i) * SizeofWCHAR + SizeofWCHAR
    BY <1>2, <1>3, CopiedBounded, SizeofWCHARAssumption
  <1>5. Copied(bytes) <= e - i + 1
    <2>1. CASE SizeofWCHAR = 2
      BY <1>4, <2>1
    <2>2. CASE SizeofWCHAR = 4
      BY <1>4, <2>2
    <2>. QED
      BY <2>1, <2>2, SizeofWCHARAssumption
  <1>. QED
    BY <1>2, <1>4, <1>5 DEF bytes
-----------------------------------------------------------------------------
(***************************************************************************)
(* The invariant.                                                          *)
(***************************************************************************)
LEMMA InitIInv == Init => IInv
  <1>1. SUFFICES ASSUME Init PROVE IInv
    OBVIOUS
  <1>2. 0 \in DOMAIN Environment
    BY <1>1, BlockFacts DEF Init
  <1>3. 0 \in 0..(WordSize - 1) /\ 0 <= MaximumLength
    BY <1>1, WordAssumption DEF Init
  <1>4. LengthInBytes(Buffer) = 0 /\ Buffer \in Seq(Char \cup {UNICODE_NULL})
    BY <1>1, SizeofWCHARAssumption DEF Init, LengthInBytes
  <1>. QED
    BY <1>1, <1>2, <1>3, <1>4 DEF Init, IInv, TypeOK, AtStartOfString, CopyFits

(***************************************************************************)
(* A step that leaves a string behind stands at the start of the next.     *)
(***************************************************************************)
LEMMA Onward ==
  ASSUME IInv, AtString, NEW e \in Nat, e < LastIndex, Environment[e] = UNICODE_NULL,
         wcs' = e + 1, Return("searching"), UNCHANGED <<Length, Buffer>>
  PROVE  IInv'
  <1>1. e + 1 \in DOMAIN Environment
    BY BlockFacts DEF IInv
  <1>2. Environment' = Environment /\ Environment[wcs' - 1] = UNICODE_NULL
    BY DEF Return
  <1>. QED
    BY <1>1, <1>2 DEF IInv, TypeOK, AtStartOfString, CopyFits, Return

LEMMA NextIInv == IInv /\ [Next]_vars => IInv'
  <1>1. SUFFICES ASSUME IInv, [Next]_vars PROVE IInv'
    OBVIOUS
  <1>2. DOMAIN Environment = 0..LastIndex /\ LastIndex \in Nat /\ wcs \in 0..LastIndex
    BY <1>1, BlockFacts DEF IInv, TypeOK
  <1>3. AtString => wcs \in 0..(LastIndex - 1)
    BY <1>1, <1>2, BlockFacts DEF AtString, IInv
  <1>4. MaximumLength \in Nat
    BY <1>1, WordAssumption DEF IInv, TypeOK
  <1>5. CASE NoBlock
    BY <1>1, <1>5 DEF NoBlock, Return, IInv, TypeOK, AtStartOfString, CopyFits
  <1>6. CASE SkipString
    <2>1. PICK e \in DOMAIN Environment : StringEnd(wcs, e) /\ wcs' = e + 1
      BY <1>6 DEF SkipString
    <2>2. e \in Nat /\ e < LastIndex
      BY <1>1, <1>2, <1>3, <1>6, <2>1, EndInside DEF SkipString, IInv
    <2>. QED
      BY <1>1, <1>6, <2>1, <2>2, Onward DEF SkipString, StringEnd
  <1>7. CASE OtherVariable
    <2>1. PICK q \in DOMAIN Environment, e \in DOMAIN Environment :
            EqualsAt(q) /\ StringEnd(q + 1, e) /\ wcs' = e + 1
      BY <1>7 DEF OtherVariable
    <2>2. e \in Nat /\ e < LastIndex
      BY <1>1, <2>1, ValueInside DEF IInv
    <2>. QED
      BY <1>1, <1>7, <2>1, <2>2, Onward DEF OtherVariable, StringEnd
  <1>8. CASE VariableFits
    <2>1. PICK q \in DOMAIN Environment, e \in DOMAIN Environment :
            /\ EqualsAt(q) /\ StringEnd(q + 1, e)
            /\ Length' = BytesBetween(q + 1, e)
            /\ Buffer' = Between(Environment, q + 1, q + 1 + Copied(Length'))
            /\ wcs' = e
      BY <1>8 DEF VariableFits
    <2>2. e < LastIndex /\ q + 1 <= e /\ q \in Nat /\ e \in Nat
      BY <1>1, <2>1, ValueInside DEF IInv
    <2> DEFINE n == Copied(BytesBetween(q + 1, e))
    <2>3. Length' \in 0..(WordSize - 1) /\ n \in 0..(e - q) /\ n * SizeofWCHAR <= MaximumLength
      BY <1>4, <2>1, <2>2, CopiedCharacters
    <2>. Buffer' = Between(Environment, q + 1, q + 1 + n)
      BY <2>1
    <2> HIDE DEF n
    <2>4. Buffer' = [i \in 1..n |-> Environment[q + i]]
      <3>1. (q + 1 + n) - (q + 1) = n /\ \A i \in 1..n : q + 1 + i - 1 = q + i
        BY <2>2, <2>3
      <3>. QED
        BY <3>1 DEF Between
    <2>5. \A i \in 1..n : Environment[q + i] \in Char \cup {UNICODE_NULL}
      BY <1>1, <1>2, <2>2, <2>3, BlockFacts DEF IInv
    <2>6. Buffer' \in Seq(Char \cup {UNICODE_NULL}) /\ Len(Buffer') = n
      BY <2>3, <2>4, <2>5
    <2>7. LengthInBytes(Buffer') <= MaximumLength
      BY <2>3, <2>6 DEF LengthInBytes
    <2>. QED
      BY <1>1, <1>8, <2>1, <2>3, <2>6, <2>7
      DEF VariableFits, Return, IInv, TypeOK, AtStartOfString, CopyFits
  <1>9. CASE VariableTooLong
    <2>1. PICK q \in DOMAIN Environment, e \in DOMAIN Environment :
            /\ EqualsAt(q) /\ StringEnd(q + 1, e)
            /\ Length' = BytesBetween(q + 1, e)
            /\ wcs' = e
      BY <1>9 DEF VariableTooLong
    <2>2. e < LastIndex /\ q + 1 <= e /\ q \in Nat /\ e \in Nat
      BY <1>1, <2>1, ValueInside DEF IInv
    <2>3. Length' \in 0..(WordSize - 1)
      BY <1>4, <2>1, <2>2, CopiedCharacters
    <2>. QED
      BY <1>1, <1>9, <2>1, <2>3
      DEF VariableTooLong, Return, IInv, TypeOK, AtStartOfString, CopyFits
  <1>10. CASE NotFound
    BY <1>1, <1>10 DEF NotFound, Return, IInv, TypeOK, AtStartOfString, CopyFits
  <1>11. CASE UNCHANGED vars
    BY <1>1, <1>11 DEF vars, IInv, TypeOK, AtStartOfString, CopyFits
  <1>. QED
    BY <1>1, <1>5, <1>6, <1>7, <1>8, <1>9, <1>10, <1>11 DEF Next, Returned

LEMMA Invariance == Spec => []IInv
  BY InitIInv, NextIInv, PTL DEF Spec
-----------------------------------------------------------------------------
(***************************************************************************)
(* The cursor stays in the block and every length is what a word holds.    *)
(***************************************************************************)
THEOREM TypeCorrect == Spec => []TypeOK
  BY Invariance, PTL DEF IInv

(***************************************************************************)
(* The loop never takes the middle of a string for the start of one.       *)
(***************************************************************************)
THEOREM StringsInStep == Spec => []AtStartOfString
  BY Invariance, PTL DEF IInv

(***************************************************************************)
(* The copy of the value stays in the memory of the caller, also when its  *)
(* length has wrapped.                                                     *)
(***************************************************************************)
THEOREM CopyAlwaysFits == Spec => []CopyFits
  BY Invariance, PTL DEF IInv
-----------------------------------------------------------------------------
\* The quotients and remainders the lengths and positions come to.
LEMMA RemainderOfItself == \A n \in Nat \ {0} : n % n = 0
  OBVIOUS
LEMMA RemainderOfSmaller == \A n, k \in Nat : k < n => k % n = k
  OBVIOUS

\* As many characters as their bytes say.
LEMMA CharactersOfBytes ==
  ASSUME NEW n \in Nat
  PROVE  (n * SizeofWCHAR) \div SizeofWCHAR = n
  <1>1. CASE SizeofWCHAR = 2
    BY <1>1
  <1>2. CASE SizeofWCHAR = 4
    BY <1>2
  <1>. QED
    BY <1>1, <1>2, SizeofWCHARAssumption

\* The n characters of the block from i on.
Chars(i, n) == [k \in 1..n |-> Environment[i + k - 1]]

LEMMA BetweenIs ==
  ASSUME NEW i \in Nat, NEW n \in Nat
  PROVE  Between(Environment, i, i + n) = Chars(i, n)
  <1>1. PICK m : m = i + n - i
    OBVIOUS
  <1>2. m = n
    BY <1>1
  <1>3. Between(Environment, i, i + n) = Chars(i, m)
    BY <1>1 DEF Between, Chars
  <1>. QED
    BY <1>2, <1>3

(***************************************************************************)
(* The string at i, its separator, its name and its value, as pieces of    *)
(* the block.                                                              *)
(***************************************************************************)
LEMMA StringIs ==
  ASSUME Environment \in Blocks, NEW i \in DOMAIN Environment,
         NEW e \in DOMAIN Environment, StringEnd(i, e)
  PROVE  /\ String(i) = Chars(i, e - i)
         /\ i \in Nat /\ e \in Nat /\ i <= e
  <1> DEFINE T == {j \in DOMAIN Environment : j >= i /\ Environment[j] = UNICODE_NULL}
  <1>1. DOMAIN Environment = 0..LastIndex /\ LastIndex \in Nat
    BY BlockFacts
  <1>2. i \in Nat /\ e \in Nat /\ i <= e
    BY <1>1 DEF StringEnd
  <1>3. T \in SUBSET Nat /\ e \in T
    BY <1>1, <1>2 DEF StringEnd
  <1>4. PICK m \in T : m = Min(T) /\ \A k \in T : m <= k
    BY <1>3, MinIs, Zenon
  <1>5. m = e
    <2>1. m \in Nat /\ m >= i /\ Environment[m] = UNICODE_NULL
      BY <1>1
    <2>2. m <= e
      BY <1>3, <1>4, Zenon
    <2>3. m \notin i..(e - 1)
      BY <2>1 DEF StringEnd
    <2>. QED
      BY <1>2, <2>1, <2>2, <2>3
  <1>6. String(i) = Between(Environment, i, e)
    BY <1>4, <1>5, Zenon DEF String
  <1>. QED
    BY <1>2, <1>6, Zenon DEF Between, Chars

LEMMA SeparatorIs ==
  ASSUME NEW S, NEW s \in Seq(S)
  PROVE  /\ (\A k \in 2..Len(s) : s[k] # "=") => Separator(s) = 0
         /\ \A k \in 2..Len(s) :
              s[k] = "=" /\ (\A j \in 2..(k - 1) : s[j] # "=") => Separator(s) = k
  <1> DEFINE T == {Len(s) + 1} \cup {k \in 2..Len(s) : s[k] = "="}
             L == Len(s)
  <1>1. L \in Nat /\ T \in SUBSET Nat /\ T # {}
    OBVIOUS
  <1>2. Min(T) \in T /\ \A k \in T : Min(T) <= k
    BY <1>1, MinIs, Zenon
  <1>3. Separator(s) = Min(T) % (L + 1)
    BY DEF Separator
  <1>4. ASSUME \A k \in 2..L : s[k] # "=" PROVE Separator(s) = 0
    <2>1. Min(T) = L + 1
      BY <1>2, <1>4
    <2>2. L + 1 \in Nat \ {0}
      BY <1>1
    <2>. QED
      BY <1>3, <2>1, <2>2, RemainderOfItself, Zenon
  <1>5. ASSUME NEW k \in 2..L, s[k] = "=", \A j \in 2..(k - 1) : s[j] # "="
        PROVE  Separator(s) = k
    <2>1. k \in T
      BY <1>5
    <2>2. Min(T) = k
      <3> SUFFICES ASSUME Min(T) # k PROVE FALSE
        OBVIOUS
      <3>1. Min(T) < k
        BY <1>1, <1>2, <2>1
      <3>2. Min(T) \in 2..(k - 1) /\ s[Min(T)] = "="
        BY <1>1, <1>2, <3>1
      <3>. QED
        BY <1>5, <3>2
    <2>3. L + 1 \in Nat /\ k \in Nat /\ k < L + 1
      BY <1>1
    <2> HIDE DEF L
    <2>4. k % (L + 1) = k
      BY <2>3, RemainderOfSmaller, Zenon
    <2>. QED
      BY <1>3, <2>2, <2>4, Zenon
  <1>. QED
    BY <1>4, <1>5

\* No string starts inside another.
LEMMA NoStartInside ==
  ASSUME Environment \in Blocks, NEW i \in DOMAIN Environment, NEW e \in DOMAIN Environment,
         StringEnd(i, e), NEW n \in Starts, n > i
  PROVE  n >= e + 1
  <1>1. DOMAIN Environment = 0..LastIndex /\ LastIndex \in Nat
    BY BlockFacts
  <1>2. n \in Nat /\ Environment[n - 1] = UNICODE_NULL
    BY <1>1 DEF Starts
  <1>3. n - 1 \notin i..(e - 1)
    BY <1>2 DEF StringEnd
  <1>. QED
    BY <1>1, <1>2, <1>3

\* A length that a word can count does not wrap.
LEMMA WordExact ==
  ASSUME NEW n \in Nat, n < WordSize
  PROVE  Word(n) = n
  BY WordAssumption, RemainderOfSmaller DEF Word

\* An iteration looks at a string of the block.
LEMMA AtStart ==
  ASSUME IInv, AtString
  PROVE  /\ wcs \in Starts /\ wcs \in DOMAIN Environment /\ wcs \in Nat /\ wcs < LastIndex
         /\ DOMAIN Environment = 0..LastIndex /\ LastIndex \in Nat
  <1>1. DOMAIN Environment = 0..LastIndex /\ LastIndex \in Nat
    BY BlockFacts DEF IInv
  <1>2. wcs \in DOMAIN Environment /\ wcs # LastIndex
    BY BlockFacts DEF IInv, TypeOK, AtString
  <1>3. wcs = 0 \/ Environment[wcs - 1] = UNICODE_NULL
    BY <1>1, <1>2 DEF IInv, AtStartOfString, AtString, Searching
  <1>. QED
    BY <1>1, <1>2, <1>3 DEF Starts

\* What makes a function a sequence.
LEMMA SequenceOf ==
  ASSUME NEW S, NEW n \in Nat, NEW s, s = [k \in 1..n |-> s[k]], \A k \in 1..n : s[k] \in S
  PROVE  s \in Seq(S) /\ Len(s) = n
  OBVIOUS

(***************************************************************************)
(* What an iteration reads as name and value are those of its string, when *)
(* a word can count them.                                                  *)
(***************************************************************************)
LEMMA NameAndValue ==
  ASSUME IInv, AtString, Countable,
         NEW q \in DOMAIN Environment, NEW e \in DOMAIN Environment,
         EqualsAt(q), StringEnd(q + 1, e)
  PROVE  /\ StringEnd(wcs, e)
         /\ Separator(String(wcs)) # 0
         /\ NameIn(String(wcs)) = Counted(wcs, q)
         /\ ValueIn(String(wcs)) = Chars(q + 1, e - q - 1)
         /\ BytesBetween(q + 1, e) = (e - q - 1) * SizeofWCHAR
  <1> DEFINE s == String(wcs)
  <1>1. /\ wcs \in Starts /\ wcs \in DOMAIN Environment /\ wcs \in Nat
        /\ DOMAIN Environment = 0..LastIndex /\ LastIndex \in Nat
        /\ wcs < LastIndex
    BY AtStart
  <1>2. q \in Nat /\ e \in Nat /\ q + 1 <= e /\ wcs < q /\ e < LastIndex
    BY <1>1, ValueInside DEF IInv, EqualsAt
  <1>3. StringEnd(wcs, e)
    <2>1. \A j \in wcs..q : Environment[j] # UNICODE_NULL
      BY <1>1, <1>2, CharAssumption DEF EqualsAt, AtString
    <2>. QED
      BY <1>1, <1>2, <2>1 DEF StringEnd
  <1>4. s = [k \in 1..(e - wcs) |-> Environment[wcs + k - 1]]
    BY <1>1, <1>3, StringIs DEF IInv, Chars
  <1>5. \A j \in 0..LastIndex : Environment[j] \in Char \cup {UNICODE_NULL}
    BY BlockFacts DEF IInv
  <1>6. \A k \in 1..(e - wcs) : wcs + k - 1 \in 0..LastIndex
    BY <1>1, <1>2
  <1> HIDE DEF s
  <1>7. s \in Seq(Char \cup {UNICODE_NULL}) /\ Len(s) = e - wcs
    <2>1. e - wcs \in Nat
      BY <1>1, <1>2
    <2>2. s = [k \in 1..(e - wcs) |-> s[k]] /\ \A k \in 1..(e - wcs) : s[k] \in Char \cup {UNICODE_NULL}
      BY <1>4, <1>5, <1>6
    <2>. QED
      BY <2>1, <2>2, SequenceOf, Zenon
  <1> DEFINE p == q - wcs + 1
  <1>p. /\ p \in Nat /\ p - 1 = q - wcs /\ p + wcs - 1 = q /\ wcs + p - 1 = q
        /\ p + 1 = q - wcs + 2
        /\ p \in 2..(e - wcs)
        /\ \A j \in 2..(p - 1) : j \in 1..(e - wcs) /\ wcs + j - 1 \in (wcs + 1)..(q - 1)
    <2>1. wcs \in Nat /\ q \in Nat /\ e \in Nat /\ wcs < q /\ q + 1 <= e
      BY <1>1, <1>2
    <2>. QED
      BY ONLY <2>1
  <1> HIDE DEF p
  <1>8. Separator(s) = p
    <2>1. p \in 2..Len(s)
      BY <1>7, <1>p
    <2>2. s[p] = "="
      <3>1. p \in 1..(e - wcs) /\ Environment[q] = "="
        BY <1>7, <2>1 DEF EqualsAt
      <3>2. s[p] = Environment[wcs + p - 1]
        BY <1>4, <3>1, Zenon
      <3>. QED
        BY <1>p, <3>1, <3>2
    <2>3. \A j \in 2..(p - 1) : s[j] # "="
      <3> SUFFICES ASSUME NEW j \in 2..(p - 1) PROVE s[j] # "="
        OBVIOUS
      <3>1. j \in 1..(e - wcs) /\ wcs + j - 1 \in (wcs + 1)..(q - 1)
        BY <1>p, Zenon
      <3>. QED
        BY <1>4, <3>1 DEF EqualsAt
    <2>. QED
      BY <1>7, <2>1, <2>2, <2>3, SeparatorIs, Zenon
  <1>9. (e - wcs) * SizeofWCHAR < WordSize
    BY <1>1, <1>7 DEF Countable, LengthInBytes, s
  <1>10. /\ (q - wcs) * SizeofWCHAR \in Nat /\ (e - (q + 1)) * SizeofWCHAR \in Nat
         /\ (q - wcs) * SizeofWCHAR < WordSize /\ (e - (q + 1)) * SizeofWCHAR < WordSize
    <2>1. CASE SizeofWCHAR = 2
      BY <1>1, <1>2, <1>9, <2>1, WordAssumption
    <2>2. CASE SizeofWCHAR = 4
      BY <1>1, <1>2, <1>9, <2>2, WordAssumption
    <2>. QED
      BY <2>1, <2>2, SizeofWCHARAssumption
  <1>11. /\ BytesBetween(q + 1, e) = (e - (q + 1)) * SizeofWCHAR
         /\ BytesBetween(wcs, q) = (q - wcs) * SizeofWCHAR
    BY <1>10, WordExact DEF BytesBetween
  <1>12. Counted(wcs, q) = Chars(wcs, q - wcs)
    <2>1. q - wcs \in Nat
      BY <1>1, <1>2
    <2>2. BytesBetween(wcs, q) \div SizeofWCHAR = q - wcs
      BY <1>11, <2>1, CharactersOfBytes
    <2>. QED
      BY <1>1, <2>1, <2>2, BetweenIs, Zenon DEF Counted
  <1>13. NameIn(s) = Chars(wcs, q - wcs)
    <2>1. q - wcs \in 0..Len(s)
      BY <1>1, <1>2, <1>7
    <2>2. NameIn(s) = SubSeq(s, 1, q - wcs)
      BY <1>8, <1>p, Zenon DEF NameIn
    <2>3. SubSeq(s, 1, q - wcs) = [k \in 1..(q - wcs) |-> s[k]]
      BY <1>7, <2>1
    <2>4. \A k \in 1..(q - wcs) : s[k] = Environment[wcs + k - 1]
      BY <1>1, <1>2, <1>4
    <2>. QED
      BY <2>2, <2>3, <2>4 DEF Chars
  <1>14. ValueIn(s) = Chars(q + 1, e - q - 1)
    <2>1. /\ q - wcs + 2 \in Nat
          /\ Len(s) - (q - wcs + 2) + 1 = e - q - 1
      BY <1>1, <1>2, <1>7
    <2>2. ValueIn(s) = SubSeq(s, q - wcs + 2, Len(s))
      BY <1>8, <1>p, Zenon DEF ValueIn
    <2>3. SubSeq(s, q - wcs + 2, Len(s)) = [k \in 1..(e - q - 1) |-> s[q - wcs + 2 + k - 1]]
      BY <1>7, <2>1
    <2>4. \A k \in 1..(e - q - 1) : s[q - wcs + 2 + k - 1] = Environment[q + 1 + k - 1]
      <3> SUFFICES ASSUME NEW k \in 1..(e - q - 1)
                   PROVE  s[q - wcs + 2 + k - 1] = Environment[q + 1 + k - 1]
        OBVIOUS
      <3> DEFINE j == q - wcs + 2 + k - 1
      <3>1. k \in Nat /\ 1 <= k /\ k <= e - q - 1
        BY <1>1, <1>2
      <3>2. j \in 1..(e - wcs) /\ wcs + j - 1 = q + 1 + k - 1
        <4>1. wcs \in Nat /\ q \in Nat /\ e \in Nat /\ wcs < q /\ q + 1 <= e
          BY <1>1, <1>2
        <4>. QED
          BY ONLY <3>1, <4>1
      <3> HIDE DEF j
      <3>3. s[j] = Environment[wcs + j - 1]
        BY <1>4, <3>2
      <3>. QED
        BY <3>2, <3>3, Zenon DEF j
    <2>. QED
      BY <2>2, <2>3, <2>4 DEF Chars
  <1>. QED
    BY <1>1, <1>2, <1>3, <1>8, <1>11, <1>12, <1>13, <1>14 DEF s, p

\* As much of the value is copied as fits, the terminator after all of it.
LEMMA ValueCopied ==
  ASSUME NEW n \in Nat, MaximumLength \in Nat, n * SizeofWCHAR <= MaximumLength
  PROVE  /\ Copied(n * SizeofWCHAR) \in {n, n + 1}
         /\ n * SizeofWCHAR + SizeofWCHAR <= MaximumLength => Copied(n * SizeofWCHAR) = n + 1
         /\ Copied(n * SizeofWCHAR) = n + 1 => n * SizeofWCHAR + SizeofWCHAR <= MaximumLength
  <1> DEFINE b == n * SizeofWCHAR + SizeofWCHAR
             m == Min({b, MaximumLength})
  <1>2. Copied(n * SizeofWCHAR) = m \div SizeofWCHAR
    BY DEF Copied
  <1>0. b \in Nat /\ b = n * SizeofWCHAR + SizeofWCHAR
    BY SizeofWCHARAssumption
  <1> HIDE DEF b
  <1>1. m \in Nat /\ m \in {b, MaximumLength} /\ m <= b /\ m <= MaximumLength
    <2>1. b \in Int /\ MaximumLength \in Int
      BY <1>0
    <2>2. m \in {b, MaximumLength} /\ m <= b /\ m <= MaximumLength
      BY <2>1, MinOfTwo, Zenon
    <2>. QED
      BY <1>0, <2>2
  <1> HIDE DEF m
  <1>3. CASE SizeofWCHAR = 2
    BY <1>0, <1>1, <1>2, <1>3
  <1>4. CASE SizeofWCHAR = 4
    BY <1>0, <1>1, <1>2, <1>4
  <1>. QED
    BY <1>3, <1>4, SizeofWCHARAssumption

\* Characters of the block are a sequence, and so are the first of them.
LEMMA CharsPart ==
  ASSUME Environment \in Blocks, NEW i \in Nat, NEW n \in Nat, NEW m \in 0..n,
         i + n <= LastIndex + 1
  PROVE  /\ Chars(i, n) \in Seq(Char \cup {UNICODE_NULL}) /\ Len(Chars(i, n)) = n
         /\ SubSeq(Chars(i, n), 1, m) = Chars(i, m)
  <1>1. LastIndex \in Nat /\ \A j \in 0..LastIndex : Environment[j] \in Char \cup {UNICODE_NULL}
    BY BlockFacts
  <1>2. \A k \in 1..n : i + k - 1 \in 0..LastIndex
    BY <1>1
  <1>3. Chars(i, n) \in Seq(Char \cup {UNICODE_NULL}) /\ Len(Chars(i, n)) = n
    <2> DEFINE c == Chars(i, n)
    <2>1. c = [k \in 1..n |-> Environment[i + k - 1]]
      BY DEF Chars
    <2> HIDE DEF c
    <2>2. c = [k \in 1..n |-> c[k]]
      BY <2>1, Zenon
    <2>3. \A k \in 1..n : c[k] \in Char \cup {UNICODE_NULL}
      BY <1>1, <1>2, <2>1
    <2>4. c \in Seq(Char \cup {UNICODE_NULL}) /\ Len(c) = n
      BY <2>2, <2>3, SequenceOf, Zenon
    <2>. QED
      BY <2>4 DEF c
  <1>4. SubSeq(Chars(i, n), 1, m) = [k \in 1..m |-> Chars(i, n)[k]]
    BY <1>3
  <1>5. \A k \in 1..m : Chars(i, n)[k] = Environment[i + k - 1]
    BY DEF Chars
  <1>. QED
    BY <1>3, <1>4, <1>5 DEF Chars

-----------------------------------------------------------------------------
(***************************************************************************)
(* The invariant of the search: what it has left behind does not match.    *)
(***************************************************************************)
NoMatchBefore ==
  Status = "searching" /\ HasBlock /\ Countable => \A i \in Matches : i >= wcs

AnswerInv == IInv /\ NoMatchBefore /\ FirstMatchAnswered

\* Nothing of the block or of the name changes during the call.
LEMMA SameBlock ==
  UNCHANGED <<Environment, Name>> =>
    /\ Matches' = Matches /\ Countable' = Countable
    /\ ValueIn(String(Min(Matches)))' = ValueIn(String(Min(Matches)))
  BY DEF Matches, Countable, String, Starts, Between, ValueIn, NameIn, Min

\* Behind a string that does not match, the matches are further on.
LEMMA NotThisString ==
  ASSUME IInv, NoMatchBefore, AtString, Countable, NEW e \in DOMAIN Environment,
         StringEnd(wcs, e), wcs \notin Matches
  PROVE  \A i \in Matches : i >= e + 1
  <1> SUFFICES ASSUME NEW i \in Matches PROVE i >= e + 1
    OBVIOUS
  <1>1. i \in Starts /\ i \in Nat
    BY AtStart DEF Matches, Starts
  <1>2. i > wcs
    BY <1>1, AtStart DEF NoMatchBefore, AtString, Searching
  <1>. QED
    BY <1>1, <1>2, AtStart, NoStartInside DEF IInv

\* A string without "=" behind its first character has no name.
LEMMA NoNameNoMatch ==
  ASSUME IInv, AtString, NoEquals, NEW e \in DOMAIN Environment, StringEnd(wcs, e)
  PROVE  wcs \notin Matches
  <1> DEFINE s == String(wcs)
  <1>1. /\ wcs \in Nat /\ wcs \in DOMAIN Environment /\ DOMAIN Environment = 0..LastIndex
        /\ LastIndex \in Nat
    BY AtStart
  <1>2. s = Chars(wcs, e - wcs) /\ e \in Nat /\ wcs <= e
    BY <1>1, StringIs DEF IInv
  <1>3. s \in Seq(Char \cup {UNICODE_NULL}) /\ Len(s) = e - wcs
    <2>1. /\ e - wcs \in Nat /\ 0 \in 0..(e - wcs) /\ wcs + (e - wcs) <= LastIndex + 1
          /\ Environment \in Blocks
      BY <1>1, <1>2 DEF IInv
    <2>2. /\ Chars(wcs, e - wcs) \in Seq(Char \cup {UNICODE_NULL})
          /\ Len(Chars(wcs, e - wcs)) = e - wcs
      BY ONLY <1>1, <2>1, CharsPart
    <2>. QED
      BY <1>2, <2>2, Zenon
  <1> HIDE DEF s
  <1>4. \A k \in 2..Len(s) : s[k] # "="
    <2> SUFFICES ASSUME NEW k \in 2..Len(s), s[k] = "=" PROVE FALSE
      OBVIOUS
    <2> DEFINE E == {j \in Nat : j \in (wcs + 1)..(e - 1) /\ Environment[j] = "="}
    <2>1. wcs + k - 1 \in E
      BY <1>1, <1>2, <1>3 DEF Chars
    <2>2. PICK q \in E : \A j \in E : q <= j
      BY <2>1, FirstNatural
    <2>3. EqualsAt(q)
      <3>1. \A j \in (wcs + 1)..(q - 1) : Environment[j] # "="
        BY <1>1, <2>2
      <3>2. \A j \in (wcs + 1)..(q - 1) : Environment[j] # UNICODE_NULL
        BY <1>1, <1>2 DEF StringEnd
      <3>. QED
        BY <1>1, <3>1, <3>2 DEF EqualsAt
    <2>4. q \in DOMAIN Environment
      BY <1>1, <1>2
    <2>. QED
      BY <2>3, <2>4 DEF NoEquals
  <1>5. Separator(s) = 0
    BY <1>3, <1>4, SeparatorIs
  <1>. QED
    BY <1>5 DEF Matches, s

\* A string with the name looked for, once reached, is the first of them.
LEMMA FirstMatch ==
  ASSUME IInv, NoMatchBefore, AtString, Countable,
         NEW q \in DOMAIN Environment, NEW e \in DOMAIN Environment,
         EqualsAt(q), StringEnd(q + 1, e), RtlEqualUnicodeString(Counted(wcs, q), Name)
  PROVE  /\ Matches # {} /\ ValueIn(String(Min(Matches))) = Chars(q + 1, e - q - 1)
         /\ q + 1 \in Nat /\ e - q - 1 \in Nat /\ e < LastIndex
  <1>1. q \in Nat /\ e \in Nat /\ q + 1 <= e /\ e < LastIndex
    BY ValueInside DEF IInv
  <1>2. wcs \in Matches
    BY AtStart, NameAndValue DEF Matches
  <1>3. Matches \in SUBSET Nat /\ Matches # {}
    BY <1>2, AtStart DEF Matches, Starts
  <1>4. Min(Matches) \in Matches /\ \A k \in Matches : Min(Matches) <= k
    BY <1>3, MinIs
  <1>5. Min(Matches) = wcs
    <2>1. \A i \in Matches : i >= wcs
      BY Zenon DEF NoMatchBefore, AtString, Searching
    <2>2. PICK m \in Matches : m = Min(Matches) /\ m <= wcs /\ m >= wcs
      BY <1>2, <1>4, <2>1, Zenon
    <2>. QED
      BY <1>2, <1>3, <2>2
  <1>. QED
    BY <1>1, <1>3, <1>5, NameAndValue

LEMMA InitAnswer == Init => AnswerInv
  <1>1. SUFFICES ASSUME Init PROVE AnswerInv
    OBVIOUS
  <1>2. IInv
    BY <1>1, InitIInv
  <1>3. NoMatchBefore
    BY <1>1, <1>2, BlockFacts DEF NoMatchBefore, Matches, Starts, Init, IInv
  <1>. QED
    BY <1>1, <1>2, <1>3 DEF AnswerInv, FirstMatchAnswered, Init

LEMMA NextAnswer == AnswerInv /\ [Next]_vars => AnswerInv'
  <1>1. SUFFICES ASSUME AnswerInv, [Next]_vars PROVE NoMatchBefore' /\ FirstMatchAnswered'
    BY NextIInv DEF AnswerInv
  <1>2. IInv /\ NoMatchBefore /\ FirstMatchAnswered
    BY <1>1 DEF AnswerInv
  <1>3. ASSUME NEW e \in DOMAIN Environment, AtString, StringEnd(wcs, e), wcs \notin Matches,
               wcs' = e + 1, Return("searching")
        PROVE  NoMatchBefore' /\ FirstMatchAnswered'
    <2>1. Matches' = Matches /\ Countable' = Countable /\ HasBlock' = HasBlock
      BY <1>3, SameBlock DEF Return
    <2>2. Countable => \A i \in Matches : i >= e + 1
      BY <1>2, <1>3, NotThisString
    <2>. QED
      BY <1>3, <2>1, <2>2 DEF NoMatchBefore, FirstMatchAnswered, Return
  <1>4. CASE NoBlock
    BY <1>4 DEF NoBlock, Return, NoMatchBefore, FirstMatchAnswered
  <1>5. CASE SkipString
    <2>1. PICK e \in DOMAIN Environment : StringEnd(wcs, e) /\ wcs' = e + 1
      BY <1>5 DEF SkipString
    <2>2. wcs \notin Matches
      BY <1>2, <1>5, <2>1, NoNameNoMatch DEF SkipString
    <2>. QED
      BY <1>3, <1>5, <2>1, <2>2 DEF SkipString
  <1>6. CASE OtherVariable
    <2>1. PICK q \in DOMAIN Environment, e \in DOMAIN Environment :
            /\ EqualsAt(q) /\ StringEnd(q + 1, e)
            /\ ~RtlEqualUnicodeString(Counted(wcs, q), Name)
            /\ wcs' = e + 1
      BY <1>6 DEF OtherVariable
    <2>2. CASE Countable
      <3>1. StringEnd(wcs, e) /\ NameIn(String(wcs)) = Counted(wcs, q)
        BY <1>2, <1>6, <2>1, <2>2, NameAndValue DEF OtherVariable
      <3>2. wcs \notin Matches
        BY <2>1, <3>1 DEF Matches
      <3>. QED
        BY <1>3, <1>6, <2>1, <3>1, <3>2 DEF OtherVariable
    <2>3. CASE ~Countable
      <3>1. ~Countable'
        BY <1>6, <2>3, SameBlock DEF OtherVariable, Return
      <3>. QED
        BY <3>1 DEF NoMatchBefore, FirstMatchAnswered
    <2>. QED
      BY <2>2, <2>3
  <1>7. CASE VariableFits
    <2>1. PICK q \in DOMAIN Environment, e \in DOMAIN Environment :
            /\ EqualsAt(q) /\ StringEnd(q + 1, e)
            /\ RtlEqualUnicodeString(Counted(wcs, q), Name)
            /\ Length' = BytesBetween(q + 1, e)
            /\ Length' <= MaximumLength
            /\ Buffer' = Between(Environment, q + 1, q + 1 + Copied(Length'))
      BY <1>7 DEF VariableFits
    <2>2. /\ Matches' = Matches /\ Countable' = Countable /\ HasBlock
          /\ ValueIn(String(Min(Matches)))' = ValueIn(String(Min(Matches)))
          /\ HasBlock' = HasBlock /\ MaximumLength' = MaximumLength /\ Status' = "SUCCESS"
      BY <1>7, SameBlock DEF VariableFits, Return, AtString, Searching
    <2>3. ASSUME Countable
          PROVE  LET value == ValueIn(String(Min(Matches)))
                 IN  /\ Matches # {}
                     /\ Length' = LengthInBytes(value)
                     /\ SubSeq(Buffer', 1, Len(value)) = value
                     /\ Length' + SizeofWCHAR <= MaximumLength =>
                          Buffer'[Len(value) + 1] = UNICODE_NULL
      <3> DEFINE value == ValueIn(String(Min(Matches)))
                 n     == e - q - 1
                 c     == Copied(Length')
      <3>1. /\ Matches # {} /\ value = Chars(q + 1, n)
            /\ q + 1 \in Nat /\ n \in Nat /\ e < LastIndex
        BY <1>2, <1>7, <2>1, <2>3, FirstMatch DEF VariableFits
      <3>2. Length' = n * SizeofWCHAR
        BY <1>2, <1>7, <2>1, <2>3, NameAndValue DEF VariableFits
      <3>3. MaximumLength \in Nat
        BY <1>2, WordAssumption DEF IInv, TypeOK
      <3>4. /\ c \in {n, n + 1} /\ c \in Nat
            /\ Length' + SizeofWCHAR <= MaximumLength => c = n + 1
        BY <2>1, <3>1, <3>2, <3>3, ValueCopied
      <3>5. Buffer' = Chars(q + 1, c)
        BY <2>1, <3>1, <3>4, BetweenIs, Zenon
      <3>6. q + 1 + n = e /\ q + 1 + c <= LastIndex + 1 /\ n \in 0..c /\ n \in 0..n
        <4>1. LastIndex \in Nat /\ q \in Int /\ e \in Int
          BY <1>2, <3>1, BlockFacts DEF IInv
        <4>. QED
          BY <3>1, <3>4, <4>1
      <3> HIDE DEF n, c, value
      <3>7. value = Chars(q + 1, n) /\ Len(value) = n
        <4>1. Environment \in Blocks /\ q + 1 + n <= LastIndex + 1
          BY <1>2, <3>1, <3>6, BlockFacts DEF IInv
        <4>2. Len(Chars(q + 1, n)) = n
          BY <3>1, <3>6, <4>1, CharsPart, Zenon
        <4>. QED
          BY <3>1, <4>2, Zenon
      <3>8. SubSeq(Buffer', 1, n) = value
        BY <1>2, <3>1, <3>4, <3>5, <3>6, CharsPart DEF IInv
      <3>9. c = n + 1 => Buffer'[n + 1] = UNICODE_NULL
        <4>1. c = n + 1 => Chars(q + 1, c)[n + 1] = Environment[q + 1 + (n + 1) - 1]
          BY <3>1, <3>4 DEF Chars
        <4>2. q + 1 + (n + 1) - 1 = e /\ Environment[e] = UNICODE_NULL
          BY <2>1, <3>1, <3>6 DEF StringEnd
        <4>. QED
          BY <3>5, <4>1, <4>2, Zenon
      <3>. QED
        BY <3>1, <3>2, <3>4, <3>7, <3>8, <3>9 DEF LengthInBytes, value
    <2>. QED
      BY <2>1, <2>2, <2>3 DEF NoMatchBefore, FirstMatchAnswered
  <1>8. CASE VariableTooLong
    <2>1. PICK q \in DOMAIN Environment, e \in DOMAIN Environment :
            /\ EqualsAt(q) /\ StringEnd(q + 1, e)
            /\ RtlEqualUnicodeString(Counted(wcs, q), Name)
            /\ Length' = BytesBetween(q + 1, e)
            /\ Length' > MaximumLength
      BY <1>8 DEF VariableTooLong
    <2>2. /\ Matches' = Matches /\ Countable' = Countable /\ HasBlock
          /\ ValueIn(String(Min(Matches)))' = ValueIn(String(Min(Matches)))
          /\ HasBlock' = HasBlock /\ MaximumLength' = MaximumLength
          /\ Status' = "BUFFER_TOO_SMALL"
      BY <1>8, SameBlock DEF VariableTooLong, Return, AtString, Searching
    <2>3. ASSUME Countable
          PROVE  Matches # {} /\ Length' = LengthInBytes(ValueIn(String(Min(Matches))))
      <3> DEFINE n == e - q - 1
      <3>1. /\ Matches # {} /\ ValueIn(String(Min(Matches))) = Chars(q + 1, n)
            /\ q + 1 \in Nat /\ n \in Nat /\ e < LastIndex
        BY <1>2, <1>8, <2>1, <2>3, FirstMatch DEF VariableTooLong
      <3>2. Length' = n * SizeofWCHAR
        BY <1>2, <1>8, <2>1, <2>3, NameAndValue DEF VariableTooLong
      <3>3. q + 1 + n <= LastIndex + 1 /\ n \in 0..n
        BY <1>2, <3>1, BlockFacts DEF IInv
      <3> HIDE DEF n
      <3>4. Len(Chars(q + 1, n)) = n
        BY <1>2, <3>1, <3>3, CharsPart DEF IInv
      <3>. QED
        BY <3>1, <3>2, <3>4 DEF LengthInBytes
    <2>4. ~(Length' <= MaximumLength')
      BY <1>2, <2>1, <2>2, WordAssumption DEF IInv, TypeOK, BytesBetween, Word
    <2>. QED
      BY <2>2, <2>3, <2>4 DEF NoMatchBefore, FirstMatchAnswered
  <1>9. CASE NotFound
    <2>1. /\ Matches' = Matches /\ Countable' = Countable /\ Status' = "VARIABLE_NOT_FOUND"
      BY <1>9, SameBlock DEF NotFound, Return
    <2>2. Countable => Matches = {}
      <3> SUFFICES ASSUME Countable, NEW i \in Matches PROVE FALSE
        OBVIOUS
      <3>1. i \in DOMAIN Environment /\ i >= wcs
        BY <1>2, <1>9 DEF NotFound, Searching, NoMatchBefore, Matches, Starts
      <3>2. Environment[wcs] = UNICODE_NULL /\ wcs \in DOMAIN Environment
        BY <1>2, <1>9 DEF NotFound, IInv, TypeOK
      <3>3. /\ DOMAIN Environment = 0..LastIndex /\ LastIndex \in Nat
            /\ wcs > 0 => Environment[wcs - 1] = UNICODE_NULL
        BY <1>2, <1>9, BlockFacts DEF NotFound, Searching, IInv, AtStartOfString
      <3>4. wcs = LastIndex /\ i = wcs
        BY <1>2, <3>1, <3>2, <3>3, BlockFacts DEF IInv
      <3>5. String(wcs) = Chars(wcs, wcs - wcs)
        BY <1>2, <3>2, <3>3, StringIs DEF IInv, StringEnd
      <3>6. String(wcs) \in Seq(Char) /\ Len(String(wcs)) = 0
        BY <3>3, <3>4, <3>5 DEF Chars
      <3>7. Separator(String(wcs)) = 0
        <4>1. \A k \in 2..Len(String(wcs)) : FALSE
          BY <3>6
        <4>. QED
          BY <3>6, <4>1, SeparatorIs, Zenon
      <3>. QED
        BY <3>4, <3>7 DEF Matches
    <2>. QED
      BY <2>1, <2>2 DEF NoMatchBefore, FirstMatchAnswered
  <1>10. CASE UNCHANGED vars
    <2>1. /\ Matches' = Matches /\ Countable' = Countable
          /\ ValueIn(String(Min(Matches)))' = ValueIn(String(Min(Matches)))
      BY <1>10, SameBlock DEF vars
    <2>. QED
      BY <1>2, <1>10, <2>1 DEF vars, NoMatchBefore, FirstMatchAnswered
  <1>. QED
    BY <1>1, <1>4, <1>5, <1>6, <1>7, <1>8, <1>9, <1>10 DEF Next, Returned

(***************************************************************************)
(* FirstMatchAnswered of every block and name: the first variable of that  *)
(* name is found, its value copied whole when it fits, its length told     *)
(* when it does not.                                                       *)
(***************************************************************************)
THEOREM FirstMatchAlwaysAnswered == Spec => []FirstMatchAnswered
  <1>1. AnswerInv => FirstMatchAnswered
    BY DEF AnswerInv
  <1>. QED
    BY <1>1, InitAnswer, NextAnswer, PTL DEF Spec
=============================================================================
