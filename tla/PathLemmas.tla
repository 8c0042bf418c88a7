------------------------------ MODULE PathLemmas ------------------------------
(***************************************************************************)
(* What the operators of DosPath and FullPath return, for every path.      *)
(* Those of DosPath are made of the first or the last index of a kind, so  *)
(* the lemmas rest on the order of the natural numbers.                    *)
(***************************************************************************)
EXTENDS FullPath, ComponentLemmas

-----------------------------------------------------------------------------
\* The \\share\dir part: where a component ends, and the separators behind it.
Sep(s, i) == IS_PATH_SEPARATOR(CharAt(s, i))

LEMMA ComponentEndIs ==
  ASSUME NEW S, NEW s \in Seq(S), NEW i \in 0..Len(s)
  PROVE  /\ ComponentEnd(s, i) \in i..Len(s)
         /\ ComponentEnd(s, i) = Len(s) \/ Sep(s, ComponentEnd(s, i))
         /\ \A k \in i..(ComponentEnd(s, i) - 1) : ~Sep(s, k)
<1> DEFINE T == {j \in i..Len(s) : j = Len(s) \/ Sep(s, j)}
<1>1. T \in SUBSET Nat /\ Len(s) \in T
  OBVIOUS
<1>2. Min(T) \in T /\ \A k \in T : Min(T) <= k
  BY <1>1, MinIs
<1>3. ComponentEnd(s, i) = Min(T)
  BY DEF ComponentEnd, Sep
<1>4. \A k \in i..(Min(T) - 1) : ~Sep(s, k)
  BY <1>1, <1>2
<1> QED
  BY <1>2, <1>3, <1>4

LEMMA SeparatorsEndIs ==
  ASSUME NEW S, NEW s \in Seq(S), NEW i \in 0..Len(s)
  PROVE  /\ SeparatorsEnd(s, i) \in i..Len(s)
         /\ SeparatorsEnd(s, i) = Len(s) \/ ~Sep(s, SeparatorsEnd(s, i))
         /\ \A k \in i..(SeparatorsEnd(s, i) - 1) : Sep(s, k)
<1> DEFINE T == {j \in i..Len(s) : j = Len(s) \/ ~Sep(s, j)}
<1>1. T \in SUBSET Nat /\ Len(s) \in T
  OBVIOUS
<1>2. Min(T) \in T /\ \A k \in T : Min(T) <= k
  BY <1>1, MinIs
<1>3. SeparatorsEnd(s, i) = Min(T)
  BY DEF SeparatorsEnd, Sep
<1>4. \A k \in i..(Min(T) - 1) : Sep(s, k)
  BY <1>1, <1>2
<1> QED
  BY <1>2, <1>3, <1>4

LEMMA IntervalsNest ==
  \A n \in Nat : \A a \in 0..n : \A b \in a..n : b \in 0..n
  OBVIOUS

\* Two names with separators between them, or what there is of that.
LEMMA PrefixIs ==
  ASSUME NEW S, NEW s \in Seq(S), Len(s) >= 2
  PROVE  \E i \in 2..Len(s) : \E j \in i..Len(s) :
           LET n == RtlpSkipUNCPrefix(s)
           IN  /\ n \in j..Len(s)
               /\ n = Len(s) \/ Sep(s, n)
               /\ i = Len(s) \/ Sep(s, i)
               /\ \A k \in 2..(i - 1) : ~Sep(s, k)
               /\ \A k \in i..(j - 1) : Sep(s, k)
               /\ \A k \in j..(n - 1) : ~Sep(s, k)
               /\ j = n => n = Len(s)
<1>0. Len(s) \in Nat /\ 2 \in 0..Len(s)
  OBVIOUS
<1>1. PICK i \in 2..Len(s) : /\ i = ComponentEnd(s, 2)
                             /\ i = Len(s) \/ Sep(s, i)
                             /\ \A k \in 2..(i - 1) : ~Sep(s, k)
  BY <1>0, ComponentEndIs, Zenon
<1>2. i \in 0..Len(s)
  BY <1>0, IntervalsNest, Zenon
<1>3. PICK j \in i..Len(s) : /\ j = SeparatorsEnd(s, i)
                             /\ j = Len(s) \/ ~Sep(s, j)
                             /\ \A k \in i..(j - 1) : Sep(s, k)
  BY <1>2, SeparatorsEndIs, Zenon
<1>4. j \in 0..Len(s)
  BY <1>0, <1>2, IntervalsNest, Zenon
<1>5. PICK n \in j..Len(s) : /\ n = ComponentEnd(s, j)
                             /\ n = Len(s) \/ Sep(s, n)
                             /\ \A k \in j..(n - 1) : ~Sep(s, k)
  BY <1>4, ComponentEndIs, Zenon
<1>6. n = RtlpSkipUNCPrefix(s)
  BY <1>1, <1>3, <1>5, Zenon DEF RtlpSkipUNCPrefix
<1>7. j = n => n = Len(s)
  BY <1>3, <1>5, Zenon
<1> QED
  BY <1>1, <1>3, <1>5, <1>6, <1>7, Zenon
-----------------------------------------------------------------------------
\* The characters of device words and those around them have no capital.
LEMMA NotLower ==
  \A c \in {"\\", "/", ".", " ", ":", "A", "C", "L", "M", "N", "O", "P", "R", "T", "U", "X",
            "1", "2", "3", "4", "5", "6", "7", "8", "9"} : RtlpUpcaseUnicodeChar(c) = c
<1>1. DOMAIN UpperOf = {"a", "b", "c", "d", "e", "f", "g", "h", "i", "j", "k", "l", "m",
                        "n", "o", "p", "q", "r", "s", "t", "u", "v", "w", "x", "y", "z"}
  BY DEF UpperOf
<1> QED
  BY <1>1 DEF RtlpUpcaseUnicodeChar

\* What no device word holds, and the letters of the devices.
NoWordChar == {BackSlash, Slash, Dot, Space, Colon}
Letters == {"A", "C", "L", "M", "N", "O", "P", "R", "T", "U", "X"}
\* The comparison of words takes no separator, dot, space or colon for a letter.
LEMMA EqualChars ==
  ASSUME NEW w, NEW d, RtlEqualUnicodeString(w, d), NEW i \in DOMAIN w,
         d[i] \in Letters
  PROVE  w[i] \notin NoWordChar
<1>1. RtlpUpcaseUnicodeChar(w[i]) = RtlpUpcaseUnicodeChar(d[i])
  BY DEF RtlEqualUnicodeString
<1>2. RtlpUpcaseUnicodeChar(d[i]) = d[i]
  BY NotLower DEF Letters
<1>3. w[i] \in NoWordChar => RtlpUpcaseUnicodeChar(w[i]) = w[i]
  BY NotLower DEF NoWordChar, BackSlash, Slash, Dot, Space, Colon
<1>4. d[i] \notin NoWordChar
  BY DEF Letters, NoWordChar, BackSlash, Slash, Dot, Space, Colon
<1> QED
  BY <1>1, <1>2, <1>3, <1>4

LEMMA DeviceLetters ==
  \A d \in RtlpDosDevices \cup RtlpDosPortDevices :
    Len(d) = 3 /\ d[1] \in Letters /\ d[2] \in Letters /\ d[3] \in Letters
BY DEF RtlpDosDevices, RtlpDosPortDevices, Letters

\* The word of a device is 3 or 4 characters, none of them one a name ends at.
LEMMA DeviceChars ==
  ASSUME NEW S, NEW w \in Seq(S), IsDevice(w)
  PROVE  Len(w) = 3 /\ \A k \in 1..Len(w) : w[k] \notin NoWordChar
<1>1. PICK d \in RtlpDosDevices : RtlEqualUnicodeString(w, d)
  BY DEF IsDevice
<1>2. Len(w) = 3
  BY <1>1, DeviceLetters DEF RtlEqualUnicodeString
<1>3. \A k \in 1..3 : d[k] \in Letters
  BY DeviceLetters
<1>4. \A k \in 1..3 : w[k] \notin NoWordChar
  <2> SUFFICES ASSUME NEW k \in 1..3 PROVE w[k] \notin NoWordChar
    OBVIOUS
  <2>1. k \in DOMAIN w
    BY <1>2
  <2> QED
    BY <1>1, <1>3, <2>1, EqualChars, Zenon
<1> QED
  BY <1>2, <1>4

LEMMA PortChars ==
  ASSUME NEW S, NEW w \in Seq(S), IsPort(w)
  PROVE  Len(w) = 4 /\ \A k \in 1..Len(w) : w[k] \notin NoWordChar
<1>1. PICK d \in RtlpDosPortDevices : RtlEqualUnicodeString(SubSeq(w, 1, 3), d)
  BY DEF IsPort
<1>2. Len(w) = 4 /\ w[4] \notin NoWordChar
  BY DEF IsPort, NoWordChar, BackSlash, Slash, Dot, Space, Colon
<1>3. \A k \in 1..3 : d[k] \in Letters
  BY DeviceLetters
<1>4. \A k \in 1..3 : w[k] \notin NoWordChar
  <2> SUFFICES ASSUME NEW k \in 1..3 PROVE w[k] \notin NoWordChar
    OBVIOUS
  <2> DEFINE p == SubSeq(w, 1, 3)
  <2>1. k \in DOMAIN p /\ p[k] = w[k]
    BY <1>2
  <2> HIDE DEF p
  <2>2. p[k] \notin NoWordChar
    BY <1>1, <1>3, <2>1, EqualChars, Zenon DEF p
  <2> QED
    BY <2>1, <2>2
<1> QED
  BY <1>2, <1>4
-----------------------------------------------------------------------------
(***************************************************************************)
(* The indices RtlIsDosDeviceName_Ustr goes by, one after the other.       *)
(***************************************************************************)
LEMMA WithoutColonIs ==
  ASSUME NEW S, NEW s \in Seq(S)
  PROVE  /\ WithoutColon(s) \in 0..Len(s)
         /\ \/ WithoutColon(s) = Len(s) /\ (Len(s) > 0 => s[Len(s)] # Colon)
            \/ WithoutColon(s) = Len(s) - 1 /\ s[Len(s)] = Colon
BY DEF WithoutColon

LEMMA CharsLeftIs ==
  ASSUME NEW S, NEW s \in Seq(S)
  PROVE  /\ CharsLeft(s) \in 0..WithoutColon(s)
         /\ CharsLeft(s) = 0 \/ s[CharsLeft(s)] \notin {Dot, Space}
         /\ \A n \in (CharsLeft(s) + 1)..WithoutColon(s) : s[n] \in {Dot, Space}
<1> DEFINE T == {0} \cup {n \in 1..WithoutColon(s) : s[n] \notin {Dot, Space}}
<1>1. WithoutColon(s) \in Nat
  BY WithoutColonIs
<1>2. T \in SUBSET (0..WithoutColon(s)) /\ T # {}
  BY <1>1
<1>3. Max(T) \in T /\ \A k \in T : k <= Max(T)
  BY <1>1, <1>2, MaxIs, Zenon
<1>4. CharsLeft(s) = Max(T)
  BY DEF CharsLeft
<1>5. \A n \in (Max(T) + 1)..WithoutColon(s) : s[n] \in {Dot, Space}
  BY <1>1, <1>2, <1>3
<1> QED
  BY <1>1, <1>2, <1>3, <1>4, <1>5

\* Whether the name a device may be may start behind the character n.
StartsBehind(s, n) == IS_PATH_SEPARATOR(s[n]) \/ (s[n] = Colon /\ n = 2)

LEMMA NameStartIs ==
  ASSUME NEW S, NEW s \in Seq(S)
  PROVE  /\ NameStart(s) \in 0..CharsLeft(s)
         /\ NameStart(s) = 0 \/ StartsBehind(s, NameStart(s))
         /\ \A n \in (NameStart(s) + 1)..CharsLeft(s) : ~StartsBehind(s, n)
<1> DEFINE T == {0} \cup {n \in 1..CharsLeft(s) : StartsBehind(s, n)}
<1>1. CharsLeft(s) \in Nat
  BY WithoutColonIs, CharsLeftIs
<1>2. T \in SUBSET (0..CharsLeft(s)) /\ T # {}
  BY <1>1
<1>3. Max(T) \in T /\ \A k \in T : k <= Max(T)
  BY <1>1, <1>2, MaxIs, Zenon
<1>4. NameStart(s) = Max(T)
  BY DEF NameStart, StartsBehind
<1>5. \A n \in (Max(T) + 1)..CharsLeft(s) : ~StartsBehind(s, n)
  BY <1>1, <1>2, <1>3
<1> QED
  BY <1>1, <1>2, <1>3, <1>4, <1>5

LEMMA NameStopIs ==
  ASSUME NEW S, NEW s \in Seq(S)
  PROVE  /\ NameStop(s) \in NameStart(s)..CharsLeft(s)
         /\ NameStop(s) = CharsLeft(s) \/ s[NameStop(s) + 1] \in {Dot, Colon}
         /\ \A n \in NameStart(s)..(NameStop(s) - 1) : s[n + 1] \notin {Dot, Colon}
<1> DEFINE T == {CharsLeft(s)} \cup
                {n \in NameStart(s)..(CharsLeft(s) - 1) : s[n + 1] \in {Dot, Colon}}
<1>1. CharsLeft(s) \in Nat /\ NameStart(s) \in 0..CharsLeft(s)
  BY WithoutColonIs, CharsLeftIs, NameStartIs
<1>2. T \in SUBSET Nat /\ T # {}
  BY <1>1
<1>3. Min(T) \in T /\ \A k \in T : Min(T) <= k
  BY <1>2, MinIs, Zenon
<1>4. NameStop(s) = Min(T)
  BY DEF NameStop
<1>5. \A n \in NameStart(s)..(Min(T) - 1) : s[n + 1] \notin {Dot, Colon}
  <2> SUFFICES ASSUME NEW n \in Nat, NameStart(s) <= n, n < Min(T), s[n + 1] \in {Dot, Colon}
               PROVE  FALSE
    BY <1>1, <1>2, <1>3
  <2>1. Min(T) <= CharsLeft(s) /\ Min(T) \in Nat
    BY <1>2, <1>3
  <2>2. n \in T
    BY <1>1, <2>1
  <2> QED
    BY <1>3, <2>1, <2>2
<1> QED
  BY <1>1, <1>2, <1>3, <1>4, <1>5

LEMMA WordEndIs ==
  ASSUME NEW S, NEW s \in Seq(S)
  PROVE  /\ WordEnd(s) \in NameStart(s)..NameStop(s)
         /\ WordEnd(s) = NameStart(s) \/ s[WordEnd(s)] # Space
         /\ \A n \in (WordEnd(s) + 1)..NameStop(s) : s[n] = Space
<1> DEFINE T == {NameStart(s)} \cup {n \in (NameStart(s) + 1)..NameStop(s) : s[n] # Space}
<1>1. CharsLeft(s) \in Nat /\ NameStart(s) \in Nat /\ NameStop(s) \in Nat
      /\ NameStart(s) <= NameStop(s)
  BY WithoutColonIs, CharsLeftIs, NameStartIs, NameStopIs
<1>2. T \in SUBSET (0..NameStop(s)) /\ T # {}
  BY <1>1
<1>3. Max(T) \in T /\ \A k \in T : k <= Max(T)
  BY <1>1, <1>2, MaxIs, Zenon
<1>4. WordEnd(s) = Max(T)
  BY DEF WordEnd
<1>5. \A n \in (Max(T) + 1)..NameStop(s) : s[n] = Space
  <2> SUFFICES ASSUME NEW n \in (Max(T) + 1)..NameStop(s), s[n] # Space
               PROVE  FALSE
    OBVIOUS
  <2>1. Max(T) \in Nat /\ NameStart(s) <= Max(T)
    BY <1>1, <1>2, <1>3
  <2>2. n \in T
    BY <1>1, <2>1
  <2> QED
    BY <1>3, <2>1, <2>2
<1> QED
  BY <1>1, <1>2, <1>3, <1>4, <1>5
\* They come in this order.
LEMMA Indices ==
  ASSUME NEW S, NEW s \in Seq(S)
  PROVE  /\ NameStart(s) \in Nat /\ WordEnd(s) \in Nat /\ NameStop(s) \in Nat
         /\ CharsLeft(s) \in Nat /\ WithoutColon(s) \in Nat /\ Len(s) \in Nat
         /\ NameStart(s) <= WordEnd(s) /\ WordEnd(s) <= NameStop(s)
         /\ NameStop(s) <= CharsLeft(s) /\ CharsLeft(s) <= WithoutColon(s)
         /\ WithoutColon(s) <= Len(s)
<1>1. Len(s) \in Nat /\ WithoutColon(s) \in 0..Len(s)
  BY WithoutColonIs
<1>2. CharsLeft(s) \in 0..WithoutColon(s)
  BY CharsLeftIs
<1>3. NameStart(s) \in 0..CharsLeft(s)
  BY NameStartIs
<1>4. NameStop(s) \in NameStart(s)..CharsLeft(s)
  BY NameStopIs
<1>5. WordEnd(s) \in NameStart(s)..NameStop(s)
  BY WordEndIs
<1> QED
  BY <1>1, <1>2, <1>3, <1>4, <1>5
-----------------------------------------------------------------------------
LEMMA UpToFour == \A n \in Nat : n = 0 \/ n = 1 \/ n = 2 \/ n = 3 \/ n >= 4
  OBVIOUS

(***************************************************************************)
(* A terminator never passes for a character the decision turns on, so a   *)
(* decision that goes on is still inside the string.                       *)
(***************************************************************************)
LEMMA TypeOfBuffer ==
  ASSUME NEW S, UNICODE_NULL \notin S, NEW s \in Seq(S), NEW buf,
         \A i \in 0..Len(s) : buf[i] = CharAt(s, i)
  PROVE  RtlDetermineDosPathNameType_U(buf) = RtlDetermineDosPathNameType_Ustr(s)
  <1>1. \A i \in 1..Len(s) : s[i] # UNICODE_NULL /\ buf[i - 1] = s[i]
    BY DEF CharAt
  <1>2. buf[Len(s)] = UNICODE_NULL
    BY DEF CharAt
  <1>3. /\ ~IS_PATH_SEPARATOR(UNICODE_NULL)
        /\ UNICODE_NULL \notin {Dot, QuestionMark} /\ UNICODE_NULL # Colon
    BY DEF IS_PATH_SEPARATOR, UNICODE_NULL, BackSlash, Slash, Dot, QuestionMark, Colon
  <1>4. CASE Len(s) = 0
    BY <1>2, <1>3, <1>4 DEF RtlDetermineDosPathNameType_U, RtlDetermineDosPathNameType_Ustr
  <1>5. CASE Len(s) = 1
    BY <1>1, <1>2, <1>3, <1>5 DEF RtlDetermineDosPathNameType_U, RtlDetermineDosPathNameType_Ustr
  <1>6. CASE Len(s) = 2
    BY <1>1, <1>2, <1>3, <1>6 DEF RtlDetermineDosPathNameType_U, RtlDetermineDosPathNameType_Ustr
  <1>7. CASE Len(s) = 3
    <2>1. buf[0] = s[1] /\ buf[1] = s[2] /\ buf[2] = s[3] /\ buf[3] = UNICODE_NULL
      BY <1>1, <1>2, <1>7
    <2>. QED
      BY <2>1, <1>1, <1>3, <1>7 DEF RtlDetermineDosPathNameType_U, RtlDetermineDosPathNameType_Ustr
  <1>8. CASE Len(s) >= 4
    <2>1. /\ buf[0] = s[1] /\ buf[1] = s[2] /\ buf[2] = s[3] /\ buf[3] = s[4]
          /\ s[1] # UNICODE_NULL /\ s[4] # UNICODE_NULL
      BY <1>1, <1>8
    <2>. QED
      BY <2>1, <1>8 DEF RtlDetermineDosPathNameType_U, RtlDetermineDosPathNameType_Ustr
  <1>9. Len(s) \in Nat
    OBVIOUS
  <1>10. \/ Len(s) = 0 \/ Len(s) = 1 \/ Len(s) = 2 \/ Len(s) = 3
         \/ Len(s) >= 4
    BY <1>9, UpToFour, Zenon
  <1>. QED
    BY <1>4, <1>5, <1>6, <1>7, <1>8, <1>10, Zenon

\* The characters of a name and those that are put in front of it.
FullChar(S) ==
  S \cup {BackSlash, Slash, Dot, Colon, QuestionMark}
    \cup {RtlpUpcaseUnicodeChar(c) : c \in S}

\* What a process may have for its current directory.
Directory(S) ==
  {cd \in Seq(S) : /\ Len(cd) >= 3
                   /\ TypeOfString(cd) \in {"DriveAbsolute", "UncAbsolute"}}

\* A name is one of the strings that may be put together for it.
LEMMA CharsInFull ==
  ASSUME NEW S
  PROVE  \A s \in Seq(S) : s \in Seq(FullChar(S))
  <1>1. S \subseteq FullChar(S)
    BY DEF FullChar
  <1>. QED
    BY <1>1

\* The type of a string, and how many characters it says there are.
LEMMA TypeIs ==
  ASSUME NEW S, UNICODE_NULL \notin S, NEW s \in Seq(S)
  PROVE  /\ TypeOfString(s) = RtlDetermineDosPathNameType_Ustr(s)
         /\ TypeOfString(s) \in {"UncAbsolute", "LocalDevice", "DriveAbsolute", "Relative",
                                 "DriveRelative", "Rooted", "RootLocalDevice"}
         /\ TypeOfString(s) = "UncAbsolute" => Len(s) >= 2
         /\ TypeOfString(s) = "LocalDevice" => Len(s) >= 4
         /\ TypeOfString(s) = "DriveAbsolute" => Len(s) >= 3
         /\ TypeOfString(s) = "DriveRelative" => Len(s) >= 2
         /\ TypeOfString(s) = "Rooted" => Len(s) >= 1
         /\ TypeOfString(s) = "RootLocalDevice" => Len(s) = 3
  <1>1. \A i \in 0..Len(s) : BufferOf(s)[i] = CharAt(s, i)
    BY DEF BufferOf
  <1>2. TypeOfString(s) = RtlDetermineDosPathNameType_Ustr(s)
    BY <1>1, TypeOfBuffer DEF TypeOfString
  <1>. QED
    BY <1>2 DEF RtlDetermineDosPathNameType_Ustr

\* The marked part of a current directory is inside it and has a separator.
LEMMA MarkInside ==
  ASSUME NEW S, UNICODE_NULL \notin S, NEW cd \in Directory(S)
  PROVE  /\ cd \in Seq(S) /\ CurDirMark(cd) \in 2..Len(cd)
         /\ \E i \in 1..CurDirMark(cd) : IS_PATH_SEPARATOR(cd[i])
  <1>1. /\ cd \in Seq(S) /\ Len(cd) >= 3 /\ Len(cd) \in Nat
        /\ TypeOfString(cd) \in {"DriveAbsolute", "UncAbsolute"}
    BY DEF Directory
  <1>2. RtlDetermineDosPathNameType_Ustr(cd) \in {"DriveAbsolute", "UncAbsolute"}
    BY <1>1, TypeIs
  <1>3. CASE cd[2] = Colon
    <2>1. ~IS_PATH_SEPARATOR(cd[2])
      BY <1>3 DEF IS_PATH_SEPARATOR, Colon, BackSlash, Slash
    <2>2. IS_PATH_SEPARATOR(cd[3])
      BY <1>1, <1>2, <2>1 DEF RtlDetermineDosPathNameType_Ustr
    <2>3. CurDirMark(cd) = 3
      BY <1>3 DEF CurDirMark
    <2>. QED
      BY <1>1, <2>2, <2>3
  <1>4. CASE cd[2] # Colon
    <2>1. Len(cd) >= 2
      BY <1>1
    <2>2. RtlpSkipUNCPrefix(cd) \in 2..Len(cd)
      <3>1. PICK i \in 2..Len(cd) : \E j \in i..Len(cd) : RtlpSkipUNCPrefix(cd) \in j..Len(cd)
        BY <1>1, <2>1, PrefixIs, Zenon
      <3>. QED
        BY <3>1
    <2>3. CurDirMark(cd) = RtlpSkipUNCPrefix(cd)
      BY <1>4 DEF CurDirMark
    <2>4. IS_PATH_SEPARATOR(cd[1])
      BY <1>1, <1>2, <1>4 DEF RtlDetermineDosPathNameType_Ustr
    <2>5. 1 \in 1..CurDirMark(cd)
      BY <2>2, <2>3
    <2>. QED
      BY <1>1, <2>2, <2>3, <2>4, <2>5
  <1>. QED
    BY <1>3, <1>4

\* A name without spaces behind it is kept to its last character.
LEMMA KeptAll ==
  ASSUME NEW S, NEW s \in Seq(S), CharsKept(s) > 0, Last(s) # Space
  PROVE  CharsKept(s) = Len(s) /\ Len(s) > 0
  <1> DEFINE T == {0} \cup {n \in 1..Len(s) : s[n] # Space}
  <1>1. Len(s) \in Nat /\ T \in SUBSET (0..Len(s)) /\ T # {}
    OBVIOUS
  <1>2. PICK m \in T : m = Max(T) /\ \A k \in T : k <= m
    BY <1>1, MaxIs, Zenon
  <1>3. CharsKept(s) = m
    BY <1>2 DEF CharsKept
  <1>4. m > 0 /\ m <= Len(s)
    BY <1>1, <1>2, <1>3
  <1>5. Len(s) \in T
    BY <1>1, <1>4 DEF Last
  <1>. QED
    BY <1>1, <1>2, <1>3, <1>4, <1>5

(***************************************************************************)
(* What is put in front of a name, where the rest of the name starts and   *)
(* where its end is, for each type.  The marked part has a separator, in   *)
(* what is put in front or, when that is nothing, in the name.             *)
(***************************************************************************)
Parts(S, s, parts) ==
  /\ parts.prefix \in Seq(FullChar(S)) /\ parts.source \in 0..Len(s) /\ parts.cut \in Nat
  /\ parts.cut <= Len(parts.prefix) + (Len(s) - parts.source)
  /\ \E i \in 1..parts.cut :
       \/ i <= Len(parts.prefix) /\ IS_PATH_SEPARATOR(parts.prefix[i])
       \/ parts.prefix = <<>> /\ parts.source = 0 /\ IS_PATH_SEPARATOR(s[i])

LEMMA FromIs ==
  ASSUME NEW S, NEW s \in Seq(S), NEW prefix \in Seq(FullChar(S)), NEW source \in 0..Len(s),
         NEW cut \in Nat, cut <= Len(prefix) + (Len(s) - source), NEW i \in 1..cut,
         \/ i <= Len(prefix) /\ IS_PATH_SEPARATOR(prefix[i])
         \/ prefix = <<>> /\ source = 0 /\ IS_PATH_SEPARATOR(s[i])
  PROVE  Parts(S, s, From(prefix, source, cut))
  BY DEF Parts, From

LEMMA PrefixedIs ==
  ASSUME NEW S, UNICODE_NULL \notin S, NEW s \in Seq(S), NEW cd \in Directory(S)
  PROVE  Parts(S, s, Prefixed(s, cd))
  <1> DEFINE C == FullChar(S)
             type == TypeOfString(s)
             mark == CurDirMark(cd)
  <1>1. s \in Seq(C) /\ cd \in Seq(C) /\ cd \in Seq(S) /\ <<>> \in Seq(C)
    BY CharsInFull, MarkInside
  <1>2. mark \in 2..Len(cd) /\ Len(cd) \in Nat /\ Len(s) \in Nat /\ mark \in Nat
    BY MarkInside
  <1>3. PICK sep \in 1..mark : IS_PATH_SEPARATOR(cd[sep])
    BY MarkInside
  <1> HIDE DEF mark, type, C
  <1>4. CASE type = "UncAbsolute"
    <2> DEFINE n == RtlpSkipUNCPrefix(s)
    <2>1. Prefixed(s, cd) = From(<<>>, 0, n)
      BY <1>4 DEF Prefixed, type
    <2>2. PICK i \in 2..Len(s) : \E j \in i..Len(s) : n \in j..Len(s)
      BY <1>4, TypeIs, PrefixIs, Zenon DEF type
    <2>3. IS_PATH_SEPARATOR(s[1])
      BY <1>4, TypeIs DEF type, RtlDetermineDosPathNameType_Ustr
    <2> HIDE DEF n
    <2>4. n \in Nat /\ n <= Len(<<>>) + (Len(s) - 0) /\ 1 \in 1..n /\ 0 \in 0..Len(s)
      BY <1>2, <2>2
    <2>. QED
      BY <1>1, <2>1, <2>3, <2>4, FromIs, Zenon DEF C
  <1>5. CASE type = "LocalDevice"
    <2>1. Prefixed(s, cd) = From(<<>>, 0, 4)
      BY <1>5 DEF Prefixed, type, DeviceMark
    <2>2. IS_PATH_SEPARATOR(s[1])
      BY <1>5, TypeIs DEF type, RtlDetermineDosPathNameType_Ustr
    <2>3. 4 \in Nat /\ 4 <= Len(<<>>) + (Len(s) - 0) /\ 1 \in 1..4 /\ 0 \in 0..Len(s)
      BY <1>2, <1>5, TypeIs DEF type
    <2>. QED
      BY <1>1, <2>1, <2>2, <2>3, FromIs, Zenon DEF C
  <1>6. CASE type = "DriveAbsolute"
    <2> DEFINE drive == SubSeq(s, 1, 3)
    <2>1. Len(s) >= 3
      BY <1>6, TypeIs DEF type
    <2>2. drive \in Seq(C) /\ Len(drive) = 3 /\ drive[3] = s[3]
      BY <1>1, <1>2, <2>1
    <2>3. IS_PATH_SEPARATOR(s[3])
      BY <1>6, TypeIs DEF type, RtlDetermineDosPathNameType_Ustr
    <2>4. Prefixed(s, cd) = From(drive, 3, 3)
      BY <1>6 DEF Prefixed, type
    <2> HIDE DEF drive
    <2>5. /\ 3 \in Nat /\ 3 <= Len(drive) + (Len(s) - 3) /\ 3 \in 1..3 /\ 3 \in 0..Len(s)
          /\ 3 <= Len(drive) /\ IS_PATH_SEPARATOR(drive[3])
      BY <1>2, <2>1, <2>2, <2>3
    <2>. QED
      BY <2>2, <2>4, <2>5, FromIs, Zenon DEF C
  <1>7. ASSUME NEW source \in 0..Len(s)
        PROVE  Parts(S, s, From(cd, source, mark))
    <2>1. /\ mark \in Nat /\ mark <= Len(cd) + (Len(s) - source)
          /\ sep \in 1..mark /\ sep <= Len(cd)
      BY <1>2, <1>3
    <2>. QED
      BY <1>1, <1>3, <2>1, FromIs, Zenon DEF C
  <1>8. CASE type = "Relative"
    <2>1. Prefixed(s, cd) = From(cd, 0, mark)
      BY <1>8 DEF Prefixed, type, RelativeFromCurDir, mark
    <2>2. 0 \in 0..Len(s)
      BY <1>2
    <2>. QED
      BY <1>7, <2>1, <2>2
  <1>9. CASE type = "DriveRelative"
    <2> DEFINE drive == <<RtlpUpcaseUnicodeChar(s[1]), Colon, BackSlash>>
    <2>1. Len(s) >= 2 /\ 2 \in 0..Len(s)
      BY <1>2, <1>9, TypeIs DEF type
    <2>2. drive \in Seq(C) /\ Len(drive) = 3 /\ IS_PATH_SEPARATOR(drive[3])
      BY <2>1 DEF C, FullChar, IS_PATH_SEPARATOR
    <2> HIDE DEF drive
    <2>3. Prefixed(s, cd) = IF OnCurrentDrive(s, cd) THEN From(cd, 2, mark) ELSE From(drive, 2, 3)
      BY <1>9 DEF Prefixed, type, RelativeFromCurDir, mark, drive
    <2>4. 3 \in Nat /\ 3 <= Len(drive) + (Len(s) - 2) /\ 3 \in 1..3 /\ 3 <= Len(drive)
      BY <1>2, <2>1, <2>2
    <2>5. Parts(S, s, From(drive, 2, 3))
      BY <2>1, <2>2, <2>4, FromIs, Zenon DEF C
    <2>. QED
      BY <1>7, <2>1, <2>3, <2>5, Zenon
  <1>10. CASE type = "Rooted"
    <2> DEFINE root == SubSeq(cd, 1, mark)
    <2>1. Prefixed(s, cd) = From(root, 0, mark)
      BY <1>10 DEF Prefixed, type, mark
    <2>2. root \in Seq(C) /\ Len(root) = mark /\ root[sep] = cd[sep]
      BY <1>1, <1>2
    <2> HIDE DEF root
    <2>3. /\ mark <= Len(root) + (Len(s) - 0) /\ 0 \in 0..Len(s)
          /\ sep <= Len(root) /\ IS_PATH_SEPARATOR(root[sep])
      BY <1>2, <1>3, <2>2
    <2>. QED
      BY <1>2, <2>1, <2>2, <2>3, FromIs, Zenon DEF C
  <1>11. CASE type = "RootLocalDevice"
    <2>1. Len(s) = 3
      BY <1>11, TypeIs DEF type
    <2>2. /\ DeviceRootString \in Seq(C) /\ Len(DeviceRootString) = 4
          /\ IS_PATH_SEPARATOR(DeviceRootString[1])
      BY DEF DeviceRootString, C, FullChar, BackSlash, Dot, IS_PATH_SEPARATOR
    <2>3. Prefixed(s, cd) = From(DeviceRootString, 3, 4)
      BY <1>11 DEF Prefixed, type, DeviceRoot, DeviceMark
    <2> HIDE DEF DeviceRootString
    <2>4. /\ 4 \in Nat /\ 4 <= Len(DeviceRootString) + (Len(s) - 3) /\ 3 \in 0..Len(s)
          /\ 1 \in 1..4 /\ 1 <= Len(DeviceRootString)
      BY <2>1, <2>2
    <2>. QED
      BY <2>2, <2>3, <2>4, FromIs, Zenon DEF C
  <1>. QED
    BY <1>4, <1>5, <1>6, <1>8, <1>9, <1>10, <1>11, TypeIs DEF type

\* The part of the name that is copied ends inside the name.
LEMMA CopiedInside ==
  ASSUME NEW S, NEW s \in Seq(S)
  PROVE  CharsKept(s) \in 0..Len(s) /\ Min({CharsKept(s) + 1, Len(s)}) \in 0..Len(s)
  <1> DEFINE T == {0} \cup {n \in 1..Len(s) : s[n] # Space}
             U == {CharsKept(s) + 1, Len(s)}
  <1>1. Len(s) \in Nat /\ T \in SUBSET (0..Len(s)) /\ T # {}
    OBVIOUS
  <1>2. Max(T) \in 0..Len(s)
    BY <1>1, MaxIs
  <1>3. CharsKept(s) \in 0..Len(s)
    BY <1>2 DEF CharsKept
  <1>4. U \in SUBSET Nat /\ U # {}
    BY <1>1, <1>3
  <1>5. Min(U) \in U /\ \A k \in U : Min(U) <= k
    BY <1>4, MinIs, Zenon
  <1>. QED
    BY <1>1, <1>3, <1>4, <1>5

LEMMA ComposedType ==
  ASSUME NEW S, UNICODE_NULL \notin S, NEW s \in Seq(S), NEW cd \in Directory(S)
  PROVE  /\ Composed(s, cd) \in Seq(FullChar(S))
         /\ Prefixed(s, cd).cut \in Nat
         /\ CutInside(s, cd) =>
              \E i \in 1..Prefixed(s, cd).cut : IS_PATH_SEPARATOR(Composed(s, cd)[i])
  <1> DEFINE C == FullChar(S)
             parts == Prefixed(s, cd)
             prefix == parts.prefix
             last == Min({CharsKept(s) + 1, Len(s)})
             rest == SubSeq(s, parts.source + 1, last)
  <1>1. Parts(S, s, parts)
    BY PrefixedIs
  <1>2. prefix \in Seq(C) /\ parts.source \in 0..Len(s) /\ parts.cut \in Nat
    BY <1>1 DEF Parts
  <1>3. PICK i \in 1..parts.cut :
          \/ i <= Len(prefix) /\ IS_PATH_SEPARATOR(prefix[i])
          \/ prefix = <<>> /\ parts.source = 0 /\ IS_PATH_SEPARATOR(s[i])
    BY <1>1, Zenon DEF Parts
  <1>4. last \in 0..Len(s) /\ Len(s) \in Nat /\ s \in Seq(C)
    BY CopiedInside, CharsInFull
  <1>5. Composed(s, cd) = prefix \o rest
    BY DEF Composed
  <1> HIDE DEF last, parts, prefix, C
  <1>6. rest \in Seq(C) /\ \A k \in 1..Len(rest) : rest[k] = s[k + parts.source]
    <2> DEFINE a == parts.source
    <2>1. a \in 0..Len(s)
      BY <1>2
    <2> HIDE DEF a
    <2>2. /\ SubSeq(s, a + 1, last) \in Seq(C)
          /\ \A k \in 1..Len(SubSeq(s, a + 1, last)) : SubSeq(s, a + 1, last)[k] = s[k + a]
      BY <1>4, <2>1, SubSeqIs, Zenon
    <2>. QED
      BY <2>2 DEF a
  <1> HIDE DEF rest
  <1>7. prefix \o rest \in Seq(C)
    BY <1>2, <1>6
  <1>8. ASSUME CutInside(s, cd) PROVE IS_PATH_SEPARATOR((prefix \o rest)[i])
    <2>1. parts.cut <= Len(prefix \o rest)
      BY <1>5, <1>8 DEF CutInside, parts
    <2>2. CASE i <= Len(prefix) /\ IS_PATH_SEPARATOR(prefix[i])
      BY <1>2, <1>6, <2>2
    <2>3. CASE prefix = <<>> /\ parts.source = 0 /\ IS_PATH_SEPARATOR(s[i])
      <3>1. prefix \o rest = rest /\ i \in 1..Len(rest)
        BY <1>2, <1>6, <2>1, <2>3
      <3>2. rest[i] = s[i]
        BY <1>6, <2>3, <3>1
      <3>. QED
        BY <2>3, <3>1, <3>2
    <2>. QED
      BY <1>3, <2>2, <2>3
  <1>. QED
    BY <1>2, <1>5, <1>7, <1>8 DEF parts, C

(***************************************************************************)
(* The collapse leaves something of what was put together, and no more     *)
(* than that.                                                              *)
(***************************************************************************)
LEMMA FullIs ==
  ASSUME NEW S, UNICODE_NULL \notin S, NEW s \in Seq(S), NEW cd \in Directory(S),
         CutInside(s, cd)
  PROVE  /\ Full(s, cd) \in Seq(FullChar(S))
         /\ Len(Full(s, cd)) \in 1..Len(Composed(s, cd))
  <1> DEFINE C == FullChar(S)
             text == Composed(s, cd)
             cut == Prefixed(s, cd).cut
  <1>1. text \in Seq(C) /\ cut \in 0..Len(text) /\ BackSlash \in C
    BY ComposedType DEF CutInside, FullChar
  <1>2. PICK i \in 1..cut : IS_PATH_SEPARATOR(text[i])
    BY ComposedType
  <1> DEFINE skip == SkipTrailingPathSeparators(s)
  <1>3. Full(s, cd) = Collapsed(text, cut, skip)
    BY DEF Full
  <1> HIDE DEF C, text, cut, skip
  <1>4. /\ Collapsed(text, cut, skip) \in Seq(C)
        /\ Len(Collapsed(text, cut, skip)) <= Len(text)
        /\ \A k \in 1..cut : IS_PATH_SEPARATOR(text[k]) => Len(Collapsed(text, cut, skip)) >= k
    BY <1>1, CollapsedIs, Zenon
  <1>5. Len(Collapsed(text, cut, skip)) >= i
    BY <1>2, <1>4, Zenon
  <1>6. Len(Collapsed(text, cut, skip)) \in 1..Len(text)
    BY <1>1, <1>4, <1>5
  <1>. QED
    BY <1>3, <1>4, <1>6 DEF C, text

\* All of a name without spaces behind it is put together, and nothing else.
LEMMA ComposedIs ==
  ASSUME NEW S, UNICODE_NULL \notin S, NEW s \in Seq(S), NEW cd \in Directory(S),
         CharsKept(s) > 0, Last(s) # Space
  PROVE  CutInside(s, cd) /\ Needed(s, cd) = LengthInBytes(Composed(s, cd)) + SizeofWCHAR
  <1> DEFINE parts == Prefixed(s, cd)
             prefix == parts.prefix
             source == parts.source
             rest == SubSeq(s, source + 1, Len(s))
  <1>1. /\ prefix \in Seq(FullChar(S)) /\ source \in 0..Len(s) /\ parts.cut \in Nat
        /\ parts.cut <= Len(prefix) + (Len(s) - source)
    BY PrefixedIs DEF Parts
  <1>2. CharsKept(s) = Len(s) /\ Len(s) > 0 /\ Len(s) \in Nat
    BY KeptAll
  <1>3. Min({CharsKept(s) + 1, Len(s)}) = Len(s)
    <2> DEFINE T == {CharsKept(s) + 1, Len(s)}
    <2>1. T \in SUBSET Nat /\ T # {} /\ \A n \in T : n = Len(s) + 1 \/ n = Len(s)
      BY <1>2
    <2>2. PICK m \in T : m = Min(T) /\ \A k \in T : m <= k
      BY <2>1, MinIs, Zenon
    <2>3. m <= Len(s)
      BY <2>2, Zenon
    <2>. QED
      BY <1>2, <2>1, <2>2, <2>3
  <1>4. Composed(s, cd) = prefix \o rest
    BY <1>3, Zenon DEF Composed
  <1>5. rest \in Seq(FullChar(S)) /\ Len(rest) = Len(s) - source
    <2> HIDE DEF source
    <2>1. Len(s) \in 0..Len(s) /\ source \in 0..Len(s) /\ source <= Len(s)
      BY <1>1, <1>2
    <2>2. s \in Seq(FullChar(S))
      BY CharsInFull
    <2>3. /\ SubSeq(s, source + 1, Len(s)) \in Seq(FullChar(S))
          /\ source <= Len(s) => Len(SubSeq(s, source + 1, Len(s))) = Len(s) - source
      BY <2>1, <2>2, SubSeqIs
    <2>. QED
      BY <2>1, <2>3
  <1> HIDE DEF prefix, source, rest, parts
  <1>6. Len(Composed(s, cd)) = Len(prefix) + (Len(s) - source)
    <2>1. prefix \in Seq(FullChar(S)) /\ rest \in Seq(FullChar(S))
      BY <1>1, <1>5
    <2>2. Len(prefix \o rest) = Len(prefix) + Len(rest)
      BY <2>1
    <2>. QED
      BY <1>4, <1>5, <2>2
  <1>7. CutInside(s, cd)
    BY <1>1, <1>6 DEF CutInside, parts
  <1>8. Needed(s, cd) = (Len(Composed(s, cd)) + 1) * SizeofWCHAR
    BY <1>2, <1>6 DEF Needed, parts, prefix, source
  <1>9. Len(Composed(s, cd)) \in Nat
    BY <1>1, <1>2, <1>6
  <1>10. Needed(s, cd) = LengthInBytes(Composed(s, cd)) + SizeofWCHAR
    BY <1>8, <1>9, SizeofWCHARAssumption DEF LengthInBytes
  <1>. QED
    BY <1>7, <1>10
-----------------------------------------------------------------------------
\* A name with one character that is no space is more than spaces.
LEMMA KeptOne ==
  ASSUME NEW S, NEW s \in Seq(S), NEW i \in 1..Len(s), s[i] # Space
  PROVE  CharsKept(s) > 0
  <1> DEFINE T == {0} \cup {n \in 1..Len(s) : s[n] # Space}
  <1>1. Len(s) \in Nat /\ T \in SUBSET (0..Len(s)) /\ T # {} /\ i \in T
    OBVIOUS
  <1>2. Max(T) \in T /\ \A k \in T : k <= Max(T)
    BY <1>1, MaxIs, Zenon
  <1>3. Max(T) > 0
    BY <1>1, <1>2
  <1>. QED
    BY <1>3 DEF CharsKept

\* A name that is a device is more than spaces.
LEMMA DeviceKept ==
  ASSUME NEW S, NEW s \in Seq(S), RtlIsDosDeviceName_Ustr(s) # 0
  PROVE  CharsKept(s) > 0 /\ RtlIsDosDeviceName_Ustr(s) \in Int
  <1> DEFINE type == RtlDetermineDosPathNameType_Ustr(s)
             word == DeviceWord(s)
             dos  == RtlIsDosDeviceName_Ustr(s)
  <1>1. /\ NameStart(s) \in Nat /\ WordEnd(s) \in Nat /\ Len(s) \in Nat
        /\ NameStart(s) <= WordEnd(s) /\ WordEnd(s) <= Len(s)
    BY Indices
  <1>2. CASE type = "LocalDevice"
    <2>1. /\ RtlEqualUnicodeString(s, RtlpDosSlashCONDevice)
          /\ dos = MAKELONG(3 * SizeofWCHAR, LengthInBytes(DeviceRootString))
      BY <1>2 DEF RtlIsDosDeviceName_Ustr
    <2>2. Len(RtlpDosSlashCONDevice) = 7 /\ RtlpDosSlashCONDevice[5] \in Letters
      BY DEF RtlpDosSlashCONDevice, DeviceRootString, Letters
    <2>3. 5 \in 1..Len(s) /\ 5 \in DOMAIN s
      BY <2>1, <2>2 DEF RtlEqualUnicodeString
    <2>4. s[5] # Space
      BY <2>1, <2>2, <2>3, EqualChars DEF NoWordChar
    <2>5. dos \in Int
      BY <2>1, SizeofWCHARAssumption DEF MAKELONG, LengthInBytes, DeviceRootString
    <2>. QED
      BY <2>3, <2>4, <2>5, KeptOne
  <1>3. CASE type # "LocalDevice"
    <2>1. /\ IsDevice(word) \/ IsPort(word)
          /\ dos = MAKELONG(LengthInBytes(word), NameStart(s) * SizeofWCHAR)
      <3>1. type \notin {"Unknown", "UncAbsolute"}
        BY DEF RtlIsDosDeviceName_Ustr
      <3>. QED
        BY <1>3, <3>1 DEF RtlIsDosDeviceName_Ustr
    <2>2. word \in Seq(S) /\ \A k \in 1..Len(word) : word[k] = s[k + NameStart(s)]
      <3>1. NameStart(s) \in 0..Len(s) /\ WordEnd(s) \in 0..Len(s)
        BY <1>1
      <3>. QED
        BY <3>1, SubSeqIs, Zenon DEF DeviceWord
    <2>3. Len(word) \in {3, 4} /\ word[1] # Space
      <3>1. Len(word) \in {3, 4} /\ \A k \in 1..Len(word) : word[k] \notin NoWordChar
        BY <2>1, <2>2, DeviceChars, PortChars, Zenon
      <3>2. Space \in NoWordChar
        BY DEF NoWordChar
      <3>3. \A l \in {3, 4} : 1 \in 1..l
        OBVIOUS
      <3>. QED
        BY <3>1, <3>2, <3>3, Zenon
    <2>4. Len(word) = WordEnd(s) - NameStart(s)
      BY <1>1, SubSeqIs DEF DeviceWord
    <2>5. 1 + NameStart(s) \in 1..Len(s) /\ s[1 + NameStart(s)] # Space
      BY <1>1, <2>2, <2>3, <2>4
    <2>6. dos \in Int
      BY <1>1, <2>1, <2>3, SizeofWCHARAssumption DEF MAKELONG, LengthInBytes
    <2>. QED
      BY <2>5, <2>6, KeptOne
  <1>. QED
    BY <1>2, <1>3

(***************************************************************************)
(* The answer to any call, in a buffer of any size, is a number of bytes.  *)
(***************************************************************************)
LEMMA AnswerIs ==
  ASSUME NEW S, UNICODE_NULL \notin S, NEW s \in Seq(S), NEW cd \in Directory(S),
         NEW Size \in Nat, RtlIsDosDeviceName_Ustr(s) = 0 => Needed(s, cd) > Size \/ CutInside(s, cd)
  PROVE  RtlGetFullPathName_Ustr(s, Size, cd) \in Nat
  <1> DEFINE dos == RtlIsDosDeviceName_Ustr(s)
             parts == Prefixed(s, cd)
  <1>1. CASE dos # 0
    <2>1. dos \in Int
      BY <1>1, DeviceKept
    <2>2. LOWORD(dos) + LengthInBytes(DeviceRootString) \in Nat
      BY <2>1, SizeofWCHARAssumption DEF LOWORD, LengthInBytes, DeviceRootString
    <2>3. AnswerDevice(dos, Size) \in Nat
      BY <2>2, SizeofWCHARAssumption DEF AnswerDevice
    <2>. QED
      BY <1>1, <2>3 DEF RtlGetFullPathName_Ustr
  <1>2. CASE dos = 0
    <2>1. Needed(s, cd) \in Int
      <3>1. Len(parts.prefix) \in Nat /\ parts.source \in 0..Len(s)
        BY PrefixedIs DEF Parts
      <3>2. CharsKept(s) \in 0..Len(s)
        BY CopiedInside
      <3>3. CASE SizeofWCHAR = 2
        BY <3>1, <3>2, <3>3 DEF Needed
      <3>4. CASE SizeofWCHAR = 4
        BY <3>1, <3>2, <3>4 DEF Needed
      <3>. QED
        BY <3>3, <3>4, SizeofWCHARAssumption
    <2>2. CutInside(s, cd) => LengthInBytes(Full(s, cd)) \in Nat
      <3> SUFFICES ASSUME CutInside(s, cd) PROVE LengthInBytes(Full(s, cd)) \in Nat
        OBVIOUS
      <3>1. Full(s, cd) \in Seq(FullChar(S))
        BY FullIs, Zenon
      <3>2. Len(Full(s, cd)) \in Nat
        BY ONLY <3>1
      <3>. QED
        BY <3>2, SizeofWCHARAssumption DEF LengthInBytes
    <2>3. AnswerPath(s, Size, cd) \in Nat
      BY <1>2, <2>1, <2>2 DEF AnswerPath
    <2>. QED
      BY <1>2, <2>3 DEF RtlGetFullPathName_Ustr
  <1>. QED
    BY <1>1, <1>2
=============================================================================
