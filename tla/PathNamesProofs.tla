---------------------------- MODULE PathNamesProofs --------------------------
(***************************************************************************)
(* The properties of DosPathNames and FullPathNames, for every name over   *)
(* any characters and every set of current directories.                    *)
(***************************************************************************)
EXTENDS NtNames, PathLemmas

\* A name is a sequence of characters.
LEMMA NameKept == Spec => [](path \in Seq(Char))
  <1>1. Init => path \in Seq(Char)
    BY DEF Init
  <1>2. path \in Seq(Char) /\ [Next]_vars => (path \in Seq(Char))'
    <2>1. \A t \in Piece : path \in Seq(Char) => path \o t \in Seq(Char)
      BY PieceAssumption
    <2>. QED
      BY <2>1 DEF Next, vars
  <1>. QED
    BY <1>1, <1>2, PTL DEF Spec
-----------------------------------------------------------------------------
(***************************************************************************)
(* TypesAgree of every name, however long, and of every character the      *)
(* terminator does not pass for.                                           *)
(***************************************************************************)
THEOREM TypesAlwaysAgree == Spec => []TypesAgree
  <1>1. path \in Seq(Char) => TypesAgree
    <2>. SUFFICES ASSUME path \in Seq(Char), NEW buf \in Buffers
                  PROVE  RtlDetermineDosPathNameType_U(buf) = RtlDetermineDosPathNameType_Ustr(path)
      BY DEF TypesAgree
    <2>1. \A i \in 0..Len(path) : buf[i] = CharAt(path, i)
      BY DEF Buffers
    <2>. QED
      BY <2>1, NameCharAssumption, TypeOfBuffer
  <1>. QED
    BY <1>1, NameKept, PTL
-----------------------------------------------------------------------------
(***************************************************************************)
(* PrefixIsShareAndDir of every name: what RtlpSkipUNCPrefix stops at is   *)
(* behind two names with separators between them.                          *)
(***************************************************************************)
THEOREM PrefixAlwaysShareAndDir == Spec => []PrefixIsShareAndDir
  <1>1. path \in Seq(Char) => PrefixIsShareAndDir
    <2>. SUFFICES ASSUME path \in Seq(Char),
                         RtlDetermineDosPathNameType_Ustr(path) = "UncAbsolute"
                  PROVE  LET n == RtlpSkipUNCPrefix(path)
                         IN  /\ n = Len(path) \/ Sep(path, n)
                             /\ \E i \in 2..n : \E j \in i..n :
                                  /\ i = Len(path) \/ Sep(path, i)
                                  /\ \A k \in 2..(i - 1) : ~Sep(path, k)
                                  /\ \A k \in i..(j - 1) : Sep(path, k)
                                  /\ \A k \in j..(n - 1) : ~Sep(path, k)
                                  /\ j = n => n = Len(path)
      BY Zenon DEF PrefixIsShareAndDir, Sep
    <2>1. Len(path) >= 2
      BY DEF RtlDetermineDosPathNameType_Ustr
    <2>2. PICK i \in 2..Len(path) : \E j \in i..Len(path) :
            LET n == RtlpSkipUNCPrefix(path)
            IN  /\ n \in j..Len(path)
                /\ n = Len(path) \/ Sep(path, n)
                /\ i = Len(path) \/ Sep(path, i)
                /\ \A k \in 2..(i - 1) : ~Sep(path, k)
                /\ \A k \in i..(j - 1) : Sep(path, k)
                /\ \A k \in j..(n - 1) : ~Sep(path, k)
                /\ j = n => n = Len(path)
      BY <2>1, PrefixIs, Zenon
    <2>. QED
      BY <2>2
  <1>. QED
    BY <1>1, NameKept, PTL
-----------------------------------------------------------------------------
(***************************************************************************)
(* The word the search from the end stops at, when it is the word of a     *)
(* device, names that device where it stands.                              *)
(***************************************************************************)
LEMMA WordNamesDevice ==
  ASSUME NEW S, NEW s \in Seq(S), IsDevice(DeviceWord(s)) \/ IsPort(DeviceWord(s))
  PROVE  /\ Len(DeviceWord(s)) \in {3, 4}
         /\ Len(DeviceWord(s)) = WordEnd(s) - NameStart(s)
         /\ NamesDevice(s, NameStart(s), WordEnd(s) - NameStart(s))
<1> DEFINE N == NameStart(s)
           E == WordEnd(s)
           P == NameStop(s)
           C == CharsLeft(s)
           W == WithoutColon(s)
           L == Len(s)
           rest == SubSeq(s, N + (E - N) + 1, L)
<1>1. /\ N \in Nat /\ E \in Nat /\ P \in Nat /\ C \in Nat /\ W \in Nat /\ L \in Nat
      /\ N <= E /\ E <= P /\ P <= C /\ C <= W /\ W <= L
  BY Indices, Zenon
<1>2. DeviceWord(s) \in Seq(S) /\ Len(DeviceWord(s)) = E - N
  BY <1>1 DEF DeviceWord
<1>3. Len(DeviceWord(s)) \in {3, 4}
  BY <1>2, DeviceChars, PortChars
<1>4. /\ N + (E - N) = E
      /\ SubSeq(s, N + 1, N + (E - N)) = DeviceWord(s)
  <2>1. N + (E - N) = E
    BY <1>1
  <2> QED
    BY <2>1, Zenon DEF DeviceWord
<1>5. N = 0 \/ IS_PATH_SEPARATOR(s[N]) \/ (N = 2 /\ s[2] = Colon)
  BY NameStartIs DEF StartsBehind
<1>6. \A n \in (E + 1)..L : ~IS_PATH_SEPARATOR(s[n])
  <2> SUFFICES ASSUME NEW n \in (E + 1)..L PROVE ~IS_PATH_SEPARATOR(s[n])
    OBVIOUS
  <2>1. CASE n <= C
    BY <1>1, <2>1, NameStartIs DEF StartsBehind
  <2>2. CASE C < n /\ n <= W
    <3>1. s[n] \in {Dot, Space}
      BY <1>1, <2>2, CharsLeftIs
    <3> QED
      BY <3>1 DEF IS_PATH_SEPARATOR, Dot, Space, BackSlash, Slash
  <2>3. CASE W < n
    <3>1. s[n] = Colon
      BY <1>1, <2>3, WithoutColonIs
    <3> QED
      BY <3>1 DEF IS_PATH_SEPARATOR, Colon, BackSlash, Slash
  <2> QED
    BY <1>1, <2>1, <2>2, <2>3
<1>7. /\ Len(rest) = L - E /\ DOMAIN rest = 1..(L - E)
      /\ \A j \in 1..(L - E) : rest[j] = s[E + j]
  <2> DEFINE part == SubSeq(s, E + 1, L)
  <2>1. E \in 0..Len(s) /\ L \in 0..Len(s) /\ E <= L /\ N + (E - N) = E
    BY <1>1
  <2>2. /\ part \in Seq(S) /\ Len(part) = L - E
        /\ \A k \in 1..Len(part) : part[k] = s[k + E]
    BY <2>1, SubSeqIs, Zenon
  <2>3. rest = part
    BY <2>1, Zenon
  <2> HIDE DEF part, rest
  <2>4. DOMAIN part = 1..Len(part) /\ \A k \in 1..(L - E) : k + E = E + k
    BY <1>1, <2>2
  <2> QED
    BY <2>2, <2>3, <2>4
<1>8. PICK k \in 0..(L - E) : /\ \A j \in 1..k : s[E + j] = Space
                              /\ k < L - E => s[E + k + 1] \in {Dot, Colon}
  <2>1. CASE P < C
    <3>1. P - E \in 0..(L - E) /\ E + (P - E) + 1 = P + 1
      BY <1>1
    <3>2. \A j \in 1..(P - E) : s[E + j] = Space
      BY <1>1, WordEndIs
    <3>3. s[P + 1] \in {Dot, Colon}
      BY <2>1, <1>1, NameStopIs
    <3> QED
      BY <3>1, <3>2, <3>3
  <2>2. CASE P = C
    <3>1. E = C
      <4>1. s[C] \notin {Dot, Space}
        BY <1>1, <1>2, <1>3, CharsLeftIs
      <4> QED
        BY <1>1, <2>2, <4>1, WordEndIs
    <3>2. \A n \in (C + 1)..L : s[n] # Space => s[n] \in {Dot, Colon}
      <4> SUFFICES ASSUME NEW n \in (C + 1)..L, s[n] # Space PROVE s[n] \in {Dot, Colon}
        OBVIOUS
      <4>1. CASE n <= W
        BY <1>1, <4>1, CharsLeftIs
      <4>2. CASE W < n
        BY <1>1, <4>2, WithoutColonIs
      <4> QED
        BY <1>1, <4>1, <4>2
    <3> DEFINE K == {k \in 0..(L - E) : k = L - E \/ s[E + k + 1] # Space}
    <3>3. PICK k \in K : \A j \in K : k <= j
      <4>1. L - E \in K /\ K \in SUBSET Nat
        BY <1>1
      <4> HIDE DEF K
      <4> QED
        BY <4>1, FirstNatural
    <3>4. \A j \in 1..k : s[E + j] = Space
      <4> SUFFICES ASSUME NEW j \in 1..k, s[E + j] # Space PROVE FALSE
        OBVIOUS
      <4>1. j - 1 \in 0..(L - E) /\ E + (j - 1) + 1 = E + j
        BY <1>1
      <4>2. j - 1 \in K
        BY <4>1
      <4> QED
        BY <3>3, <4>2
    <3>5. k < L - E => s[E + k + 1] \in {Dot, Colon}
      BY <1>1, <3>1, <3>2
    <3> QED
      BY <3>4, <3>5
  <2> QED
    BY <1>1, <2>1, <2>2
<1> HIDE DEF N, E, L, P, C, W, rest
<1>9. \A j \in DOMAIN rest : ~IS_PATH_SEPARATOR(rest[j])
  <2> SUFFICES ASSUME NEW j \in 1..(L - E) PROVE ~IS_PATH_SEPARATOR(rest[j])
    BY <1>7
  <2>1. E + j \in (E + 1)..L /\ rest[j] = s[E + j]
    BY <1>1, <1>7
  <2> QED
    BY <1>6, <2>1, Zenon
<1>10. \E m \in 0..Len(rest) : /\ \A j \in 1..m : rest[j] = Space
                               /\ m < Len(rest) => rest[m + 1] \in {Dot, Colon}
  <2>1. \A j \in 1..k : rest[j] = Space
    <3> SUFFICES ASSUME NEW j \in 1..k PROVE rest[j] = Space
      OBVIOUS
    <3>1. j \in 1..(L - E)
      BY <1>1
    <3>2. rest[j] = s[E + j] /\ s[E + j] = Space
      BY <1>7, <1>8, <3>1, Zenon
    <3> QED
      BY <3>2, Zenon
  <2>2. ASSUME k < Len(rest) PROVE rest[k + 1] \in {Dot, Colon}
    <3>1. k < L - E /\ k + 1 \in 1..(L - E) /\ E + (k + 1) = E + k + 1
      BY <1>1, <1>7, <2>2
    <3>2. rest[k + 1] = s[E + (k + 1)]
      BY <1>7, <3>1, Zenon
    <3> QED
      BY <1>8, <3>1, <3>2, Zenon
  <2>3. k \in 0..Len(rest)
    BY <1>7, Zenon
  <2> QED
    BY <2>1, <2>2, <2>3, Zenon
<1>11. N + (E - N) <= L
  BY <1>1
<1>12. IsDevice(SubSeq(s, N + 1, N + (E - N))) \/ IsPort(SubSeq(s, N + 1, N + (E - N)))
  BY <1>4, Zenon
<1>13. NamesDevice(s, N, E - N)
  BY <1>5, <1>9, <1>10, <1>11, <1>12, Zenon DEF NamesDevice, rest, L
<1> QED
  BY <1>2, <1>3, <1>13 DEF N, E
-----------------------------------------------------------------------------
(***************************************************************************)
(* Wherever a name names a device, the search stops at it: the cuts at the *)
(* end never reach the word, no separator or drive behind it moves the     *)
(* start, and nothing but spaces comes between it and the stop.            *)
(***************************************************************************)
LEMMA NamedIsWord ==
  ASSUME NEW S, NEW s \in Seq(S), NEW i \in 0..Len(s), NEW l \in {3, 4}, NamesDevice(s, i, l)
  PROVE  /\ NameStart(s) = i /\ WordEnd(s) = i + l
         /\ IsDevice(DeviceWord(s)) \/ IsPort(DeviceWord(s))
         /\ Len(DeviceWord(s)) = l
<1> DEFINE N == NameStart(s)
           E == WordEnd(s)
           P == NameStop(s)
           C == CharsLeft(s)
           W == WithoutColon(s)
           L == Len(s)
           word == SubSeq(s, i + 1, i + l)
           rest == SubSeq(s, i + l + 1, L)
<1>1. /\ N \in Nat /\ E \in Nat /\ P \in Nat /\ C \in Nat /\ W \in Nat /\ L \in Nat
      /\ N <= E /\ E <= P /\ P <= C /\ C <= W /\ W <= L /\ i \in Nat
  BY Indices
<1>2. /\ i + l <= L
      /\ i = 0 \/ StartsBehind(s, i)
      /\ IsDevice(word) \/ IsPort(word)
      /\ \A j \in DOMAIN rest : ~IS_PATH_SEPARATOR(rest[j])
      /\ \E k \in 0..Len(rest) :
           /\ \A j \in 1..k : rest[j] = Space
           /\ k < Len(rest) => rest[k + 1] \in {Dot, Colon}
  BY DEF NamesDevice, StartsBehind
<1>3. /\ Len(rest) = L - (i + l) /\ DOMAIN rest = 1..(L - (i + l))
      /\ \A j \in 1..(L - (i + l)) : rest[j] = s[i + l + j]
  BY <1>1, <1>2
<1>4. word \in Seq(S) /\ Len(word) = l /\ \A j \in 1..l : word[j] = s[i + j]
  <2>1. i \in 0..Len(s) /\ i + l \in 0..Len(s) /\ i <= i + l /\ (i + l) - i = l
    BY <1>1, <1>2
  <2>2. /\ word \in Seq(S) /\ Len(word) = (i + l) - i
        /\ \A j \in 1..Len(word) : word[j] = s[j + i]
    BY <2>1, SubSeqIs
  <2> HIDE DEF word
  <2>3. Len(word) = l /\ \A j \in 1..l : j + i = i + j
    BY <1>1, <2>1, <2>2
  <2> QED
    BY <2>2, <2>3
<1>5. \A j \in 1..l : word[j] \notin NoWordChar
  BY <1>2, <1>4, DeviceChars, PortChars
<1> HIDE DEF N, E, P, C, W, L, rest, word
<1>6. \A n \in (i + 1)..(i + l) : s[n] \notin NoWordChar
  <2> SUFFICES ASSUME NEW n \in (i + 1)..(i + l) PROVE s[n] \notin NoWordChar
    OBVIOUS
  <2>1. n - i \in 1..l /\ i + (n - i) = n
    BY <1>1
  <2> QED
    BY <1>4, <1>5, <2>1
<1>7. \A n \in (i + l + 1)..L : ~IS_PATH_SEPARATOR(s[n])
  <2> SUFFICES ASSUME NEW n \in (i + l + 1)..L PROVE ~IS_PATH_SEPARATOR(s[n])
    OBVIOUS
  <2>1. n - (i + l) \in 1..(L - (i + l)) /\ i + l + (n - (i + l)) = n
    BY <1>1
  <2> QED
    BY <1>2, <1>3, <2>1
<1>8. PICK k \in 0..(L - (i + l)) :
         /\ \A n \in (i + l + 1)..(i + l + k) : s[n] = Space
         /\ k < L - (i + l) => s[i + l + k + 1] \in {Dot, Colon}
  <2>1. PICK k \in 0..(L - (i + l)) :
           /\ \A j \in 1..k : rest[j] = Space
           /\ k < L - (i + l) => rest[k + 1] \in {Dot, Colon}
    BY <1>2, <1>3
  <2>2. \A n \in (i + l + 1)..(i + l + k) : s[n] = Space
    <3> SUFFICES ASSUME NEW n \in (i + l + 1)..(i + l + k) PROVE s[n] = Space
      OBVIOUS
    <3>1. /\ n - (i + l) \in 1..(L - (i + l)) /\ i + l + (n - (i + l)) = n
          /\ n - (i + l) \in 1..k
      BY <1>1
    <3> QED
      BY <1>3, <2>1, <3>1
  <2>3. ASSUME k < L - (i + l) PROVE s[i + l + k + 1] \in {Dot, Colon}
    <3>1. k + 1 \in 1..(L - (i + l)) /\ i + l + (k + 1) = i + l + k + 1
      BY <1>1, <2>3
    <3>2. rest[k + 1] = s[i + l + (k + 1)]
      BY <1>3, <3>1, Zenon
    <3> QED
      BY <2>1, <2>3, <3>1, <3>2
  <2> QED
    BY <2>2, <2>3
<1>9. \A c : c \notin NoWordChar => c \notin {Dot, Space} /\ c # Colon /\ ~IS_PATH_SEPARATOR(c)
  BY DEF NoWordChar, IS_PATH_SEPARATOR
<1>10. i + l <= W
  <2>1. i + l = L => W = L
    BY <1>1, <1>6, <1>9, WithoutColonIs DEF W, L
  <2> QED
    BY <1>1, <1>2, <2>1, WithoutColonIs DEF W, L
<1>11. i + l <= C
  <2> SUFFICES ASSUME C < i + l PROVE FALSE
    BY <1>1
  <2>1. i + l \in (C + 1)..W /\ i + l \in (i + 1)..(i + l)
    BY <1>1, <1>10
  <2>2. s[i + l] \in {Dot, Space}
    BY <2>1, CharsLeftIs DEF C, W
  <2> QED
    BY <1>6, <1>9, <2>1, <2>2
<1>12. N = i
  <2>1. N >= i
    <3> SUFFICES ASSUME N < i PROVE FALSE
      BY <1>1
    <3>1. i \in (N + 1)..C
      BY <1>1, <1>11
    <3> QED
      BY <1>1, <1>2, <3>1, NameStartIs DEF N, C
  <2>2. ASSUME N > i PROVE FALSE
    <3>1. StartsBehind(s, N)
      BY <1>1, <2>2, NameStartIs DEF N
    <3>2. CASE N <= i + l
      BY <1>1, <1>6, <1>9, <2>2, <3>1, <3>2 DEF StartsBehind
    <3>3. CASE N > i + l
      BY <1>1, <1>7, <3>1, <3>3 DEF StartsBehind
    <3> QED
      BY <1>1, <3>2, <3>3
  <2> QED
    BY <1>1, <2>1, <2>2
<1>13. i + l <= P
  <2> SUFFICES ASSUME P < i + l PROVE FALSE
    BY <1>1
  <2>1. P + 1 \in (i + 1)..(i + l)
    BY <1>1, <1>12
  <2>2. s[P + 1] \in {Dot, Colon}
    BY <1>1, <1>11, NameStopIs DEF P, C
  <2> QED
    BY <1>6, <1>9, <2>1, <2>2
<1>14. E = i + l
  <2>1. E >= i + l
    <3> SUFFICES ASSUME E < i + l PROVE FALSE
      BY <1>1
    <3>1. i + l \in (E + 1)..P /\ i + l \in (i + 1)..(i + l)
      BY <1>1, <1>13
    <3>2. s[i + l] = Space
      BY <3>1, WordEndIs DEF E, P
    <3> QED
      BY <1>6, <1>9, <3>1, <3>2
  <2>2. ASSUME E > i + l PROVE FALSE
    <3>1. s[E] # Space
      BY <1>1, <1>12, <2>2, WordEndIs DEF E, N
    <3>2. E > i + l + k
      BY <1>1, <1>8, <2>2, <3>1
    <3>3. i + l + k \in N..(P - 1)
      BY <1>1, <1>12, <3>2
    <3>4. s[i + l + k + 1] \notin {Dot, Colon}
      BY <3>3, NameStopIs DEF N, P
    <3> QED
      BY <1>1, <1>8, <3>2, <3>4
  <2> QED
    BY <1>1, <2>1, <2>2
<1>15. DeviceWord(s) = word
  BY <1>12, <1>14, Zenon DEF DeviceWord, N, E, word
<1> QED
  BY <1>2, <1>4, <1>12, <1>14, <1>15, Zenon DEF N, E
-----------------------------------------------------------------------------
(***************************************************************************)
(* DeviceFound of every name: RtlIsDosDeviceName_Ustr answers a device     *)
(* exactly when the name names one, with its length and its offset.        *)
(***************************************************************************)
THEOREM DeviceAlwaysFound == Spec => []DeviceFound
<1>1. ASSUME path \in Seq(Char) PROVE DeviceFound
  <2> DEFINE type == RtlDetermineDosPathNameType_Ustr(path)
             word == DeviceWord(path)
             at   == {il \in (0..Len(path)) \X {3, 4} : NamesDevice(path, il[1], il[2])}
             dos  == RtlIsDosDeviceName_Ustr(path)
  <2> SUFFICES ASSUME type \notin {"UncAbsolute", "LocalDevice"}
               PROVE  IF at = {} THEN dos = 0
                      ELSE \E il \in at :
                             dos = MAKELONG(il[2] * SizeofWCHAR, il[1] * SizeofWCHAR)
    BY DEF DeviceFound
  <2>1. type # "Unknown"
    BY DEF RtlDetermineDosPathNameType_Ustr
  <2>2. dos = IF IsDevice(word) \/ IsPort(word)
              THEN MAKELONG(LengthInBytes(word), NameStart(path) * SizeofWCHAR)
              ELSE 0
    BY <2>1 DEF RtlIsDosDeviceName_Ustr
  <2> HIDE DEF type, dos
  <2>3. ASSUME IsDevice(word) \/ IsPort(word) PROVE at # {}
    <3> DEFINE N == NameStart(path)
               l == WordEnd(path) - NameStart(path)
    <3>1. l \in {3, 4} /\ NamesDevice(path, N, l)
      BY <1>1, <2>3, WordNamesDevice
    <3>2. N \in 0..Len(path)
      BY <1>1, Indices
    <3> HIDE DEF N, l
    <3>3. <<N, l>> \in at
      BY <3>1, <3>2
    <3> QED
      BY <3>3
  <2>4. ASSUME NEW il \in at
        PROVE  dos = MAKELONG(il[2] * SizeofWCHAR, il[1] * SizeofWCHAR)
    <3>1. il[1] \in 0..Len(path) /\ il[2] \in {3, 4} /\ NamesDevice(path, il[1], il[2])
      OBVIOUS
    <3>2. /\ NameStart(path) = il[1] /\ Len(word) = il[2]
          /\ IsDevice(word) \/ IsPort(word)
      BY <1>1, <3>1, NamedIsWord, Zenon
    <3> QED
      BY <2>2, <3>2, Zenon DEF LengthInBytes
  <2>5. CASE at = {}
    BY <2>2, <2>3, <2>5, Zenon
  <2>6. CASE at # {}
    <3>1. PICK il \in at : TRUE
      BY <2>6
    <3> QED
      BY <2>4, <2>6, <3>1, Zenon
  <2> QED
    BY <2>5, <2>6, Zenon
<1> QED
  BY <1>1, NameKept, PTL
-----------------------------------------------------------------------------
LEMMA CharAndDirectory ==
  UNICODE_NULL \notin Char /\ CurDir \subseteq Directory(Char)
  BY NameCharAssumption, CurDirAssumption DEF Directory

(***************************************************************************)
(* ComposedInBuffer of every name and current directory: what is put in    *)
(* front and the copy of the name come to the bytes that were asked for.   *)
(***************************************************************************)
THEOREM AlwaysComposedInBuffer == Spec => []ComposedInBuffer
  <1>1. ASSUME path \in Seq(Char) PROVE ComposedInBuffer
    <2> SUFFICES ASSUME Composable(path), Last(path) # Space, NEW cd \in CurDir
                 PROVE  /\ CutInside(path, cd)
                        /\ LengthInBytes(Composed(path, cd)) + SizeofWCHAR <= Needed(path, cd)
      BY DEF ComposedInBuffer
    <2>1. CharsKept(path) > 0 /\ cd \in Directory(Char) /\ UNICODE_NULL \notin Char
      BY CharAndDirectory DEF Composable
    <2>2. /\ CutInside(path, cd)
          /\ Needed(path, cd) = LengthInBytes(Composed(path, cd)) + SizeofWCHAR
      BY <1>1, <2>1, ComposedIs
    <2>3. Len(Composed(path, cd)) \in Nat
      BY <1>1, <2>1, ComposedType
    <2>. QED
      BY <2>2, <2>3, SizeofWCHARAssumption DEF LengthInBytes
  <1>. QED
    BY <1>1, NameKept, PTL
-----------------------------------------------------------------------------
\* The two answers of a size and what a caller makes of them.
Settled(s, cd, Size) ==
  LET answer == RtlGetFullPathName_Ustr(s, Size, cd)
      again  == RtlGetFullPathName_Ustr(s, answer, cd)
  IN  /\ answer # Size
      /\ answer > Size => again > 0 /\ again < answer

LEMMA DeviceSettled ==
  ASSUME NEW S, NEW s \in Seq(S), RtlIsDosDeviceName_Ustr(s) # 0, NEW cd, NEW Size \in Int
  PROVE  Settled(s, cd, Size)
  <1> DEFINE dos == RtlIsDosDeviceName_Ustr(s)
             full == LOWORD(dos) + LengthInBytes(DeviceRootString)
  <1>1. CharsKept(s) > 0 /\ CharsKept(s) # 0 /\ dos \in Int
    BY DeviceKept, CopiedInside
  <1>2. \A n : RtlGetFullPathName_Ustr(s, n, cd) = IF full < n THEN full ELSE full + SizeofWCHAR
    BY <1>1 DEF RtlGetFullPathName_Ustr, AnswerDevice
  <1> HIDE DEF dos
  <1>3. full \in Nat \ {0}
    BY <1>1, SizeofWCHARAssumption DEF LOWORD, LengthInBytes, DeviceRootString
  <1> HIDE DEF full
  <1>. QED
    BY <1>2, <1>3, SizeofWCHARAssumption DEF Settled

LEMMA PathSettled ==
  ASSUME NEW S, UNICODE_NULL \notin S, NEW s \in Seq(S), NEW cd \in Directory(S),
         CharsKept(s) > 0, RtlIsDosDeviceName_Ustr(s) = 0, Last(s) # Space, NEW Size \in Int
  PROVE  Settled(s, cd, Size)
  <1> DEFINE need == Needed(s, cd)
             length == LengthInBytes(Full(s, cd))
  <1>1. \A n : RtlGetFullPathName_Ustr(s, n, cd) = IF need > n THEN need ELSE length
    <2>1. CharsKept(s) # 0
      BY CopiedInside
    <2>. QED
      BY <2>1 DEF RtlGetFullPathName_Ustr, AnswerPath
  <1>2. CutInside(s, cd) /\ need = LengthInBytes(Composed(s, cd)) + SizeofWCHAR
    BY ComposedIs
  <1>3. Len(Full(s, cd)) \in 1..Len(Composed(s, cd)) /\ Len(Composed(s, cd)) \in Nat
    BY <1>2, FullIs, ComposedType
  <1>4. need \in Int /\ length \in Nat \ {0} /\ length < need
    BY <1>2, <1>3, SizeofWCHARAssumption DEF LengthInBytes
  <1> HIDE DEF need, length
  <1>. QED
    BY <1>1, <1>4 DEF Settled

(***************************************************************************)
(* AskedSizeIsEnough of every name, current directory and size: the length *)
(* of a path and the size asked for never come to the same number, and a   *)
(* collapse makes no path longer than what was put together for it.        *)
(***************************************************************************)
THEOREM AskedSizeAlwaysEnough == Spec => []AskedSizeIsEnough
  <1>1. ASSUME path \in Seq(Char) PROVE AskedSizeIsEnough
    <2> SUFFICES ASSUME NEW cd \in CurDir, Storable(path, cd), NEW Size \in Sizes(path, cd)
                 PROVE  Settled(path, cd, Size)
      BY DEF AskedSizeIsEnough, Settled
    <2>1. Size \in Int
      BY SizeofWCHARAssumption DEF Sizes
    <2>2. CASE RtlIsDosDeviceName_Ustr(path) # 0
      BY <1>1, <2>1, <2>2, DeviceSettled
    <2>3. CASE RtlIsDosDeviceName_Ustr(path) = 0
      <3>1. CharsKept(path) > 0 /\ Last(path) # Space
        BY <2>3 DEF Storable, Composable
      <3>2. cd \in Directory(Char) /\ UNICODE_NULL \notin Char
        BY CharAndDirectory
      <3>. QED
        BY <1>1, <2>1, <2>3, <3>1, <3>2, PathSettled
    <2>. QED
      BY <2>2, <2>3
  <1>. QED
    BY <1>1, NameKept, PTL
-----------------------------------------------------------------------------
(***************************************************************************)
(* What the full path starts with: as much of the marked part of what was  *)
(* put together as a separator in it protects.                             *)
(***************************************************************************)
LEMMA FullStarts ==
  ASSUME NEW S, UNICODE_NULL \notin S, NEW s \in Seq(S), NEW cd \in Directory(S),
         CutInside(s, cd), NEW i \in 1..Prefixed(s, cd).cut,
         IS_PATH_SEPARATOR(Composed(s, cd)[i]), NEW k \in 1..i
  PROVE  k <= Len(Full(s, cd)) /\ Full(s, cd)[k] = Converted(Composed(s, cd))[k]
  <1> DEFINE C == FullChar(S)
             text == Composed(s, cd)
             cut == Prefixed(s, cd).cut
             skip == SkipTrailingPathSeparators(s)
  <1>1. text \in Seq(C) /\ cut \in 0..Len(text) /\ BackSlash \in C
    <2>1. text \in Seq(C) /\ cut \in Nat /\ cut <= Len(text)
      BY ComposedType DEF CutInside
    <2>2. BackSlash \in C
      BY DEF FullChar
    <2>. QED
      BY <2>1, <2>2
  <1>2. Full(s, cd) = Collapsed(text, cut, skip)
    BY DEF Full
  <1>3. i \in 1..cut /\ IS_PATH_SEPARATOR(text[i]) /\ k \in 1..i
    OBVIOUS
  <1> HIDE DEF C, text, cut, skip
  <1>4. /\ Collapsed(text, cut, skip) \in Seq(C)
        /\ Len(Collapsed(text, cut, skip)) <= Len(text)
        /\ \A n \in 1..cut : IS_PATH_SEPARATOR(text[n]) => Len(Collapsed(text, cut, skip)) >= n
    BY <1>1, CollapsedIs, Zenon
  <1>5. Len(Collapsed(text, cut, skip)) >= i /\ Len(Collapsed(text, cut, skip)) \in Nat
    BY <1>3, <1>4
  <1>6. k \in 1..cut /\ k <= Len(Collapsed(text, cut, skip))
    BY <1>1, <1>3, <1>5
  <1>7. Collapsed(text, cut, skip)[k] = Converted(text)[k]
    BY <1>1, <1>6, CollapsedKeeps, Zenon
  <1>. QED
    BY <1>2, <1>6, <1>7 DEF text

\* A full path has an NT name unless it is \\. or \\?.
LEMMA NtNameUnless ==
  ASSUME NEW S, UNICODE_NULL \notin S, NEW full \in Seq(S),
         Len(full) # 3 \/ ~IS_PATH_SEPARATOR(full[2]) \/ full[3] \notin {Dot, QuestionMark}
  PROVE  HasNtName(full)
  <1>1. TypeOfString(full) = RtlDetermineDosPathNameType_Ustr(full)
    BY TypeIs
  <1>2. /\ TypeOfString(full) \in {"UncAbsolute", "LocalDevice", "DriveAbsolute", "Relative",
                                  "DriveRelative", "Rooted", "RootLocalDevice"}
        /\ TypeOfString(full) = "RootLocalDevice" => Len(full) = 3
    BY TypeIs, Zenon
  <1>3. TypeOfString(full) # "RootLocalDevice"
    <2> SUFFICES ASSUME RtlDetermineDosPathNameType_Ustr(full) = "RootLocalDevice", Len(full) = 3
                 PROVE  IS_PATH_SEPARATOR(full[2]) /\ full[3] \in {Dot, QuestionMark}
      BY <1>1, <1>2
    <2>. QED
      BY DEF RtlDetermineDosPathNameType_Ustr
  <1>4. TypeOfString(full) # "Unknown"
    BY <1>2
  <1>. QED
    BY <1>3, <1>4 DEF HasNtName

\* The characters a full path is made of are no terminators.
LEMMA NoTerminator ==
  ASSUME NEW S, UNICODE_NULL \notin S
  PROVE  UNICODE_NULL \notin FullChar(S)
  <1>1. \A c \in S : RtlpUpcaseUnicodeChar(c) # UNICODE_NULL
    <2>1. \A c \in DOMAIN UpperOf : UpperOf[c] # ""
      <3>1. DOMAIN UpperOf = {"a", "b", "c", "d", "e", "f", "g", "h", "i", "j", "k", "l", "m",
                              "n", "o", "p", "q", "r", "s", "t", "u", "v", "w", "x", "y", "z"}
        BY DEF UpperOf
      <3>2. /\ UpperOf.a # "" /\ UpperOf.b # "" /\ UpperOf.c # "" /\ UpperOf.d # ""
            /\ UpperOf.e # "" /\ UpperOf.f # "" /\ UpperOf.g # "" /\ UpperOf.h # ""
            /\ UpperOf.i # "" /\ UpperOf.j # "" /\ UpperOf.k # "" /\ UpperOf.l # ""
            /\ UpperOf.m # ""
        BY DEF UpperOf
      <3>3. /\ UpperOf.n # "" /\ UpperOf.o # "" /\ UpperOf.p # "" /\ UpperOf.q # ""
            /\ UpperOf.r # "" /\ UpperOf.s # "" /\ UpperOf.t # "" /\ UpperOf.u # ""
            /\ UpperOf.v # "" /\ UpperOf.w # "" /\ UpperOf.x # "" /\ UpperOf.y # ""
            /\ UpperOf.z # ""
        BY DEF UpperOf
      <3>. QED
        BY <3>1, <3>2, <3>3
    <2>. QED
      BY <2>1 DEF RtlpUpcaseUnicodeChar, UNICODE_NULL
  <1>2. UNICODE_NULL \notin {BackSlash, Slash, Dot, Colon, QuestionMark}
    BY DEF UNICODE_NULL, BackSlash, Slash, Dot, Colon, QuestionMark
  <1>. QED
    BY <1>1, <1>2 DEF FullChar

\* The separators behind the share are marked, when there are any.
LEMMA ShareIs ==
  ASSUME NEW S, NEW s \in Seq(S), Len(s) >= 2
  PROVE  \E i \in 2..Len(s) :
           /\ \A k \in 3..i : ~IS_PATH_SEPARATOR(s[k])
           /\ \/ i = Len(s) /\ RtlpSkipUNCPrefix(s) = Len(s)
              \/ i < Len(s) /\ IS_PATH_SEPARATOR(s[i + 1]) /\ RtlpSkipUNCPrefix(s) \in (i + 1)..Len(s)
  <1> DEFINE n == RtlpSkipUNCPrefix(s)
  <1>1. PICK i \in 2..Len(s) : \E j \in i..Len(s) :
               /\ n \in j..Len(s)
               /\ n = Len(s) \/ Sep(s, n)
               /\ i = Len(s) \/ Sep(s, i)
               /\ \A k \in 2..(i - 1) : ~Sep(s, k)
               /\ \A k \in i..(j - 1) : Sep(s, k)
               /\ \A k \in j..(n - 1) : ~Sep(s, k)
               /\ j = n => n = Len(s)
    BY PrefixIs, Zenon
  <1>2. PICK j \in i..Len(s) :
               /\ n \in j..Len(s)
               /\ n = Len(s) \/ Sep(s, n)
               /\ i = Len(s) \/ Sep(s, i)
               /\ \A k \in 2..(i - 1) : ~Sep(s, k)
               /\ \A k \in i..(j - 1) : Sep(s, k)
               /\ \A k \in j..(n - 1) : ~Sep(s, k)
               /\ j = n => n = Len(s)
    BY <1>1
  <1> HIDE DEF n
  <1>3. Len(s) \in Nat /\ \A k \in 0..(Len(s) - 1) : Sep(s, k) <=> IS_PATH_SEPARATOR(s[k + 1])
    BY DEF Sep, CharAt
  <1>4. \A k \in 3..i : ~IS_PATH_SEPARATOR(s[k])
    <2> SUFFICES ASSUME NEW k \in 3..i PROVE ~IS_PATH_SEPARATOR(s[k])
      OBVIOUS
    <2>1. k - 1 \in 2..(i - 1) /\ k - 1 \in 0..(Len(s) - 1) /\ (k - 1) + 1 = k
      BY <1>3
    <2>. QED
      BY <1>2, <1>3, <2>1
  <1>5. CASE i = Len(s)
    BY <1>2, <1>3, <1>4, <1>5 DEF n
  <1>6. CASE i < Len(s)
    <2>1. j > i
      <3> SUFFICES ASSUME j = i PROVE FALSE
        BY <1>2, <1>3
      <3>1. Sep(s, i)
        BY <1>2, <1>6
      <3>2. n = i
        BY <1>2, <1>3, <3>1
      <3>. QED
        BY <1>2, <1>6, <3>2
    <2>2. i \in i..(j - 1) /\ i \in 0..(Len(s) - 1)
      BY <1>2, <1>3, <1>6, <2>1
    <2>3. IS_PATH_SEPARATOR(s[i + 1]) /\ n \in (i + 1)..Len(s)
      BY <1>2, <1>3, <2>1, <2>2
    <2>. QED
      BY <1>4, <1>6, <2>3 DEF n
  <1>. QED
    BY <1>3, <1>5, <1>6

\* What was put together starts with what was put in front, or is the name's own start.
LEMMA ComposedStarts ==
  ASSUME NEW S, UNICODE_NULL \notin S, NEW s \in Seq(S), NEW cd \in Directory(S),
         CutInside(s, cd)
  PROVE  LET parts == Prefixed(s, cd)
         IN  /\ parts.cut <= Len(Composed(s, cd)) /\ parts.cut \in Nat
             /\ \A k \in 1..Len(parts.prefix) : Composed(s, cd)[k] = parts.prefix[k]
             /\ parts.prefix = <<>> /\ parts.source = 0
                  => \A k \in 1..parts.cut : Composed(s, cd)[k] = s[k]
  <1> DEFINE parts == Prefixed(s, cd)
             prefix == parts.prefix
             source == parts.source
             last == Min({CharsKept(s) + 1, Len(s)})
             rest == SubSeq(s, source + 1, last)
  <1>1. /\ prefix \in Seq(FullChar(S)) /\ source \in 0..Len(s) /\ parts.cut \in Nat
    BY PrefixedIs DEF Parts
  <1>2. Composed(s, cd) = prefix \o rest
    BY DEF Composed
  <1>3. parts.cut <= Len(prefix \o rest)
    BY <1>2 DEF CutInside
  <1>4. last \in 0..Len(s) /\ s \in Seq(FullChar(S))
    BY CopiedInside, CharsInFull
  <1> HIDE DEF last, source, prefix
  <1>5. /\ rest \in Seq(FullChar(S))
        /\ \A k \in 1..Len(rest) : rest[k] = s[k + source]
    BY <1>1, <1>4, SubSeqIs, Zenon
  <1> HIDE DEF rest
  <1>6. \A k \in 1..Len(prefix) : (prefix \o rest)[k] = prefix[k]
    BY <1>1, <1>5
  <1>7. ASSUME prefix = <<>>, source = 0, NEW k \in 1..parts.cut
        PROVE  (prefix \o rest)[k] = s[k]
    <2>1. prefix \o rest = rest
      BY <1>5, <1>7
    <2>2. k \in 1..Len(rest) /\ k + source = k
      BY <1>1, <1>3, <1>5, <1>7, <2>1
    <2>. QED
      BY <1>5, <2>1, <2>2
  <1>. QED
    BY <1>1, <1>2, <1>3, <1>6, <1>7 DEF prefix, source
-----------------------------------------------------------------------------
(***************************************************************************)
(* What a full path starts with tells its type: the drive, the device      *)
(* root, or a share, which is marked with the separator behind it.         *)
(***************************************************************************)

\* What each of them assumes of a name and a current directory.
FullFacts(S, s, cd) ==
  /\ UNICODE_NULL \notin S /\ s \in Seq(S) /\ cd \in Directory(S) /\ CutInside(s, cd)

\* Up to a marked separator, a full path only differs from what was put together
\* in the slashes it converts.
LEMMA FullStays ==
  ASSUME NEW S, NEW s, NEW cd, FullFacts(S, s, cd), NEW i \in 1..Prefixed(s, cd).cut,
         IS_PATH_SEPARATOR(Composed(s, cd)[i])
  PROVE  /\ Full(s, cd) \in Seq(FullChar(S)) /\ Len(Full(s, cd)) >= i /\ UNICODE_NULL \notin FullChar(S)
         /\ \A k \in 1..i :
              /\ IS_PATH_SEPARATOR(Full(s, cd)[k]) <=> IS_PATH_SEPARATOR(Composed(s, cd)[k])
              /\ ~IS_PATH_SEPARATOR(Composed(s, cd)[k]) => Full(s, cd)[k] = Composed(s, cd)[k]
  <1> DEFINE text == Composed(s, cd)
             full == Full(s, cd)
  <1>1. /\ UNICODE_NULL \notin S /\ s \in Seq(S) /\ cd \in Directory(S) /\ CutInside(s, cd)
    BY DEF FullFacts
  <1>2. full \in Seq(FullChar(S)) /\ text \in Seq(FullChar(S))
    BY <1>1, FullIs, ComposedType, Zenon
  <1>3. Prefixed(s, cd).cut \in Nat /\ Prefixed(s, cd).cut <= Len(text)
    BY <1>1, ComposedStarts
  <1>4. i \in 1..i /\ i \in Nat /\ i \in 1..Len(text)
    BY <1>3
  <1>5. \A k \in 1..i : k <= Len(full) /\ full[k] = Converted(text)[k]
    BY <1>1, FullStarts, Zenon
  <1> HIDE DEF text, full
  <1>6. \A k \in 1..i : Converted(text)[k] = IF text[k] = Slash THEN BackSlash ELSE text[k]
    BY <1>2, <1>4 DEF Converted
  <1>7. Len(full) >= i
    BY <1>2, <1>4, <1>5
  <1>8. ASSUME NEW k \in 1..i
        PROVE  /\ IS_PATH_SEPARATOR(full[k]) <=> IS_PATH_SEPARATOR(text[k])
               /\ ~IS_PATH_SEPARATOR(text[k]) => full[k] = text[k]
    BY <1>5, <1>6 DEF IS_PATH_SEPARATOR, BackSlash, Slash
  <1>. QED
    BY <1>1, <1>2, <1>7, <1>8, NoTerminator DEF text, full

\* With a drive or the device root in front.
LEMMA DriveTyped ==
  ASSUME NEW S, NEW s, NEW cd, FullFacts(S, s, cd),
         Prefixed(s, cd).cut = 3, Composed(s, cd)[2] = Colon, IS_PATH_SEPARATOR(Composed(s, cd)[3])
  PROVE  HasNtName(Full(s, cd))
  <1>1. 3 \in 1..Prefixed(s, cd).cut /\ 2 \in 1..3
    OBVIOUS
  <1>2. ~IS_PATH_SEPARATOR(Composed(s, cd)[2])
    BY DEF IS_PATH_SEPARATOR, Colon, BackSlash, Slash
  <1>3. /\ Full(s, cd) \in Seq(FullChar(S)) /\ UNICODE_NULL \notin FullChar(S)
        /\ ~IS_PATH_SEPARATOR(Full(s, cd)[2])
    BY <1>1, <1>2, FullStays
  <1>. QED
    BY <1>3, NtNameUnless

LEMMA DeviceTyped ==
  ASSUME NEW S, NEW s, NEW cd, FullFacts(S, s, cd),
         Prefixed(s, cd).cut = 4, IS_PATH_SEPARATOR(Composed(s, cd)[4])
  PROVE  HasNtName(Full(s, cd))
  <1>1. 4 \in 1..Prefixed(s, cd).cut
    OBVIOUS
  <1>2. Full(s, cd) \in Seq(FullChar(S)) /\ UNICODE_NULL \notin FullChar(S) /\ Len(Full(s, cd)) >= 4
    BY <1>1, FullStays
  <1>3. Len(Full(s, cd)) # 3
    <2> DEFINE full == Full(s, cd)
               C == FullChar(S)
    <2>1. full \in Seq(C) /\ Len(full) >= 4
      BY <1>2
    <2> HIDE DEF full, C
    <2>2. Len(full) \in Nat
      BY <2>1
    <2>3. \A n \in Nat : n >= 4 => n # 3
      OBVIOUS
    <2>. QED
      BY <2>1, <2>2, <2>3, Zenon DEF full
  <1>. QED
    BY <1>2, <1>3, NtNameUnless

\* With a share and a separator behind it in front.
LEMMA ShareTyped ==
  ASSUME NEW S, NEW s, NEW cd, FullFacts(S, s, cd),
         NEW d \in Seq(S), RtlDetermineDosPathNameType_Ustr(d) = "UncAbsolute",
         NEW i \in 2..(Len(d) - 1), \A k \in 3..i : ~IS_PATH_SEPARATOR(d[k]),
         IS_PATH_SEPARATOR(d[i + 1]),
         i + 1 <= Prefixed(s, cd).cut, \A k \in 1..(i + 1) : Composed(s, cd)[k] = d[k]
  PROVE  HasNtName(Full(s, cd))
  <1> DEFINE full == Full(s, cd)
             text == Composed(s, cd)
  <1>1. i + 1 \in 1..Prefixed(s, cd).cut /\ i + 1 \in 1..(i + 1) /\ Len(d) \in Nat /\ i \in Nat
    BY ComposedStarts DEF FullFacts
  <1>2. IS_PATH_SEPARATOR(text[i + 1])
    BY <1>1
  <1>3. /\ full \in Seq(FullChar(S)) /\ UNICODE_NULL \notin FullChar(S) /\ Len(full) >= i + 1
        /\ \A k \in 1..(i + 1) :
             /\ IS_PATH_SEPARATOR(full[k]) <=> IS_PATH_SEPARATOR(text[k])
             /\ ~IS_PATH_SEPARATOR(text[k]) => full[k] = text[k]
    BY <1>1, <1>2, FullStays
  <1> HIDE DEF full, text
  <1>4. 3 \in 1..(i + 1) /\ text[3] = d[3]
    BY <1>1 DEF text
  <1>5. CASE i = 2
    <2>1. IS_PATH_SEPARATOR(full[3])
      BY <1>1, <1>2, <1>3, <1>5
    <2>2. full[3] \notin {Dot, QuestionMark}
      BY <2>1 DEF IS_PATH_SEPARATOR, BackSlash, Slash, Dot, QuestionMark
    <2>. QED
      BY <1>3, <2>2, NtNameUnless DEF full
  <1>6. CASE i >= 3
    <2>1. Len(full) # 3
      BY <1>1, <1>3, <1>6
    <2>. QED
      BY <1>3, <2>1, NtNameUnless DEF full
  <1>. QED
    BY <1>1, <1>5, <1>6

\* A name that is nothing but a share is left as it is.
LEMMA WholeShareTyped ==
  ASSUME NEW S, NEW s, NEW cd, FullFacts(S, s, cd), CharsKept(s) > 0, Last(s) \notin {Dot, Space},
         TypeOfString(s) = "UncAbsolute", \A k \in 3..Len(s) : ~IS_PATH_SEPARATOR(s[k]),
         RtlpSkipUNCPrefix(s) = Len(s)
  PROVE  HasNtName(Full(s, cd))
  <1> DEFINE full == Full(s, cd)
             text == Composed(s, cd)
             C == FullChar(S)
  <1>1. /\ UNICODE_NULL \notin S /\ s \in Seq(S) /\ cd \in Directory(S) /\ CutInside(s, cd)
    BY DEF FullFacts
  <1>2. /\ Prefixed(s, cd).cut = Len(s) /\ Prefixed(s, cd).prefix = <<>> /\ Prefixed(s, cd).source = 0
    BY DEF Prefixed, From
  <1>3. Len(text) = Len(s) /\ Len(s) \in Nat /\ Len(s) >= 2
    <2>1. Min({CharsKept(s) + 1, Len(s)}) \in 0..Len(s)
      BY <1>1, CopiedInside
    <2>2. text = <<>> \o SubSeq(s, 1, Min({CharsKept(s) + 1, Len(s)}))
      BY <1>2 DEF Composed
    <2>3. Len(text) <= Len(s)
      BY <1>1, <2>1, <2>2
    <2>4. Len(text) >= Len(s) /\ Len(text) \in Nat
      BY <1>1, <1>2, ComposedStarts, ComposedType
    <2>5. Len(s) >= 2
      BY <1>1, TypeIs
    <2>. QED
      BY <1>1, <2>3, <2>4, <2>5
  <1>4. \A k \in 1..Len(s) : text[k] = s[k]
    BY <1>1, <1>2, ComposedStarts
  <1>5. text \in Seq(C) /\ BackSlash \in C /\ UNICODE_NULL \notin C
    BY <1>1, ComposedType, NoTerminator DEF FullChar
  <1>6. full = Collapsed(text, Len(text), SkipTrailingPathSeparators(s))
    BY <1>2, <1>3 DEF Full
  <1> HIDE DEF full, text, C
  <1>7. PICK kept, n : CutFrom(C, text, Len(text), full, kept, n)
    <2>1. Len(text) \in 0..Len(text)
      BY <1>3
    <2>. QED
      BY <1>5, <1>6, <2>1, CollapsedCut
  <1>8. /\ Len(kept) = Len(s) /\ \A k \in 1..Len(s) : kept[k] = IF s[k] = Slash THEN BackSlash ELSE s[k]
    <2>1. Len(kept) \in Len(text)..Len(text) /\ \A k \in 1..Len(text) : kept[k] = Converted(text)[k]
      BY <1>7 DEF CutFrom
    <2>2. \A k \in 1..Len(text) : Converted(text)[k] = IF text[k] = Slash THEN BackSlash ELSE text[k]
      BY <1>5 DEF Converted
    <2>. QED
      BY <1>3, <1>4, <2>1, <2>2
  <1>9. n = Len(s)
    <2>1. s[Len(s)] \notin {Dot, Space}
      BY <1>1, <1>3 DEF Last
    <2>2. kept[Len(s)] \notin {Space, Dot}
      <3>1. Len(s) \in 1..Len(s)
        BY <1>3
      <3>2. kept[Len(s)] = BackSlash \/ kept[Len(s)] = s[Len(s)]
        BY <1>8, <3>1
      <3>3. BackSlash \notin {Space, Dot}
        BY DEF BackSlash, Space, Dot
      <3>. QED
        BY <2>1, <3>2, <3>3
    <2>. QED
      BY <1>3, <1>7, <1>8, <2>2 DEF CutFrom
  <1>10. /\ full \in Seq(C) /\ Len(full) = Len(s)
         /\ \A k \in 1..Len(s) : full[k] = IF s[k] = Slash THEN BackSlash ELSE s[k]
    BY <1>3, <1>7, <1>8, <1>9 DEF CutFrom
  <1>11. Len(s) = 3 => s[3] \notin {Dot, QuestionMark}
    <2>1. RtlDetermineDosPathNameType_Ustr(s) = "UncAbsolute"
      BY <1>1, TypeIs
    <2>. QED
      BY <1>3, <2>1 DEF RtlDetermineDosPathNameType_Ustr
  <1>12. Len(full) = 3 => full[3] \notin {Dot, QuestionMark}
    BY <1>10, <1>11 DEF BackSlash, Dot, QuestionMark
  <1>. QED
    BY <1>5, <1>10, <1>12, NtNameUnless DEF full
-----------------------------------------------------------------------------
(***************************************************************************)
(* A path that starts with the marked part of the current directory.       *)
(***************************************************************************)
CurDirFirst(s, cd) ==
  /\ Prefixed(s, cd).cut = CurDirMark(cd)
  /\ CurDirMark(cd) <= Len(Prefixed(s, cd).prefix)
  /\ \A k \in 1..CurDirMark(cd) : Prefixed(s, cd).prefix[k] = cd[k]

\* What CurDirAssumption says of a current directory.
Nested(cd) ==
  /\ cd[Len(cd)] = BackSlash
  /\ cd[2] # Colon =>
       \E i \in 3..(Len(cd) - 1) :
         IS_PATH_SEPARATOR(cd[i]) /\ ~IS_PATH_SEPARATOR(cd[i + 1])

\* It is put in front of names that are relative or rooted.
LEMMA CurDirFirstIs ==
  ASSUME NEW S, NEW s, NEW cd, FullFacts(S, s, cd),
         \/ TypeOfString(s) \in {"Relative", "Rooted"}
         \/ TypeOfString(s) = "DriveRelative" /\ OnCurrentDrive(s, cd)
  PROVE  CurDirFirst(s, cd)
  <1>1. CurDirMark(cd) \in 2..Len(cd) /\ Len(cd) \in Nat /\ cd \in Seq(S)
    BY MarkInside DEF FullFacts
  <1>2. CASE TypeOfString(s) = "Rooted"
    <2>1. Prefixed(s, cd) = From(SubSeq(cd, 1, CurDirMark(cd)), 0, CurDirMark(cd))
      BY <1>2 DEF Prefixed
    <2>2. /\ Len(SubSeq(cd, 1, CurDirMark(cd))) = CurDirMark(cd)
          /\ \A k \in 1..CurDirMark(cd) : SubSeq(cd, 1, CurDirMark(cd))[k] = cd[k]
      BY <1>1
    <2>. QED
      BY <1>1, <2>1, <2>2 DEF CurDirFirst, From
  <1>3. CASE TypeOfString(s) # "Rooted"
    <2>1. /\ Prefixed(s, cd).prefix = cd /\ Prefixed(s, cd).cut = CurDirMark(cd)
      BY <1>3 DEF Prefixed, From, RelativeFromCurDir
    <2>. QED
      BY <1>1, <2>1 DEF CurDirFirst
  <1>. QED
    BY <1>2, <1>3

\* Then the type is that of the current directory.
LEMMA CurDirTyped ==
  ASSUME NEW S, NEW s, NEW cd, FullFacts(S, s, cd), CurDirFirst(s, cd), Nested(cd)
  PROVE  HasNtName(Full(s, cd))
  <1>1. /\ UNICODE_NULL \notin S /\ s \in Seq(S) /\ cd \in Directory(S) /\ CutInside(s, cd)
    BY DEF FullFacts
  <1>2. /\ cd \in Seq(S) /\ Len(cd) \in Nat /\ Len(cd) >= 3 /\ CurDirMark(cd) \in 2..Len(cd)
        /\ RtlDetermineDosPathNameType_Ustr(cd) \in {"DriveAbsolute", "UncAbsolute"}
    <2>1. TypeOfString(cd) = RtlDetermineDosPathNameType_Ustr(cd)
      BY <1>1, TypeIs DEF Directory
    <2>. QED
      BY <1>1, <2>1, MarkInside DEF Directory
  <1>3. \A k \in 1..CurDirMark(cd) : Composed(s, cd)[k] = cd[k]
    <2> SUFFICES ASSUME NEW k \in 1..CurDirMark(cd) PROVE Composed(s, cd)[k] = cd[k]
      OBVIOUS
    <2>1. Len(Prefixed(s, cd).prefix) \in Nat
      BY <1>1, PrefixedIs DEF Parts
    <2>2. k \in 1..Len(Prefixed(s, cd).prefix)
      BY <1>2, <2>1 DEF CurDirFirst
    <2>3. Composed(s, cd)[k] = Prefixed(s, cd).prefix[k]
      BY <1>1, <2>2, ComposedStarts
    <2>. QED
      BY <2>3 DEF CurDirFirst
  <1>4. CASE cd[2] = Colon
    <2>1. ~IS_PATH_SEPARATOR(cd[2])
      BY <1>4 DEF IS_PATH_SEPARATOR, Colon, BackSlash, Slash
    <2>2. IS_PATH_SEPARATOR(cd[3])
      BY <1>2, <2>1 DEF RtlDetermineDosPathNameType_Ustr
    <2>3. CurDirMark(cd) = 3
      BY <1>4 DEF CurDirMark
    <2>4. Prefixed(s, cd).cut = 3 /\ Composed(s, cd)[2] = Colon /\ IS_PATH_SEPARATOR(Composed(s, cd)[3])
      BY <1>3, <1>4, <2>2, <2>3 DEF CurDirFirst
    <2>. QED
      BY <2>4, DriveTyped
  <1>5. CASE cd[2] # Colon
    <2>1. RtlDetermineDosPathNameType_Ustr(cd) = "UncAbsolute"
      BY <1>2, <1>5 DEF RtlDetermineDosPathNameType_Ustr
    <2>2. CurDirMark(cd) = RtlpSkipUNCPrefix(cd)
      BY <1>5 DEF CurDirMark
    <2>3. PICK i \in 2..Len(cd) :
           /\ \A k \in 3..i : ~IS_PATH_SEPARATOR(cd[k])
           /\ \/ i = Len(cd) /\ RtlpSkipUNCPrefix(cd) = Len(cd)
              \/ i < Len(cd) /\ IS_PATH_SEPARATOR(cd[i + 1]) /\ RtlpSkipUNCPrefix(cd) \in (i + 1)..Len(cd)
      <3>1. Len(cd) >= 2
        BY <1>2
      <3>. QED
        BY <1>2, <3>1, ShareIs, Zenon
    <2>4. PICK l \in 3..(Len(cd) - 1) : IS_PATH_SEPARATOR(cd[l])
      BY <1>5 DEF Nested
    <2>5. i # Len(cd)
      BY <1>2, <2>3, <2>4
    <2>6. /\ i \in 2..(Len(cd) - 1) /\ IS_PATH_SEPARATOR(cd[i + 1])
          /\ i + 1 <= Prefixed(s, cd).cut
          /\ \A k \in 1..(i + 1) : Composed(s, cd)[k] = cd[k]
      BY <1>2, <1>3, <2>2, <2>3, <2>5 DEF CurDirFirst
    <2>. QED
      BY <1>2, <2>1, <2>3, <2>6, ShareTyped
  <1>. QED
    BY <1>4, <1>5

\* So does every current directory the runs and theorems speak of.
LEMMA AllNested == \A cd \in CurDir : Nested(cd)
  BY CurDirAssumption DEF Nested

\* Every type of name.
LEMMA FullTyped ==
  ASSUME NEW S, NEW s, NEW cd, FullFacts(S, s, cd), Nested(cd),
         CharsKept(s) > 0, Last(s) \notin {Dot, Space}
  PROVE  HasNtName(Full(s, cd))
  <1> DEFINE type == TypeOfString(s)
             text == Composed(s, cd)
             parts == Prefixed(s, cd)
  <1>1. /\ UNICODE_NULL \notin S /\ s \in Seq(S) /\ cd \in Directory(S) /\ CutInside(s, cd)
    BY DEF FullFacts
  <1>2. /\ type = RtlDetermineDosPathNameType_Ustr(s)
        /\ type \in {"UncAbsolute", "LocalDevice", "DriveAbsolute", "Relative",
                     "DriveRelative", "Rooted", "RootLocalDevice"}
    BY <1>1, TypeIs, Zenon
  <1>3. /\ \A k \in 1..Len(parts.prefix) : text[k] = parts.prefix[k]
        /\ parts.prefix = <<>> /\ parts.source = 0 => \A k \in 1..parts.cut : text[k] = s[k]
    BY <1>1, ComposedStarts
  <1> HIDE DEF text
  <1>4. CASE type = "UncAbsolute"
    <2>1. parts = From(<<>>, 0, RtlpSkipUNCPrefix(s))
      BY <1>4 DEF Prefixed
    <2>2. \A k \in 1..RtlpSkipUNCPrefix(s) : text[k] = s[k]
      BY <1>3, <2>1 DEF From
    <2>3. Len(s) \in Nat /\ Len(s) >= 2
      BY <1>1, <1>4, TypeIs
    <2>4. PICK i \in 2..Len(s) :
           /\ \A k \in 3..i : ~IS_PATH_SEPARATOR(s[k])
           /\ \/ i = Len(s) /\ RtlpSkipUNCPrefix(s) = Len(s)
              \/ i < Len(s) /\ IS_PATH_SEPARATOR(s[i + 1]) /\ RtlpSkipUNCPrefix(s) \in (i + 1)..Len(s)
      BY <1>1, <2>3, ShareIs, Zenon
    <2>5. CASE i = Len(s)
      <3>1. RtlpSkipUNCPrefix(s) = Len(s) /\ \A k \in 3..Len(s) : ~IS_PATH_SEPARATOR(s[k])
        BY <2>3, <2>4, <2>5
      <3>. QED
        BY <1>4, <3>1, WholeShareTyped
    <2>6. CASE i < Len(s)
      <3>1. /\ i \in 2..(Len(s) - 1) /\ IS_PATH_SEPARATOR(s[i + 1])
            /\ i + 1 <= parts.cut
            /\ \A k \in 1..(i + 1) : text[k] = s[k]
        BY <2>1, <2>2, <2>3, <2>4, <2>6 DEF From
      <3>. QED
        BY <1>1, <1>2, <1>4, <2>4, <3>1, ShareTyped DEF text
    <2>. QED
      BY <2>3, <2>4, <2>5, <2>6
  <1>5. CASE type = "LocalDevice"
    <2>1. parts = From(<<>>, 0, 4)
      BY <1>5 DEF Prefixed, DeviceMark
    <2>2. IS_PATH_SEPARATOR(s[4])
      BY <1>1, <1>2, <1>5, TypeIs DEF RtlDetermineDosPathNameType_Ustr
    <2>3. parts.cut = 4 /\ IS_PATH_SEPARATOR(text[4])
      BY <1>3, <2>1, <2>2 DEF From
    <2>. QED
      BY <2>3, DeviceTyped DEF text
  <1>6. CASE type = "RootLocalDevice"
    <2>1. parts = From(DeviceRootString, 3, 4)
      BY <1>6 DEF Prefixed, DeviceRoot, DeviceMark
    <2>2. 4 \in 1..Len(DeviceRootString) /\ IS_PATH_SEPARATOR(DeviceRootString[4])
      BY DEF DeviceRootString, IS_PATH_SEPARATOR, BackSlash
    <2>3. parts.cut = 4 /\ IS_PATH_SEPARATOR(text[4])
      BY <1>3, <2>1, <2>2 DEF From
    <2>. QED
      BY <2>3, DeviceTyped DEF text
  <1>7. CASE type = "DriveAbsolute"
    <2>1. parts = From(SubSeq(s, 1, 3), 3, 3) /\ Len(s) >= 3
      BY <1>1, <1>7, TypeIs DEF Prefixed
    <2>2. s[2] = Colon /\ IS_PATH_SEPARATOR(s[3])
      BY <1>2, <1>7, <2>1 DEF RtlDetermineDosPathNameType_Ustr
    <2>3. Len(SubSeq(s, 1, 3)) = 3 /\ SubSeq(s, 1, 3)[2] = s[2] /\ SubSeq(s, 1, 3)[3] = s[3]
      BY <1>1, <2>1
    <2>4. parts.cut = 3 /\ text[2] = Colon /\ IS_PATH_SEPARATOR(text[3])
      BY <1>3, <2>1, <2>2, <2>3 DEF From
    <2>. QED
      BY <2>4, DriveTyped DEF text
  <1>8. CASE type = "DriveRelative" /\ ~OnCurrentDrive(s, cd)
    <2>1. parts = From(<<RtlpUpcaseUnicodeChar(s[1]), Colon, BackSlash>>, 2, 3)
      BY <1>8 DEF Prefixed
    <2>2. parts.cut = 3 /\ text[2] = Colon /\ text[3] = BackSlash
      BY <1>3, <2>1 DEF From
    <2>. QED
      BY <2>2, DriveTyped DEF text, IS_PATH_SEPARATOR
  <1>9. CASE type \in {"Relative", "Rooted"} \/ (type = "DriveRelative" /\ OnCurrentDrive(s, cd))
    BY <1>9, CurDirFirstIs, CurDirTyped
  <1>. QED
    BY <1>2, <1>4, <1>5, <1>6, <1>7, <1>8, <1>9

(***************************************************************************)
(* ExpectedType of every name and current directory: the part of the path  *)
(* that its type is read from is marked, and a separator behind it keeps   *)
(* the trim away, unless the name is a share and nothing else.             *)
(***************************************************************************)
THEOREM AlwaysExpectedType == Spec => []ExpectedType
  <1>1. ASSUME path \in Seq(Char) PROVE ExpectedType
    <2> SUFFICES ASSUME Composable(path), Last(path) \notin {Dot, Space}, NEW cd \in CurDir
                 PROVE  HasNtName(Full(path, cd))
      BY DEF ExpectedType
    <2>1. CharsKept(path) > 0 /\ cd \in Directory(Char) /\ UNICODE_NULL \notin Char
      BY CharAndDirectory DEF Composable
    <2>2. CutInside(path, cd)
      BY <1>1, <2>1, ComposedIs
    <2>. QED
      BY <1>1, <2>1, <2>2, AllNested, FullTyped DEF FullFacts
  <1>. QED
    BY <1>1, NameKept, PTL
-----------------------------------------------------------------------------
(***************************************************************************)
(* The root of a current directory: the marked part, and on a share the    *)
(* separator behind it.                                                    *)
(***************************************************************************)
LEMMA ShareMarked ==
  ASSUME NEW S, UNICODE_NULL \notin S, NEW cd \in Directory(S), Nested(cd), cd[2] # Colon
  PROVE  /\ CurDirMark(cd) = ShareEnd(cd) /\ ShareEnd(cd) \in 3..(Len(cd) - 1)
         /\ ~IS_PATH_SEPARATOR(cd[ShareEnd(cd)]) /\ IS_PATH_SEPARATOR(cd[ShareEnd(cd) + 1])
  <1> DEFINE n == RtlpSkipUNCPrefix(cd)
             T == {l \in 3..(Len(cd) - 1) :
                     /\ ~IS_PATH_SEPARATOR(cd[l]) /\ IS_PATH_SEPARATOR(cd[l + 1])
                     /\ \E k \in 3..l : IS_PATH_SEPARATOR(cd[k])}
  <1>1. /\ cd \in Seq(S) /\ Len(cd) \in Nat /\ Len(cd) >= 3 /\ Len(cd) >= 2
        /\ IS_PATH_SEPARATOR(cd[Len(cd)])
    <2>1. cd[Len(cd)] = BackSlash
      BY DEF Nested
    <2>. QED
      BY <2>1 DEF Directory, IS_PATH_SEPARATOR
  <1>2. PICK i \in 2..Len(cd) : \E j \in i..Len(cd) :
             /\ n \in j..Len(cd)
             /\ n = Len(cd) \/ Sep(cd, n)
             /\ i = Len(cd) \/ Sep(cd, i)
             /\ \A k \in 2..(i - 1) : ~Sep(cd, k)
             /\ \A k \in i..(j - 1) : Sep(cd, k)
             /\ \A k \in j..(n - 1) : ~Sep(cd, k)
             /\ j = n => n = Len(cd)
    BY <1>1, PrefixIs, Zenon
  <1>3. PICK j \in i..Len(cd) :
             /\ n \in j..Len(cd)
             /\ n = Len(cd) \/ Sep(cd, n)
             /\ i = Len(cd) \/ Sep(cd, i)
             /\ \A k \in 2..(i - 1) : ~Sep(cd, k)
             /\ \A k \in i..(j - 1) : Sep(cd, k)
             /\ \A k \in j..(n - 1) : ~Sep(cd, k)
             /\ j = n => n = Len(cd)
    BY <1>2
  <1>4. CurDirMark(cd) = n /\ ShareEnd(cd) = Min(T)
    BY DEF CurDirMark, ShareEnd
  <1> HIDE DEF n
  <1>5. \A k \in 1..Len(cd) : Sep(cd, k - 1) <=> IS_PATH_SEPARATOR(cd[k])
    BY <1>1 DEF Sep, CharAt
  <1>6. PICK a \in 3..(Len(cd) - 1) : Sep(cd, a - 1) /\ ~Sep(cd, a)
    <2>1. PICK a \in 3..(Len(cd) - 1) : IS_PATH_SEPARATOR(cd[a]) /\ ~IS_PATH_SEPARATOR(cd[a + 1])
      BY DEF Nested
    <2>2. a \in 1..Len(cd) /\ a + 1 \in 1..Len(cd) /\ (a + 1) - 1 = a
      BY <1>1
    <2>. QED
      BY <1>5, <2>1, <2>2
  <1>7. i <= a - 1
    <2> SUFFICES ASSUME i > a - 1 PROVE FALSE
      BY <1>1
    <2>1. a - 1 \in 2..(i - 1)
      BY <1>1
    <2>. QED
      BY <1>3, <1>6, <2>1
  <1>8. j <= a
    <2> SUFFICES ASSUME j > a PROVE FALSE
      BY <1>1
    <2>1. a \in i..(j - 1)
      BY <1>1, <1>7
    <2>. QED
      BY <1>3, <1>6, <2>1
  <1>9. j < n /\ n < Len(cd) /\ i < j
    <2>1. j < n
      BY <1>1, <1>3, <1>8
    <2>2. n # Len(cd)
      <3> SUFFICES ASSUME n = Len(cd) PROVE FALSE
        OBVIOUS
      <3>1. Len(cd) - 1 \in j..(n - 1) /\ Len(cd) \in 1..Len(cd)
        BY <1>1, <2>1
      <3>. QED
        BY <1>1, <1>3, <1>5, <3>1
    <2>3. i # j
      <3> SUFFICES ASSUME i = j PROVE FALSE
        OBVIOUS
      <3>1. i \in j..(n - 1) /\ i # Len(cd)
        BY <1>1, <1>3, <2>1
      <3>. QED
        BY <1>3, <3>1
    <2>. QED
      BY <1>1, <1>3, <2>1, <2>2, <2>3
  <1>10. n \in T
    <2>1. n \in 3..(Len(cd) - 1) /\ n - 1 \in j..(n - 1) /\ i + 1 \in 3..n
      BY <1>1, <1>3, <1>9
    <2>2. ~Sep(cd, n - 1) /\ Sep(cd, n) /\ Sep(cd, i)
      BY <1>3, <1>7, <1>9, <2>1
    <2>3. /\ n \in 1..Len(cd) /\ n + 1 \in 1..Len(cd) /\ (n + 1) - 1 = n
          /\ i + 1 \in 1..Len(cd) /\ (i + 1) - 1 = i
      BY <1>1, <2>1
    <2>. QED
      BY <1>5, <2>1, <2>2, <2>3
  <1>11. ASSUME NEW l \in T PROVE n <= l
    <2> SUFFICES ASSUME l < n PROVE FALSE
      BY <1>1, <1>3
    <2>1. PICK k \in 3..l : IS_PATH_SEPARATOR(cd[k])
      OBVIOUS
    <2>2. /\ l \in 1..Len(cd) /\ l + 1 \in 1..Len(cd) /\ (l + 1) - 1 = l
          /\ k \in 1..Len(cd)
      BY <1>1
    <2>3. ~Sep(cd, l - 1) /\ Sep(cd, l) /\ Sep(cd, k - 1)
      BY <1>5, <2>1, <2>2
    <2>4. i <= k - 1
      <3> SUFFICES ASSUME i > k - 1 PROVE FALSE
        BY <1>1
      <3>1. k - 1 \in 2..(i - 1)
        BY <1>1
      <3>. QED
        BY <1>3, <2>3, <3>1
    <2>5. j <= l - 1
      <3> SUFFICES ASSUME j > l - 1 PROVE FALSE
        BY <1>1
      <3>1. l - 1 \in i..(j - 1)
        BY <1>1, <2>4
      <3>. QED
        BY <1>3, <2>3, <3>1
    <2>6. l \in j..(n - 1)
      BY <1>1, <1>3, <2>5
    <2>. QED
      BY <1>3, <2>3, <2>6
  <1>12. T \in SUBSET Nat
    BY <1>1
  <1>13. n \in Nat /\ /\ n \in 3..(Len(cd) - 1)
         /\ ~IS_PATH_SEPARATOR(cd[n]) /\ IS_PATH_SEPARATOR(cd[n + 1])
    BY <1>10
  <1> HIDE DEF T
  <1>14. Min(T) \in T /\ \A k \in T : Min(T) <= k
    BY <1>10, <1>12, MinIs, Zenon
  <1>15. Min(T) = n
    <2>1. n <= Min(T) /\ Min(T) <= n /\ Min(T) \in Nat
      BY <1>10, <1>11, <1>12, <1>14
    <2>. QED
      BY <1>13, <2>1
  <1>. QED
    BY <1>4, <1>13, <1>15

\* What is cut in front of spaces and dots from a string and more is the string, trimmed.
LEMMA TrimmedAgain ==
  ASSUME NEW S, NEW root \in Seq(S), NEW kept \in Seq(S), Len(root) <= Len(kept),
         \A k \in 1..Len(root) : kept[k] = root[k],
         NEW n \in 0..Len(root), n = 0 \/ kept[n] \notin {Space, Dot},
         \A k \in (n + 1)..Len(kept) : kept[k] \in {Space, Dot}
  PROVE  SubSeq(kept, 1, n) = Trimmed(root, {Space, Dot}, 0)
  <1>1. Len(root) \in Nat /\ Len(kept) \in Nat /\ 0 \in 0..Len(root)
    OBVIOUS
  <1>2. PICK t \in 0..Len(root) :
          /\ Trimmed(root, {Space, Dot}, 0) = SubSeq(root, 1, t)
          /\ t = 0 \/ root[t] \notin {Space, Dot}
          /\ \A i \in (t + 1)..Len(root) : root[i] \in {Space, Dot}
    BY <1>1, TrimmedIs, Zenon
  <1>3. t = n
    <2>1. CASE t < n
      <3>1. n \in (t + 1)..Len(root) /\ n \in 1..Len(root) /\ n # 0
        BY <1>1, <2>1
      <3>. QED
        BY <1>2, <3>1
    <2>2. CASE n < t
      <3>1. t \in (n + 1)..Len(kept) /\ t \in 1..Len(root) /\ t # 0
        BY <1>1, <2>2
      <3>. QED
        BY <1>2, <3>1
    <2>. QED
      BY <1>1, <2>1, <2>2
  <1>4. SubSeq(kept, 1, n) = SubSeq(root, 1, n)
    <2>1. \A k \in 1..n : k \in 1..Len(root) /\ k \in 1..Len(kept)
      BY <1>1
    <2>. QED
      BY <1>1, <2>1
  <1>. QED
    BY <1>2, <1>3, <1>4

\* A string starts with what it agrees with, character by character.
LEMMA PrefixOf ==
  ASSUME NEW S, NEW full \in Seq(S), NEW root \in Seq(S), Len(root) <= Len(full),
         \A k \in 1..Len(root) : full[k] = root[k]
  PROVE  IsPrefix(root, full)
  <1>1. Len(root) \in Nat /\ Len(full) \in Nat
    OBVIOUS
  <1>2. SubSeq(root, 1, Len(root)) = SubSeq(full, 1, Len(root))
    BY <1>1
  <1>. QED
    BY <1>1, <1>2 DEF IsPrefix

(***************************************************************************)
(* What a path that starts from the current directory is collapsed from:   *)
(* its marked part, as it is in the current directory.                     *)
(***************************************************************************)
FromMark(S, text, cd, full, kept, n) ==
  /\ text \in Seq(S) /\ CurDirMark(cd) \in 2..Len(text)
  /\ CutFrom(S, text, CurDirMark(cd), full, kept, n)
  /\ Converted(cd) \in Seq(S) /\ Len(Converted(cd)) = Len(cd)
  /\ \A k \in 1..CurDirMark(cd) : Converted(text)[k] = Converted(cd)[k]

LEMMA FullFromMark ==
  ASSUME NEW S, NEW s, NEW cd, FullFacts(S, s, cd), CurDirFirst(s, cd)
  PROVE  \E kept, n : FromMark(FullChar(S), Composed(s, cd), cd, Full(s, cd), kept, n)
  <1> DEFINE text == Composed(s, cd)
             full == Full(s, cd)
             cut == CurDirMark(cd)
             C == FullChar(S)
  <1>1. /\ UNICODE_NULL \notin S /\ s \in Seq(S) /\ cd \in Directory(S) /\ CutInside(s, cd)
    BY DEF FullFacts
  <1>2. cd \in Seq(C) /\ cut \in 2..Len(cd) /\ Len(cd) \in Nat /\ BackSlash \in C
    <2>1. cd \in Seq(S) /\ cut \in 2..Len(cd) /\ Len(cd) \in Nat
      BY <1>1, MarkInside
    <2>2. BackSlash \in C
      BY DEF FullChar
    <2>. QED
      BY <2>1, <2>2, CharsInFull
  <1>3. text \in Seq(C) /\ cut <= Len(text) /\ Prefixed(s, cd).cut = cut
    BY <1>1, ComposedType, ComposedStarts DEF CurDirFirst
  <1>4. \A k \in 1..cut : text[k] = cd[k]
    <2> SUFFICES ASSUME NEW k \in 1..cut PROVE text[k] = cd[k]
      OBVIOUS
    <2>1. Len(Prefixed(s, cd).prefix) \in Nat
      BY <1>1, PrefixedIs DEF Parts
    <2>2. k \in 1..Len(Prefixed(s, cd).prefix)
      BY <1>2, <2>1 DEF CurDirFirst
    <2>3. text[k] = Prefixed(s, cd).prefix[k]
      BY <1>1, <2>2, ComposedStarts
    <2>. QED
      BY <2>3 DEF CurDirFirst
  <1>5. full = Collapsed(text, cut, SkipTrailingPathSeparators(s))
    BY <1>3 DEF Full
  <1> HIDE DEF text, full, cut, C
  <1>6. PICK kept, n : CutFrom(C, text, cut, full, kept, n)
    <2>1. cut \in 0..Len(text)
      BY <1>2, <1>3
    <2>. QED
      BY <1>2, <1>3, <1>5, <2>1, CollapsedCut
  <1>7. /\ Converted(cd) \in Seq(C) /\ Len(Converted(cd)) = Len(cd)
        /\ \A k \in 1..cut : Converted(text)[k] = Converted(cd)[k]
    <2>1. Converted(cd) \in Seq(C) /\ Len(Converted(cd)) = Len(cd)
      BY <1>2, ConvertedIs
    <2>2. \A k \in 1..cut : k \in 1..Len(cd) /\ k \in 1..Len(text)
      BY <1>2, <1>3
    <2>3. \A k \in 1..cut : Converted(text)[k] = Converted(cd)[k]
      BY <1>2, <1>3, <1>4, <2>2 DEF Converted
    <2>. QED
      BY <2>1, <2>3
  <1>8. cut \in 2..Len(text)
    BY <1>2, <1>3
  <1>. QED
    BY <1>3, <1>6, <1>7, <1>8 DEF FromMark, text, full, cut, C

\* On a drive the mark ends in a separator, which is not trimmed.
LEMMA FullOnDrive ==
  ASSUME NEW S, NEW s, NEW cd, FullFacts(S, s, cd), CurDirFirst(s, cd), cd[2] = Colon
  PROVE  IsPrefix(Root(cd), Full(s, cd))
  <1> DEFINE text == Composed(s, cd)
             full == Full(s, cd)
             C == FullChar(S)
  <1>1. PICK kept, n : FromMark(C, text, cd, full, kept, n)
    BY FullFromMark
  <1> HIDE DEF text, full, C
  <1>2. CurDirMark(cd) = 3 /\ RootEnd(cd) = 3
    BY DEF CurDirMark, RootEnd
  <1>3. /\ text \in Seq(C) /\ Len(text) \in Nat /\ Len(text) >= 3
        /\ kept \in Seq(C) /\ Len(kept) \in Nat /\ Len(kept) >= 3
        /\ \A k \in 1..3 : kept[k] = Converted(cd)[k]
        /\ n \in 0..Len(kept) /\ full = SubSeq(kept, 1, n) /\ full \in Seq(C) /\ Len(full) = n
        /\ \A k \in (n + 1)..Len(kept) : kept[k] \in {Space, Dot}
        /\ Converted(cd) \in Seq(C) /\ Len(Converted(cd)) = Len(cd)
    <2>1. /\ text \in Seq(C) /\ 3 \in 2..Len(text) /\ CutFrom(C, text, 3, full, kept, n)
          /\ Converted(cd) \in Seq(C) /\ Len(Converted(cd)) = Len(cd)
          /\ \A k \in 1..3 : Converted(text)[k] = Converted(cd)[k]
      BY <1>1, <1>2 DEF FromMark
    <2>2. /\ kept \in Seq(C) /\ Len(kept) \in 3..Len(text)
          /\ \A k \in 1..3 : kept[k] = Converted(text)[k]
          /\ n \in 0..Len(kept) /\ full = SubSeq(kept, 1, n) /\ full \in Seq(C) /\ Len(full) = n
          /\ \A k \in (n + 1)..Len(kept) : kept[k] \in {Space, Dot}
      BY <2>1, Zenon DEF CutFrom
    <2>3. Len(text) \in Nat /\ Len(text) >= 3 /\ Len(kept) \in Nat /\ Len(kept) >= 3
      BY <2>1, <2>2
    <2>4. \A k \in 1..3 : kept[k] = Converted(cd)[k]
      BY <2>1, <2>2
    <2>. QED
      BY <2>1, <2>2, <2>3, <2>4, Zenon
  <1>4. Converted(cd)[3] = BackSlash /\ Len(cd) \in Nat /\ Len(cd) >= 3
    <2>1. /\ cd \in Seq(S) /\ Len(cd) >= 3 /\ Len(cd) \in Nat
          /\ RtlDetermineDosPathNameType_Ustr(cd) \in {"DriveAbsolute", "UncAbsolute"}
      BY TypeIs DEF FullFacts, Directory
    <2>2. ~IS_PATH_SEPARATOR(cd[2])
      BY DEF IS_PATH_SEPARATOR, Colon, BackSlash, Slash
    <2>3. IS_PATH_SEPARATOR(cd[3])
      BY <2>1, <2>2 DEF RtlDetermineDosPathNameType_Ustr
    <2>. QED
      BY <2>1, <2>3 DEF Converted, IS_PATH_SEPARATOR
  <1>5. n >= 3
    <2> SUFFICES ASSUME n < 3 PROVE FALSE
      BY <1>3
    <2>1. 3 \in (n + 1)..Len(kept) /\ 3 \in 1..3
      BY <1>3
    <2>2. kept[3] \in {Space, Dot} /\ kept[3] = BackSlash
      BY <1>3, <1>4, <2>1
    <2>. QED
      BY <2>2 DEF Space, Dot, BackSlash
  <1>6. Root(cd) \in Seq(C) /\ Len(Root(cd)) = 3 /\ \A k \in 1..3 : Root(cd)[k] = Converted(cd)[k]
    BY <1>2, <1>3, <1>4 DEF Root
  <1>7. \A k \in 1..3 : full[k] = kept[k]
    BY <1>3, <1>5
  <1>8. IsPrefix(Root(cd), full)
    BY <1>3, <1>5, <1>6, <1>7, PrefixOf
  <1>. QED
    BY <1>8 DEF full

\* Behind the mark of a share there is the separator, of the name or of the directory.
LEMMA SeparatorBehind ==
  ASSUME NEW S, NEW s, NEW cd, FullFacts(S, s, cd), Nested(cd), cd[2] # Colon,
         CharsKept(s) > 0, TypeOfString(s) \in {"Relative", "Rooted"}
  PROVE  /\ CurDirMark(cd) \in 1..(Len(Composed(s, cd)) - 1)
         /\ Converted(Composed(s, cd))[CurDirMark(cd)] # BackSlash
         /\ Converted(Composed(s, cd))[CurDirMark(cd) + 1] = BackSlash
  <1> DEFINE text == Composed(s, cd)
             m == CurDirMark(cd)
             prefix == Prefixed(s, cd).prefix
             C == FullChar(S)
  <1>1. /\ UNICODE_NULL \notin S /\ s \in Seq(S) /\ cd \in Directory(S) /\ cd \in Seq(S)
        /\ Len(cd) \in Nat /\ Len(s) \in Nat
    BY DEF FullFacts, Directory
  <1>2. /\ m \in 3..(Len(cd) - 1) /\ ~IS_PATH_SEPARATOR(cd[m]) /\ IS_PATH_SEPARATOR(cd[m + 1])
    BY <1>1, ShareMarked
  <1>3. text \in Seq(C) /\ Len(text) \in Nat
    BY <1>1, ComposedType
  <1>4. m + 1 <= Len(text) /\ text[m] = cd[m] /\ IS_PATH_SEPARATOR(text[m + 1])
    <2>1. CASE TypeOfString(s) = "Relative"
      <3>1. prefix = cd
        BY <2>1 DEF Prefixed, RelativeFromCurDir, From
      <3>2. \A k \in 1..Len(cd) : text[k] = cd[k]
        BY <1>1, <3>1, ComposedStarts DEF FullFacts
      <3>3. Len(cd) <= Len(text)
        <4>1. text = cd \o SubSeq(s, Prefixed(s, cd).source + 1, Min({CharsKept(s) + 1, Len(s)}))
          BY <3>1 DEF Composed
        <4>2. Prefixed(s, cd).source = 0
          BY <2>1 DEF Prefixed, RelativeFromCurDir, From
        <4> DEFINE last == Min({CharsKept(s) + 1, Len(s)})
        <4>3. last \in 0..Len(s)
          BY <1>1, CopiedInside
        <4>4. text = cd \o SubSeq(s, 1, last)
          BY <4>1, <4>2
        <4> HIDE DEF last, text
        <4>5. SubSeq(s, 1, last) \in Seq(S)
          BY <1>1, <4>3
        <4>. QED
          BY <1>1, <4>4, <4>5
      <3> HIDE DEF text, m
      <3>4. m \in 1..Len(cd) /\ m + 1 \in 1..Len(cd) /\ m + 1 <= Len(text)
        BY <1>1, <1>2, <1>3, <3>3
      <3>. QED
        BY <1>2, <3>2, <3>4
    <2>2. CASE TypeOfString(s) = "Rooted"
      <3> DEFINE last == Min({CharsKept(s) + 1, Len(s)})
      <3>1. prefix = SubSeq(cd, 1, m) /\ Prefixed(s, cd).source = 0
        BY <2>2 DEF Prefixed, From
      <3>2. last \in 1..Len(s)
        <4> DEFINE U == {CharsKept(s) + 1, Len(s)}
        <4>1. CharsKept(s) \in 1..Len(s)
          <5>1. CharsKept(s) \in 0..Len(s)
            BY <1>1, CopiedInside, Zenon
          <5>. QED
            BY <1>1, <5>1
        <4>2. U \in SUBSET Nat /\ U # {} /\ \A u \in U : u >= 1
          BY <1>1, <4>1
        <4>3. Min(U) \in U
          BY <4>2, MinIs
        <4>. QED
          BY <1>1, <4>2, <4>3, CopiedInside
      <3>3. IS_PATH_SEPARATOR(s[1])
        <4>1. RtlDetermineDosPathNameType_Ustr(s) = "Rooted"
          BY <1>1, <2>2, TypeIs
        <4>. QED
          BY <4>1 DEF RtlDetermineDosPathNameType_Ustr
      <3>4. text = SubSeq(cd, 1, m) \o SubSeq(s, 1, last)
        BY <3>1 DEF Composed
      <3> HIDE DEF last, text, m
      <3>5. /\ Len(SubSeq(cd, 1, m)) = m /\ SubSeq(cd, 1, m)[m] = cd[m] /\ SubSeq(cd, 1, m) \in Seq(S)
            /\ Len(SubSeq(s, 1, last)) = last /\ SubSeq(s, 1, last)[1] = s[1] /\ SubSeq(s, 1, last) \in Seq(S)
        BY <1>1, <1>2, <3>2
      <3>6. Len(text) = m + last /\ text[m] = cd[m] /\ text[m + 1] = s[1]
        BY <1>2, <3>2, <3>4, <3>5
      <3>. QED
        BY <1>2, <3>2, <3>3, <3>6
    <2>. QED
      BY <2>1, <2>2
  <1>5. m \in 1..Len(text) /\ m + 1 \in 1..Len(text) /\ m \in 1..(Len(text) - 1)
    BY <1>1, <1>2, <1>3, <1>4
  <1>6. text[m] # Slash /\ text[m] # BackSlash /\ (text[m + 1] = Slash \/ text[m + 1] = BackSlash)
    BY <1>2, <1>4 DEF IS_PATH_SEPARATOR
  <1> HIDE DEF text, m
  <1>7. Converted(text)[m] # BackSlash /\ Converted(text)[m + 1] = BackSlash
    BY <1>3, <1>5, <1>6 DEF Converted
  <1>. QED
    BY <1>5, <1>7 DEF text, m

\* The names that Climbs counts are those that Ups and Downs count.
LEMMA ClimbsCounts ==
  ASSUME NEW names, Len(names) \in Nat, ~Climbs(names)
  PROVE  \A k \in 1..(Len(names) - 1) : Ups(names, k) <= Downs(names, k)
  <1> SUFFICES ASSUME NEW k \in 1..(Len(names) - 1) PROVE Ups(names, k) <= Downs(names, k)
    OBVIOUS
  <1>1. /\ UpNames(names) \cap (1..k) = {i \in 1..k : names[i] = <<Dot, Dot>>}
        /\ DownNames(names) \cap (1..k)
             = {i \in 1..k : names[i] \notin {<<>>, <<Dot>>, <<Dot, Dot>>}}
    BY DEF UpNames, DownNames
  <1>2. Ups(names, k) \in Nat /\ Downs(names, k) \in Nat
    <2>1. k \in Nat
      OBVIOUS
    <2>2. \A T : Cardinality(T \cap (1..k)) \in Nat
      BY <2>1, CountMore
    <2>. QED
      BY <2>2, Zenon DEF Ups, Downs
  <1>3. ~(Ups(names, k) > Downs(names, k))
    BY <1>1 DEF Climbs, Ups, Downs
  <1>. QED
    BY <1>2, <1>3

\* On a share the separator behind the mark stays, and what is trimmed is trimmed of the mark.
LEMMA FullOnShare ==
  ASSUME NEW S, NEW s, NEW cd, FullFacts(S, s, cd), CurDirFirst(s, cd), Nested(cd), cd[2] # Colon,
         CharsKept(s) > 0, TypeOfString(s) \in {"Relative", "Rooted"}, ~Climbs(NamesBehind(s, cd))
  PROVE  \/ IsPrefix(Root(cd), Full(s, cd))
         \/ Full(s, cd) = Trimmed(Front(Root(cd)), {Space, Dot}, 0)
  <1> DEFINE text == Composed(s, cd)
             full == Full(s, cd)
             C == FullChar(S)
             m == CurDirMark(cd)
             left == LeftOf(text, m)
             root == Root(cd)
  <1>1. PICK kept, n : FromMark(C, text, cd, full, kept, n)
    BY FullFromMark
  <1>2. /\ m \in 1..(Len(text) - 1) /\ Converted(text)[m] # BackSlash /\ Converted(text)[m + 1] = BackSlash
    BY SeparatorBehind
  <1>3. /\ m = ShareEnd(cd) /\ m \in 3..(Len(cd) - 1) /\ IS_PATH_SEPARATOR(cd[m + 1])
        /\ cd \in Seq(S) /\ Len(cd) \in Nat
    BY ShareMarked DEF FullFacts, Directory
  <1>4. BackSlash \in C /\ NamesBehind(s, cd) = Split(RestPart(text, m))
    BY <1>3 DEF FullChar, NamesBehind, RestPart
  <1>5. full = Collapsed(text, m, SkipTrailingPathSeparators(s))
    BY DEF Full, CurDirFirst
  <1>6. root = SubSeq(Converted(cd), 1, m + 1)
    BY <1>3 DEF Root, RootEnd
  <1>7. Converted(cd)[m + 1] = BackSlash
    BY <1>3 DEF Converted, IS_PATH_SEPARATOR
  <1>8. \A k \in 1..(Len(Split(RestPart(text, m))) - 1) :
          Ups(Split(RestPart(text, m)), k) <= Downs(Split(RestPart(text, m)), k)
    <2>1. text \in Seq(C) /\ m \in 0..Len(text)
      BY <1>1, <1>2 DEF FromMark
    <2>2. RestPart(text, m) \in Seq(C)
      BY <1>4, <2>1, MarkedAndRestIs DEF MarkedAndRest
    <2>3. Len(Split(RestPart(text, m))) \in Nat
      BY <2>2, SplitIs DEF Lists
    <2>. QED
      BY <1>4, <2>3, ClimbsCounts
  <1> HIDE DEF text, full, C, m, root
  <1>9. /\ text \in Seq(C) /\ Len(text) \in Nat /\ m \in 0..Len(text)
        /\ kept \in Seq(C) /\ Len(kept) \in Nat /\ Len(kept) >= m
        /\ \A k \in 1..m : kept[k] = Converted(cd)[k] /\ Converted(text)[k] = Converted(cd)[k]
        /\ n \in 0..Len(kept) /\ full = SubSeq(kept, 1, n) /\ full \in Seq(C) /\ Len(full) = n
        /\ n = 0 \/ kept[n] \notin {Space, Dot}
        /\ \A k \in (n + 1)..Len(kept) : kept[k] \in {Space, Dot}
        /\ Converted(cd) \in Seq(C) /\ Len(Converted(cd)) = Len(cd)
    BY <1>1, <1>2 DEF FromMark, CutFrom, m
  <1>10. left = <<>> \/ left[1] = BackSlash
    BY <1>2, <1>4, <1>8, <1>9, LeftRooted
  <1>11. CollapseOf(C, text, m, left, full)
    <2>1. BackSlash \in C /\ text \in Seq(C) /\ m \in 0..Len(text)
      BY <1>4, <1>9
    <2>. QED
      BY <1>5, <2>1, CollapseIs
  <1> HIDE DEF left
  <1>m. m \in Nat /\ m + 1 <= Len(cd) /\ Len(Converted(cd)) = Len(cd) /\ Converted(cd) \in Seq(C)
    BY <1>3, <1>9
  <1>12. /\ root \in Seq(C) /\ Len(root) = m + 1 /\ \A k \in 1..(m + 1) : root[k] = Converted(cd)[k]
         /\ Front(root) = SubSeq(Converted(cd), 1, m)
    BY <1>6, <1>m DEF Front
  <1>13. CASE n > m
    <2>1. left # <<>>
      BY <1>3, <1>9, <1>11, <1>13 DEF CollapseOf
    <2>2. full[m + 1] = BackSlash
      <3>1. m + 1 \in 1..Len(full) /\ ~(m + 1 <= m) /\ (m + 1) - m = 1
        BY <1>9, <1>13, <1>m
      <3>2. full[m + 1] = left[(m + 1) - m]
        BY <1>11, <3>1 DEF CollapseOf
      <3>. QED
        BY <1>10, <2>1, <3>1, <3>2
    <2>3. \A k \in 1..m : full[k] = kept[k]
      BY <1>3, <1>9, <1>13
    <2>4. \A k \in 1..(m + 1) : full[k] = root[k]
      <3> SUFFICES ASSUME NEW k \in 1..(m + 1) PROVE full[k] = root[k]
        OBVIOUS
      <3>1. k \in 1..m \/ k = m + 1
        BY <1>3
      <3>. QED
        BY <1>7, <1>9, <1>12, <2>2, <2>3, <3>1
    <2>5. IsPrefix(root, full)
      <3>1. full \in Seq(C) /\ root \in Seq(C) /\ Len(root) <= Len(full)
        BY <1>9, <1>12, <1>13, <1>m
      <3>. QED
        BY <1>12, <2>4, <3>1, PrefixOf
    <2>. QED
      BY <2>5 DEF root, full
  <1>14. CASE n <= m
    <2> DEFINE marked == SubSeq(Converted(cd), 1, m)
    <2>1. marked \in Seq(C) /\ Len(marked) = m /\ \A k \in 1..m : marked[k] = Converted(cd)[k]
      BY <1>m
    <2> HIDE DEF marked
    <2>2. n \in 0..Len(marked) /\ \A k \in 1..Len(marked) : kept[k] = marked[k]
      <3>1. n \in 0..m /\ \A k \in 1..m : kept[k] = Converted(cd)[k]
        <4>1. n \in Nat /\ \A k \in 1..m : kept[k] = Converted(cd)[k]
          BY <1>9
        <4>. QED
          BY <1>m, <1>14, <4>1
      <3>. QED
        BY <2>1, <3>1
    <2>3. SubSeq(kept, 1, n) = Trimmed(marked, {Space, Dot}, 0)
      <3>1. /\ kept \in Seq(C) /\ Len(marked) <= Len(kept)
            /\ n = 0 \/ kept[n] \notin {Space, Dot}
            /\ \A k \in (n + 1)..Len(kept) : kept[k] \in {Space, Dot}
        BY <1>9, <2>1
      <3>. QED
        BY <2>1, <2>2, <3>1, TrimmedAgain
    <2>. QED
      BY <1>9, <1>12, <2>3 DEF root, full, marked
  <1>. QED
    BY <1>3, <1>9, <1>13, <1>14

(***************************************************************************)
(* RootKept of every name and current directory: C:\ is marked whole; of a *)
(* share the separator behind the mark is the first name that is entered,  *)
(* an empty one, and stays for as long as no ".." is left over for it.     *)
(***************************************************************************)
THEOREM RootAlwaysKept == Spec => []RootKept
  <1>1. ASSUME path \in Seq(Char) PROVE RootKept
    <2> SUFFICES ASSUME TypeOfString(path) \in {"Relative", "Rooted"}, Composable(path),
                        NEW cd \in CurDir, CutInside(path, cd)
                 PROVE  IF cd[2] = Colon THEN IsPrefix(Root(cd), Full(path, cd))
                        ELSE ~Climbs(NamesBehind(path, cd)) =>
                               \/ IsPrefix(Root(cd), Full(path, cd))
                               \/ Full(path, cd) = Trimmed(Front(Root(cd)), {Space, Dot}, 0)
      BY DEF RootKept
    <2>1. FullFacts(Char, path, cd) /\ CharsKept(path) > 0
      BY <1>1, CharAndDirectory DEF FullFacts, Composable
    <2>2. CurDirFirst(path, cd) /\ Nested(cd)
      BY <2>1, AllNested, CurDirFirstIs
    <2>3. CASE cd[2] = Colon
      BY <2>1, <2>2, <2>3, FullOnDrive
    <2>4. CASE cd[2] # Colon
      BY <2>1, <2>2, <2>4, FullOnShare
    <2>. QED
      BY <2>3, <2>4
  <1>. QED
    BY <1>1, NameKept, PTL
-----------------------------------------------------------------------------
(***************************************************************************)
(* The \\share\dir part of a path that starts with that of another one is  *)
(* at least as long, or all there is.                                      *)
(***************************************************************************)
LEMMA PrefixGrows ==
  ASSUME NEW S, NEW d \in Seq(S), NEW f \in Seq(S), Len(d) >= 2, Len(f) >= 2,
         \A k \in 1..RtlpSkipUNCPrefix(d) :
           k <= Len(f) => (IS_PATH_SEPARATOR(f[k]) <=> IS_PATH_SEPARATOR(d[k]))
  PROVE  /\ RtlpSkipUNCPrefix(f) \in 2..Len(f)
         /\ RtlpSkipUNCPrefix(f) = Len(f) \/ RtlpSkipUNCPrefix(f) >= RtlpSkipUNCPrefix(d)
  <1> DEFINE Parted(s, n, i, j) ==
               /\ i \in 2..Len(s) /\ j \in i..Len(s) /\ n \in j..Len(s)
               /\ n = Len(s) \/ Sep(s, n)
               /\ i = Len(s) \/ Sep(s, i)
               /\ \A k \in 2..(i - 1) : ~Sep(s, k)
               /\ \A k \in i..(j - 1) : Sep(s, k)
               /\ \A k \in j..(n - 1) : ~Sep(s, k)
               /\ j = n => n = Len(s)
             nd == RtlpSkipUNCPrefix(d)
             nf == RtlpSkipUNCPrefix(f)
  <1>1. PICK i1, j1 : Parted(d, nd, i1, j1)
    BY PrefixIs
  <1>2. PICK i2, j2 : Parted(f, nf, i2, j2)
    BY PrefixIs
  <1>3. \A k \in 1..nd : k <= Len(f) => (IS_PATH_SEPARATOR(f[k]) <=> IS_PATH_SEPARATOR(d[k]))
    OBVIOUS
  <1>4. Len(d) \in Nat /\ Len(f) \in Nat
    OBVIOUS
  <1> HIDE DEF nd, nf
  <1>5. nf \in 2..Len(f) /\ nd \in 2..Len(d)
    BY <1>1, <1>2, <1>4
  <1>6. ASSUME nf # Len(f), nf < nd PROVE FALSE
    <2>1. /\ nf < Len(f) /\ i2 < nf /\ j2 < nf /\ i2 < j2 /\ nf < Len(d)
          /\ Sep(f, nf) /\ Sep(f, i2)
      <3>1. nf < Len(f) /\ j2 # nf /\ Sep(f, nf) /\ nf < Len(d)
        BY <1>2, <1>4, <1>5, <1>6
      <3>2. j2 < nf /\ i2 \in 2..j2 /\ i2 # Len(f)
        BY <1>2, <1>4, <3>1
      <3>3. Sep(f, i2)
        BY <1>2, <3>2
      <3>4. i2 # j2
        <4> SUFFICES ASSUME i2 = j2 PROVE FALSE
          OBVIOUS
        <4>1. i2 \in j2..(nf - 1)
          BY <1>2, <1>4, <3>2
        <4>. QED
          BY <1>2, <3>3, <4>1
      <3>. QED
        BY <1>2, <1>4, <3>1, <3>2, <3>3, <3>4
    <2>2. \A k \in 2..nf : Sep(f, k) <=> Sep(d, k)
      <3> SUFFICES ASSUME NEW k \in 2..nf PROVE Sep(f, k) <=> Sep(d, k)
        OBVIOUS
      <3>1. k # Len(f) /\ k # Len(d) /\ k + 1 \in 1..nd /\ k + 1 <= Len(f)
        BY <1>4, <1>5, <1>6, <2>1
      <3>. QED
        BY <1>3, <3>1 DEF Sep, CharAt
    <2>3. i1 = i2
      <3>1. i1 <= i2
        <4> SUFFICES ASSUME i2 < i1 PROVE FALSE
          BY <1>1, <1>2, <1>4
        <4>1. i2 \in 2..(i1 - 1) /\ i2 \in 2..nf
          BY <1>1, <1>2, <1>4, <2>1
        <4>. QED
          BY <1>1, <2>1, <2>2, <4>1
      <3>2. ASSUME i1 < i2 PROVE FALSE
        <4>1. i1 \in 2..(i2 - 1) /\ i1 \in 2..nf /\ i1 # Len(d)
          BY <1>1, <1>2, <1>4, <2>1, <3>2
        <4>. QED
          BY <1>1, <1>2, <2>2, <4>1
      <3>. QED
        BY <1>1, <1>2, <1>4, <3>1, <3>2
    <2>4. j1 = j2
      <3>1. j1 <= j2
        <4> SUFFICES ASSUME j2 < j1 PROVE FALSE
          BY <1>1, <1>2, <1>4
        <4>1. j2 \in i1..(j1 - 1) /\ j2 \in 2..nf /\ j2 \in j2..(nf - 1)
          BY <1>1, <1>2, <1>4, <2>1, <2>3
        <4>. QED
          BY <1>1, <1>2, <2>2, <4>1
      <3>2. ASSUME j1 < j2 PROVE FALSE
        <4>1. j1 \in i2..(j2 - 1) /\ j1 \in 2..nf /\ j1 \in j1..(nd - 1)
          BY <1>1, <1>2, <1>4, <1>6, <2>1, <2>3, <3>2
        <4>. QED
          BY <1>1, <1>2, <2>2, <4>1
      <3>. QED
        BY <1>1, <1>2, <1>4, <3>1, <3>2
    <2>5. nf \in j1..(nd - 1) /\ nf \in 2..nf
      BY <1>1, <1>2, <1>4, <1>5, <1>6, <2>1, <2>4
    <2>. QED
      BY <1>1, <2>1, <2>2, <2>5
  <1>. QED
    BY <1>4, <1>5, <1>6 DEF nd, nf
-----------------------------------------------------------------------------
(***************************************************************************)
(* What a full path starts with: a drive, the root of the devices, or a    *)
(* share, of the name or of the current directory.                         *)
(***************************************************************************)
DriveRoot(full, cut) ==
  /\ cut = 3 /\ Len(full) >= 3
  /\ ~IS_PATH_SEPARATOR(full[1]) /\ full[2] = Colon /\ full[3] = BackSlash

RootOfDevices(full, cut) ==
  /\ cut = 4 /\ Len(full) >= 4
  /\ full[1] = BackSlash /\ full[2] = BackSlash
  /\ full[3] \in {Dot, QuestionMark} /\ full[4] = BackSlash

ShareRoot(S, d, full, cut) ==
  /\ d \in Seq(S) /\ Len(d) \in Nat /\ Len(d) >= 2 /\ TypeOfString(d) = "UncAbsolute"
  /\ cut = RtlpSkipUNCPrefix(d) /\ Len(full) >= 2
  /\ \A k \in 1..cut : k <= Len(full) => full[k] = Converted(d)[k]

\* The marked part is what it was, but for its slashes.
LEMMA FullKeeps ==
  ASSUME NEW S, NEW s, NEW cd, FullFacts(S, s, cd),
         NEW k \in 1..Prefixed(s, cd).cut, k <= Len(Full(s, cd))
  PROVE  /\ Composed(s, cd)[k] = Slash => Full(s, cd)[k] = BackSlash
         /\ Composed(s, cd)[k] # Slash => Full(s, cd)[k] = Composed(s, cd)[k]
  <1> DEFINE C == FullChar(S)
             text == Composed(s, cd)
             cut == Prefixed(s, cd).cut
             skip == SkipTrailingPathSeparators(s)
  <1>1. text \in Seq(C) /\ cut \in 0..Len(text) /\ BackSlash \in C
    <2>1. text \in Seq(C) /\ cut \in Nat /\ cut <= Len(text)
      BY ComposedType DEF FullFacts, CutInside
    <2>2. BackSlash \in C
      BY DEF FullChar
    <2>. QED
      BY <2>1, <2>2
  <1>2. Full(s, cd) = Collapsed(text, cut, skip)
    BY DEF Full
  <1>3. k \in 1..cut /\ k \in 1..Len(text)
    BY <1>1
  <1> HIDE DEF C, text, cut, skip
  <1>4. Full(s, cd)[k] = Converted(text)[k]
    BY <1>1, <1>2, <1>3, CollapsedKeeps
  <1>. QED
    BY <1>1, <1>3, <1>4 DEF Converted, text

\* So a marked drive root stays one.
LEMMA FullDrive ==
  ASSUME NEW S, NEW s, NEW cd, FullFacts(S, s, cd), Prefixed(s, cd).cut = 3,
         ~IS_PATH_SEPARATOR(Composed(s, cd)[1]), Composed(s, cd)[2] = Colon,
         IS_PATH_SEPARATOR(Composed(s, cd)[3])
  PROVE  DriveRoot(Full(s, cd), 3)
  <1> DEFINE full == Full(s, cd)
             text == Composed(s, cd)
  <1>1. /\ full \in Seq(FullChar(S)) /\ Len(full) >= 3
    BY FullStays
  <1>2. \A k \in 1..3 : /\ text[k] = Slash => full[k] = BackSlash
                        /\ text[k] # Slash => full[k] = text[k]
    <2> SUFFICES ASSUME NEW k \in 1..3
                 PROVE  /\ text[k] = Slash => full[k] = BackSlash
                        /\ text[k] # Slash => full[k] = text[k]
      OBVIOUS
    <2>1. k \in 1..Prefixed(s, cd).cut /\ k <= Len(full)
      BY <1>1
    <2>. QED
      BY <2>1, FullKeeps
  <1>3. ~IS_PATH_SEPARATOR(text[1]) /\ text[2] = Colon /\ IS_PATH_SEPARATOR(text[3])
    OBVIOUS
  <1> HIDE DEF full, text
  <1>4. ~IS_PATH_SEPARATOR(full[1]) /\ full[2] = Colon /\ full[3] = BackSlash
    BY <1>2, <1>3 DEF IS_PATH_SEPARATOR, Colon, BackSlash, Slash
  <1>. QED
    BY <1>1, <1>4 DEF DriveRoot, full

\* So does a marked device root.
LEMMA FullDevice ==
  ASSUME NEW S, NEW s, NEW cd, FullFacts(S, s, cd), Prefixed(s, cd).cut = 4,
         IS_PATH_SEPARATOR(Composed(s, cd)[1]), IS_PATH_SEPARATOR(Composed(s, cd)[2]),
         Composed(s, cd)[3] \in {Dot, QuestionMark}, IS_PATH_SEPARATOR(Composed(s, cd)[4])
  PROVE  RootOfDevices(Full(s, cd), 4)
  <1> DEFINE full == Full(s, cd)
             text == Composed(s, cd)
  <1>1. /\ full \in Seq(FullChar(S)) /\ Len(full) >= 4
    BY FullStays
  <1>2. \A k \in 1..4 : /\ text[k] = Slash => full[k] = BackSlash
                        /\ text[k] # Slash => full[k] = text[k]
    <2> SUFFICES ASSUME NEW k \in 1..4
                 PROVE  /\ text[k] = Slash => full[k] = BackSlash
                        /\ text[k] # Slash => full[k] = text[k]
      OBVIOUS
    <2>1. k \in 1..Prefixed(s, cd).cut /\ k <= Len(full)
      BY <1>1
    <2>. QED
      BY <2>1, FullKeeps
  <1>3. /\ IS_PATH_SEPARATOR(text[1]) /\ IS_PATH_SEPARATOR(text[2])
        /\ text[3] \in {Dot, QuestionMark} /\ IS_PATH_SEPARATOR(text[4])
    OBVIOUS
  <1> HIDE DEF full, text
  <1>4. /\ full[1] = BackSlash /\ full[2] = BackSlash /\ full[4] = BackSlash
        /\ full[3] = text[3]
    BY <1>2, <1>3 DEF IS_PATH_SEPARATOR, Dot, QuestionMark, BackSlash, Slash
  <1>. QED
    BY <1>1, <1>3, <1>4 DEF RootOfDevices, full

\* A path that starts as the marked part of a share's name does.
LEMMA FullShare ==
  ASSUME NEW S, NEW s, NEW cd, FullFacts(S, s, cd),
         NEW d \in Seq(S), TypeOfString(d) = "UncAbsolute",
         Prefixed(s, cd).cut = RtlpSkipUNCPrefix(d),
         \A k \in 1..Prefixed(s, cd).cut : Composed(s, cd)[k] = d[k]
  PROVE  ShareRoot(S, d, Full(s, cd), Prefixed(s, cd).cut)
  <1> DEFINE full == Full(s, cd)
             text == Composed(s, cd)
             cut == Prefixed(s, cd).cut
  <1>1. UNICODE_NULL \notin S /\ s \in Seq(S) /\ cd \in Directory(S)
    BY DEF FullFacts
  <1>2. Len(d) \in Nat /\ Len(d) >= 2 /\ TypeOfString(d) = RtlDetermineDosPathNameType_Ustr(d)
    BY <1>1, TypeIs
  <1>3. cut \in 2..Len(d)
    <2>1. PICK i \in 2..Len(d) : \E j \in i..Len(d) : RtlpSkipUNCPrefix(d) \in j..Len(d)
      BY <1>2, PrefixIs
    <2>. QED
      BY <1>2, <2>1
  <1>4. IS_PATH_SEPARATOR(d[2])
    BY <1>2 DEF RtlDetermineDosPathNameType_Ustr
  <1>5. full \in Seq(FullChar(S)) /\ Len(full) >= 2
    <2>1. 2 \in 1..cut /\ IS_PATH_SEPARATOR(text[2])
      BY <1>2, <1>3, <1>4
    <2>. QED
      BY <2>1, FullStays
  <1>6. ASSUME NEW k \in 1..cut, k <= Len(full) PROVE full[k] = Converted(d)[k]
    <2>1. /\ text[k] = Slash => full[k] = BackSlash
          /\ text[k] # Slash => full[k] = text[k]
      BY <1>6, FullKeeps
    <2>2. text[k] = d[k] /\ k \in 1..Len(d)
      BY <1>2, <1>3
    <2> HIDE DEF text, full, cut
    <2>. QED
      BY <2>1, <2>2 DEF Converted
  <1>. QED
    BY <1>2, <1>5, <1>6 DEF ShareRoot

\* No capital is a separator.
LEMMA UpcaseKeeps ==
  ASSUME NEW c, ~IS_PATH_SEPARATOR(c)
  PROVE  ~IS_PATH_SEPARATOR(RtlpUpcaseUnicodeChar(c))
  <1>1. \A k \in DOMAIN UpperOf : UpperOf[k] # "\\" /\ UpperOf[k] # "/"
    <2>1. DOMAIN UpperOf = {"a", "b", "c", "d", "e", "f", "g", "h", "i", "j", "k", "l", "m",
                            "n", "o", "p", "q", "r", "s", "t", "u", "v", "w", "x", "y", "z"}
      BY DEF UpperOf
    <2>2. \A k \in {"a", "b", "c", "d", "e", "f", "g", "h", "i", "j", "k", "l", "m"} :
            UpperOf[k] # "\\" /\ UpperOf[k] # "/"
      BY DEF UpperOf
    <2>3. \A k \in {"n", "o", "p", "q", "r", "s", "t", "u", "v", "w", "x", "y", "z"} :
            UpperOf[k] # "\\" /\ UpperOf[k] # "/"
      BY DEF UpperOf
    <2>. QED
      BY <2>1, <2>2, <2>3
  <1>. QED
    BY <1>1 DEF RtlpUpcaseUnicodeChar, IS_PATH_SEPARATOR, BackSlash, Slash

\* The separators behind the share of a current directory stay.
ShareInside(full, cut) == \E i \in 3..Len(full) : i <= cut /\ full[i] = BackSlash

RootOf(S, s, cd, full, cut) ==
  IF TypeOfString(s) = "UncAbsolute" THEN ShareRoot(S, s, full, cut)
  ELSE \/ DriveRoot(full, cut)
       \/ RootOfDevices(full, cut)
       \/ ShareRoot(S, cd, full, cut) /\ ShareInside(full, cut)

\* That of a path which starts with the marked part of the current directory.
LEMMA CurDirRoot ==
  ASSUME NEW S, NEW s, NEW cd, FullFacts(S, s, cd), CurDirFirst(s, cd), Nested(cd),
         TypeOfString(s) # "UncAbsolute"
  PROVE  RootOf(S, s, cd, Full(s, cd), Prefixed(s, cd).cut)
  <1>1. /\ UNICODE_NULL \notin S /\ s \in Seq(S) /\ cd \in Directory(S) /\ CutInside(s, cd)
    BY DEF FullFacts
  <1>2. /\ cd \in Seq(S) /\ Len(cd) \in Nat /\ Len(cd) >= 3 /\ CurDirMark(cd) \in 2..Len(cd)
        /\ TypeOfString(cd) = RtlDetermineDosPathNameType_Ustr(cd)
        /\ TypeOfString(cd) \in {"DriveAbsolute", "UncAbsolute"}
    <2>1. cd \in Seq(S) /\ Len(cd) >= 3 /\ TypeOfString(cd) \in {"DriveAbsolute", "UncAbsolute"}
      BY <1>1 DEF Directory
    <2>2. TypeOfString(cd) = RtlDetermineDosPathNameType_Ustr(cd)
      BY <1>1, <2>1, TypeIs
    <2>3. CurDirMark(cd) \in 2..Len(cd) /\ Len(cd) \in Nat
      BY <1>1, <2>1, MarkInside
    <2>. QED
      BY <2>1, <2>2, <2>3
  <1>3. \A k \in 1..CurDirMark(cd) : Composed(s, cd)[k] = cd[k]
    <2> SUFFICES ASSUME NEW k \in 1..CurDirMark(cd) PROVE Composed(s, cd)[k] = cd[k]
      OBVIOUS
    <2>1. Len(Prefixed(s, cd).prefix) \in Nat
      BY <1>1, PrefixedIs DEF Parts
    <2>2. k \in 1..Len(Prefixed(s, cd).prefix)
      BY <1>2, <2>1 DEF CurDirFirst
    <2>3. Composed(s, cd)[k] = Prefixed(s, cd).prefix[k]
      BY <1>1, <2>2, ComposedStarts
    <2>. QED
      BY <2>3 DEF CurDirFirst
  <1>c. Prefixed(s, cd).cut = CurDirMark(cd)
    BY DEF CurDirFirst
  <1>4. CASE cd[2] = Colon
    <2>1. ~IS_PATH_SEPARATOR(cd[2])
      BY <1>4 DEF IS_PATH_SEPARATOR, Colon, BackSlash, Slash
    <2>2. IS_PATH_SEPARATOR(cd[3]) /\ ~IS_PATH_SEPARATOR(cd[1])
      BY <1>2, <2>1 DEF RtlDetermineDosPathNameType_Ustr
    <2>3. CurDirMark(cd) = 3
      BY <1>4 DEF CurDirMark
    <2>4. /\ Prefixed(s, cd).cut = 3 /\ Composed(s, cd)[2] = Colon
          /\ IS_PATH_SEPARATOR(Composed(s, cd)[3]) /\ ~IS_PATH_SEPARATOR(Composed(s, cd)[1])
      BY <1>3, <1>4, <1>c, <2>2, <2>3
    <2>. QED
      BY <2>4, FullDrive DEF RootOf
  <1>5. CASE cd[2] # Colon
    <2>1. TypeOfString(cd) = "UncAbsolute"
      BY <1>2, <1>5 DEF RtlDetermineDosPathNameType_Ustr
    <2>2. CurDirMark(cd) = RtlpSkipUNCPrefix(cd)
      BY <1>5 DEF CurDirMark
    <2>3. PICK i \in 2..Len(cd) :
           /\ \A k \in 3..i : ~IS_PATH_SEPARATOR(cd[k])
           /\ \/ i = Len(cd) /\ RtlpSkipUNCPrefix(cd) = Len(cd)
              \/ i < Len(cd) /\ IS_PATH_SEPARATOR(cd[i + 1]) /\ RtlpSkipUNCPrefix(cd) \in (i + 1)..Len(cd)
      <3>1. Len(cd) >= 2
        BY <1>2
      <3>. QED
        BY <1>2, <3>1, ShareIs, Zenon
    <2>4. PICK l \in 3..(Len(cd) - 1) : IS_PATH_SEPARATOR(cd[l])
      BY <1>5 DEF Nested
    <2>5. i # Len(cd)
      BY <1>2, <2>3, <2>4
    <2>6. /\ i + 1 \in 3..Len(cd) /\ IS_PATH_SEPARATOR(cd[i + 1]) /\ i + 1 \in 1..CurDirMark(cd)
      BY <1>2, <2>2, <2>3, <2>5
    <2>7. /\ i + 1 \in 1..Prefixed(s, cd).cut /\ IS_PATH_SEPARATOR(Composed(s, cd)[i + 1])
      BY <1>3, <1>c, <2>6
    <2>8. Full(s, cd) \in Seq(FullChar(S)) /\ Len(Full(s, cd)) >= i + 1
      BY <2>7, FullStays
    <2>9. Full(s, cd)[i + 1] = BackSlash
      <3>1. i + 1 <= Len(Full(s, cd))
        BY <2>8
      <3>2. /\ Composed(s, cd)[i + 1] = Slash => Full(s, cd)[i + 1] = BackSlash
            /\ Composed(s, cd)[i + 1] # Slash => Full(s, cd)[i + 1] = Composed(s, cd)[i + 1]
        BY <2>7, <3>1, FullKeeps
      <3>. QED
        BY <2>7, <3>2 DEF IS_PATH_SEPARATOR
    <2>10. ShareInside(Full(s, cd), Prefixed(s, cd).cut)
      <3> DEFINE full == Full(s, cd)
                 cut == Prefixed(s, cd).cut
                 n == i + 1
      <3>1. /\ full \in Seq(FullChar(S)) /\ n <= Len(full) /\ n \in 3..Len(cd) /\ n \in 1..cut
            /\ full[n] = BackSlash /\ cut \in Nat
        BY <1>1, <1>2, <1>c, <2>6, <2>7, <2>8, <2>9
      <3> HIDE DEF full, cut, n
      <3>2. Len(full) \in Nat
        BY <3>1
      <3>3. n \in 3..Len(full) /\ n <= cut
        BY <1>2, <3>1, <3>2
      <3>. QED
        BY <3>1, <3>3 DEF ShareInside, full, cut, n
    <2>11. ShareRoot(S, cd, Full(s, cd), Prefixed(s, cd).cut)
      <3>1. /\ Prefixed(s, cd).cut = RtlpSkipUNCPrefix(cd)
            /\ \A k \in 1..Prefixed(s, cd).cut : Composed(s, cd)[k] = cd[k]
        BY <1>3, <1>c, <2>2
      <3>. QED
        BY <1>2, <2>1, <3>1, FullShare
    <2>. QED
      BY <2>10, <2>11 DEF RootOf
  <1>. QED
    BY <1>4, <1>5

\* And every name has one of the three roots.
LEMMA RootIs ==
  ASSUME NEW S, NEW s, NEW cd, FullFacts(S, s, cd), Nested(cd)
  PROVE  RootOf(S, s, cd, Full(s, cd), Prefixed(s, cd).cut)
  <1> DEFINE type == TypeOfString(s)
             text == Composed(s, cd)
             parts == Prefixed(s, cd)
  <1>1. /\ UNICODE_NULL \notin S /\ s \in Seq(S) /\ cd \in Directory(S) /\ CutInside(s, cd)
    BY DEF FullFacts
  <1>2. /\ type = RtlDetermineDosPathNameType_Ustr(s)
        /\ type \in {"UncAbsolute", "LocalDevice", "DriveAbsolute", "Relative",
                     "DriveRelative", "Rooted", "RootLocalDevice"}
    BY <1>1, TypeIs, Zenon
  <1>3. /\ \A k \in 1..Len(parts.prefix) : text[k] = parts.prefix[k]
        /\ parts.prefix = <<>> /\ parts.source = 0 => \A k \in 1..parts.cut : text[k] = s[k]
    BY <1>1, ComposedStarts
  <1> HIDE DEF text
  <1>4. CASE type = "UncAbsolute"
    <2>1. parts = From(<<>>, 0, RtlpSkipUNCPrefix(s))
      BY <1>4 DEF Prefixed
    <2>2. parts.cut = RtlpSkipUNCPrefix(s) /\ \A k \in 1..parts.cut : text[k] = s[k]
      BY <1>3, <2>1 DEF From
    <2>3. ShareRoot(S, s, Full(s, cd), parts.cut)
      BY <1>1, <1>4, <2>2, FullShare DEF text
    <2>. QED
      BY <1>4, <2>3 DEF RootOf
  <1>5. CASE type = "LocalDevice"
    <2>1. parts = From(<<>>, 0, 4) /\ Len(s) >= 4
      BY <1>1, <1>5, TypeIs DEF Prefixed, DeviceMark
    <2>2. /\ IS_PATH_SEPARATOR(s[1]) /\ IS_PATH_SEPARATOR(s[2]) /\ IS_PATH_SEPARATOR(s[4])
          /\ s[3] \in {Dot, QuestionMark}
      BY <1>1, <1>2, <1>5 DEF RtlDetermineDosPathNameType_Ustr
    <2>3. parts.cut = 4 /\ \A k \in 1..4 : text[k] = s[k]
      BY <1>3, <2>1 DEF From
    <2>4. RootOfDevices(Full(s, cd), 4)
      BY <2>2, <2>3, FullDevice DEF text
    <2>. QED
      BY <1>5, <2>3, <2>4 DEF RootOf
  <1>6. CASE type = "RootLocalDevice"
    <2>1. parts = From(DeviceRootString, 3, 4)
      BY <1>6 DEF Prefixed, DeviceRoot, DeviceMark
    <2>2. /\ Len(DeviceRootString) = 4
          /\ DeviceRootString[1] = "\\" /\ DeviceRootString[2] = "\\" /\ DeviceRootString[3] = "."
          /\ DeviceRootString[4] = "\\"
      BY DEF DeviceRootString
    <2>3. /\ parts.cut = 4 /\ parts.prefix = DeviceRootString
      BY <2>1 DEF From
    <2>4. \A k \in 1..4 : text[k] = DeviceRootString[k]
      BY <1>3, <2>2, <2>3, Zenon
    <2>5. /\ text[1] = "\\" /\ text[2] = "\\" /\ text[3] = "." /\ text[4] = "\\"
      <3>1. 1 \in 1..4 /\ 2 \in 1..4 /\ 3 \in 1..4 /\ 4 \in 1..4
        OBVIOUS
      <3>. QED
        BY <2>2, <2>4, <3>1, Zenon
    <2>6. RootOfDevices(Full(s, cd), 4)
      BY <1>1, <2>3, <2>5, FullDevice DEF text, IS_PATH_SEPARATOR, BackSlash, Dot
    <2>. QED
      BY <1>6, <2>3, <2>6 DEF RootOf
  <1>7. CASE type = "DriveAbsolute"
    <2>1. parts = From(SubSeq(s, 1, 3), 3, 3) /\ Len(s) >= 3
      BY <1>1, <1>7, TypeIs DEF Prefixed
    <2>2. ~IS_PATH_SEPARATOR(s[1]) /\ s[2] = Colon /\ IS_PATH_SEPARATOR(s[3])
      BY <1>2, <1>7, <2>1 DEF RtlDetermineDosPathNameType_Ustr
    <2>3. /\ Len(SubSeq(s, 1, 3)) = 3 /\ SubSeq(s, 1, 3)[1] = s[1]
          /\ SubSeq(s, 1, 3)[2] = s[2] /\ SubSeq(s, 1, 3)[3] = s[3]
      BY <1>1, <2>1
    <2>4. /\ parts.cut = 3 /\ ~IS_PATH_SEPARATOR(text[1])
          /\ text[2] = Colon /\ IS_PATH_SEPARATOR(text[3])
      BY <1>3, <2>1, <2>2, <2>3 DEF From
    <2>5. DriveRoot(Full(s, cd), 3)
      BY <2>4, FullDrive DEF text
    <2>. QED
      BY <1>7, <2>4, <2>5 DEF RootOf
  <1>8. CASE type = "DriveRelative" /\ ~OnCurrentDrive(s, cd)
    <2>1. parts = From(<<RtlpUpcaseUnicodeChar(s[1]), Colon, BackSlash>>, 2, 3)
      BY <1>8 DEF Prefixed
    <2>2. parts.cut = 3 /\ text[1] = RtlpUpcaseUnicodeChar(s[1]) /\ text[2] = Colon /\ text[3] = BackSlash
      BY <1>3, <2>1 DEF From
    <2>3. ~IS_PATH_SEPARATOR(s[1])
      BY <1>2, <1>8 DEF RtlDetermineDosPathNameType_Ustr
    <2>4. DriveRoot(Full(s, cd), 3)
      BY <2>2, <2>3, UpcaseKeeps, FullDrive DEF text, IS_PATH_SEPARATOR
    <2>. QED
      BY <1>8, <2>2, <2>4 DEF RootOf
  <1>9. CASE type \in {"Relative", "Rooted"} \/ (type = "DriveRelative" /\ OnCurrentDrive(s, cd))
    <2>1. CurDirFirst(s, cd) /\ type # "UncAbsolute"
      BY <1>9, CurDirFirstIs
    <2>. QED
      BY <2>1, CurDirRoot
  <1>. QED
    BY <1>2, <1>4, <1>5, <1>6, <1>7, <1>8, <1>9
-----------------------------------------------------------------------------
(***************************************************************************)
(* The type of a full path, by what it starts with.                        *)
(***************************************************************************)
LEMMA DriveType ==
  ASSUME NEW S, UNICODE_NULL \notin S, NEW full \in Seq(S), NEW cut, DriveRoot(full, cut)
  PROVE  TypeOfString(full) = "DriveAbsolute"
BY TypeIs DEF DriveRoot, RtlDetermineDosPathNameType_Ustr, IS_PATH_SEPARATOR

\* The type of a full path in the device root.
LEMMA DeviceType ==
  ASSUME NEW S, UNICODE_NULL \notin S, NEW full \in Seq(S), NEW cut, RootOfDevices(full, cut)
  PROVE  TypeOfString(full) = "LocalDevice"
BY TypeIs DEF RootOfDevices, RtlDetermineDosPathNameType_Ustr, IS_PATH_SEPARATOR

\* That of a share is not taken for a device as long as what tells them apart is marked.
LEMMA ShareType ==
  ASSUME NEW S, UNICODE_NULL \notin S, NEW full \in Seq(FullChar(S)), HasNtName(full),
         NEW d, NEW cut, ShareRoot(S, d, full, cut),
         cut >= 4 \/ Len(full) <= 3 \/ full[3] = BackSlash
  PROVE  TypeOfString(full) = "UncAbsolute" /\ full[2] = BackSlash
  <1> DEFINE u == RtlDetermineDosPathNameType_Ustr(full)
  <1>1. /\ d \in Seq(S) /\ Len(d) \in Nat /\ Len(d) >= 2 /\ cut \in 2..Len(d) /\ Len(full) \in Nat
        /\ Len(full) >= 2
    BY PrefixGrows DEF ShareRoot
  <1>2. TypeOfString(full) = u
    BY NoTerminator, TypeIs
  <1>3. RtlDetermineDosPathNameType_Ustr(d) = "UncAbsolute"
    BY <1>1, TypeIs DEF ShareRoot
  <1>4. /\ IS_PATH_SEPARATOR(d[1]) /\ IS_PATH_SEPARATOR(d[2])
        /\ Len(d) >= 4 => d[3] \notin {Dot, QuestionMark} \/ ~IS_PATH_SEPARATOR(d[4])
    BY <1>1, <1>3 DEF RtlDetermineDosPathNameType_Ustr
  <1>5. \A k \in 1..cut : k <= Len(full) => full[k] = IF d[k] = Slash THEN BackSlash ELSE d[k]
    <2> TAKE k \in 1..cut
    <2>1. k \in DOMAIN d
      BY <1>1
    <2>. QED
      BY <2>1 DEF ShareRoot, Converted
  <1>6. full[1] = BackSlash /\ full[2] = BackSlash
    BY <1>1, <1>4, <1>5 DEF IS_PATH_SEPARATOR
  <1>7. Len(full) >= 4 => full[3] \notin {Dot, QuestionMark} \/ ~IS_PATH_SEPARATOR(full[4])
    <2>1. CASE cut >= 4 /\ Len(full) >= 4
      <3>1. /\ full[3] = IF d[3] = Slash THEN BackSlash ELSE d[3]
            /\ full[4] = IF d[4] = Slash THEN BackSlash ELSE d[4]
        BY <1>1, <1>5, <2>1
      <3>. QED
        BY <1>1, <1>4, <2>1, <3>1 DEF IS_PATH_SEPARATOR, Dot, QuestionMark, BackSlash, Slash
    <2>. QED
      BY <1>1, <2>1 DEF Dot, QuestionMark, BackSlash
  <1>8. u # "RootLocalDevice"
    BY <1>2 DEF HasNtName
  <1>. QED
    BY <1>1, <1>2, <1>6, <1>7, <1>8 DEF RtlDetermineDosPathNameType_Ustr, IS_PATH_SEPARATOR
-----------------------------------------------------------------------------
(***************************************************************************)
(* Where the last separator of a string is, 0 when it has none, and of an  *)
(* NT name: that of the full path, or the one its prefix ends in.          *)
(***************************************************************************)
LastSeparator(f) == Max({0} \cup {i \in DOMAIN f : f[i] = BackSlash})

\* The last separator is one, and none is behind it.
LEMMA LastSeparatorIs ==
  ASSUME NEW S, NEW f \in Seq(S)
  PROVE  /\ LastSeparator(f) \in 0..Len(f)
         /\ LastSeparator(f) # 0 => f[LastSeparator(f)] = BackSlash
         /\ \A k \in 1..Len(f) : f[k] = BackSlash => k <= LastSeparator(f)
  <1> DEFINE T == {0} \cup {i \in DOMAIN f : f[i] = BackSlash}
  <1>1. Len(f) \in Nat /\ T \in SUBSET (0..Len(f)) /\ T # {}
    OBVIOUS
  <1>2. Max(T) \in T /\ \A k \in T : k <= Max(T)
    BY <1>1, MaxIs
  <1>. QED
    BY <1>1, <1>2 DEF LastSeparator

\* Strings with the same characters are the same.
LEMMA SameSequence ==
  ASSUME NEW S, NEW E, NEW s \in Seq(S), NEW t \in Seq(E), Len(s) = Len(t),
         \A k \in 1..Len(t) : s[k] = t[k]
  PROVE  t = s
OBVIOUS

\* A string put behind four characters.
LEMMA BehindFour ==
  ASSUME NEW S, NEW a \in Seq(S), Len(a) = 4, NEW t \in Seq(S)
  PROVE  /\ a \o t \in Seq(S) /\ Len(a \o t) = 4 + Len(t)
         /\ \A k \in 1..(4 + Len(t)) : (a \o t)[k] = IF k <= 4 THEN a[k] ELSE t[k - 4]
  <1>1. /\ a \o t \in Seq(S) /\ Len(a \o t) = Len(a) + Len(t)
        /\ \A k \in 1..(Len(a) + Len(t)) : (a \o t)[k] = IF k <= Len(a) THEN a[k] ELSE t[k - Len(a)]
    BY Concatenation, Zenon
  <1>. QED
    BY <1>1

\* What is behind the fourth character of a string.
LEMMA BehindFourth ==
  ASSUME NEW S, NEW s \in Seq(S), Len(s) >= 4
  PROVE  /\ SubSeq(s, 5, Len(s)) \in Seq(S) /\ Len(SubSeq(s, 5, Len(s))) = Len(s) - 4
         /\ \A k \in 1..(Len(s) - 4) : SubSeq(s, 5, Len(s))[k] = s[k + 4]
  <1>1. ASSUME NEW a \in 0..Len(s), NEW c, c = a + 1
        PROVE  /\ SubSeq(s, c, Len(s)) \in Seq(S) /\ Len(SubSeq(s, c, Len(s))) = Len(s) - a
               /\ \A k \in 1..(Len(s) - a) : SubSeq(s, c, Len(s))[k] = s[k + a]
    <2>1. Len(s) \in 0..Len(s) /\ a <= Len(s)
      OBVIOUS
    <2>2. /\ SubSeq(s, a + 1, Len(s)) \in Seq(S) /\ Len(SubSeq(s, a + 1, Len(s))) = Len(s) - a
          /\ \A k \in 1..Len(SubSeq(s, a + 1, Len(s))) : SubSeq(s, a + 1, Len(s))[k] = s[k + a]
      BY <2>1, SubSeqIs, Zenon
    <2>. QED
      BY <1>1, <2>2, Zenon
  <1> DEFINE t == SubSeq(s, 5, Len(s))
  <1>2. 4 \in 0..Len(s) /\ 5 = 4 + 1
    OBVIOUS
  <1>3. t \in Seq(S) /\ Len(t) = Len(s) - 4 /\ \A k \in 1..(Len(s) - 4) : t[k] = s[k + 4]
    BY <1>1, <1>2, Zenon
  <1>. QED
    BY <1>3, Zenon

\* A string that is another one behind four characters.
LEMMA AllBehindFour ==
  ASSUME NEW S, NEW s \in Seq(S), NEW t \in Seq(S), Len(s) = 4 + Len(t),
         \A k \in 1..(4 + Len(t)) : k > 4 => s[k] = t[k - 4]
  PROVE  SubSeq(s, 5, Len(s)) = t
OBVIOUS

\* The part name from the other end, of a name p \o rest whose prefix p ends in a separator.
LEMMA QuickPartIs ==
  ASSUME NEW S, NEW p \in Seq(S), NEW rest \in Seq(S), Len(p) >= 4, p[4] = BackSlash,
         p[Len(p)] = BackSlash, \A k \in 1..4 : p[k] = RtlpDosDevicesPrefix[k]
  PROVE  /\ QuickName(ToQuick(p \o rest)) = p \o rest
         /\ QuickPartName(ToQuick(p \o rest))
              = IF LastSeparator(rest) < Len(rest) THEN Len(p) + LastSeparator(rest) ELSE 0
  <1> DEFINE C == S \cup {"\\", "?"}
             nt == p \o rest
             tail == SubSeq(nt, 5, Len(nt))
             quick == ToQuick(nt)
             T == {i \in 2..Len(nt) : nt[i] = BackSlash}
  <1>1. /\ nt \in Seq(S) /\ Len(p) \in Nat /\ Len(rest) \in Nat /\ Len(nt) = Len(p) + Len(rest)
        /\ \A k \in 1..Len(p) : nt[k] = p[k]
        /\ \A k \in 1..Len(rest) : nt[Len(p) + k] = rest[k]
    OBVIOUS
  <1>2. /\ Len(RtlpWin32NtRootSlash) = 4 /\ Len(RtlpDosDevicesPrefix) = 4
        /\ RtlpWin32NtRootSlash \in Seq(C) /\ RtlpDosDevicesPrefix \in Seq(C)
    BY DEF RtlpWin32NtRootSlash, RtlpDosDevicesPrefix
  <1>. HIDE DEF nt
  <1>3. /\ tail \in Seq(C) /\ Len(tail) = Len(nt) - 4 /\ Len(nt) \in Nat /\ Len(nt) >= 4
        /\ \A k \in 1..(Len(nt) - 4) : tail[k] = nt[k + 4]
    <2>1. nt \in Seq(C) /\ Len(nt) \in Nat /\ Len(nt) >= 4
      BY <1>1
    <2>. HIDE DEF C
    <2>. QED
      BY <2>1, BehindFourth
  <1>4. nt = RtlpDosDevicesPrefix \o tail
    <2>. HIDE DEF tail, C
    <2> DEFINE other == RtlpDosDevicesPrefix \o tail
    <2>1. /\ other \in Seq(C) /\ Len(other) = 4 + Len(tail)
          /\ \A k \in 1..(4 + Len(tail)) :
               other[k] = IF k <= 4 THEN RtlpDosDevicesPrefix[k] ELSE tail[k - 4]
      <3>1. /\ RtlpDosDevicesPrefix \in Seq(C) /\ Len(RtlpDosDevicesPrefix) = 4
            /\ tail \in Seq(C)
        BY <1>2, <1>3
      <3>. QED
        BY <3>1, BehindFour
    <2>. HIDE DEF other
    <2>2. Len(other) = Len(nt)
      BY <1>3, <2>1
    <2>3. ASSUME NEW k \in 1..Len(nt) PROVE other[k] = nt[k]
      <3>1. CASE k <= 4
        <4>1. k \in 1..4 /\ k \in 1..Len(p) /\ k \in 1..(4 + Len(tail))
          BY <1>1, <1>3, <3>1
        <4>. QED
          BY <1>1, <2>1, <3>1, <4>1
      <3>2. CASE k > 4
        <4>1. k - 4 \in 1..(Len(nt) - 4) /\ k \in 1..(4 + Len(tail)) /\ ~(k <= 4) /\ (k - 4) + 4 = k
          BY <1>3, <3>2
        <4>. QED
          BY <1>3, <2>1, <4>1
      <3>. QED
        BY <1>3, <3>1, <3>2
    <2>4. nt \in Seq(S)
      BY <1>1
    <2>. QED
      BY <2>1, <2>2, <2>3, <2>4, SameSequence DEF other
  <1>5. Len(quick) = Len(nt) /\ SubSeq(quick, 5, Len(quick)) = tail
    <2>. HIDE DEF tail, C
    <2>1. quick = RtlpWin32NtRootSlash \o tail
      BY DEF ToQuick, tail
    <2>. HIDE DEF quick
    <2>2. /\ quick \in Seq(C) /\ Len(quick) = 4 + Len(tail)
          /\ \A k \in 1..(4 + Len(tail)) :
               quick[k] = IF k <= 4 THEN RtlpWin32NtRootSlash[k] ELSE tail[k - 4]
      <3> DEFINE both == RtlpWin32NtRootSlash \o tail
      <3>1. /\ both \in Seq(C) /\ Len(both) = 4 + Len(tail)
            /\ \A k \in 1..(4 + Len(tail)) :
                 both[k] = IF k <= 4 THEN RtlpWin32NtRootSlash[k] ELSE tail[k - 4]
        <4>1. RtlpWin32NtRootSlash \in Seq(C) /\ Len(RtlpWin32NtRootSlash) = 4 /\ tail \in Seq(C)
          BY <1>2, <1>3
        <4>. QED
          BY <4>1, BehindFour
      <3>2. quick = both
        BY <2>1
      <3>. QED
        BY <3>1, <3>2, Zenon
    <2>3. Len(tail) \in Nat
      BY <1>3
    <2>. QED
      BY <1>3, <2>2, <2>3, AllBehindFour
  <1>. HIDE DEF tail, quick
  <1>6. QuickName(quick) = nt
    BY <1>4, <1>5 DEF QuickName
  <1>7. T \in SUBSET (0..Len(nt)) /\ Len(p) \in T /\ Len(nt) \in Nat
    <2>1. Len(p) \in 2..Len(nt) /\ Len(p) \in 1..Len(p) /\ Len(nt) \in Nat
      BY <1>1
    <2>2. nt[Len(p)] = BackSlash
      BY <1>1, <2>1
    <2>. QED
      BY <2>1, <2>2
  <1>8. Max(T) \in T /\ \A k \in T : k <= Max(T)
    <2>. HIDE DEF T
    <2>1. T # {}
      BY <1>7
    <2>. QED
      BY <1>7, <2>1, MaxIs
  <1>9. /\ LastSeparator(rest) \in 0..Len(rest)
        /\ LastSeparator(rest) # 0 => rest[LastSeparator(rest)] = BackSlash
        /\ \A k \in 1..Len(rest) : rest[k] = BackSlash => k <= LastSeparator(rest)
    BY LastSeparatorIs
  <1>10. Max(T) = Len(p) + LastSeparator(rest)
    <2>1. Len(p) + LastSeparator(rest) \in T
      <3>1. CASE LastSeparator(rest) = 0
        <4>1. Len(p) + 0 = Len(p)
          BY <1>1
        <4>. QED
          BY <1>7, <3>1, <4>1
      <3>2. CASE LastSeparator(rest) # 0
        <4>1. LastSeparator(rest) \in 1..Len(rest) /\ rest[LastSeparator(rest)] = BackSlash
          BY <1>1, <1>9, <3>2
        <4>. QED
          BY <1>1, <4>1
      <3>. QED
        BY <3>1, <3>2
    <2>2. Max(T) \in 2..Len(nt) /\ nt[Max(T)] = BackSlash
      BY <1>8
    <2>. HIDE DEF T
    <2>3. Max(T) > Len(p) => Max(T) - Len(p) \in 1..Len(rest) /\ rest[Max(T) - Len(p)] = BackSlash
      <3> SUFFICES ASSUME Max(T) > Len(p)
                   PROVE  Max(T) - Len(p) \in 1..Len(rest) /\ rest[Max(T) - Len(p)] = BackSlash
        OBVIOUS
      <3>1. Max(T) - Len(p) \in 1..Len(rest) /\ Len(p) + (Max(T) - Len(p)) = Max(T)
        BY <1>1, <2>2
      <3>2. nt[Len(p) + (Max(T) - Len(p))] = rest[Max(T) - Len(p)]
        BY <1>1, <3>1
      <3>. QED
        BY <2>2, <3>1, <3>2
    <2>4. Max(T) <= Len(p) + LastSeparator(rest)
      BY <1>1, <1>9, <2>2, <2>3
    <2>6. Len(p) + LastSeparator(rest) \in Int /\ Max(T) \in Int
      BY <1>1, <1>9, <2>2
    <2>5. Len(p) + LastSeparator(rest) <= Max(T)
      BY <1>8, <2>1
    <2>. QED
      BY <2>2, <2>4, <2>5, <2>6
  <1>11. QuickPartName(quick) = IF Max(T) < Len(nt) THEN Max(T) ELSE 0
    BY <1>5, <1>6 DEF QuickPartName
  <1>12. QuickPartName(quick)
           = IF LastSeparator(rest) < Len(rest) THEN Len(p) + LastSeparator(rest) ELSE 0
    <2>. HIDE DEF T
    <2>1. Max(T) < Len(nt) <=> LastSeparator(rest) < Len(rest)
      BY <1>1, <1>9, <1>10
    <2>. QED
      BY <1>10, <1>11, <2>1
  <1>. QED
    BY <1>6, <1>12 DEF nt, quick
-----------------------------------------------------------------------------
\* Behind an index no further than it, the last separator of a string is the last one.
LEMMA LastSeparatorBehind ==
  ASSUME NEW S, NEW f \in Seq(S), NEW k \in 0..LastSeparator(f)
  PROVE  /\ LastSeparator(f) \in 0..Len(f) /\ k \in 0..Len(f)
         /\ SubSeq(f, k + 1, Len(f)) \in Seq(S) /\ Len(SubSeq(f, k + 1, Len(f))) = Len(f) - k
         /\ LastSeparator(SubSeq(f, k + 1, Len(f))) = LastSeparator(f) - k
  <1> DEFINE n == LastSeparator(f)
             rest == SubSeq(f, k + 1, Len(f))
             m == LastSeparator(rest)
  <1>1. /\ n \in 0..Len(f) /\ Len(f) \in Nat
        /\ n # 0 => f[n] = BackSlash
        /\ \A j \in 1..Len(f) : f[j] = BackSlash => j <= n
    BY LastSeparatorIs
  <1>2. k \in 0..Len(f) /\ Len(f) \in 0..Len(f) /\ k <= Len(f)
    BY <1>1
  <1>3. /\ rest \in Seq(S) /\ Len(rest) = Len(f) - k
        /\ \A j \in 1..Len(rest) : rest[j] = f[j + k]
    BY <1>2, SubSeqIs
  <1>. HIDE DEF rest
  <1>4. /\ m \in 0..Len(rest)
        /\ m # 0 => rest[m] = BackSlash
        /\ \A j \in 1..Len(rest) : rest[j] = BackSlash => j <= m
    BY <1>3, LastSeparatorIs
  <1>. HIDE DEF n, m
  <1>5. /\ n \in Nat /\ m \in Nat /\ k \in Nat /\ k <= n /\ n <= Len(f)
        /\ m <= Len(rest) /\ Len(rest) \in Nat
    <2>1. n \in Nat /\ n <= Len(f) /\ k \in Nat /\ k <= n
      BY <1>1 DEF n
    <2>2. Len(rest) \in Nat
      BY <1>1, <1>3, <2>1
    <2>. QED
      BY <1>4, <2>1, <2>2
  <1>6. m + k <= n
    <2>1. CASE m = 0
      BY <1>5, <2>1
    <2>2. CASE m # 0
      <3>1. m \in 1..Len(rest) /\ m + k \in 1..Len(f)
        BY <1>1, <1>3, <1>5, <2>2
      <3>2. f[m + k] = BackSlash
        BY <1>3, <1>4, <2>2, <3>1
      <3>. QED
        BY <1>1, <3>1, <3>2
    <2>. QED
      BY <2>1, <2>2
  <1>7. n - k <= m
    <2>1. CASE n = k
      BY <1>5, <2>1
    <2>2. CASE n # k
      <3>1. n - k \in 1..Len(rest) /\ n # 0 /\ (n - k) + k = n
        BY <1>1, <1>3, <1>5, <2>2
      <3>2. rest[n - k] = BackSlash
        BY <1>1, <1>3, <3>1
      <3>. QED
        BY <1>4, <3>1, <3>2
    <2>. QED
      BY <2>1, <2>2
  <1>8. m = n - k
    BY ONLY <1>5, <1>6, <1>7
  <1>. QED
    BY <1>1, <1>2, <1>3, <1>8 DEF rest, n, m

\* The characters of an NT name.
NtChar(S) == FullChar(S) \cup {"\\", "?", "U", "N", "C"}

\* What is cut ends in a separator, and what is put in front does too.
LEMMA NtPartIs ==
  ASSUME NEW S, NEW full \in Seq(FullChar(S)), NEW file \in Nat,
         PrefixCut(full) # 0 => PrefixCut(full) <= Len(full) /\ full[PrefixCut(full)] = BackSlash
  PROVE  LET nt == NtNameOf(full)
             n  == LastSeparator(full)
             d  == Len(PrefixBuffer(full)) - PrefixCut(full)
         IN  /\ QuickName(ToQuick(nt)) = nt
             /\ QuickPartName(ToQuick(nt)) = IF n < Len(full) THEN n + d ELSE 0
             /\ PartName(full, file) = IF file = 0 THEN 0 ELSE file + d
  <1> DEFINE p == PrefixBuffer(full)
             k == PrefixCut(full)
             n == LastSeparator(full)
             rest == SubSeq(full, k + 1, Len(full))
  <1>1. /\ p \in Seq(NtChar(S)) /\ Len(p) \in {4, 8} /\ p[4] = BackSlash /\ p[Len(p)] = BackSlash
        /\ \A j \in 1..4 : p[j] = RtlpDosDevicesPrefix[j]
    <2>1. CASE p = RtlpDosDevicesPrefix
      <3>1. Len(p) = 4 /\ p \in Seq(NtChar(S)) /\ p[4] = BackSlash
        BY <2>1 DEF RtlpDosDevicesPrefix, NtChar, BackSlash
      <3>. QED
        BY <2>1, <3>1
    <2>2. CASE p = RtlpDosDevicesUncPrefix
      <3> DEFINE front == RtlpDosDevicesPrefix
                 unc   == <<"U", "N", "C", "\\">>
      <3>1. /\ front \in Seq(NtChar(S)) /\ Len(front) = 4 /\ front[4] = BackSlash
            /\ unc \in Seq(NtChar(S)) /\ Len(unc) = 4 /\ unc[4] = BackSlash
        BY DEF RtlpDosDevicesPrefix, NtChar, BackSlash
      <3>2. p = front \o unc
        BY <2>2 DEF RtlpDosDevicesUncPrefix
      <3>. HIDE DEF p, front, unc
      <3>3. /\ p \in Seq(NtChar(S)) /\ Len(p) = 4 + Len(unc)
            /\ \A j \in 1..(4 + Len(unc)) : p[j] = IF j <= 4 THEN front[j] ELSE unc[j - 4]
        BY <3>1, <3>2, BehindFour
      <3>. QED
        BY <3>1, <3>3 DEF front
    <2>. QED
      BY <2>1, <2>2 DEF PrefixBuffer
  <1>2. k \in Nat /\ k \in 0..n /\ n \in 0..Len(full)
    <2>1. /\ n \in 0..Len(full) /\ Len(full) \in Nat
          /\ \A j \in 1..Len(full) : full[j] = BackSlash => j <= n
      BY LastSeparatorIs
    <2>2. k \in {0, 2, 4}
      BY DEF PrefixCut
    <2>. HIDE DEF k, n
    <2>3. k # 0 => k <= Len(full) /\ full[k] = BackSlash
      BY DEF k
    <2>. QED
      BY <2>1, <2>2, <2>3
  <1>3. /\ rest \in Seq(FullChar(S)) /\ Len(rest) = Len(full) - k
        /\ LastSeparator(rest) = n - k
    BY <1>2, LastSeparatorBehind
  <1>4. rest \in Seq(NtChar(S))
    BY <1>3 DEF NtChar
  <1>5. NtNameOf(full) = p \o rest
    BY DEF NtNameOf
  <1>. HIDE DEF p, rest, k, n
  <1>6. /\ QuickName(ToQuick(p \o rest)) = p \o rest
        /\ QuickPartName(ToQuick(p \o rest))
             = IF LastSeparator(rest) < Len(rest) THEN Len(p) + LastSeparator(rest) ELSE 0
    BY <1>1, <1>4, QuickPartIs
  <1>7. Len(p \o rest) = Len(p) + Len(rest) /\ Len(full) \in Nat
    BY <1>1, <1>4
  <1>8. QuickPartName(ToQuick(p \o rest)) = IF n < Len(full) THEN n + (Len(p) - k) ELSE 0
    <2>1. Len(p) \in Nat
      BY <1>1
    <2>2. LastSeparator(rest) < Len(rest) <=> n < Len(full)
      BY <1>2, <1>3, <1>7
    <2>3. Len(p) + LastSeparator(rest) = n + (Len(p) - k)
      BY <1>2, <1>3, <2>1
    <2>. QED
      BY <1>6, <2>2, <2>3
  <1>9. PartName(full, file) = IF file = 0 THEN 0 ELSE file + (Len(p) - k)
    <2>1. PartName(full, file) = IF file = 0 THEN 0 ELSE (Len(p) + Len(rest)) - (Len(full) - file)
      BY <1>5, <1>7 DEF PartName
    <2>2. Len(p) \in Nat
      BY <1>1
    <2>3. (Len(p) + Len(rest)) - (Len(full) - file) = file + (Len(p) - k)
      BY <1>2, <1>3, <1>7, <2>2
    <2>. QED
      BY <2>1, <2>3
  <1>. QED
    BY <1>5, <1>6, <1>8, <1>9 DEF p, k, n

-----------------------------------------------------------------------------
\* What is put behind the root of the devices, wherever it is read.
LEMMA AnyPart ==
  ASSUME NEW T, NEW s, \A j \in Nat : s[j] \in T, NEW a \in Nat, NEW b \in Nat
  PROVE  SubSeq(s, a + 1, a + b) \in Seq(T)
OBVIOUS

\* The path stored for a device starts with the root of the devices.
LEMMA DeviceStored ==
  ASSUME NEW S, NEW s \in Seq(S), RtlIsDosDeviceName_Ustr(s) # 0
  PROVE  /\ \E T : DevicePath(s) \in Seq(FullChar(T))
         /\ PrefixCut(DevicePath(s)) = 4
         /\ 4 <= Len(DevicePath(s)) /\ DevicePath(s)[4] = BackSlash
  <1> DEFINE dos == RtlIsDosDeviceName_Ustr(s)
             a == HIWORD(dos) \div SizeofWCHAR
             b == LOWORD(dos) \div SizeofWCHAR
             T == {s[j] : j \in Nat}
             word == SubSeq(s, a + 1, a + b)
             full == DevicePath(s)
  <1>1. a \in Nat /\ b \in Nat
    <2>1. dos \in Int
      BY DeviceKept
    <2>. HIDE DEF dos
    <2>2. HIWORD(dos) \in Nat /\ LOWORD(dos) \in Nat
      BY <2>1 DEF HIWORD, LOWORD
    <2>. QED
      BY <2>2, SizeofWCHARAssumption
  <1>2. full = DeviceRootString \o word
    BY DEF DevicePath
  <1>3. word \in Seq(T)
    <2>1. \A j \in Nat : s[j] \in T
      OBVIOUS
    <2>. HIDE DEF a, b, T
    <2>. QED
      BY <1>1, <2>1, AnyPart
  <1>. HIDE DEF word, T, full
  <1>4. word \in Seq(FullChar(T))
    BY <1>3, CharsInFull
  <1>5. /\ DeviceRootString \in Seq(FullChar(T)) /\ Len(DeviceRootString) = 4
        /\ DeviceRootString[1] = "\\" /\ DeviceRootString[2] = "\\"
        /\ DeviceRootString[3] = "." /\ DeviceRootString[4] = "\\"
    BY DEF DeviceRootString, FullChar, BackSlash, Dot
  <1>6. /\ full \in Seq(FullChar(T)) /\ Len(full) = 4 + Len(word)
        /\ \A k \in 1..(4 + Len(word)) : full[k] = IF k <= 4 THEN DeviceRootString[k] ELSE word[k - 4]
    BY <1>2, <1>4, <1>5, BehindFour
  <1>7. Len(word) \in Nat /\ Len(full) >= 4
    BY <1>4, <1>6
  <1>8. full[1] = "\\" /\ full[2] = "\\" /\ full[3] = "." /\ full[4] = "\\"
    BY <1>5, <1>6, <1>7
  <1>9. TypeOfString(full) = "LocalDevice"
    <2>1. \A i \in 0..3 : BufferOf(full)[i] = full[i + 1]
      BY <1>6, <1>7 DEF BufferOf, CharAt
    <2>2. /\ BufferOf(full)[0] = "\\" /\ BufferOf(full)[1] = "\\"
          /\ BufferOf(full)[2] = "." /\ BufferOf(full)[3] = "\\"
      BY <1>8, <2>1
    <2>. QED
      BY <2>2 DEF TypeOfString, RtlDetermineDosPathNameType_U, IS_PATH_SEPARATOR,
                  BackSlash, Dot, QuestionMark
  <1>. QED
    BY <1>6, <1>7, <1>8, <1>9 DEF PrefixCut, full, BackSlash
-----------------------------------------------------------------------------
Agrees(s, cd) ==
  \A full \in {Stored(s, cd)}, file \in {FilePartFound(s, cd)} :
    \A quick \in {ToQuick(NtNameOf(full))} :
      \A part \in {QuickPartName(quick)} :
        /\ QuickName(quick) = NtNameOf(full)
        /\ PartName(full, file) = IF IsDevicePath(s) \/ InShareAndDir(s, part) THEN 0 ELSE part

\* Of a device path, QuickPathAgrees says nothing.
LEMMA DeviceAgrees ==
  ASSUME NEW S, NEW s \in Seq(S), NEW cd, IsDevicePath(s)
  PROVE  Agrees(s, cd)
  <1> DEFINE full == DevicePath(s)
  <1>1. /\ \E T : full \in Seq(FullChar(T))
        /\ PrefixCut(full) = 4 /\ 4 <= Len(full) /\ full[4] = BackSlash
    BY DeviceStored DEF IsDevicePath
  <1>2. Stored(s, cd) = full /\ FilePartFound(s, cd) = 0
    BY DEF IsDevicePath, Stored, FilePartFound
  <1>. HIDE DEF full
  <1>3. QuickName(ToQuick(NtNameOf(full))) = NtNameOf(full)
    BY <1>1, NtPartIs
  <1>4. PartName(full, 0) = 0
    BY DEF PartName
  <1>. QED
    BY <1>2, <1>3, <1>4 DEF Agrees

\* The prefix of shares has eight characters.
LEMMA UncPrefixLength == Len(RtlpDosDevicesUncPrefix) = 8
BY DEF RtlpDosDevicesUncPrefix, RtlpDosDevicesPrefix

\* A \\share\dir part that is not all there is has a separator and two names.
LEMMA ShareLong ==
  ASSUME NEW S, NEW d \in Seq(S), Len(d) >= 2, RtlpSkipUNCPrefix(d) < Len(d)
  PROVE  RtlpSkipUNCPrefix(d) >= 4
  <1> DEFINE n == RtlpSkipUNCPrefix(d)
  <1>1. Len(d) \in Nat
    OBVIOUS
  <1>2. PICK i \in 2..Len(d) : \E j \in i..Len(d) :
          /\ n \in j..Len(d)
          /\ i = Len(d) \/ Sep(d, i)
          /\ \A k \in j..(n - 1) : ~Sep(d, k)
          /\ j = n => n = Len(d)
    BY PrefixIs
  <1>3. PICK j \in i..Len(d) :
          /\ n \in j..Len(d)
          /\ i = Len(d) \/ Sep(d, i)
          /\ \A k \in j..(n - 1) : ~Sep(d, k)
          /\ j = n => n = Len(d)
    BY <1>2
  <1>. HIDE DEF n
  <1>4. n < Len(d)
    BY DEF n
  <1>5. i \in Nat /\ j \in Nat /\ n \in Nat /\ i <= j /\ j < n /\ i >= 2 /\ j \in j..(n - 1)
    BY <1>1, <1>2, <1>3, <1>4
  <1>6. ~Sep(d, j) /\ Sep(d, i)
    BY <1>3, <1>4, <1>5
  <1>7. i # j
    BY <1>6
  <1>. QED
    BY <1>5, <1>7 DEF n

\* Of a full path: what the file part has to be behind is behind every separator that is cut.
LEMMA FullAgrees ==
  ASSUME NEW S, NEW s, NEW cd, FullFacts(S, s, cd), Nested(cd), ~IsDevicePath(s),
         HasNtName(Full(s, cd)), CharsKept(s) > 0
  PROVE  Agrees(s, cd)
  <1> DEFINE full == Full(s, cd)
             cut  == Prefixed(s, cd).cut
             n    == LastSeparator(full)
             nt   == NtNameOf(full)
             file == FilePart(s, cd)
             unc  == TypeOfString(s) = "UncAbsolute"
  <1>1. /\ UNICODE_NULL \notin S /\ s \in Seq(S) /\ cd \in Directory(S) /\ CutInside(s, cd)
        /\ Len(s) \in Nat
    BY DEF FullFacts
  <1>2. full \in Seq(FullChar(S)) /\ Len(full) \in Nat /\ UNICODE_NULL \notin FullChar(S)
    BY <1>1, FullIs, NoTerminator
  <1>3. RootOf(S, s, cd, full, cut)
    BY RootIs
  <1>4. file = IF n # 0 /\ n < Len(full) /\ n >= (IF unc THEN cut ELSE 3) THEN n ELSE 0
    BY DEF FilePart, LastSeparator
  <1>5. Stored(s, cd) = full /\ FilePartFound(s, cd) = file
    BY DEF IsDevicePath, Stored, FilePartFound
  <1>. HIDE DEF full, cut, file, unc
  <1>6. /\ n \in 0..Len(full) /\ \A k \in 1..Len(full) : full[k] = BackSlash => k <= n
    BY <1>2, LastSeparatorIs
  <1>. HIDE DEF n
  <1>7. file \in Nat
    BY <1>2, <1>4, <1>6
  <1> DEFINE k == PrefixCut(full)
             d == Len(PrefixBuffer(full)) - k
             part == QuickPartName(ToQuick(nt))
  <1>8. ASSUME k # 0 => k <= Len(full) /\ full[k] = BackSlash
        PROVE  /\ QuickName(ToQuick(nt)) = nt
               /\ part = IF n < Len(full) THEN n + d ELSE 0
               /\ PartName(full, file) = IF file = 0 THEN 0 ELSE file + d
    BY <1>2, <1>7, <1>8, NtPartIs DEF n
  <1>9. CASE unc
    <2>1. ShareRoot(S, s, full, cut)
      BY <1>3, <1>9 DEF RootOf, unc
    <2>2. cut >= 4 \/ Len(full) <= 3
      <3>1. CASE cut < Len(s)
        BY <1>1, <2>1, <3>1, ShareLong DEF ShareRoot
      <3>2. CASE cut >= Len(s)
        <4>1. Len(full) <= Len(Composed(s, cd)) /\ Len(Composed(s, cd)) \in Nat
          BY <1>1, FullIs, ComposedType DEF full
        <4>2. Len(Composed(s, cd)) <= Len(s)
          <5> DEFINE b == Min({CharsKept(s) + 1, Len(s)})
          <5>1. Prefixed(s, cd).prefix = <<>> /\ Prefixed(s, cd).source = 0
            BY <1>9 DEF Prefixed, From, unc
          <5>2. b \in 0..Len(s)
            BY <1>1, CopiedInside
          <5>3. Composed(s, cd) = <<>> \o SubSeq(s, 0 + 1, b)
            BY <5>1 DEF Composed
          <5>. HIDE DEF b
          <5>4. SubSeq(s, 0 + 1, b) \in Seq(S) /\ Len(SubSeq(s, 0 + 1, b)) <= Len(s)
            BY <1>1, <5>2
          <5>. QED
            BY <5>3, <5>4
        <4>3. cut \in Nat
          BY <2>1, PrefixGrows DEF ShareRoot
        <4>. QED
          BY <1>1, <1>2, <3>2, <4>1, <4>2, <4>3
      <3>. QED
        BY <1>1, <2>1, <3>1, <3>2, PrefixGrows DEF ShareRoot
    <2>3. TypeOfString(full) = "UncAbsolute" /\ full[2] = BackSlash /\ Len(full) >= 2 /\ cut \in Nat /\ cut >= 2
      <3>1. s \in Seq(S) /\ Len(s) >= 2 /\ Len(full) >= 2 /\ cut = RtlpSkipUNCPrefix(s)
        BY <1>1, <2>1 DEF ShareRoot
      <3>2. RtlpSkipUNCPrefix(s) \in 2..Len(s)
        BY <3>1, PrefixGrows
      <3>3. HasNtName(full)
        BY DEF full
      <3>4. cut >= 4 \/ Len(full) <= 3 \/ full[3] = BackSlash
        BY <2>2
      <3>5. TypeOfString(full) = "UncAbsolute" /\ full[2] = BackSlash
        BY <1>1, <1>2, <2>1, <3>3, <3>4, ShareType
      <3>. QED
        BY <1>1, <3>1, <3>2, <3>5
    <2>4. k = 2 /\ d = 6
      <3>1. k = 2 /\ PrefixBuffer(full) = RtlpDosDevicesUncPrefix
        BY <2>3 DEF PrefixCut, PrefixBuffer
      <3>. QED
        BY <3>1, UncPrefixLength
    <2>. HIDE DEF k, d, part
    <2>5. /\ QuickName(ToQuick(nt)) = nt
          /\ part = IF n < Len(full) THEN n + 6 ELSE 0
          /\ PartName(full, file) = IF file = 0 THEN 0 ELSE file + 6
      BY <1>8, <2>3, <2>4 DEF k
    <2>6. InShareAndDir(s, part) <=> (part - 8) + 2 < cut
      BY <1>9, <2>1, UncPrefixLength DEF InShareAndDir, unc, ShareRoot
    <2>7. n >= 2
      BY <1>2, <1>6, <2>3
    <2>8. PartName(full, file) = IF InShareAndDir(s, part) THEN 0 ELSE part
      BY <1>2, <1>4, <1>6, <1>9, <2>3, <2>5, <2>6, <2>7
    <2>. QED
      BY <1>5, <2>5, <2>8 DEF Agrees, part, nt
  <1>10. CASE ~unc
    <2>1. n >= 3 /\ (k # 0 => k <= Len(full) /\ full[k] = BackSlash) /\ d \in {0, 4, 6}
      <3>1. CASE DriveRoot(full, cut)
        <4>1. TypeOfString(full) = "DriveAbsolute"
          BY <1>2, <3>1, DriveType
        <4>2. k = 0 /\ d = 4
          BY <4>1 DEF PrefixCut, PrefixBuffer, RtlpDosDevicesPrefix
        <4>3. n >= 3
          BY <1>2, <1>6, <3>1 DEF DriveRoot
        <4>. QED
          BY <4>2, <4>3
      <3>2. CASE RootOfDevices(full, cut)
        <4>1. TypeOfString(full) = "LocalDevice"
          BY <1>2, <3>2, DeviceType
        <4>2. k = 4 /\ d = 0
          BY <4>1 DEF PrefixCut, PrefixBuffer, RtlpDosDevicesPrefix
        <4>3. n >= 4 /\ Len(full) >= 4 /\ full[4] = BackSlash
          BY <1>2, <1>6, <3>2 DEF RootOfDevices
        <4>4. n >= 3
          BY <1>6, <4>3
        <4>. QED
          BY <4>2, <4>3, <4>4
      <3>3. CASE ShareRoot(S, cd, full, cut) /\ ShareInside(full, cut)
        <4>1. PICK i \in 3..Len(full) : i <= cut /\ full[i] = BackSlash
          BY <3>3 DEF ShareInside
        <4>2. n >= i /\ i >= 3
          BY <1>2, <1>6, <4>1
        <4>3. cut \in Nat
          BY <3>3, PrefixGrows DEF ShareRoot
        <4>4. cut >= 4 \/ full[3] = BackSlash
          BY <4>1, <4>3
        <4>5. TypeOfString(full) = "UncAbsolute" /\ full[2] = BackSlash /\ Len(full) >= 2
          BY <1>1, <1>2, <3>3, <4>4, ShareType DEF ShareRoot, full
        <4>6. k = 2 /\ PrefixBuffer(full) = RtlpDosDevicesUncPrefix
          BY <4>5 DEF PrefixCut, PrefixBuffer
        <4>7. d = 6
          BY <4>6, UncPrefixLength
        <4>8. n >= 3
          BY <1>6, <4>1, <4>2
        <4>. QED
          BY <4>5, <4>6, <4>7, <4>8
      <3>. QED
        BY <1>3, <1>10, <3>1, <3>2, <3>3 DEF RootOf, unc
    <2>2. ~InShareAndDir(s, part)
      BY <1>10 DEF InShareAndDir, unc
    <2>. HIDE DEF k, d, part
    <2>3. /\ QuickName(ToQuick(nt)) = nt
          /\ part = IF n < Len(full) THEN n + d ELSE 0
          /\ PartName(full, file) = IF file = 0 THEN 0 ELSE file + d
      BY <1>8, <2>1 DEF k
    <2>4. PartName(full, file) = part
      BY <1>2, <1>4, <1>6, <1>10, <2>1, <2>3
    <2>. QED
      BY <1>5, <2>2, <2>3, <2>4 DEF Agrees, part, nt
  <1>. QED
    BY <1>9, <1>10

(***************************************************************************)
(* QuickPathAgrees of every name and current directory: whatever a full    *)
(* path starts with, what is cut of it ends in a separator and what is put *)
(* in front instead does too, so that the last separator is the same one   *)
(* from both ends.                                                         *)
(***************************************************************************)
THEOREM QuickPathAlwaysAgrees == Spec => []QuickPathAgrees
  <1>1. path \in Seq(Char) => QuickPathAgrees
    <2> SUFFICES ASSUME path \in Seq(Char), NEW cd \in CurDir, Convertible(path, cd)
                 PROVE  Agrees(path, cd)
      BY DEF QuickPathAgrees, Agrees
    <2>1. UNICODE_NULL \notin Char /\ cd \in Directory(Char) /\ Nested(cd)
      BY CharAndDirectory, AllNested
    <2>2. CASE IsDevicePath(path)
      BY <2>2, DeviceAgrees
    <2>3. CASE ~IsDevicePath(path)
      <3>1. CharsKept(path) > 0 /\ CutInside(path, cd) /\ HasNtName(Full(path, cd))
        BY <2>3 DEF Convertible, Storable, Composable, Stored, IsDevicePath
      <3>2. FullFacts(Char, path, cd)
        BY <2>1, <3>1 DEF FullFacts
      <3>. QED
        BY <2>1, <2>3, <3>1, <3>2, FullAgrees
    <2>. QED
      BY <2>2, <2>3
  <1>. QED
    BY <1>1, NameKept, PTL
-----------------------------------------------------------------------------
\* No component ends in a dot when no dot is in front of a separator or at the end.
LEMMA NoDotEnds ==
  ASSUME NEW S, BackSlash \in S, NEW full \in Seq(S), ~DotLeft(full)
  PROVE  \A i \in 1..Len(full) : ~DotEnds(full, i)
  <1>1. PICK names, l : Pieces(S, full, names, l)
    BY ComponentsRead
  <1>2. /\ names \in Seq(Seq(S)) /\ l \in Seq(S) /\ Split(full) = Append(names, l)
        /\ DotsFound(full, names, l)
    BY <1>1, DotsAreFound DEF Pieces, Reads
  <1>3. /\ Len(names) \in Nat /\ Len(Split(full)) = Len(names) + 1 /\ Split(full)[Len(names) + 1] = l
        /\ \A k \in 1..Len(names) : Split(full)[k] = names[k]
        /\ DOMAIN Split(full) = 1..(Len(names) + 1)
    BY <1>2
  <1>4. \A k \in 1..(Len(names) + 1) : ~EndsInDot(Split(full)[k])
    BY <1>3 DEF DotLeft, EndsInDot
  <1>5. (\A k \in 1..Len(names) : ~EndsInDot(names[k])) /\ ~EndsInDot(l)
    BY <1>3, <1>4
  <1>. QED
    BY <1>2, <1>5 DEF DotsFound, DotEnds

(***************************************************************************)
(* What is in the way of a second collapse is not in a full path: nothing  *)
(* behind its marked part but the dots that are left.                      *)
(***************************************************************************)
LEMMA FullClean ==
  ASSUME NEW S, NEW s, NEW cd, FullFacts(S, s, cd)
  PROVE  /\ Full(s, cd) \in Seq(FullChar(S)) /\ Len(Full(s, cd)) \in Nat /\ Len(Full(s, cd)) >= 1
         /\ Full(s, cd)[Len(Full(s, cd))] \notin {Space, Dot}
         /\ \A i \in 1..Len(Full(s, cd)) : Full(s, cd)[i] # Slash
         /\ Prefixed(s, cd).cut \in Nat
         /\ \A i \in (Prefixed(s, cd).cut + 1)..Len(Full(s, cd)) :
              i >= 2 => Full(s, cd)[i - 1] # BackSlash \/ Full(s, cd)[i] # BackSlash
  <1> DEFINE text == Composed(s, cd)
             m == Prefixed(s, cd).cut
             C == FullChar(S)
             skip == SkipTrailingPathSeparators(s)
             full == Full(s, cd)
  <1>1. full \in Seq(C) /\ Len(full) \in 1..Len(text)
    BY FullIs DEF FullFacts
  <1>2. text \in Seq(C) /\ m \in Nat
    BY ComposedType DEF FullFacts
  <1>3. m <= Len(text)
    BY DEF FullFacts, CutInside
  <1>4. full = Collapsed(text, m, skip) /\ BackSlash \in C
    BY DEF Full, FullChar
  <1>. HIDE DEF text, m, C, skip, full
  <1>5. m \in 0..Len(text) /\ Len(full) \in Nat /\ Len(full) >= 1 /\ full # <<>>
    BY <1>1, <1>2, <1>3
  <1>6. /\ \A i \in 1..Len(full) : full[i] # Slash
        /\ full[Len(full)] \notin {Space, Dot}
    BY <1>2, <1>4, <1>5, CollapsedClean
  <1>7. \A i \in (m + 1)..Len(full) : i >= 2 => full[i - 1] # BackSlash \/ full[i] # BackSlash
    BY <1>2, <1>4, <1>5, CollapsedSingle
  <1>. QED
    BY <1>1, <1>2, <1>5, <1>6, <1>7 DEF full, m, C
-----------------------------------------------------------------------------
\* The type of a full path that has an NT name is that of what it starts with.
LEMMA FullTypes ==
  ASSUME NEW S, NEW s, NEW cd, FullFacts(S, s, cd), Nested(cd), HasNtName(Full(s, cd))
  PROVE  LET full == Full(s, cd)
             cut  == Prefixed(s, cd).cut
         IN  \/ DriveRoot(full, cut) /\ TypeOfString(full) = "DriveAbsolute"
             \/ RootOfDevices(full, cut) /\ TypeOfString(full) = "LocalDevice"
             \/ (\E d : ShareRoot(S, d, full, cut)) /\ TypeOfString(full) = "UncAbsolute"
  <1> DEFINE full == Full(s, cd)
             cut  == Prefixed(s, cd).cut
  <1>1. /\ UNICODE_NULL \notin S /\ s \in Seq(S) /\ cd \in Directory(S) /\ CutInside(s, cd)
        /\ Len(s) \in Nat
    BY DEF FullFacts
  <1>2. full \in Seq(FullChar(S)) /\ Len(full) \in Nat /\ UNICODE_NULL \notin FullChar(S)
    BY <1>1, FullIs, NoTerminator
  <1>3. RootOf(S, s, cd, full, cut)
    BY RootIs
  <1>. HIDE DEF full, cut
  <1>4. CASE TypeOfString(s) = "UncAbsolute"
    <2>1. ShareRoot(S, s, full, cut)
      BY <1>3, <1>4 DEF RootOf
    <2>2. cut >= 4 \/ Len(full) <= 3
      <3>1. CASE cut < Len(s)
        BY <1>1, <2>1, <3>1, ShareLong DEF ShareRoot
      <3>2. CASE cut >= Len(s)
        <4>1. Len(full) <= Len(Composed(s, cd)) /\ Len(Composed(s, cd)) \in Nat
          BY <1>1, FullIs, ComposedType DEF full
        <4>2. Len(Composed(s, cd)) <= Len(s)
          <5> DEFINE b == Min({CharsKept(s) + 1, Len(s)})
          <5>1. Prefixed(s, cd).prefix = <<>> /\ Prefixed(s, cd).source = 0
            BY <1>4 DEF Prefixed, From
          <5>2. b \in 0..Len(s)
            BY <1>1, CopiedInside
          <5>3. Composed(s, cd) = <<>> \o SubSeq(s, 0 + 1, b)
            BY <5>1 DEF Composed
          <5>. HIDE DEF b
          <5>4. SubSeq(s, 0 + 1, b) \in Seq(S) /\ Len(SubSeq(s, 0 + 1, b)) <= Len(s)
            BY <1>1, <5>2
          <5>. QED
            BY <5>3, <5>4
        <4>3. cut \in Nat
          BY <2>1, PrefixGrows DEF ShareRoot
        <4>. QED
          BY <1>1, <1>2, <3>2, <4>1, <4>2, <4>3
      <3>. QED
        BY <1>1, <2>1, <3>1, <3>2, PrefixGrows DEF ShareRoot
    <2>. QED
      BY <1>1, <1>2, <2>1, <2>2, ShareType DEF full, cut
  <1>5. CASE TypeOfString(s) # "UncAbsolute"
    <2>1. CASE DriveRoot(full, cut)
      BY <1>2, <2>1, DriveType DEF full, cut
    <2>2. CASE RootOfDevices(full, cut)
      BY <1>2, <2>2, DeviceType DEF full, cut
    <2>3. CASE ShareRoot(S, cd, full, cut) /\ ShareInside(full, cut)
      <3>1. PICK i \in 3..Len(full) : i <= cut /\ full[i] = BackSlash
        BY <2>3 DEF ShareInside
      <3>2. cut \in Nat
        BY <2>3, PrefixGrows DEF ShareRoot
      <3>3. cut >= 4 \/ full[3] = BackSlash
        BY <3>1, <3>2
      <3>. QED
        BY <1>1, <1>2, <2>3, <3>3, ShareType DEF full, cut
    <2>. QED
      BY <1>3, <1>5, <2>1, <2>2, <2>3 DEF RootOf
  <1>. QED
    BY <1>4, <1>5
-----------------------------------------------------------------------------
\* What ends in no space is kept to its end, and copied to its end.
LEMMA CopiedWhole ==
  ASSUME NEW S, NEW f \in Seq(S), Len(f) >= 1, f[Len(f)] # Space
  PROVE  CharsKept(f) = Len(f) /\ Min({CharsKept(f) + 1, Len(f)}) = Len(f) /\ CharsKept(f) > 0
  <1>1. Len(f) \in Nat /\ Len(f) \in 1..Len(f) /\ Last(f) # Space
    BY DEF Last
  <1>2. CharsKept(f) > 0
    BY <1>1, KeptOne
  <1>3. CharsKept(f) = Len(f)
    BY <1>1, <1>2, KeptAll
  <1>4. {CharsKept(f) + 1, Len(f)} \in SUBSET Nat /\ {CharsKept(f) + 1, Len(f)} # {}
    BY <1>1, <1>3
  <1>5. /\ Min({CharsKept(f) + 1, Len(f)}) \in {CharsKept(f) + 1, Len(f)}
        /\ Min({CharsKept(f) + 1, Len(f)}) <= Len(f)
    BY <1>4, MinIs
  <1>. QED
    BY <1>1, <1>2, <1>3, <1>5

\* Its two parts make a string.
LEMMA PartsMake ==
  ASSUME NEW S, NEW f \in Seq(S), NEW n \in 0..Len(f)
  PROVE  SubSeq(f, 1, n) \o SubSeq(f, n + 1, Len(f)) = f
  <1>1. Len(f) \in Nat /\ 0 \in 0..Len(f) /\ Len(f) \in 0..Len(f) /\ 0 <= n /\ n <= Len(f) /\ n \in Nat
    OBVIOUS
  <1> DEFINE a == SubSeq(f, 0 + 1, n)
             b == SubSeq(f, n + 1, Len(f))
             t == a \o b
  <1>a. a = SubSeq(f, 1, n)
    BY 0 + 1 = 1
  <1>2. /\ a \in Seq(S) /\ Len(a) = n - 0
        /\ \A k \in 1..Len(a) : a[k] = f[k + 0]
    BY <1>1, SubSeqIs, Zenon
  <1>3. /\ b \in Seq(S) /\ Len(b) = Len(f) - n
        /\ \A k \in 1..Len(b) : b[k] = f[k + n]
    BY <1>1, SubSeqIs, Zenon
  <1>. HIDE DEF a, b
  <1>4. /\ t \in Seq(S) /\ Len(t) = Len(a) + Len(b)
        /\ \A k \in 1..(Len(a) + Len(b)) : t[k] = IF k <= Len(a) THEN a[k] ELSE b[k - Len(a)]
    BY <1>2, <1>3, Concatenation, Zenon
  <1>. HIDE DEF t
  <1>5. Len(t) = Len(f)
    BY <1>1, <1>2, <1>3, <1>4
  <1>6. ASSUME NEW k \in 1..Len(f) PROVE t[k] = f[k]
    <2>1. CASE k <= n
      BY <1>1, <1>2, <1>3, <1>4, <2>1
    <2>2. CASE k > n
      <3>1. k - n \in 1..Len(b) /\ (k - n) + n = k /\ ~(k <= Len(a)) /\ k \in 1..(Len(a) + Len(b)) /\ Len(a) = n
        BY <1>1, <1>2, <1>3, <2>2
      <3>. QED
        BY <1>3, <1>4, <3>1
    <2>. QED
      BY <1>1, <2>1, <2>2
  <1>7. t = f
    BY <1>4, <1>5, <1>6
  <1>. QED
    BY <1>7, <1>a DEF t, b

\* A path of a type of its own is put together as it is.
LEMMA ComposedAgain ==
  ASSUME NEW S, UNICODE_NULL \notin S, NEW f \in Seq(S), Len(f) >= 1, f[Len(f)] # Space, NEW cd,
         TypeOfString(f) \in {"DriveAbsolute", "LocalDevice", "UncAbsolute"}
  PROVE  Composed(f, cd) = f
  <1>1. Len(f) \in Nat
    OBVIOUS
  <1>2. Min({CharsKept(f) + 1, Len(f)}) = Len(f)
    BY CopiedWhole
  <1>3. Composed(f, cd) = Prefixed(f, cd).prefix \o SubSeq(f, Prefixed(f, cd).source + 1, Len(f))
    BY <1>2 DEF Composed
  <1>4. CASE TypeOfString(f) = "DriveAbsolute"
    <2>1. Prefixed(f, cd).prefix = SubSeq(f, 1, 3) /\ Prefixed(f, cd).source = 3
      BY <1>4 DEF Prefixed, From
    <2>2. 3 \in 0..Len(f)
      BY <1>1, <1>4, TypeIs
    <2>. QED
      BY <1>3, <2>1, <2>2, PartsMake
  <1>5. CASE TypeOfString(f) # "DriveAbsolute"
    <2>1. Prefixed(f, cd).prefix = <<>> /\ Prefixed(f, cd).source = 0
      BY <1>5 DEF Prefixed, From
    <2>2. SubSeq(f, 1, 0) = <<>> /\ 0 \in 0..Len(f)
      BY <1>1
    <2>. QED
      BY <1>3, <2>1, <2>2, PartsMake
  <1>. QED
    BY <1>4, <1>5
-----------------------------------------------------------------------------
\* The marked part of a path that starts with a share is no shorter, or is all there is.
LEMMA MarkGrows ==
  ASSUME NEW S, NEW d, NEW cut, NEW C, NEW f \in Seq(C), Len(f) >= 2, ShareRoot(S, d, f, cut)
  PROVE  RtlpSkipUNCPrefix(f) = Len(f) \/ RtlpSkipUNCPrefix(f) >= cut
  <1>1. /\ d \in Seq(S) /\ Len(d) >= 2 /\ cut = RtlpSkipUNCPrefix(d) /\ Len(d) \in Nat
        /\ \A k \in 1..cut : k <= Len(f) => f[k] = Converted(d)[k]
    BY DEF ShareRoot
  <1>2. cut \in 2..Len(d)
    BY <1>1, PrefixGrows
  <1>3. ASSUME NEW k \in 1..RtlpSkipUNCPrefix(d), k <= Len(f)
        PROVE  IS_PATH_SEPARATOR(f[k]) <=> IS_PATH_SEPARATOR(d[k])
    <2>1. k \in DOMAIN d /\ f[k] = Converted(d)[k]
      BY <1>1, <1>2, <1>3
    <2>. QED
      BY <2>1 DEF Converted, IS_PATH_SEPARATOR
  <1> DEFINE E == S \cup C
  <1>4. d \in Seq(E) /\ f \in Seq(E)
    BY <1>1
  <1>. HIDE DEF E
  <1>. QED
    BY <1>1, <1>3, <1>4, PrefixGrows

(***************************************************************************)
(* A full path that is given again, from any current directory.            *)
(***************************************************************************)
LEMMA FullAgain ==
  ASSUME NEW S, NEW s, NEW cd, FullFacts(S, s, cd), Nested(cd), HasNtName(Full(s, cd)),
         ~DotLeft(Full(s, cd)), NEW cd2, CutInside(Full(s, cd), cd2)
  PROVE  Full(Full(s, cd), cd2) = Full(s, cd)
  <1> DEFINE full == Full(s, cd)
             cut  == Prefixed(s, cd).cut
             C    == FullChar(S)
             m    == Prefixed(full, cd2).cut
             skip == SkipTrailingPathSeparators(full)
  <1>1. /\ full \in Seq(C) /\ Len(full) \in Nat /\ Len(full) >= 1 /\ full[Len(full)] \notin {Space, Dot}
        /\ \A i \in 1..Len(full) : full[i] # Slash
        /\ cut \in Nat
        /\ \A i \in (cut + 1)..Len(full) : i >= 2 => full[i - 1] # BackSlash \/ full[i] # BackSlash
    BY FullClean
  <1>2. UNICODE_NULL \notin C /\ BackSlash \in C
    BY NoTerminator DEF FullFacts, FullChar
  <1>3. \/ DriveRoot(full, cut) /\ TypeOfString(full) = "DriveAbsolute"
        \/ RootOfDevices(full, cut) /\ TypeOfString(full) = "LocalDevice"
        \/ (\E d : ShareRoot(S, d, full, cut)) /\ TypeOfString(full) = "UncAbsolute"
    BY FullTypes
  <1>4. ~DotLeft(full) /\ CutInside(full, cd2)
    OBVIOUS
  <1>. HIDE DEF full, cut, C
  <1>5. Composed(full, cd2) = full
    BY <1>1, <1>2, <1>3, ComposedAgain
  <1>6. m \in Nat /\ (m = Len(full) \/ m >= cut)
    <2>1. CASE DriveRoot(full, cut) /\ TypeOfString(full) = "DriveAbsolute"
      BY <2>1 DEF Prefixed, From, DriveRoot
    <2>2. CASE RootOfDevices(full, cut) /\ TypeOfString(full) = "LocalDevice"
      BY <2>2 DEF Prefixed, From, RootOfDevices, DeviceMark
    <2>3. CASE (\E d : ShareRoot(S, d, full, cut)) /\ TypeOfString(full) = "UncAbsolute"
      <3>1. m = RtlpSkipUNCPrefix(full)
        BY <2>3 DEF Prefixed, From
      <3>2. Len(full) >= 2
        BY <2>3 DEF ShareRoot
      <3>3. RtlpSkipUNCPrefix(full) \in 2..Len(full)
        BY <1>1, <3>2, PrefixGrows
      <3>. QED
        BY <1>1, <2>3, <3>1, <3>2, <3>3, MarkGrows
    <2>. QED
      BY <1>3, <2>1, <2>2, <2>3
  <1>. HIDE DEF m
  <1>7. m \in 0..Len(full)
    BY <1>1, <1>4, <1>5, <1>6 DEF CutInside, m
  <1>8. \A i \in (m + 1)..Len(full) : i >= 2 => full[i - 1] # BackSlash \/ full[i] # BackSlash
    BY <1>1, <1>6
  <1>9. \A i \in (m + 1)..Len(full) : ~DotEnds(full, i)
    BY <1>1, <1>2, <1>4, <1>7, NoDotEnds
  <1>10. skip => full[Len(full)] # BackSlash
    BY DEF SkipTrailingPathSeparators, IS_PATH_SEPARATOR
  <1>11. Steady(full, m, skip)
    <2>1. full # <<>>
      BY <1>1
    <2>. HIDE DEF skip
    <2>. QED
      BY <1>1, <1>8, <1>9, <1>10, <2>1 DEF Steady
  <1>12. Collapsed(full, m, skip) = full
    BY <1>1, <1>2, <1>7, <1>11, CollapsedSame
  <1>13. Full(full, cd2) = Collapsed(full, m, skip)
    BY <1>5 DEF Full, m
  <1>. QED
    BY <1>12, <1>13 DEF full

(***************************************************************************)
(* FullPathIsFixedPoint of every name and pair of current directories:     *)
(* what a full path starts with is read as the same type and marked at     *)
(* least as far, and behind the mark a collapse has left no separator      *)
(* twice, no name that ends in a dot and nothing to trim.                  *)
(***************************************************************************)
THEOREM FullPathAlwaysFixedPoint == Spec => []FullPathIsFixedPoint
  <1>1. path \in Seq(Char) => FullPathIsFixedPoint
    <2> SUFFICES ASSUME path \in Seq(Char), NEW cd1 \in CurDir, CutInside(path, cd1),
                        ~DotLeft(Full(path, cd1)), HasNtName(Full(path, cd1)),
                        NEW cd2 \in CurDir, CutInside(Full(path, cd1), cd2)
                 PROVE  Full(Full(path, cd1), cd2) = Full(path, cd1)
      BY DEF FullPathIsFixedPoint
    <2>1. UNICODE_NULL \notin Char /\ cd1 \in Directory(Char) /\ Nested(cd1)
      BY CharAndDirectory, AllNested
    <2>2. FullFacts(Char, path, cd1)
      BY <2>1 DEF FullFacts
    <2>. QED
      BY <2>1, <2>2, FullAgain
  <1>. QED
    BY <1>1, NameKept, PTL
-----------------------------------------------------------------------------
\* The two parts of a string, each of them as it is in it.
LEMMA PartsAre ==
  ASSUME NEW S, NEW f \in Seq(S), NEW n \in 1..(Len(f) - 1)
  PROVE  /\ SubSeq(f, 1, n) \in Seq(S) /\ Len(SubSeq(f, 1, n)) = n
         /\ \A k \in 1..n : SubSeq(f, 1, n)[k] = f[k]
         /\ SubSeq(f, n + 1, Len(f)) \in Seq(S) /\ Len(SubSeq(f, n + 1, Len(f))) = Len(f) - n
         /\ \A k \in 1..(Len(f) - n) : SubSeq(f, n + 1, Len(f))[k] = f[k + n]
  <1>1. Len(f) \in Nat /\ 0 \in 0..Len(f) /\ n \in 0..Len(f) /\ Len(f) \in 0..Len(f) /\ 0 <= n /\ n <= Len(f) /\ 0 + 1 = 1
    OBVIOUS
  <1>2. /\ SubSeq(f, 0 + 1, n) \in Seq(S) /\ Len(SubSeq(f, 0 + 1, n)) = n - 0
        /\ \A k \in 1..Len(SubSeq(f, 0 + 1, n)) : SubSeq(f, 0 + 1, n)[k] = f[k + 0]
    BY <1>1, SubSeqIs, Zenon
  <1>3. /\ SubSeq(f, n + 1, Len(f)) \in Seq(S) /\ Len(SubSeq(f, n + 1, Len(f))) = Len(f) - n
        /\ \A k \in 1..Len(SubSeq(f, n + 1, Len(f))) : SubSeq(f, n + 1, Len(f))[k] = f[k + n]
    BY <1>1, SubSeqIs, Zenon
  <1> DEFINE a == SubSeq(f, 0 + 1, n)
             b == SubSeq(f, n + 1, Len(f))
  <1>4. a = SubSeq(f, 1, n)
    BY <1>1
  <1>5. /\ a \in Seq(S) /\ Len(a) = n - 0 /\ \A k \in 1..Len(a) : a[k] = f[k + 0]
        /\ b \in Seq(S) /\ Len(b) = Len(f) - n /\ \A k \in 1..Len(b) : b[k] = f[k + n]
    BY <1>2, <1>3
  <1>. HIDE DEF a, b
  <1>6. /\ a \in Seq(S) /\ Len(a) = n /\ \A k \in 1..n : a[k] = f[k]
        /\ b \in Seq(S) /\ Len(b) = Len(f) - n /\ \A k \in 1..(Len(f) - n) : b[k] = f[k + n]
    BY <1>5
  <1>. QED
    BY <1>4, <1>6 DEF b

(***************************************************************************)
(* A name behind the last separator of a path, given from the directory in *)
(* front: the path is put together as it was.                              *)
(***************************************************************************)
LEMMA FileComposed ==
  ASSUME NEW S, UNICODE_NULL \notin S, NEW f \in Seq(S), f[Len(f)] # Space,
         \A i \in 1..Len(f) : f[i] # Slash, NEW n \in 1..(Len(f) - 1), n = LastSeparator(f),
         TypeOfString(SubSeq(f, n + 1, Len(f))) # "DriveRelative"
  PROVE  LET dir  == SubSeq(f, 1, n)
             file == SubSeq(f, n + 1, Len(f))
         IN  /\ Composed(file, dir) = f
             /\ Prefixed(file, dir).cut = CurDirMark(dir)
             /\ SkipTrailingPathSeparators(file)
  <1> DEFINE dir  == SubSeq(f, 1, n)
             file == SubSeq(f, n + 1, Len(f))
  <1>1. /\ dir \in Seq(S) /\ Len(dir) = n /\ \A k \in 1..n : dir[k] = f[k]
        /\ file \in Seq(S) /\ Len(file) = Len(f) - n
        /\ \A k \in 1..(Len(f) - n) : file[k] = f[k + n]
    BY PartsAre
  <1>2. Len(f) \in Nat /\ n \in 0..Len(f) /\ \A k \in 1..Len(f) : f[k] = BackSlash => k <= n
    BY LastSeparatorIs
  <1>3. dir \o file = f
    BY <1>2, PartsMake
  <1>4. TypeOfString(file) # "DriveRelative"
    OBVIOUS
  <1>. HIDE DEF dir, file
  <1>5. \A k \in 1..Len(file) : ~IS_PATH_SEPARATOR(file[k])
    <2> SUFFICES ASSUME NEW k \in 1..Len(file) PROVE file[k] # BackSlash /\ file[k] # Slash
      BY DEF IS_PATH_SEPARATOR
    <2>1. k + n \in 1..Len(f) /\ file[k] = f[k + n] /\ ~(k + n <= n)
      BY <1>1, <1>2
    <2>. QED
      BY <1>2, <2>1
  <1>6. Len(file) \in Nat /\ Len(file) >= 1 /\ file[Len(file)] # Space
    <2>1. Len(file) \in 1..(Len(f) - n) /\ Len(file) + n = Len(f)
      BY <1>1, <1>2
    <2>. QED
      BY <1>1, <2>1
  <1>7. TypeOfString(file) = "Relative"
    <2>1. TypeOfString(file) = RtlDetermineDosPathNameType_Ustr(file)
      BY <1>1, TypeIs
    <2>2. ~IS_PATH_SEPARATOR(file[1]) /\ (Len(file) >= 3 => ~IS_PATH_SEPARATOR(file[3]))
      BY <1>5, <1>6
    <2>. QED
      BY <1>4, <1>6, <2>1, <2>2 DEF RtlDetermineDosPathNameType_Ustr
  <1>8. Prefixed(file, dir).prefix = dir /\ Prefixed(file, dir).source = 0 /\ Prefixed(file, dir).cut = CurDirMark(dir)
    BY <1>7 DEF Prefixed, RelativeFromCurDir, From
  <1>9. Min({CharsKept(file) + 1, Len(file)}) = Len(file)
    BY <1>1, <1>6, CopiedWhole
  <1>10. SubSeq(file, 0 + 1, Len(file)) = file
    BY <1>1
  <1>11. Composed(file, dir) = f
    BY <1>3, <1>8, <1>9, <1>10 DEF Composed
  <1>12. SkipTrailingPathSeparators(file)
    BY <1>5, <1>6 DEF SkipTrailingPathSeparators
  <1>. QED
    BY <1>8, <1>11, <1>12 DEF dir, file
-----------------------------------------------------------------------------
\* The directory of a full path is marked at least as far as the path, or to its end.
LEMMA DirectoryMarked ==
  ASSUME NEW S, NEW s, NEW cd, FullFacts(S, s, cd), Nested(cd),
         NEW n \in 1..(Len(Full(s, cd)) - 1), n = LastSeparator(Full(s, cd)),
         TypeOfString(SubSeq(Full(s, cd), 1, n)) \in {"DriveAbsolute", "UncAbsolute"}
  PROVE  LET m == CurDirMark(SubSeq(Full(s, cd), 1, n))
         IN  m \in 0..n /\ (m = n \/ m >= Prefixed(s, cd).cut)
  <1> DEFINE full == Full(s, cd)
             cut  == Prefixed(s, cd).cut
             C    == FullChar(S)
             dir  == SubSeq(full, 1, n)
             m    == CurDirMark(dir)
  <1>1. /\ UNICODE_NULL \notin C /\ full \in Seq(C) /\ Len(full) \in Nat /\ UNICODE_NULL \notin S
        /\ s \in Seq(S) /\ cd \in Directory(S) /\ n \in 1..(Len(full) - 1) /\ n = LastSeparator(full)
    BY FullIs, NoTerminator DEF FullFacts
  <1>2. RootOf(S, s, cd, full, cut)
    BY RootIs
  <1>3. TypeOfString(dir) \in {"DriveAbsolute", "UncAbsolute"}
    OBVIOUS
  <1>. HIDE DEF full, cut, C
  <1>4. dir \in Seq(C) /\ Len(dir) = n /\ \A k \in 1..n : dir[k] = full[k]
    BY <1>1, PartsAre
  <1>5. n \in Nat /\ n >= 1 /\ \A k \in 1..Len(full) : full[k] = BackSlash => k <= n
    BY <1>1, LastSeparatorIs
  <1>. HIDE DEF dir
  <1>6. CASE DriveRoot(full, cut)
    <2>1. n >= 3 /\ dir[2] = Colon /\ cut = 3
      <3>1. 3 \in 1..Len(full) /\ full[3] = BackSlash /\ full[2] = Colon /\ cut = 3
        BY <1>1, <1>6 DEF DriveRoot
      <3>2. n >= 3
        BY <1>5, <3>1
      <3>3. 2 \in 1..n
        BY <1>5, <3>2
      <3>. QED
        BY <1>4, <3>1, <3>2, <3>3
    <2>2. m = 3
      BY <2>1 DEF CurDirMark
    <2>. HIDE DEF m
    <2>3. m \in 0..n /\ m >= cut
      BY <1>5, <2>1, <2>2
    <2>. QED
      BY <2>3 DEF m, dir, cut, full
  <1>7. CASE RootOfDevices(full, cut)
    <2>1. 4 \in 1..Len(full) /\ full[4] = BackSlash
      BY <1>1, <1>7 DEF RootOfDevices
    <2>2. n >= 4
      BY <1>5, <2>1
    <2>3. 1 \in 1..n /\ 2 \in 1..n /\ 3 \in 1..n /\ 4 \in 1..n
      BY <1>5, <2>2
    <2>4. RootOfDevices(dir, cut)
      BY <1>4, <1>7, <2>2, <2>3 DEF RootOfDevices
    <2>5. TypeOfString(dir) = "LocalDevice"
      BY <1>1, <1>4, <2>4, DeviceType
    <2>. QED
      BY <1>3, <2>5
  <1>8. CASE \E d : ShareRoot(S, d, full, cut)
    <2>1. PICK d : ShareRoot(S, d, full, cut)
      BY <1>8
    <2>2. /\ d \in Seq(S) /\ Len(d) \in Nat /\ Len(d) >= 2 /\ TypeOfString(d) = "UncAbsolute"
          /\ cut = RtlpSkipUNCPrefix(d) /\ Len(full) >= 2
          /\ \A k \in 1..cut : k <= Len(full) => full[k] = Converted(d)[k]
      BY <2>1 DEF ShareRoot
    <2>3. cut \in 2..Len(d)
      BY <2>2, PrefixGrows
    <2>4. IS_PATH_SEPARATOR(d[2])
      <3>1. TypeOfString(d) = RtlDetermineDosPathNameType_Ustr(d)
        BY <1>1, <2>2, TypeIs
      <3>. QED
        BY <2>2, <3>1 DEF RtlDetermineDosPathNameType_Ustr
    <2>5. full[2] = BackSlash
      <3>1. 2 \in 1..cut /\ 2 <= Len(full) /\ 2 \in DOMAIN d
        BY <2>2, <2>3
      <3>2. full[2] = Converted(d)[2]
        BY <2>2, <3>1
      <3>. QED
        BY <2>4, <3>1, <3>2 DEF Converted, IS_PATH_SEPARATOR
    <2>6. n >= 2
      <3>1. 2 \in 1..Len(full)
        BY <1>1, <2>2
      <3>. QED
        BY <1>5, <2>5, <3>1
    <2>7. ShareRoot(S, d, dir, cut)
      <3>1. ASSUME NEW k \in 1..cut, k <= Len(dir) PROVE dir[k] = Converted(d)[k]
        <4>1. k \in 1..n /\ k <= Len(full)
          BY <1>1, <1>4, <2>3, <3>1
        <4>. QED
          BY <1>4, <2>2, <4>1
      <3>. QED
        BY <1>4, <2>2, <2>6, <3>1 DEF ShareRoot
    <2>8. RtlpSkipUNCPrefix(dir) = Len(dir) \/ RtlpSkipUNCPrefix(dir) >= cut
      BY <1>4, <2>6, <2>7, MarkGrows
    <2>9. m = RtlpSkipUNCPrefix(dir)
      <3>1. 2 \in 1..n
        BY <1>5, <2>6
      <3>2. dir[2] # Colon
        BY <1>4, <2>5, <3>1 DEF Colon, BackSlash
      <3>. QED
        BY <3>2 DEF CurDirMark
    <2>10. RtlpSkipUNCPrefix(dir) \in 2..Len(dir)
      BY <1>4, <2>6, PrefixGrows
    <2>. QED
      BY <1>4, <1>5, <2>8, <2>9, <2>10 DEF m, dir, cut, full
  <1>. QED
    BY <1>2, <1>6, <1>7, <1>8 DEF RootOf, m, dir, cut, full

(***************************************************************************)
(* The file part of a full path, given from the directory in front of it.  *)
(***************************************************************************)
LEMMA FileAgain ==
  ASSUME NEW S, NEW s, NEW cd, FullFacts(S, s, cd), Nested(cd), ~DotLeft(Full(s, cd)),
         NEW n \in 1..(Len(Full(s, cd)) - 1), n = LastSeparator(Full(s, cd)),
         TypeOfString(SubSeq(Full(s, cd), 1, n)) \in {"DriveAbsolute", "UncAbsolute"},
         TypeOfString(SubSeq(Full(s, cd), n + 1, Len(Full(s, cd)))) # "DriveRelative"
  PROVE  Full(SubSeq(Full(s, cd), n + 1, Len(Full(s, cd))), SubSeq(Full(s, cd), 1, n)) = Full(s, cd)
  <1> DEFINE full == Full(s, cd)
             cut  == Prefixed(s, cd).cut
             C    == FullChar(S)
             dir  == SubSeq(full, 1, n)
             file == SubSeq(full, n + 1, Len(full))
             m    == CurDirMark(dir)
  <1>1. /\ full \in Seq(C) /\ Len(full) \in Nat /\ Len(full) >= 1 /\ full[Len(full)] \notin {Space, Dot}
        /\ \A i \in 1..Len(full) : full[i] # Slash
        /\ cut \in Nat
        /\ \A i \in (cut + 1)..Len(full) : i >= 2 => full[i - 1] # BackSlash \/ full[i] # BackSlash
    BY FullClean
  <1>2. UNICODE_NULL \notin C /\ BackSlash \in C
    BY NoTerminator DEF FullFacts, FullChar
  <1>3. m \in 0..n /\ (m = n \/ m >= cut)
    BY DirectoryMarked
  <1>4. ~DotLeft(full) /\ n \in 1..(Len(full) - 1) /\ n = LastSeparator(full) /\ TypeOfString(file) # "DriveRelative"
    OBVIOUS
  <1>. HIDE DEF full, cut, C
  <1>5. Composed(file, dir) = full /\ Prefixed(file, dir).cut = m /\ SkipTrailingPathSeparators(file)
    BY <1>1, <1>2, <1>4, FileComposed
  <1>6. Full(file, dir) = Collapsed(full, m, TRUE)
    BY <1>5 DEF Full
  <1>7. \A k \in 1..Len(full) : full[k] = BackSlash => k <= n
    BY <1>1, <1>4, LastSeparatorIs
  <1>. HIDE DEF dir, file, m
  <1>8. m \in 0..Len(full) /\ n \in Nat /\ m \in Nat
    BY <1>1, <1>3, <1>4
  <1>9. \A i \in (m + 1)..Len(full) : i >= 2 => full[i - 1] # BackSlash \/ full[i] # BackSlash
    <2>1. CASE m = n
      <3> SUFFICES ASSUME NEW i \in (m + 1)..Len(full) PROVE full[i] # BackSlash
        OBVIOUS
      <3>1. i \in 1..Len(full) /\ ~(i <= n)
        BY <1>1, <1>8, <2>1
      <3>. QED
        BY <1>7, <3>1
    <2>2. CASE m >= cut
      BY <1>1, <1>8, <2>2
    <2>. QED
      BY <1>3, <2>1, <2>2
  <1>10. \A i \in (m + 1)..Len(full) : ~DotEnds(full, i)
    BY <1>1, <1>2, <1>4, <1>8, NoDotEnds
  <1>11. full[Len(full)] # BackSlash
    <2>1. Len(full) \in 1..Len(full) /\ ~(Len(full) <= n)
      BY <1>1, <1>4
    <2>. QED
      BY <1>7, <2>1
  <1>12. Steady(full, m, TRUE)
    <2>1. full # <<>>
      BY <1>1
    <2>. QED
      BY <1>1, <1>9, <1>10, <1>11, <2>1 DEF Steady
  <1>13. Collapsed(full, m, TRUE) = full
    BY <1>1, <1>2, <1>8, <1>12, CollapsedSame
  <1>. QED
    BY <1>6, <1>13 DEF full, dir, file

(***************************************************************************)
(* FilePartInDirectory of every name and current directory: the directory  *)
(* in front of a file part is one the name is relative to, of the same     *)
(* root, and put together they are collapsed already.                      *)
(***************************************************************************)
THEOREM FilePartAlwaysInDirectory == Spec => []FilePartInDirectory
  <1>1. path \in Seq(Char) => FilePartInDirectory
    <2> SUFFICES ASSUME path \in Seq(Char), NEW cd \in {cd \in CurDir : CutInside(path, cd)},
                        NEW full \in {Full(path, cd)}, NEW n \in {FilePart(path, cd)},
                        n # 0, ~DotLeft(full),
                        NEW dir \in {SubSeq(full, 1, n)},
                        NEW file \in {SubSeq(full, n + 1, Len(full))},
                        TypeOfString(dir) \in {"DriveAbsolute", "UncAbsolute"},
                        TypeOfString(file) # "DriveRelative"
                 PROVE  Full(file, dir) = full
      BY Zenon DEF FilePartInDirectory
    <2>1. /\ UNICODE_NULL \notin Char /\ cd \in CurDir /\ CutInside(path, cd)
          /\ cd \in Directory(Char) /\ Nested(cd)
      BY CharAndDirectory, AllNested
    <2>2. FullFacts(Char, path, cd)
      BY <2>1 DEF FullFacts
    <2>3. /\ full = Full(path, cd) /\ n = FilePart(path, cd)
          /\ dir = SubSeq(full, 1, n) /\ file = SubSeq(full, n + 1, Len(full))
      OBVIOUS
    <2>4. n = LastSeparator(full) /\ n < Len(full)
      BY <2>3 DEF FilePart, LastSeparator
    <2>5. full \in Seq(FullChar(Char)) /\ Len(full) \in Nat
      BY <2>2, <2>3, FullClean
    <2>6. n \in 0..Len(full)
      BY <2>4, <2>5, LastSeparatorIs
    <2>7. n \in 1..(Len(full) - 1)
      BY <2>4, <2>5, <2>6
    <2>. QED
      BY <2>1, <2>2, <2>3, <2>4, <2>7, FileAgain
  <1>. QED
    BY <1>1, NameKept, PTL
-----------------------------------------------------------------------------
(***************************************************************************)
(* A path that is put together has three dots only where the name or the   *)
(* current directory has them: one ends where the other starts with a      *)
(* separator, or in the marked part.                                       *)
(***************************************************************************)
LEMMA ThreeDotsIn ==
  ASSUME NEW S, NEW s \in Seq(S), ~HasThreeDots(s)
  PROVE  NoThreeDots(s, 0)
  <1> SUFFICES ASSUME NEW i \in 1..(Len(s) - 2), ThreeDots(s, i) PROVE FALSE
    BY DEF NoThreeDots
  <1>1. s[i] = Dot /\ s[i + 1] = Dot /\ s[i + 2] = Dot
    BY DEF ThreeDots
  <1> DEFINE t == SubSeq(s, i, i + 2)
  <1>2. t \in Seq(S) /\ Len(t) = 3 /\ \A k \in 1..3 : t[k] = s[(i + k) - 1]
    OBVIOUS
  <1>. HIDE DEF t
  <1>3. t[1] = Dot /\ t[2] = Dot /\ t[3] = Dot
    <2>1. (i + 1) - 1 = i /\ (i + 2) - 1 = i + 1 /\ (i + 3) - 1 = i + 2
      OBVIOUS
    <2>2. t[1] = s[(i + 1) - 1] /\ t[2] = s[(i + 2) - 1] /\ t[3] = s[(i + 3) - 1]
      BY <1>2
    <2>. QED
      BY <1>1, <2>1, <2>2
  <1>4. t = <<Dot, Dot, Dot>>
    BY <1>2, <1>3
  <1>. QED
    BY <1>4 DEF HasThreeDots, t

\* What is put in front of a name is the current directory, or all of it is marked.
LEMMA MarkedOrCurDir ==
  ASSUME NEW S, NEW s, NEW cd, FullFacts(S, s, cd), TypeOfString(s) # "UncAbsolute"
  PROVE  Prefixed(s, cd).prefix = cd \/ Prefixed(s, cd).cut >= Len(Prefixed(s, cd).prefix)
  <1>1. /\ UNICODE_NULL \notin S /\ s \in Seq(S) /\ cd \in Directory(S) /\ Len(s) \in Nat
    BY DEF FullFacts
  <1>2. cd \in Seq(S) /\ CurDirMark(cd) \in 2..Len(cd) /\ Len(cd) \in Nat
    BY <1>1, MarkInside
  <1>3. TypeOfString(s) \in {"LocalDevice", "DriveAbsolute", "Relative", "DriveRelative", "Rooted", "RootLocalDevice"}
    BY <1>1, TypeIs
  <1>4. CASE TypeOfString(s) \in {"LocalDevice", "RootLocalDevice"}
    BY <1>4 DEF Prefixed, From, DeviceRoot, DeviceMark, DeviceRootString
  <1>5. CASE TypeOfString(s) = "DriveAbsolute"
    <2>1. Prefixed(s, cd).prefix = SubSeq(s, 1, 3) /\ Prefixed(s, cd).cut = 3
      BY <1>5 DEF Prefixed, From
    <2>2. Len(s) >= 3
      BY <1>1, <1>5, TypeIs DEF RtlDetermineDosPathNameType_Ustr
    <2>3. Len(SubSeq(s, 1, 3)) = 3
      BY <1>1, <2>2
    <2>. QED
      BY <2>1, <2>3
  <1>6. CASE TypeOfString(s) = "Rooted"
    <2> DEFINE n == CurDirMark(cd)
    <2>1. Prefixed(s, cd).prefix = SubSeq(cd, 1, n) /\ Prefixed(s, cd).cut = n
      BY <1>6 DEF Prefixed, From
    <2>2. n \in 2..Len(cd)
      BY <1>2
    <2>. HIDE DEF n
    <2>3. Len(SubSeq(cd, 1, n)) = n
      BY <1>2, <2>2
    <2>. QED
      BY <2>1, <2>2, <2>3
  <1>7. CASE TypeOfString(s) \in {"Relative", "DriveRelative"}
    <2>1. Len(<<RtlpUpcaseUnicodeChar(s[1]), Colon, BackSlash>>) = 3
      OBVIOUS
    <2>. QED
      BY <1>7, <2>1 DEF Prefixed, From, RelativeFromCurDir
  <1>. QED
    BY <1>3, <1>4, <1>5, <1>6, <1>7

\* So no three dots are behind the marked part of what is put together.
LEMMA ComposedDots ==
  ASSUME NEW S, NEW s, NEW cd, FullFacts(S, s, cd), Nested(cd), TypeOfString(s) # "UncAbsolute",
         ~HasThreeDots(s), ~HasThreeDots(cd)
  PROVE  NoThreeDots(Composed(s, cd), Prefixed(s, cd).cut)
  <1> DEFINE parts  == Prefixed(s, cd)
             prefix == parts.prefix
             source == parts.source
             cut    == parts.cut
             last   == Min({CharsKept(s) + 1, Len(s)})
             rest   == SubSeq(s, source + 1, last)
             text   == prefix \o rest
             C      == FullChar(S)
  <1>1. /\ UNICODE_NULL \notin S /\ s \in Seq(S) /\ cd \in Directory(S) /\ Len(s) \in Nat
    BY DEF FullFacts
  <1>2. cd \in Seq(S) /\ Len(cd) \in Nat /\ cd[Len(cd)] = BackSlash
    BY <1>1, MarkInside DEF Nested
  <1>3. prefix \in Seq(C) /\ source \in 0..Len(s) /\ cut \in Nat
    BY <1>1, PrefixedIs DEF Parts
  <1>4. prefix = cd \/ cut >= Len(prefix)
    BY MarkedOrCurDir
  <1>5. Composed(s, cd) = text
    BY DEF Composed
  <1>6. last \in 0..Len(s) /\ s \in Seq(C)
    BY <1>1, CopiedInside, CharsInFull
  <1>7. NoThreeDots(s, 0) /\ NoThreeDots(cd, 0)
    BY <1>1, <1>2, ThreeDotsIn
  <1>. HIDE DEF last, source, prefix, cut, C
  <1>8. /\ rest \in Seq(C)
        /\ \A k \in 1..Len(rest) : rest[k] = s[k + source]
        /\ source <= last => Len(rest) = last - source
    BY <1>3, <1>6, SubSeqIs, Zenon
  <1>9. source > last => Len(rest) = 0
    BY <1>3, <1>6
  <1>. HIDE DEF rest
  <1>0. Len(rest) \in Nat /\ (Len(rest) > 0 => Len(rest) = last - source)
    <2>1. Len(rest) \in Nat
      BY <1>8
    <2>2. source \in Nat /\ last \in Nat
      BY <1>3, <1>6
    <2>. QED
      BY <1>8, <1>9, <2>1, <2>2
  <1>10. /\ text \in Seq(C) /\ Len(text) = Len(prefix) + Len(rest) /\ Len(prefix) \in Nat
         /\ \A k \in 1..(Len(prefix) + Len(rest)) :
              text[k] = IF k <= Len(prefix) THEN prefix[k] ELSE rest[k - Len(prefix)]
    BY <1>3, <1>8, Concatenation
  <1>. HIDE DEF text
  <1>11. ASSUME NEW i \in (cut + 1)..(Len(text) - 2), ThreeDots(text, i) PROVE FALSE
    <2>1. i \in Nat /\ i >= 1 /\ i + 2 <= Len(prefix) + Len(rest)
          /\ text[i] = Dot /\ text[i + 1] = Dot /\ text[i + 2] = Dot
      BY <1>0, <1>3, <1>10, <1>11 DEF ThreeDots
    <2>2. CASE i > Len(prefix)
      <3> DEFINE k == i - Len(prefix)
      <3>1. k \in 1..Len(rest) /\ k + 1 \in 1..Len(rest) /\ k + 2 \in 1..Len(rest)
            /\ (i + 1) - Len(prefix) = k + 1 /\ (i + 2) - Len(prefix) = k + 2
            /\ ~(i <= Len(prefix)) /\ ~(i + 1 <= Len(prefix)) /\ ~(i + 2 <= Len(prefix))
            /\ i \in 1..(Len(prefix) + Len(rest)) /\ i + 1 \in 1..(Len(prefix) + Len(rest))
            /\ i + 2 \in 1..(Len(prefix) + Len(rest))
        BY <1>0, <1>10, <2>1, <2>2
      <3>. HIDE DEF k
      <3>2. text[i] = rest[k] /\ text[i + 1] = rest[k + 1] /\ text[i + 2] = rest[k + 2]
        <4>1. /\ text[i] = rest[i - Len(prefix)] /\ text[i + 1] = rest[(i + 1) - Len(prefix)]
              /\ text[i + 2] = rest[(i + 2) - Len(prefix)]
          BY <1>10, <3>1
        <4>. QED
          BY <3>1, <4>1 DEF k
      <3>3. rest[k] = s[k + source] /\ rest[k + 1] = s[(k + 1) + source] /\ rest[k + 2] = s[(k + 2) + source]
        BY <1>8, <3>1
      <3> DEFINE j == k + source
      <3>4. j \in 1..(Len(s) - 2) /\ (k + 1) + source = j + 1 /\ (k + 2) + source = j + 2 /\ 0 + 1 = 1
        <4>1. k \in Nat /\ k >= 1 /\ k + 2 <= Len(rest)
          BY <1>0, <3>1
        <4>2. source \in Nat /\ last \in Nat /\ Len(s) \in Nat /\ last <= Len(s)
          BY <1>3, <1>6
        <4>3. k + 2 <= last - source
          BY <1>0, <4>1
        <4>. QED
          BY <4>1, <4>2, <4>3
      <3>5. ThreeDots(s, j)
        BY <2>1, <3>2, <3>3, <3>4 DEF ThreeDots
      <3>. QED
        BY <1>7, <3>4, <3>5 DEF NoThreeDots
    <2>3. CASE i <= Len(prefix)
      <3>1. prefix = cd
        BY <1>3, <1>4, <1>10, <1>11, <2>3
      <3>2. \A k \in 1..Len(cd) : text[k] = cd[k]
        BY <1>0, <1>10, <3>1
      <3>3. CASE i + 2 <= Len(cd)
        <4>1. i \in 1..(Len(cd) - 2) /\ 0 + 1 = 1
          BY <1>2, <2>1, <3>3
        <4>2. text[i] = cd[i] /\ text[i + 1] = cd[i + 1] /\ text[i + 2] = cd[i + 2]
          BY <1>2, <2>1, <3>2, <3>3
        <4>3. ThreeDots(cd, i)
          BY <2>1, <4>2 DEF ThreeDots
        <4>. QED
          BY <1>7, <4>1, <4>3 DEF NoThreeDots
      <3>4. CASE i + 2 > Len(cd)
        <4>1. Len(cd) \in {i, i + 1} /\ Len(cd) \in 1..Len(cd)
          BY <1>2, <2>1, <2>3, <3>1, <3>4
        <4>2. text[Len(cd)] = BackSlash
          BY <1>2, <3>2, <4>1
        <4>. QED
          BY <2>1, <4>1, <4>2 DEF Dot, BackSlash
      <3>. QED
        BY <1>2, <2>1, <3>3, <3>4
    <2>. QED
      BY <1>10, <2>1, <2>2, <2>3
  <1>. QED
    BY <1>5, <1>11 DEF NoThreeDots, cut
-----------------------------------------------------------------------------
(***************************************************************************)
(* What is behind a separator of a full path is no separator, "." or "..". *)
(***************************************************************************)
CleanFrom(full, b) ==
  \A i \in (b + 1)..Len(full) :
    i >= 2 /\ full[i - 1] = BackSlash => full[i] # BackSlash /\ ~DotDirectory(full, i)

\* So the full path is clean behind its marked part.
LEMMA CleanBehindMark ==
  ASSUME NEW S, NEW s, NEW cd, FullFacts(S, s, cd), Nested(cd), TypeOfString(s) # "UncAbsolute",
         ~HasThreeDots(s), ~HasThreeDots(cd)
  PROVE  CleanFrom(Full(s, cd), Prefixed(s, cd).cut)
  <1> DEFINE text == Composed(s, cd)
             m    == Prefixed(s, cd).cut
             C    == FullChar(S)
             skip == SkipTrailingPathSeparators(s)
             full == Full(s, cd)
  <1>1. NoThreeDots(text, m)
    BY ComposedDots
  <1>2. text \in Seq(C) /\ m \in Nat /\ m <= Len(text) /\ Len(text) \in Nat
    BY ComposedType DEF FullFacts, CutInside
  <1>3. full = Collapsed(text, m, skip) /\ BackSlash \in C
    BY DEF Full, FullChar
  <1>4. \A i \in (m + 1)..Len(full) : i >= 2 => full[i - 1] # BackSlash \/ full[i] # BackSlash
    BY FullClean
  <1>. HIDE DEF text, m, C, skip, full
  <1>5. m \in 0..Len(text)
    BY <1>2
  <1>6. \A i \in (m + 1)..Len(full) : i >= 2 /\ full[i - 1] = BackSlash => ~DotDirectory(full, i)
    BY <1>1, <1>2, <1>3, <1>5, CollapsedDotless
  <1>. QED
    BY <1>4, <1>6 DEF CleanFrom, full, m
-----------------------------------------------------------------------------
\* What Resolved says of the names a path is read as.
LEMMA ResolvedIs ==
  ASSUME NEW S, NEW s, NEW names, NEW l, Reads(S, s, names, l)
  PROVE  Resolved(s) <=> ResolvedNames(names, l)
  <1>1. /\ names \in Seq(Seq(S)) /\ l \in Seq(S) /\ Split(s) = Append(names, l)
    BY DEF Reads
  <1>2. Front(Split(s)) = names /\ Last(Split(s)) = l
    BY <1>1, OfAppend
  <1>3. Resolved(s) <=> /\ Range(names) \cap {<<>>, <<Dot>>, <<Dot, Dot>>} = {}
                        /\ l \notin {<<Dot>>, <<Dot, Dot>>}
    BY <1>2 DEF Resolved
  <1>4. Range(names) \cap {<<>>, <<Dot>>, <<Dot, Dot>>} = {}
          <=> \A k \in 1..Len(names) : names[k] \notin {<<>>, <<Dot>>, <<Dot, Dot>>}
    <2>1. DOMAIN names = 1..Len(names)
      BY <1>1
    <2>2. Range(names) = {names[k] : k \in 1..Len(names)}
      BY <2>1 DEF Range
    <2>. QED
      BY <2>2
  <1>. QED
    BY <1>3, <1>4 DEF ResolvedNames, DotNames

(***************************************************************************)
(* The marked share of a current directory that is resolved, in front of a *)
(* full path: what is behind it may only make its last name longer.        *)
(***************************************************************************)
LEMMA CleanInShare ==
  ASSUME NEW S, NEW cd, cd[2] # Colon, ShareResolved(cd), NEW full, NEW cut, Len(full) \in Nat,
         ShareRoot(S, cd, full, cut), CleanFrom(full, cut)
  PROVE  CleanFrom(full, 2)
  <1> DEFINE C == FullChar(S)
             conv == Converted(cd)
             r == SubSeq(conv, 2 + 1, cut)
             u == Append(r, BackSlash)
  <1>1. /\ cd \in Seq(S) /\ Len(cd) \in Nat /\ Len(cd) >= 2 /\ cut = RtlpSkipUNCPrefix(cd)
        /\ \A k \in 1..cut : k <= Len(full) => full[k] = conv[k]
    BY DEF ShareRoot
  <1>2. cut \in 2..Len(cd)
    BY <1>1, PrefixGrows
  <1>3. cd \in Seq(C) /\ BackSlash \in C
    BY <1>1, CharsInFull DEF FullChar
  <1>4. conv \in Seq(C) /\ Len(conv) = Len(cd)
    BY <1>3, ConvertedIs
  <1>5. Resolved(r)
    <2>1. CurDirMark(cd) = cut /\ 2 + 1 = 3
      BY <1>1 DEF CurDirMark
    <2>. QED
      BY <2>1 DEF ShareResolved
  <1>6. r \in Seq(C) /\ Len(r) = cut - 2 /\ \A k \in 1..(cut - 2) : r[k] = conv[k + 2]
    <2>1. 2 \in 0..Len(conv) /\ cut \in 0..Len(conv) /\ 2 <= cut
      BY <1>1, <1>2, <1>4
    <2>. HIDE DEF conv, C
    <2>2. /\ r \in Seq(C) /\ Len(r) = cut - 2 /\ \A k \in 1..Len(r) : r[k] = conv[k + 2]
      BY <1>4, <2>1, SubSeqIs, Zenon
    <2>. QED
      BY <2>2
  <1>. HIDE DEF r, C, conv
  <1>7. PICK names, l : Pieces(C, r, names, l)
    BY <1>3, <1>6, ComponentsRead
  <1>8. ResolvedNames(names, l)
    BY <1>5, <1>7, ResolvedIs DEF Pieces
  <1>9. Dotless(u) /\ Single({}, r)
    BY <1>3, <1>7, <1>8, NamesDotless
  <1>10. /\ Len(u) = cut - 1 /\ u[cut - 1] = BackSlash /\ cut \in Nat /\ cut >= 2
         /\ \A k \in 1..(cut - 2) : u[k] = r[k]
    BY <1>1, <1>2, <1>3, <1>6, OneMore
  <1>. HIDE DEF u
  <1>11. ASSUME NEW i \in 3..cut, i <= Len(full) PROVE full[i] = r[i - 2] /\ full[i] = u[i - 2] /\ i - 2 \in 1..Len(r)
    <2>1. i - 2 \in 1..(cut - 2) /\ (i - 2) + 2 = i /\ i \in 1..cut
      BY <1>10
    <2>. QED
      BY <1>1, <1>6, <1>10, <1>11, <2>1
  <1>12. ASSUME NEW i \in (2 + 1)..Len(full), i <= cut, full[i - 1] = BackSlash
         PROVE  full[i] # BackSlash /\ ~DotDirectory(full, i)
    <2> DEFINE p == i - 2
    <2>1. i \in 3..cut /\ p \in 1..Len(r) /\ full[i] = r[p] /\ full[i] = u[p] /\ p \in 1..Len(u)
          /\ p >= 1 /\ p <= cut - 2 /\ p \in Nat /\ p + 1 = i - 1 /\ p + 2 = i /\ i \in Nat
      BY <1>6, <1>10, <1>11, <1>12
    <2>2. p # 1 => r[p - 1] = BackSlash /\ u[p - 1] = BackSlash /\ p \in 2..Len(r)
      <3>. SUFFICES ASSUME p # 1 PROVE r[p - 1] = BackSlash /\ u[p - 1] = BackSlash /\ p \in 2..Len(r)
        OBVIOUS
      <3>0. i \in Nat /\ i >= 4 /\ i <= Len(full) /\ i <= cut /\ cut \in Nat
        BY <1>10, <1>12, <2>1
      <3>1. i - 1 \in 3..cut /\ i - 1 <= Len(full) /\ (i - 1) - 2 = p - 1 /\ p \in 2..Len(r)
        BY <1>6, <3>0
      <3>2. full[i - 1] = r[(i - 1) - 2] /\ full[i - 1] = u[(i - 1) - 2]
        BY <1>11, <3>1
      <3>. QED
        BY <1>12, <3>1, <3>2
    <2>. HIDE DEF p
    <2>3. full[i] # BackSlash
      <3>1. CASE p = 1
        <4>1. r # <<>>
          BY <1>6, <2>1
        <4>2. r[1] # BackSlash
          BY <1>9, <4>1 DEF Single
        <4>. QED
          BY <2>1, <3>1, <4>2
      <3>2. CASE p # 1
        <4>1. r[p - 1] # BackSlash \/ r[p] # BackSlash
          BY <1>9, <2>2, <3>2 DEF Single
        <4>. QED
          BY <2>1, <2>2, <3>2, <4>1
      <3>. QED
        BY <3>1, <3>2
    <2>4. StartsName(u, p)
      BY <2>2 DEF StartsName
    <2>5. ~DotDirectory(u, p)
      BY <1>9, <2>1, <2>4 DEF Dotless
    <2>6. ASSUME DotDirectory(full, i) PROVE FALSE
      <3>1. PICK e \in {1, 2} : i + e <= Len(full) /\ full[i + e] = BackSlash /\ (e = 2 => full[i + 1] = Dot) /\ full[i] = Dot
        BY <2>6 DEF DotDirectory
      <3>2. e \in Nat /\ i + e \in Nat /\ u[p] = Dot
        BY <2>1, <3>1
      <3>3. CASE i = cut
        <4>1. p + 1 = cut - 1 /\ p + 1 <= Len(u) /\ u[p + 1] = BackSlash
          BY <1>10, <2>1, <3>3
        <4>. QED
          BY <2>5, <3>2, <4>1 DEF DotDirectory
      <3>4. CASE i # cut
        <4>1. i + 1 \in 3..cut /\ i + 1 <= Len(full) /\ (i + 1) - 2 = p + 1
          BY <1>10, <1>12, <2>1, <3>1, <3>4
        <4>2. full[i + 1] = u[p + 1]
          BY <1>11, <4>1
        <4>3. CASE e = 1
          <5>1. u[p + 1] = BackSlash /\ p + 1 <= Len(u)
            BY <1>10, <2>1, <3>1, <3>4, <4>2, <4>3
          <5>. QED
            BY <2>5, <3>2, <5>1 DEF DotDirectory
        <4>4. CASE e = 2
          <5>1. u[p + 1] = Dot /\ p + 2 <= Len(u)
            BY <1>10, <2>1, <3>1, <3>4, <4>1, <4>2, <4>4
          <5>2. u[p + 2] = BackSlash
            <6>1. CASE i + 1 = cut
              <7>1. p + 2 = cut - 1
                BY <2>1, <6>1
              <7>. QED
                BY <1>10, <7>1
            <6>2. CASE i + 1 # cut
              <7>1. i + 2 \in 3..cut /\ i + 2 <= Len(full) /\ (i + 2) - 2 = p + 2
                BY <1>10, <2>1, <3>1, <4>1, <4>4, <6>2
              <7>2. full[i + 2] = u[p + 2]
                BY <1>11, <7>1
              <7>. QED
                BY <3>1, <4>4, <7>2
            <6>. QED
              BY <6>1, <6>2
          <5>. QED
            BY <2>5, <3>2, <5>1, <5>2 DEF DotDirectory
        <4>. QED
          BY <3>1, <4>3, <4>4
      <3>. QED
        BY <3>3, <3>4
    <2>. QED
      BY <2>3, <2>6
  <1>13. ASSUME NEW i \in (2 + 1)..Len(full), i >= 2, full[i - 1] = BackSlash
         PROVE  full[i] # BackSlash /\ ~DotDirectory(full, i)
    <2>1. CASE i <= cut
      BY <1>12, <1>13, <2>1
    <2>2. CASE i > cut
      <3>1. i \in (cut + 1)..Len(full)
        BY <1>10, <2>2
      <3>. QED
        BY <1>13, <3>1 DEF CleanFrom
    <2>. QED
      BY <1>10, <2>1, <2>2
  <1>. QED
    BY <1>13 DEF CleanFrom
-----------------------------------------------------------------------------
(***************************************************************************)
(* A path in two parts, the first of which ends in a separator.            *)
(***************************************************************************)
Clean(x) == Dotless(x) /\ Single({}, x)

\* Two clean strings, with a separator at the end of the first one.
LEMMA CleanParts ==
  ASSUME NEW S, NEW h \in Seq(S), NEW t \in Seq(S), SeparatorLast(h), Clean(h), Clean(t)
  PROVE  h \o t \in Seq(S) /\ Len(h \o t) = Len(h) + Len(t) /\ Clean(h \o t)
  <1> DEFINE x == h \o t
             H == Len(h)
  <1>1. /\ x \in Seq(S) /\ Len(x) = H + Len(t) /\ H \in Nat /\ Len(t) \in Nat
        /\ \A k \in 1..(H + Len(t)) : x[k] = IF k <= H THEN h[k] ELSE t[k - H]
    BY Concatenation
  <1>2. Dotless(h) /\ Dotless(t) /\ Single({}, h) /\ Single({}, t)
    BY DEF Clean
  <1>3. H > 0 => h[H] = BackSlash
    BY DEF SeparatorLast
  <1>. HIDE DEF x, H
  <1>4. \A k \in 1..H : k <= Len(x) /\ x[k] = h[k]
    BY <1>1
  <1>5. ASSUME NEW k \in 1..Len(t) PROVE x[k + H] = t[k]
    <2>1. k + H \in 1..(H + Len(t)) /\ ~(k + H <= H) /\ (k + H) - H = k
      BY <1>1
    <2>. QED
      BY <1>1, <2>1
  <1>6. ASSUME NEW i \in 1..Len(x), StartsName(x, i), DotDirectory(x, i) PROVE FALSE
    <2>1. PICK e \in {1, 2} : i + e <= Len(x) /\ x[i + e] = BackSlash /\ (e = 2 => x[i + 1] = Dot) /\ x[i] = Dot
      BY <1>6 DEF DotDirectory
    <2>2. i \in Nat /\ i >= 1 /\ e \in Nat /\ Len(x) \in Nat
      BY <1>1, <2>1
    <2>3. CASE i <= H
      <3>1. i + e <= H
        <4>1. x[i] = h[i] /\ (i + 1 <= H => x[i + 1] = h[i + 1])
          BY <1>1, <1>4, <2>2, <2>3
        <4>2. i # H
          BY <1>3, <2>1, <2>2, <2>3, <4>1 DEF Dot, BackSlash
        <4>3. e = 2 => i + 1 # H
          BY <1>3, <2>1, <2>2, <4>1 DEF Dot, BackSlash
        <4>. QED
          BY <1>1, <2>1, <2>2, <2>3, <4>2, <4>3
      <3>2. h[i] = Dot /\ h[i + e] = BackSlash /\ (e = 2 => h[i + 1] = Dot) /\ (i # 1 => h[i - 1] = x[i - 1])
        <4>1. i \in 1..H /\ i + e \in 1..H /\ i + 1 \in 1..H /\ (i # 1 => i - 1 \in 1..H)
          BY <1>1, <2>1, <2>2, <3>1
        <4>. QED
          BY <1>4, <2>1, <4>1
      <3>3. StartsName(h, i) /\ DotDirectory(h, i) /\ i \in 1..Len(h)
        BY <1>1, <1>6, <2>1, <2>2, <3>1, <3>2, <2>3 DEF StartsName, DotDirectory, H
      <3>. QED
        BY <1>2, <3>3 DEF Dotless
    <2>4. CASE i > H
      <3> DEFINE p == i - H
      <3>0. i + e <= H + Len(t) /\ e \in {1, 2}
        BY <1>1, <2>1
      <3>1. p \in 1..Len(t) /\ p + H = i /\ p + e \in 1..Len(t) /\ (p + e) + H = i + e
            /\ p + 1 \in 1..Len(t) /\ (p + 1) + H = i + 1 /\ p + e <= Len(t)
            /\ (p # 1 => p - 1 \in 1..Len(t) /\ (p - 1) + H = i - 1 /\ i # 1)
        BY <1>1, <2>2, <2>4, <3>0
      <3>. HIDE DEF p
      <3>2. x[p + H] = t[p] /\ x[(p + e) + H] = t[p + e] /\ x[(p + 1) + H] = t[p + 1]
        BY <1>5, <3>1
      <3>3. p # 1 => x[(p - 1) + H] = t[p - 1]
        BY <1>5, <3>1
      <3>4. DotDirectory(t, p)
        BY <2>1, <3>1, <3>2 DEF DotDirectory
      <3>5. StartsName(t, p)
        BY <1>6, <3>1, <3>3 DEF StartsName
      <3>. QED
        BY <1>2, <3>1, <3>4, <3>5 DEF Dotless
    <2>. QED
      BY <1>1, <2>2, <2>3, <2>4
  <1>7. ASSUME NEW i \in 2..Len(x) PROVE x[i - 1] # BackSlash \/ x[i] # BackSlash
    <2>1. i \in Nat /\ i >= 2 /\ Len(x) \in Nat
      BY <1>1
    <2>2. CASE i <= H
      <3>1. i \in 2..Len(h) /\ i \in 1..H /\ i - 1 \in 1..H
        BY <1>1, <2>1, <2>2 DEF H
      <3>. QED
        BY <1>2, <1>4, <3>1 DEF Single
    <2>3. CASE i > H
      <3> DEFINE p == i - H
      <3>1. p \in 1..Len(t) /\ p + H = i
            /\ (p # 1 => p \in 2..Len(t) /\ p - 1 \in 1..Len(t) /\ (p - 1) + H = i - 1)
        BY <1>1, <2>1, <2>3
      <3>. HIDE DEF p
      <3>2. x[p + H] = t[p] /\ (p # 1 => x[(p - 1) + H] = t[p - 1])
        BY <1>5, <3>1
      <3>3. CASE p = 1
        <4>1. t # <<>>
          BY <3>1
        <4>2. t[1] # BackSlash
          BY <1>2, <4>1 DEF Single
        <4>. QED
          BY <3>1, <3>2, <3>3, <4>2
      <3>4. CASE p # 1
        <4>1. t[p - 1] # BackSlash \/ t[p] # BackSlash
          BY <1>2, <3>1, <3>4 DEF Single
        <4>. QED
          BY <3>1, <3>2, <3>4, <4>1
      <3>. QED
        BY <3>3, <3>4
    <2>. QED
      BY <1>1, <2>1, <2>2, <2>3
  <1>8. x # <<>> => x[1] # BackSlash
    <2>1. CASE H > 0
      <3>1. 1 \in 1..H /\ h # <<>>
        BY <1>1, <2>1 DEF H
      <3>2. h[1] # BackSlash
        BY <1>2, <3>1 DEF Single
      <3>. QED
        BY <1>4, <3>1, <3>2
    <2>2. CASE H = 0 /\ Len(t) > 0
      <3>1. 1 \in 1..Len(t) /\ t # <<>> /\ 1 + H = 1
        BY <1>1, <2>2
      <3>2. t[1] # BackSlash
        BY <1>2, <3>1 DEF Single
      <3>. QED
        BY <1>5, <3>1, <3>2
    <2>3. CASE H = 0 /\ Len(t) = 0
      BY <1>1, <2>3
    <2>. QED
      BY <1>1, <2>1, <2>2, <2>3
  <1>. QED
    BY <1>1, <1>6, <1>7, <1>8 DEF Clean, Dotless, Single, x, H
-----------------------------------------------------------------------------
\* The part of a full path behind a separator, and a string that is all clean.
LEMMA CleanRest ==
  ASSUME NEW S, NEW full \in Seq(S), NEW b \in 1..Len(full), full[b] = BackSlash, CleanFrom(full, b)
  PROVE  LET t == SubSeq(full, b + 1, Len(full))
         IN  /\ t \in Seq(S) /\ Clean(t) /\ Len(t) = Len(full) - b
             /\ t # <<>> => t[Len(t)] = full[Len(full)]
             /\ \A k \in 1..Len(t) : t[k] = full[k + b]
  <1> DEFINE t == SubSeq(full, b + 1, Len(full))
  <1>1. Len(full) \in Nat /\ b \in 0..Len(full) /\ Len(full) \in 0..Len(full) /\ b <= Len(full) /\ b \in Nat /\ b >= 1
    OBVIOUS
  <1>2. t \in Seq(S) /\ Len(t) = Len(full) - b /\ \A k \in 1..Len(t) : t[k] = full[k + b]
    BY <1>1, SubSeqIs, Zenon
  <1>. HIDE DEF t
  <1>3. ASSUME NEW p \in 1..Len(t), p # 1 => t[p - 1] = BackSlash
        PROVE  t[p] # BackSlash /\ ~DotDirectory(t, p)
    <2> DEFINE i == p + b
    <2>1. i \in (b + 1)..Len(full) /\ i >= 2 /\ t[p] = full[i] /\ i \in Nat
      BY <1>1, <1>2
    <2>2. full[i - 1] = BackSlash
      <3>1. CASE p = 1
        <4>1. i - 1 = b
          BY <1>1, <3>1
        <4>. QED
          BY <4>1
      <3>2. CASE p # 1
        <4>1. p - 1 \in 1..Len(t) /\ (p - 1) + b = i - 1
          BY <1>1, <1>2, <3>2
        <4>. QED
          BY <1>2, <1>3, <3>2, <4>1
      <3>. QED
        BY <3>1, <3>2
    <2>. HIDE DEF i
    <2>3. full[i] # BackSlash /\ ~DotDirectory(full, i)
      BY <2>1, <2>2 DEF CleanFrom
    <2>4. ASSUME DotDirectory(t, p) PROVE FALSE
      <3>1. PICK e \in {1, 2} : p + e <= Len(t) /\ t[p + e] = BackSlash /\ (e = 2 => t[p + 1] = Dot) /\ t[p] = Dot
        BY <2>4 DEF DotDirectory
      <3>2. /\ p + e \in 1..Len(t) /\ (p + e) + b = i + e /\ p + 1 \in 1..Len(t) /\ (p + 1) + b = i + 1
            /\ i + e <= Len(full)
        BY <1>1, <1>2, <3>1 DEF i
      <3>3. t[p + e] = full[i + e] /\ t[p + 1] = full[i + 1]
        <4>1. t[p + e] = full[(p + e) + b]
          BY <1>2, <3>2
        <4>2. t[p + 1] = full[(p + 1) + b]
          BY <1>2, <3>2
        <4>. QED
          BY <3>2, <4>1, <4>2
      <3>4. DotDirectory(full, i)
        BY <2>1, <3>1, <3>2, <3>3 DEF DotDirectory
      <3>. QED
        BY <2>3, <3>4
    <2>. QED
      BY <2>1, <2>3, <2>4
  <1>4. Dotless(t)
    BY <1>3 DEF Dotless, StartsName
  <1>5. Single({}, t)
    <2>1. t # <<>> => t[1] # BackSlash
      <3>1. t # <<>> => 1 \in 1..Len(t)
        BY <1>2
      <3>. QED
        BY <1>3, <3>1
    <2>2. ASSUME NEW i \in 2..Len(t) PROVE t[i - 1] # BackSlash \/ t[i] # BackSlash
      <3>1. i \in 1..Len(t)
        BY <1>2
      <3>. QED
        BY <1>3, <3>1
    <2>. QED
      BY <2>1, <2>2 DEF Single
  <1>6. t # <<>> => t[Len(t)] = full[Len(full)]
    <2>. SUFFICES ASSUME t # <<>> PROVE t[Len(t)] = full[Len(full)]
      OBVIOUS
    <2>1. Len(t) \in 1..Len(t) /\ Len(t) + b = Len(full)
      BY <1>1, <1>2
    <2>. QED
      BY <1>2, <2>1
  <1>. QED
    BY <1>2, <1>4, <1>5, <1>6 DEF Clean, t

\* A clean string that does not end in a dot is resolved.
LEMMA CleanResolved ==
  ASSUME NEW S, BackSlash \in S, NEW x \in Seq(S), Clean(x), x # <<>> => x[Len(x)] # Dot
  PROVE  Resolved(x)
  <1>1. PICK names, l : Pieces(S, x, names, l)
    BY ComponentsRead
  <1>2. ResolvedNames(names, l)
    BY <1>1, DotlessNames DEF Clean
  <1>. QED
    BY <1>1, <1>2, ResolvedIs DEF Pieces

\* Of such a part and what is in front of it.
LEMMA CleanMade ==
  ASSUME NEW S, BackSlash \in S, NEW h \in Seq(S), SeparatorLast(h), Clean(h), NEW t \in Seq(S), Clean(t),
         t # <<>> => t[Len(t)] # Dot
  PROVE  Resolved(h \o t)
  <1> DEFINE x == h \o t
  <1>1. x \in Seq(S) /\ Clean(x)
    BY CleanParts
  <1>2. x # <<>> => x[Len(x)] # Dot
    <2>1. /\ Len(x) = Len(h) + Len(t) /\ Len(h) \in Nat /\ Len(t) \in Nat
          /\ \A k \in 1..(Len(h) + Len(t)) : x[k] = IF k <= Len(h) THEN h[k] ELSE t[k - Len(h)]
      BY Concatenation
    <2>. HIDE DEF x
    <2>2. CASE Len(t) > 0
      <3>1. Len(x) \in 1..(Len(h) + Len(t)) /\ ~(Len(x) <= Len(h)) /\ Len(x) - Len(h) = Len(t) /\ t # <<>>
        BY <2>1, <2>2
      <3>. QED
        BY <2>1, <3>1
    <2>3. CASE Len(t) = 0 /\ Len(h) > 0
      <3>1. Len(x) = Len(h) /\ Len(x) \in 1..(Len(h) + Len(t)) /\ Len(x) <= Len(h) /\ h # <<>>
        BY <2>1, <2>3
      <3>2. x[Len(x)] = h[Len(h)]
        BY <2>1, <3>1
      <3>. QED
        BY <3>1, <3>2 DEF SeparatorLast, Dot, BackSlash
    <2>4. CASE Len(t) = 0 /\ Len(h) = 0
      BY <1>1, <2>1, <2>4
    <2>. QED
      BY <2>1, <2>2, <2>3, <2>4
  <1>. HIDE DEF x
  <1>3. Resolved(x)
    BY <1>1, <1>2, CleanResolved
  <1>. QED
    BY <1>3 DEF x
-----------------------------------------------------------------------------
(***************************************************************************)
(* The NT name behind its prefix, by what the full path starts with.       *)
(***************************************************************************)
NtRest(full) == SubSeq(NtNameOf(full), 5, Len(NtNameOf(full)))

UncFront == <<"U", "N", "C", "\\">>

\* What NtNameResolved reads, by the type of the full path.
LEMMA NtRestIs ==
  ASSUME NEW S, NEW full \in Seq(S)
  PROVE  NtRest(full)
           = (IF TypeOfString(full) = "UncAbsolute" THEN UncFront ELSE <<>>)
               \o SubSeq(full, PrefixCut(full) + 1, Len(full))
  <1> DEFINE N == NtChar(S)
             p == RtlpDosDevicesPrefix
             t == SubSeq(full, PrefixCut(full) + 1, Len(full))
             u == UncFront
             ut == u \o t
  <1>1. p \in Seq(N) /\ Len(p) = 4 /\ u \in Seq(N) /\ Len(u) = 4
    BY DEF RtlpDosDevicesPrefix, UncFront, NtChar, BackSlash
  <1>2. t \in Seq(N)
    <2>1. PrefixCut(full) \in {0, 2, 4}
      BY DEF PrefixCut
    <2>2. t \in Seq(S)
      BY <2>1
    <2>. HIDE DEF t
    <2>. QED
      BY <2>2 DEF NtChar, FullChar
  <1>3. NtNameOf(full) = PrefixBuffer(full) \o t
    BY DEF NtNameOf
  <1>. HIDE DEF N, p, t, u
  <1>4. /\ ut \in Seq(N) /\ Len(ut) = 4 + Len(t)
        /\ \A k \in 1..(4 + Len(t)) : ut[k] = IF k <= 4 THEN u[k] ELSE t[k - 4]
    BY <1>1, <1>2, BehindFour
  <1>5. ASSUME NEW x \in Seq(N)
        PROVE  SubSeq(p \o x, 5, Len(p \o x)) = x
    <2> DEFINE s == p \o x
    <2>1. /\ s \in Seq(N) /\ Len(s) = 4 + Len(x)
          /\ \A k \in 1..(4 + Len(x)) : s[k] = IF k <= 4 THEN p[k] ELSE x[k - 4]
      BY <1>1, BehindFour
    <2>. HIDE DEF s
    <2>2. \A k \in 1..(4 + Len(x)) : k > 4 => s[k] = x[k - 4]
      BY <2>1
    <2>3. SubSeq(s, 5, Len(s)) = x
      BY <2>1, <2>2, AllBehindFour
    <2>. QED
      BY <2>3 DEF s
  <1>6. CASE TypeOfString(full) = "UncAbsolute"
    <2>1. NtNameOf(full) = (p \o u) \o t
      BY <1>3, <1>6 DEF PrefixBuffer, RtlpDosDevicesUncPrefix, p, u, UncFront
    <2>2. (p \o u) \o t = p \o ut
      <3> DEFINE a == p \o u
                 b == a \o t
                 c == p \o ut
      <3>1. /\ a \in Seq(N) /\ Len(a) = 8
            /\ \A k \in 1..8 : a[k] = IF k <= 4 THEN p[k] ELSE u[k - 4]
        <4>1. /\ a \in Seq(N) /\ Len(a) = 4 + Len(u)
              /\ \A k \in 1..(4 + Len(u)) : a[k] = IF k <= 4 THEN p[k] ELSE u[k - 4]
          BY <1>1, BehindFour
        <4>. QED
          BY <1>1, <4>1
      <3>. HIDE DEF a
      <3>0. Len(t) \in Nat
        BY <1>2
      <3>2. /\ b \in Seq(N) /\ Len(b) = Len(a) + Len(t)
            /\ \A k \in 1..(Len(a) + Len(t)) : b[k] = IF k <= Len(a) THEN a[k] ELSE t[k - Len(a)]
        BY <1>2, <3>1, Concatenation
      <3>3. /\ c \in Seq(N) /\ Len(c) = 4 + Len(ut)
            /\ \A k \in 1..(4 + Len(ut)) : c[k] = IF k <= 4 THEN p[k] ELSE ut[k - 4]
        BY <1>1, <1>4, BehindFour
      <3>. HIDE DEF b, c, ut
      <3>4. Len(b) = Len(c) /\ Len(c) = 8 + Len(t)
        BY <1>4, <3>0, <3>1, <3>2, <3>3
      <3>5. ASSUME NEW k \in 1..Len(c) PROVE b[k] = c[k]
        <4>0. k \in Nat /\ k >= 1 /\ k <= 8 + Len(t) /\ k \in 1..(Len(a) + Len(t)) /\ k \in 1..(4 + Len(ut))
          BY <1>4, <3>0, <3>1, <3>2, <3>4
        <4>1. CASE k <= 4
          BY <3>1, <3>2, <3>3, <4>0, <4>1
        <4>2. CASE k > 4 /\ k <= 8
          <5>1. b[k] = u[k - 4]
            BY <3>1, <3>2, <4>0, <4>2
          <5>2. k - 4 \in 1..(4 + Len(t)) /\ k - 4 <= 4 /\ ~(k <= 4)
            BY <3>0, <4>0, <4>2
          <5>3. c[k] = ut[k - 4] /\ ut[k - 4] = u[k - 4]
            BY <1>4, <3>3, <4>0, <5>2
          <5>. QED
            BY <5>1, <5>3
        <4>3. CASE k > 8
          <5>1. ~(k <= Len(a)) /\ k - Len(a) = k - 8 /\ (k - 4) - 4 = k - 8
            BY <3>1, <4>0, <4>3
          <5>2. b[k] = t[k - 8]
            BY <3>2, <4>0, <5>1
          <5>3. k - 4 \in 1..(4 + Len(t)) /\ ~(k - 4 <= 4) /\ ~(k <= 4)
            BY <3>0, <4>0, <4>3
          <5>4. c[k] = ut[k - 4] /\ ut[k - 4] = t[(k - 4) - 4]
            BY <1>4, <3>3, <4>0, <5>3
          <5>. QED
            BY <5>1, <5>2, <5>4
        <4>. QED
          BY <4>0, <4>1, <4>2, <4>3
      <3>6. c = b
        BY <3>2, <3>3, <3>4, <3>5, SameSequence
      <3>. QED
        BY <3>6 DEF a, b, c, ut
    <2>3. SubSeq(p \o ut, 5, Len(p \o ut)) = ut
      BY <1>4, <1>5
    <2>. QED
      BY <1>6, <2>1, <2>2, <2>3 DEF NtRest, t, u
  <1>7. CASE TypeOfString(full) # "UncAbsolute"
    <2>1. NtNameOf(full) = p \o t
      BY <1>3, <1>7 DEF PrefixBuffer, p
    <2>2. <<>> \o t = t
      BY <1>2
    <2>. QED
      BY <1>2, <1>5, <1>7, <2>1, <2>2 DEF NtRest, t
  <1>. QED
    BY <1>6, <1>7
-----------------------------------------------------------------------------

\* The name behind a drive is resolved.
LEMMA DriveResolved ==
  ASSUME NEW S, BackSlash \in S, NEW full \in Seq(S), full[Len(full)] # Dot, NEW cut,
         DriveRoot(full, cut), CleanFrom(full, cut), TypeOfString(full) = "DriveAbsolute"
  PROVE  Resolved(NtRest(full))
  <1> DEFINE h == SubSeq(full, 1, 3)
             t == SubSeq(full, 3 + 1, Len(full))
  <1>1. /\ cut = 3 /\ Len(full) >= 3 /\ Len(full) \in Nat /\ 3 \in 1..Len(full)
        /\ ~IS_PATH_SEPARATOR(full[1]) /\ full[2] = Colon /\ full[3] = BackSlash
    BY DEF DriveRoot
  <1>2. /\ t \in Seq(S) /\ Clean(t) /\ (t # <<>> => t[Len(t)] # Dot)
    BY <1>1, CleanRest
  <1>3. h \in Seq(S) /\ Len(h) = 3 /\ h[1] = full[1] /\ h[2] = full[2] /\ h[3] = full[3]
    BY <1>1
  <1>4. h \o t = full
    <2>1. 3 \in 0..Len(full)
      BY <1>1
    <2>. QED
      BY <2>1, PartsMake
  <1>5. NtRest(full) = full
    <2>1. PrefixCut(full) = 0
      BY DEF PrefixCut
    <2>2. NtRest(full) = <<>> \o SubSeq(full, 0 + 1, Len(full))
      BY <2>1, NtRestIs
    <2>. QED
      BY <2>2
  <1>. HIDE DEF h, t
  <1>6. SeparatorLast(h)
    BY <1>1, <1>3 DEF SeparatorLast
  <1>7. h[1] # BackSlash /\ h[2] # BackSlash /\ h[2] # Dot /\ h[3] # Dot
    BY <1>1, <1>3 DEF IS_PATH_SEPARATOR, Colon, BackSlash, Dot
  <1>8. Dotless(h)
    <2>1. ASSUME NEW i \in 1..Len(h), DotDirectory(h, i) PROVE i = 1
      BY <1>3, <1>7, <2>1 DEF DotDirectory
    <2>2. ~DotDirectory(h, 1)
      BY <1>3, <1>7 DEF DotDirectory
    <2>. QED
      BY <2>1, <2>2 DEF Dotless
  <1>9. Single({}, h)
    BY <1>3, <1>7 DEF Single
  <1>. QED
    BY <1>2, <1>3, <1>4, <1>5, <1>6, <1>8, <1>9, CleanMade DEF Clean

\* The name behind the device root is resolved.
LEMMA DeviceResolved ==
  ASSUME NEW S, BackSlash \in S, NEW full \in Seq(S), full[Len(full)] # Dot, NEW cut,
         RootOfDevices(full, cut), CleanFrom(full, cut), TypeOfString(full) = "LocalDevice"
  PROVE  Resolved(NtRest(full))
  <1> DEFINE t == SubSeq(full, 4 + 1, Len(full))
  <1>1. cut = 4 /\ Len(full) \in Nat /\ 4 \in 1..Len(full) /\ full[4] = BackSlash
    BY DEF RootOfDevices
  <1>2. /\ t \in Seq(S) /\ Clean(t) /\ (t # <<>> => t[Len(t)] # Dot)
    BY <1>1, CleanRest
  <1>3. NtRest(full) = <<>> \o t
    <2>1. PrefixCut(full) = 4
      BY DEF PrefixCut
    <2>. QED
      BY <2>1, NtRestIs
  <1>. HIDE DEF t
  <1>4. NtRest(full) = t
    BY <1>2, <1>3
  <1>. QED
    BY <1>2, <1>4, CleanResolved

\* The name of a share is resolved, when it is clean behind the two separators.
LEMMA ShareNameResolved ==
  ASSUME NEW S, BackSlash \in S, NEW full \in Seq(S), full[Len(full)] # Dot, Len(full) >= 2,
         full[2] = BackSlash, CleanFrom(full, 2), TypeOfString(full) = "UncAbsolute"
  PROVE  Resolved(NtRest(full))
  <1> DEFINE N == NtChar(S)
             u == UncFront
             t == SubSeq(full, 2 + 1, Len(full))
  <1>1. Len(full) \in Nat /\ 2 \in 1..Len(full)
    OBVIOUS
  <1>2. /\ t \in Seq(S) /\ Clean(t) /\ (t # <<>> => t[Len(t)] # Dot)
    BY <1>1, CleanRest
  <1>3. NtRest(full) = u \o t
    <2>1. PrefixCut(full) = 2
      BY DEF PrefixCut
    <2>. QED
      BY <2>1, NtRestIs
  <1>4. /\ u \in Seq(N) /\ Len(u) = 4 /\ u[4] = BackSlash
        /\ \A k \in 1..3 : u[k] # BackSlash
        /\ \A k \in 1..4 : u[k] # Dot
    BY DEF UncFront, NtChar, BackSlash, Dot
  <1>5. N = NtChar(S) /\ BackSlash \in N
    BY DEF NtChar, FullChar
  <1>. HIDE DEF t, u
  <1>6. t \in Seq(N)
    <2>. HIDE DEF N
    <2>1. S \subseteq N
      BY <1>5 DEF NtChar, FullChar
    <2>. QED
      BY <1>2, <2>1
  <1>. HIDE DEF N
  <1>7. SeparatorLast(u)
    BY <1>4 DEF SeparatorLast
  <1>8. Dotless(u)
    BY <1>4 DEF Dotless, DotDirectory
  <1>9. Single({}, u)
    <2>1. u[1] # BackSlash
      BY <1>4
    <2>2. \A i \in 2..4 : u[i - 1] # BackSlash
      BY <1>4
    <2>. QED
      BY <1>4, <2>1, <2>2 DEF Single
  <1>. QED
    BY <1>2, <1>3, <1>4, <1>5, <1>6, <1>7, <1>8, <1>9, CleanMade DEF Clean

(***************************************************************************)
(* The NT name of a full path: it starts with a drive, a device or a share *)
(* that are resolved, and what is behind them is collapsed.                *)
(***************************************************************************)
LEMMA FullResolved ==
  ASSUME NEW S, NEW s, NEW cd, FullFacts(S, s, cd), Nested(cd), HasNtName(Full(s, cd)),
         TypeOfString(s) # "UncAbsolute", ShareResolved(cd), ~HasThreeDots(s), ~HasThreeDots(cd)
  PROVE  Resolved(NtRest(Full(s, cd)))
  <1> DEFINE full == Full(s, cd)
             cut  == Prefixed(s, cd).cut
             C    == FullChar(S)
  <1>1. /\ UNICODE_NULL \notin S /\ s \in Seq(S) /\ cd \in Directory(S)
    BY DEF FullFacts
  <1>2. full \in Seq(C) /\ Len(full) \in Nat /\ Len(full) >= 1 /\ full[Len(full)] # Dot
    BY FullClean
  <1>3. UNICODE_NULL \notin C /\ BackSlash \in C
    BY <1>1, NoTerminator DEF FullChar
  <1>4. RootOf(S, s, cd, full, cut) /\ CleanFrom(full, cut) /\ HasNtName(full)
    BY RootIs, CleanBehindMark
  <1>. HIDE DEF full, cut, C
  <1>5. CASE DriveRoot(full, cut)
    <2>1. TypeOfString(full) = "DriveAbsolute"
      BY <1>2, <1>3, <1>5, DriveType
    <2>. QED
      BY <1>2, <1>3, <1>4, <1>5, <2>1, DriveResolved DEF full
  <1>6. CASE RootOfDevices(full, cut)
    <2>1. TypeOfString(full) = "LocalDevice"
      BY <1>2, <1>3, <1>6, DeviceType
    <2>. QED
      BY <1>2, <1>3, <1>4, <1>6, <2>1, DeviceResolved DEF full
  <1>7. CASE ShareRoot(S, cd, full, cut) /\ ShareInside(full, cut)
    <2>1. cd[2] # Colon
      <3>1. cd \in Seq(S) /\ Len(cd) \in Nat /\ Len(cd) >= 2 /\ TypeOfString(cd) = "UncAbsolute"
        BY <1>7 DEF ShareRoot
      <3>2. IS_PATH_SEPARATOR(cd[2])
        <4>1. TypeOfString(cd) = RtlDetermineDosPathNameType_Ustr(cd)
          BY <1>1, <3>1, TypeIs
        <4>. QED
          BY <3>1, <4>1 DEF RtlDetermineDosPathNameType_Ustr
      <3>. QED
        BY <3>2 DEF IS_PATH_SEPARATOR, Colon, BackSlash, Slash
    <2>2. CleanFrom(full, 2)
      BY <1>2, <1>4, <1>7, <2>1, CleanInShare
    <2>3. PICK i \in 3..Len(full) : i <= cut /\ full[i] = BackSlash
      BY <1>7 DEF ShareInside
    <2>4. cut \in Nat /\ Len(full) >= 2
      BY <1>7, PrefixGrows DEF ShareRoot
    <2>5. cut >= 4 \/ Len(full) <= 3 \/ full[3] = BackSlash
      BY <2>3, <2>4
    <2>6. TypeOfString(full) = "UncAbsolute" /\ full[2] = BackSlash
      BY <1>1, <1>2, <1>4, <1>7, <2>5, ShareType DEF C
    <2>. QED
      BY <1>2, <1>3, <2>2, <2>4, <2>6, ShareNameResolved DEF full
  <1>. QED
    BY <1>4, <1>5, <1>6, <1>7 DEF RootOf

(***************************************************************************)
(* NtNameResolved of every name and current directory: a collapse leaves   *)
(* no ".", ".." or empty component behind the marked part, the marked part *)
(* has none, and neither the trim, nor the name that goes on where the     *)
(* mark ends, nor the prefix makes one.                                    *)
(***************************************************************************)
THEOREM NtNameAlwaysResolved == Spec => []NtNameResolved
  <1>1. path \in Seq(Char) => NtNameResolved
    <2> SUFFICES ASSUME path \in Seq(Char), NEW cd \in CurDir, Convertible(path, cd), ~IsDevicePath(path),
                        TypeOfString(path) # "UncAbsolute", ShareResolved(cd),
                        ~HasThreeDots(path), ~HasThreeDots(cd)
                 PROVE  Resolved(NtRest(Full(path, cd)))
      <3>1. ~IsDevicePath(path) => \A cd \in CurDir : NtName(path, cd) = NtNameOf(Full(path, cd))
        BY DEF IsDevicePath, NtName, Stored
      <3>. QED
        BY <3>1 DEF NtNameResolved, NtRest
    <2>1. UNICODE_NULL \notin Char /\ cd \in Directory(Char) /\ Nested(cd)
      BY CharAndDirectory, AllNested
    <2>2. CutInside(path, cd) /\ HasNtName(Full(path, cd))
      BY DEF Convertible, Storable, Composable, Stored, IsDevicePath
    <2>3. FullFacts(Char, path, cd)
      BY <2>1, <2>2 DEF FullFacts
    <2>. QED
      BY <2>1, <2>2, <2>3, FullResolved
  <1>. QED
    BY <1>1, NameKept, PTL
=============================================================================
