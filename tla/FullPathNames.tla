---------------------------- MODULE FullPathNames ----------------------------
(***************************************************************************)
(* The full path of every name DosPathNames forms, in each of the current  *)
(* directories.  (A quantifier over one value has TLC compute it once.)    *)
(***************************************************************************)
EXTENDS DosPathNames, FullPath

CONSTANT CurDir  \* the current directories, each with its trailing backslash

ASSUME CurDirAssumption ==
  \A cd \in CurDir :
    /\ cd \in Seq(Char) /\ Len(cd) >= 3
    /\ TypeOfString(cd) \in {"DriveAbsolute", "UncAbsolute"}
    /\ cd[Len(cd)] = BackSlash
    /\ cd[2] # Colon =>
         \E i \in 3..(Len(cd) - 1) :
           IS_PATH_SEPARATOR(cd[i]) /\ ~IS_PATH_SEPARATOR(cd[i + 1])

\* The names that get as far as the composition of a path.
Composable(s) == CharsKept(s) > 0 /\ RtlIsDosDeviceName_Ustr(s) = 0

\* Those that are stored when there is room.
Storable(s, cd) ==
  \/ RtlIsDosDeviceName_Ustr(s) # 0
  \/ Composable(s) /\ CutInside(s, cd) /\ Last(s) # Space

\* The sizes of buffer around which the answer changes, and none at all.
Sizes(s, cd) ==
  LET edge == {Needed(s, cd) \div SizeofWCHAR, Len(Stored(s, cd)) + 1}
  IN  {n * SizeofWCHAR : n \in {0} \cup UNION {(m - 1)..(m + 1) : m \in edge}}

\* Where dir of \\share\dir\ ends.
ShareEnd(cd) ==
  Min({n \in 3..(Len(cd) - 1) :
         /\ ~IS_PATH_SEPARATOR(cd[n]) /\ IS_PATH_SEPARATOR(cd[n + 1])
         /\ \E i \in 3..n : IS_PATH_SEPARATOR(cd[i])})

\* C:\ of a directory on a drive, \\share\dir\ of one on a share.
RootEnd(cd) == IF cd[2] = Colon THEN 3 ELSE ShareEnd(cd) + 1

Root(cd) == SubSeq(Converted(cd), 1, RootEnd(cd))

\* The names behind \\share\dir in the path that is put together.
NamesBehind(s, cd) ==
  LET text == Converted(Composed(s, cd))
  IN  Split(SubSeq(text, ShareEnd(cd) + 1, Len(text)))

\* One of the directories on the way leaves more than were entered.
Climbs(names) ==
  \E k \in 1..(Len(names) - 1) :
    Cardinality({i \in 1..k : names[i] = <<Dot, Dot>>})
      > Cardinality({i \in 1..k : names[i] \notin {<<>>, <<Dot>>, <<Dot, Dot>>}})

\* A separator behind a component takes one dot from it, whatever is in front.
DotLeft(full) ==
  \E i \in DOMAIN Split(full) : Split(full)[i] # <<>> /\ Last(Split(full)[i]) = Dot
-----------------------------------------------------------------------------
(***************************************************************************)
(* A full path is the full path of itself, from any current directory: the *)
(* type, the composition and the collapse agree on what is left to do.     *)
(* Two kinds of result are not final: one with a component that still ends *)
(* in a dot ("..." leaves ".."), and the \\? that is left of \\?. and has  *)
(* no NT name.                                                             *)
(***************************************************************************)
FullPathIsFixedPoint ==
  Composable(path) =>
    \A cd1 \in {cd \in CurDir : CutInside(path, cd)} :
      \A full \in {Full(path, cd1)} :
        ~DotLeft(full) /\ HasNtName(full) /\ Composable(full)
          => \A cd2 \in CurDir : CutInside(full, cd2) => Full(full, cd2) = full

(***************************************************************************)
(* A caller learns from the answer alone whether the path was stored, and  *)
(* when it was not, a call with the size asked for stores it.  (Behind a   *)
(* trailing space that size is one character short: see ComposedInBuffer.) *)
(***************************************************************************)
AskedSizeIsEnough ==
  \A cd \in CurDir :
    Storable(path, cd) =>
      \A Size \in Sizes(path, cd) :
        LET answer == RtlGetFullPathName_Ustr(path, Size, cd)
            again  == RtlGetFullPathName_Ustr(path, answer, cd)
        IN  /\ answer # Size
            /\ answer > Size => again > 0 /\ again < answer

(***************************************************************************)
(* No name that starts from the current directory leaves its drive,        *)
(* however many ".." it has: the full path is C:\ or something in it.      *)
(* Nor does it leave \\share\dir, unless it climbs above dir on the way:   *)
(* then the last ".." takes the separator behind dir, and what follows is  *)
(* glued to dir's name.  (Alone, dir is without the separator, and the     *)
(* dots and spaces that its name ends in are trimmed.)                     *)
(***************************************************************************)
RootKept ==
  TypeOfString(path) \in {"Relative", "Rooted"} /\ Composable(path) =>
    \A cd \in {cd \in CurDir : CutInside(path, cd)} :
      IF cd[2] = Colon THEN IsPrefix(Root(cd), Full(path, cd))
      ELSE ~Climbs(NamesBehind(path, cd)) =>
             \/ IsPrefix(Root(cd), Full(path, cd))
             \/ Full(path, cd) = Trimmed(Front(Root(cd)), {Space, Dot}, 0)

(***************************************************************************)
(* The file part of a full path and the directory in front of it name the  *)
(* same file: from that directory, the file part has the same full path.   *)
(* (One that starts with a drive has not: it is read as another path.  A   *)
(* dot left in the directory is as in FullPathIsFixedPoint.)               *)
(***************************************************************************)
FilePartInDirectory ==
  Composable(path) =>
    \A cd \in {cd \in CurDir : CutInside(path, cd)} :
      \A full \in {Full(path, cd)}, n \in {FilePart(path, cd)} :
        n # 0 /\ ~DotLeft(full) =>
          \A dir \in {SubSeq(full, 1, n)}, file \in {SubSeq(full, n + 1, Len(full))} :
            TypeOfString(dir) \in {"DriveAbsolute", "UncAbsolute"}
              /\ Composable(file) /\ TypeOfString(file) # "DriveRelative"
            => Full(file, dir) = full

(***************************************************************************)
(* What RtlpCollapsePath is called on is marked and terminated inside the  *)
(* buffer of the size asked for, as its "ASSERT(EndBuffer >= p)" and its   *)
(* wcslen need it.  Only behind a name that ends in a space it may be not: *)
(* the copy takes that space for the terminator, and the \\share\dir part  *)
(* is measured with the spaces that are not copied.                        *)
(***************************************************************************)
ComposedInBuffer ==
  Composable(path) /\ Last(path) # Space =>
    \A cd \in CurDir :
      /\ CutInside(path, cd)
      /\ LengthInBytes(Composed(path, cd)) + SizeofWCHAR <= Needed(path, cd)

(***************************************************************************)
(* "Nothing else is expected": a full path has one of the types that an NT *)
(* name is made of.  Only the trim behind a name that ends in a dot may    *)
(* leave another: \\?. becomes \\?.                                        *)
(***************************************************************************)
ExpectedType ==
  Composable(path) /\ Last(path) \notin {Dot, Space} =>
    \A cd \in CurDir : HasNtName(Full(path, cd))
=============================================================================
