--------------------------- MODULE PathComponents ---------------------------
(***************************************************************************)
(* What RtlpCollapsePath computes, said over the list of the path's        *)
(* components instead of over cursors in one buffer.  The run of           *)
(* CollapsePath checks it; the callers of the function are modelled on it. *)
(***************************************************************************)
EXTENDS PathChars, SequencesExt

AddChar(names, c) ==
  IF c = BackSlash THEN Append(names, <<>>)
  ELSE [names EXCEPT ![Len(names)] = Append(@, c)]

Split(s) == FoldLeft(AddChar, << <<>> >>, s)

\* Names with the separator behind each of them, and the path made of names.
AddDirectory(s, n) == s \o n \o <<BackSlash>>

Directories(names) == FoldLeft(AddDirectory, <<>>, names)

Join(names) == IF names = <<>> THEN <<>> ELSE Directories(Front(names)) \o Last(names)

Converted(s) == [i \in DOMAIN s |-> IF s[i] = Slash THEN BackSlash ELSE s[i]]

\* Runs of separators make no component, except that the path may start with one.
Components(marked, rest) ==
  LET all    == Split(rest)
      rooted == marked # <<>> /\ Last(marked) = BackSlash
  IN  [i \in DOMAIN all |-> [name |-> all[i],
                             keep |-> \/ i = Len(all)
                                      \/ i = 1 /\ ~rooted
                                      \/ all[i] # <<>>]]

WithoutLastDot(n) == IF n # <<>> /\ Last(n) = Dot THEN Front(n) ELSE n

Pop(stack) == IF stack = <<>> THEN <<>> ELSE Front(stack)

\* A component that a separator follows, and the one that ends the path.
Enter(stack, n) ==
  CASE n = <<Dot>>      -> stack
    [] n = <<Dot, Dot>> -> Pop(stack)
    [] OTHER            -> Append(stack, WithoutLastDot(n))

EnterKept(stack, e) == IF e.keep THEN Enter(stack, e.name) ELSE stack

EnterAll(names) == FoldLeft(EnterKept, <<>>, names)

EnterLast(stack, n) ==
  CASE n = <<Dot>>      -> stack
    [] n = <<Dot, Dot>> -> Pop(stack)
    [] OTHER            -> Append(stack, n)

Trimmed(s, S, floor) ==
  SubSeq(s, 1, CHOOSE n \in floor..Len(s) :
                 /\ n = floor \/ s[n] \notin S
                 /\ \A i \in (n + 1)..Len(s) : s[i] \in S)

Collapsed(text, m, skip) ==
  LET path   == Converted(text)
      marked == SubSeq(path, 1, m)
      names  == Components(marked, SubSeq(path, m + 1, Len(path)))
      done   == EnterLast(EnterAll(Front(names)), Last(names).name)
      whole  == marked \o Join(done)
  IN  Trimmed(IF skip THEN Trimmed(whole, {BackSlash}, m) ELSE whole,
              {Space, Dot}, 0)
=============================================================================
