---------------------------- MODULE ZigReference ----------------------------
(***************************************************************************)
(* ZigWinPath against the list of the path's components.                   *)
(***************************************************************************)
EXTENDS ZigWinPath, PathComponents

\* Both kinds of separators, each run of them one backslash.
Sanitized(s) ==
  FoldLeft(LAMBDA kept, c :
             IF c = BackSlash /\ kept # <<>> /\ Last(kept) = BackSlash THEN kept
             ELSE Append(kept, c),
           <<>>, Converted(s))

(***************************************************************************)
(* The directories entered so far, each with the separator behind it; ok   *)
(* until ".." finds none to leave, shallow until it leaves a nested one.   *)
(***************************************************************************)
Nowhere == [dirs |-> <<>>, ok |-> TRUE, shallow |-> TRUE]

Goes(at, name, separator) ==
  CASE name \in {<<>>, <<Dot>>} -> at
    [] name = <<Dot, Dot>>      ->
         [dirs    |-> Pop(at.dirs),
          ok      |-> at.ok /\ at.dirs # <<>>,
          shallow |-> at.shallow /\ Len(at.dirs) <= 1]
    [] OTHER                    ->
         [at EXCEPT !.dirs = Append(@, name \o separator)]

Rooted(s) == s # <<>> /\ s[1] = BackSlash

Walk(s) ==
  LET names == Split(IF Rooted(s) THEN Tail(s) ELSE s)
      dirs  == FoldLeft(LAMBDA at, n : Goes(at, n, <<BackSlash>>), Nowhere, Front(names))
  IN  Goes(dirs, Last(names), <<>>)

WithoutDotDirs(s) ==
  (IF Rooted(s) THEN <<BackSlash>> ELSE <<>>) \o FlattenSeq(Walk(s).dirs)
-----------------------------------------------------------------------------
(***************************************************************************)
(* As long as no ".." leaves a nested directory, the functions return the  *)
(* path without its dot directories, and the error exactly when ".." has   *)
(* no directory to leave.  (Out of a nested one: see NamesKept.)           *)
(***************************************************************************)
ShallowAgrees ==
  pc \in Outcomes =>
    LET walk == Walk(Sanitized(text))
    IN  walk.shallow =>
          IF walk.ok THEN pc = "done" /\ Result = WithoutDotDirs(Sanitized(text))
          ELSE pc = "TooManyParentDirs"
-----------------------------------------------------------------------------
(***************************************************************************)
(* "Removes '.' and '..' path components": components are removed, so each *)
(* one of the result is one of the path.                                   *)
(***************************************************************************)
NamesKept ==
  pc = "done" => Range(Split(Result)) \subseteq Range(Split(Sanitized(text))) \cup {<<>>}
=============================================================================
