---------------------------- MODULE NtPathService ----------------------------
(***************************************************************************)
(* What a call of RtlpDosPathNameToRelativeNtPathName_Ustr promises, and   *)
(* the other calls with it, whatever happens inside: it returns without    *)
(* the PEB lock, its caller has a block to free exactly when an NT path    *)
(* was asked for and the status says that there is one, and no other block *)
(* stays behind.  Or else the process ends.                                *)
(***************************************************************************)
EXTENDS Naturals

VARIABLES
  asked,    \* "nt", an NT path, "other", or "none" between two calls
  success,  \* the last call returned STATUS_SUCCESS
  given,    \* the blocks allocated between two calls
  locked,   \* whether the PEB lock is held between two calls
  ended     \* whether the process has ended

vars == <<asked, success, given, locked, ended>>

Init == asked = "none" /\ success = TRUE /\ given = 0 /\ locked = FALSE /\ ended = FALSE

Ask(what) ==
  /\ ~ended /\ asked = "none" /\ given = 0
  /\ asked' = what
  /\ success' = FALSE
  /\ UNCHANGED <<given, locked, ended>>

Answer ==
  /\ ~ended /\ asked # "none"
  /\ asked' = "none"
  /\ success' \in BOOLEAN
  /\ given' = IF asked = "nt" /\ success' THEN 1 ELSE 0
  /\ UNCHANGED <<locked, ended>>

Free ==
  /\ ~ended /\ given > 0
  /\ given' = 0
  /\ UNCHANGED <<asked, success, locked, ended>>

End ==
  /\ ~ended /\ asked # "none"
  /\ ended' = TRUE
  /\ UNCHANGED <<asked, success, given, locked>>

Next == Ask("nt") \/ Ask("other") \/ Answer \/ Free \/ End

\* What every step of a call and of its caller keeps to.
SafeSpec == Init /\ [][Next]_vars

\* Every call is answered, or the process ends.
Answered == asked # "none" ~> asked = "none" \/ ended

Spec == SafeSpec /\ Answered
=============================================================================
