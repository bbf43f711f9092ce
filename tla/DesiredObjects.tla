---------------------------- MODULE DesiredObjects ----------------------------
(***************************************************************************)
(* What the documentation promises of the objects the operator keeps for a *)
(* Bindplane (docs/configuration/security.md): it works through the specs  *)
(* the user writes, in the order they were written and perhaps skipping    *)
(* some, creates only what the spec it is working on calls for, and        *)
(* removes only what that spec does not call for.                          *)
(***************************************************************************)
EXTENDS Naturals, Sequences

CONSTANTS
  Specs,      \* what a user may ask for
  Objects,    \* the objects the operator may keep
  Wanted(_)   \* those that a spec calls for

VARIABLES
  asked,      \* the specs the user has written, oldest first
  serving,    \* the one the operator is working on
  present     \* the objects that exist

contractVars == <<asked, serving, present>>

Init ==
  /\ asked \in {<<s>> : s \in Specs}
  /\ serving = 1
  /\ present = {}

Ask(s) ==
  /\ asked' = Append(asked, s)
  /\ UNCHANGED <<serving, present>>

\* It turns to a newer spec once it is done with one, never back to an older one.
Advance == serving' \in serving..Len(asked)

Create(o) ==
  /\ Advance
  /\ o \in Wanted(asked[serving])
  /\ present' = present \cup {o}
  /\ UNCHANGED asked

Remove(o) ==
  /\ Advance
  /\ o \notin Wanted(asked[serving])
  /\ present' = present \ {o}
  /\ UNCHANGED asked

Move ==
  /\ Advance
  /\ UNCHANGED <<asked, present>>

Next ==
  \/ \E s \in Specs : Ask(s)
  \/ \E o \in Objects : Create(o) \/ Remove(o)
  \/ Move

Spec == Init /\ [][Next]_contractVars
=============================================================================
