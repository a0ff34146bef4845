-------------------------- MODULE MCCalendarStore --------------------------
(***************************************************************************)
(* Values of CalendarStore's constants for TLC.                            *)
(***************************************************************************)
EXTENDS CalendarStore, TLC

CONSTANTS TheOwner

MCOwner == [c \in Calendars |-> TheOwner]

(* A precondition only forbids steps: none of them is the most permissive  *)
(* store.  The request handlers' runs have the others.                     *)
MCPreconditions == {Unconditional}

Symmetry ==
  Permutations(Names) \cup Permutations(ContentIDs) \cup Permutations(Calendars)
=============================================================================
