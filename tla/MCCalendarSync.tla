--------------------------- MODULE MCCalendarSync ---------------------------
(***************************************************************************)
(* Values of CalendarSync's constants for TLC: one calendar, unconditional *)
(* writers (a failed precondition changes nothing a client can see).       *)
(***************************************************************************)
EXTENDS CalendarSync, TLC

CONSTANTS TheOwner

MCOwner == [c \in Calendars |-> TheOwner]

MCPreconditions == {Unconditional}


Symmetry == Permutations(Names) \cup Permutations(ContentIDs)
=============================================================================
