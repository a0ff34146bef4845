------------------------- MODULE MCCalendarRequests -------------------------
(***************************************************************************)
(* Values of CalendarRequests' constants for TLC.                          *)
(***************************************************************************)
EXTENDS CalendarRequests, TLC

CONSTANTS TheOwner, first, second, uid, otherUID

MCOwner == [c \in Calendars |-> TheOwner]

MCPreconditions == {Unconditional}

AllMethods == {"GET", "REPORT", "PUT", "DELETE", "COPY", "MOVE"}
Editing == {"REPORT", "PUT", "DELETE", "MOVE"}

(* Two versions of one event, or two events. *)
MCOneUID == [content \in Contents |-> uid]
MCTwoUIDs == [content \in Contents |-> IF content = first THEN uid ELSE otherUID]

Symmetry ==
  Permutations(Clients) \cup Permutations(Names) \cup Permutations(Calendars)
=============================================================================
