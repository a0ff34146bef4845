\* Two calendars: histories, re-creation, and transfers between and inside them.
SPECIFICATION Spec
CONSTANTS
  Calendars = {c1, c2}
  Accounts = {own, guest}
  TheOwner = own
  Owner <- MCOwner
  Names = {a, b}
  ContentIDs = {u, v}
  Contents = {x}
  Settings = {s}
  Nil = Nil
  MaxRev = 3
  MaxIssued = 2
  Preconditions <- MCPreconditions
SYMMETRY Symmetry
INVARIANTS TypeOK ContentIDIndexExact HistoryExplainsItems IncarnationsDistinct
PROPERTIES RevisionsNameBytes IncarnationsNeverReturn
CHECK_DEADLOCK FALSE
