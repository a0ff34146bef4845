\* A stale If-Match applied to a re-created calendar.
SPECIFICATION RequestsSpec
CONSTANTS
  Calendars = {c1}
  Accounts = {own}
  TheOwner = own
  Owner <- MCOwner
  Names = {a}
  first = x
  second = y
  uid = u
  otherUID = v
  ContentIDs = {u, v}
  Contents = {x, y}
  Methods <- AllMethods
  UIDOf <- MCOneUID
  Settings = {s}
  Nil = Nil
  Clients = {k1, k2}
  MaxRev = 3
  MaxIssued = 2
  DeletesCalendars = TRUE
  Preconditions <- MCPreconditions
SYMMETRY Symmetry
PROPERTIES StaleIfMatchMatchesNothing
CHECK_DEADLOCK FALSE
