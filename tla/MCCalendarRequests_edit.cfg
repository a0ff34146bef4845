\* Two clients editing two resources of one calendar.
SPECIFICATION RequestsSpec
CONSTANTS
  Calendars = {c1}
  Accounts = {own}
  TheOwner = own
  Owner <- MCOwner
  Names = {a, b}
  first = x
  second = y
  uid = u
  otherUID = v
  ContentIDs = {u, v}
  Contents = {x}
  Methods <- Editing
  UIDOf <- MCTwoUIDs
  Settings = {s}
  Nil = Nil
  Clients = {k1, k2}
  MaxRev = 5
  MaxIssued = 1
  DeletesCalendars = FALSE
  Preconditions <- MCPreconditions
SYMMETRY Symmetry
PROPERTIES NoLostUpdate
CHECK_DEADLOCK FALSE
