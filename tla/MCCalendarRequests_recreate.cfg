\* Calendars deleted and created again.
SPECIFICATION RequestsSpec
CONSTANTS
  Calendars = {c1}
  Accounts = {own}
  TheOwner = own
  Owner <- MCOwner
  Names = {a}
  first = x
  second = y
  uid = u
  otherUID = v
  ContentIDs = {u, v}
  Contents = {x, y}
  Methods <- AllMethods
  UIDOf <- MCOneUID
  Settings = {s}
  Nil = Nil
  Clients = {k1, k2}
  MaxRev = 3
  MaxIssued = 2
  DeletesCalendars = TRUE
  Preconditions <- MCPreconditions
SYMMETRY Symmetry
INVARIANTS RequestsTypeOK ReportedETagsNameBytes
CHECK_DEADLOCK FALSE
