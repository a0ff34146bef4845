\* A limit of one: a change of an item deleted later is answered 404 for ever.
SPECIFICATION FairSpec
CONSTANTS
  Calendars = {c1}
  Home = c1
  Accounts = {own}
  TheOwner = own
  Owner <- MCOwner
  Names = {a, b}
  ContentIDs = {u, v}
  Contents = {x}
  Settings = {s}
  Nil = Nil
  MaxRev = 4
  MaxIssued = 1
  Limit = 1
  Preconditions <- MCPreconditions
PROPERTIES PollsGetThrough
