\* No limit: the copy converges once the writers rest.
SPECIFICATION FairSpec
CONSTANTS
  Calendars = {c1}
  Home = c1
  Accounts = {own}
  TheOwner = own
  Owner <- MCOwner
  Names = {a, b}
  ContentIDs = {u, v}
  Contents = {x}
  Settings = {s}
  Nil = Nil
  MaxRev = 3
  MaxIssued = 2
  Limit = 0
  Preconditions <- MCPreconditions
PROPERTIES CopyConverges PollsGetThrough
