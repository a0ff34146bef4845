\* Every answer truncated at one change: safety.
SPECIFICATION SyncSpec
CONSTANTS
  Calendars = {c1}
  Home = c1
  Accounts = {own}
  TheOwner = own
  Owner <- MCOwner
  Names = {a, b}
  ContentIDs = {u, v}
  Contents = {x}
  Settings = {s}
  Nil = Nil
  MaxRev = 4
  MaxIssued = 2
  Limit = 1
  Preconditions <- MCPreconditions
SYMMETRY Symmetry
INVARIANTS BatchesHonest TokenHidesNothing TokenNotAhead
