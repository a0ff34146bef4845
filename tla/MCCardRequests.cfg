\* Two accounts with a book each, shared or not; cards copied and moved
\* between them.
SPECIFICATION CardSpec
CONSTANTS
  mine = b1
  theirs = b2
  me = m
  them = t
  Books = {b1, b2}
  Accounts = {m, t}
  Owner <- MCOwner
  Clients = {k1, k2}
  AccountOf <- MCAccountOf
  Names = {a}
  myClient = k1
  theirClient = k2
  uid = u
  ContentIDs = {u}
  Contents = {x}
  UIDOf <- MCUIDOf
  Settings = {s}
  Nil = Nil
  MaxRev = 3
  MaxIssued = 2
  DeletesBooks = TRUE
  Methods <- MCMethods
  Conditions <- MCConditions
  Preconditions <- MCPreconditions
PROPERTIES OnlyEditorsChangeItems CardNoLostUpdate
CHECK_DEADLOCK FALSE
