SPECIFICATION Spec
CONSTANTS
  Nil = Nil
  Partial = Partial
  r1 = r1
  r2 = r2
  t1 = t1
  t2 = t2
  a = a
  b = b
  x = x
  y = y
  Requests = {r1, r2}
  Paths <- NestedPaths
  Temps = {t1, t2}
  Bodies = {x}
  Headers <- NoHeaders
  Methods <- AllMethods
  Faults <- AllFaults
  Crashes = TRUE
  Torn = Torn
  MaxInos = 3
INVARIANTS
  NoPartialResource
PROPERTIES
  NothingLost
SYMMETRY Symmetry
