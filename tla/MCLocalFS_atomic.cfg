SPECIFICATION Spec
CONSTANTS
  Nil = Nil
  Partial = Partial
  r1 = r1
  r2 = r2
  t1 = t1
  t2 = t2
  a = a
  b = b
  x = x
  y = y
  Requests = {r1}
  Paths <- NestedPaths
  Temps = {t1, t2}
  Bodies = {x, y}
  Headers <- AllHeaders
  Methods <- AllMethods
  Faults <- UndoneFaults
  Crashes = FALSE
  Torn = Torn
  MaxInos = 4
INVARIANTS
  NoStrays
PROPERTIES
  Implements
