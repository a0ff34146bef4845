SPECIFICATION Spec
CONSTANTS
  Nil = Nil
  Unusable = Unusable
  Junk = Junk
  MaxTime = 7
  MaxIterations = 4
  MaxExpandedInstances = 3
INVARIANTS
  PrivilegesAreEnforced
  AllowIsExact
  DeniedLearnsNothing
  SettingsAllOrNothing
  TimeRangesAdditive
  FreeBusyIsExact
  MatchIffExpands
  LimitsLoseNothing
  OneOccurrenceJustifies
  StoredIsSeen
CHECK_DEADLOCK FALSE
