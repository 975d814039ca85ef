\* Two entries, two addresses, one rule, three edits and one fault.
CONSTANTS
  Ids = {i1, i2}
  Sources = {s1, s2}
  Rules = {r1}
  Times = {1, 3}
  NoRule = NoRule
  Nothing = Nothing
  Grace = 1
  MaxSeen = 1
  MaxHistory = 2
  MaxEdits = 3
  MaxFaults = 1
SYMMETRY Symmetry
SPECIFICATION Spec
INVARIANTS
  DocumentInvariant
  PendingIsNeverLost
  PrimedStaysSilent
  NoRepeatWithoutLostMark
PROPERTIES
  DecisionsAreCurrent
  VerdictIsKept
\* The feed may be deleted and the edits used up.
CHECK_DEADLOCK FALSE
