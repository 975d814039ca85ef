\* Two entries, two addresses, one rule, one remembered identifier, one edit and one fault, under fairness.
CONSTANTS
  Ids = {i1, i2}
  Sources = {s1, s2}
  Rules = {r1}
  Times = {1}
  NoRule = NoRule
  Nothing = Nothing
  Grace = 1
  MaxSeen = 1
  MaxHistory = 1
  MaxEdits = 1
  MaxFaults = 1
SPECIFICATION FairSpec
PROPERTIES
  PendingIsDelivered
  KeepsLedger
\* The feed may be deleted and the edits used up.
CHECK_DEADLOCK FALSE
