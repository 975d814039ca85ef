\* Two sources under one key, dates on both sides of the grace period, one fault.
CONSTANTS
  Ids = {e1, e2}
  Sources = {s1, s2}
  Times = {0, 2, 3}
  NoTime = NoTime
  NoSource = NoSource
  NoFile = NoFile
  Grace = 1
  MaxSeen = 1
  MaxFaults = 1
SPECIFICATION FairSpec
INVARIANTS
  PollFeedInvariant
  PendingIsNeverLost
  PrimedStaysSilent
  NoRepeatWithoutLostMark
PROPERTIES
  WatermarkNeverMovesBack
  KeepsLedger
  PruningIsExact
  ShownEntriesAreDelivered
