\* Two releases, six operations or cancellations.
CONSTANTS
  Releases = {v1, v2}
  None = None
  MaxGenerations = 6
SPECIFICATION FairSpec
INVARIANT CardInvariant
PROPERTIES
  OnlyExpectedResults
  BusyEnds
\* The operations may be used up.
CHECK_DEADLOCK FALSE
