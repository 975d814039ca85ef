\* What the README says of forks.
CONSTANTS
  Kinds = {"github_forks"}
  Width = 2
  Replies = 1
  Grace = 0
  PageSize = 1
  MaxPages = 1
  MaxTime = 3
  MaxFaults = 0
SPECIFICATION Spec
PROPERTY NewForksAreReported
\* The clock stops at its bound.
CHECK_DEADLOCK FALSE
