\* Two block rules, two overlapping requests, one change and one fault.
CONSTANTS
  Blocks = {b1, b2}
  Requests = {t1, t2}
  Networks = {{"public"}, {"private"}, {"domain"}}
  MaxChanges = 1
  MaxFaults = 1
SYMMETRY Symmetry
SPECIFICATION Spec
INVARIANTS
  FirewallInvariant
  ReplacedWhileDisabled
PROPERTIES
  FailureChangesNothing
\* Every request may be over.
CHECK_DEADLOCK FALSE
