\* Two tickets, one connection, two API requests at a time, under fairness.
CONSTANTS
  MaxTickets = 2
  Phones = {p1}
  Callers = {c1, c2}
  None = None
SPECIFICATION FairSpec
PROPERTIES
  ListenersClose
  LockIsReleased
