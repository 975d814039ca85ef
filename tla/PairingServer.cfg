\* Two tickets, two connections, two API requests at a time.
CONSTANTS
  MaxTickets = 2
  Phones = {p1, p2}
  Callers = {c1, c2}
  None = None
SYMMETRY Symmetry
SPECIFICATION Spec
INVARIANTS
  TicketInvariant
  OutcomeIsReported
PROPERTIES
  OutcomeIsFinal
