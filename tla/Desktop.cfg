\* Two processes, two sources, a full history of one line and one more toast, one release, one click and one fault, under fairness.
CONSTANTS
  Processes = {p1, p2}
  Sources = {s1, s2}
  None = None
  MaxEntries = 1
  MaxLines = 2
  MaxVersions = 1
  MaxClicks = 1
  MaxFaults = 1
SPECIFICATION FairSpec
INVARIANTS
  DesktopInvariant
PROPERTIES
  HistoryIsSerial
  EnabledSourcesArePolled
  VersionIsTried
  RestartComesBack
\* The user may stop the program.
CHECK_DEADLOCK FALSE
