CONSTANTS
  N = 2
  Classes = {"TCP", "UDP"}
  MaxStarts = 3
  MaxFailures = 1
SPECIFICATION FairSpec
ACTION_CONSTRAINT OneIsFirst
INVARIANTS RebuildExact MembersCurrent MissingIsAskedFor
PROPERTY LinksSettle
CHECK_DEADLOCK FALSE
