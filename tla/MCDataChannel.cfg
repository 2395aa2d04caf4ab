CONSTANTS
  l1 = l1
  l2 = l2
  l3 = l3
  NoLink = NoLink
  Links <- MCLinks
  MaxSessions = 2
  MaxFaults = 4
SPECIFICATION FairSpec
CHECK_DEADLOCK FALSE
INVARIANTS ChannelSound
PROPERTIES ChannelReturns
