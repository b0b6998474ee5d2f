SPECIFICATION Spec
CONSTANTS
  l1 = l1
  l2 = l2
  Links <- MCLinks
  Requests <- MCRequests
  NoLink = NoLink
  MaxLines = 3
  MaxIndications = 2
INVARIANT
  NotificationsGetNoResponse
CHECK_DEADLOCK FALSE
