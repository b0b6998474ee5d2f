SPECIFICATION FairSpec
CONSTANTS
  l1 = l1
  l2 = l2
  Links <- MCLinks
  Requests <- MCRequests
  NoLink = NoLink
  MaxLines = 3
  MaxIndications = 2
INVARIANTS
  TypeOK
  AnswersInOrder
  NoRequestUnanswered
  EventsFollowIndications
  NoLinkIsForgotten
  ExitDisconnects
PROPERTIES
  ShutdownIsLast
  RequestsEnd
  ShutdownEnds
  IndicationsAreDelivered
CHECK_DEADLOCK FALSE
