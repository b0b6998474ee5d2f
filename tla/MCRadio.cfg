SPECIFICATION FairSpec
CONSTANTS
  link = link
  k1 = k1
  k2 = k2
  c1 = c1
  c2 = c2
  d1 = d1
  Links <- MCLinks
  MyLink = link
  Keys <- MCKeys
  Calls <- MCCalls
  KeyOf <- MCKeyOf
  Silent <- MCSilent
  NoCall = NoCall
INVARIANTS
  TypeOK
  NoDeadEntry
  EveryWaiterIsReachable
  OneLiveCallPerKey
  StrayRepliesHaveACause
PROPERTIES
  FuturesAreSetOnce
  SendEnds
  ImplementsRequestReply
