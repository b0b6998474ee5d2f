SPECIFICATION FairSpec
CONSTANTS
  Links = {radio}
  Link = radio
  Functions = {print, other}
  PrintEvent = print
  MaxAttached = 3
  MaxEvents = 2
  Channels = 2
  MaxSigints = 2
INVARIANTS
  TypeOK
  HandlersHearEveryEvent
  LinkIsReleased
PROPERTY
  SigintEndsTheCommand
