SPECIFICATION FairSpec
CONSTANTS
  parent = parent
  child = child
  Main = Main
  NoRun = NoRun
  Sessions = {parent, child}
  Requester <- MCRequester
  LastRun <- OneChild
  MaxAnnounceRetries = 2
  Kinds <- KeepDelete
  MaxDisturbed = 1
INVARIANTS
  AnnouncedOnce
PROPERTIES
  ParentLast
  EveryRunResolved
CHECK_DEADLOCK FALSE
