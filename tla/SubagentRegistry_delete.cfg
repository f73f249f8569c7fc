SPECIFICATION Spec
CONSTANTS
  parent = parent
  child = child
  Main = Main
  NoRun = NoRun
  Sessions = {parent, child}
  Requester <- MCRequester
  LastRun <- OneChild
  MaxAnnounceRetries = 2
  Kinds <- KeepDelete
  MaxDisturbed = 0
PROPERTIES
  FailedRetried
CHECK_DEADLOCK FALSE
