\* A child that writes two lines into a ring of two, one client.
CONSTANTS
  Capacity = 2
  reader = reader
  watcher = watcher
  worker = worker
  Appenders = {reader, watcher, worker}
  Subscribers = {}
  BufferSize = 1
  Froms <- FollowerFroms
  Limits <- FollowerLimits
  MaxLines = 5
SPECIFICATION TailFairSpec
INVARIANTS
  TailTypeOK
  NothingRepeated
  FileLagsBehind
  StoppedHasAll
  FinishedIsOnDisk
PROPERTIES
  NoneSkipped
  FollowerStops
  FollowerCatchesUp
