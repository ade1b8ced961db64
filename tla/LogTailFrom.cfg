\* The cursor of the buffer in the file: a ring that forgets nothing, one client.
CONSTANTS
  Capacity = 5
  reader = reader
  watcher = watcher
  worker = worker
  Appenders = {reader, watcher, worker}
  Subscribers = {}
  BufferSize = 1
  Froms <- FromTheStart
  Limits <- WholeLog
  MaxLines = 5
SPECIFICATION TailSpec
INVARIANTS
  NothingMissed
