\* Two appenders, a ring of two for up to four lines, a subscriber, a client.
CONSTANTS
  Capacity = 2
  Appenders = {a1, a2}
  Subscribers = {s1}
  BufferSize = 2
  Froms <- ClientFroms
  Limits <- ClientLimits
  MaxLines = 4
SPECIFICATION FairSpec
INVARIANTS
  Contiguous
  SentInOrder
  SubscribersAreOpen
PROPERTIES
  AppendNeverStalls
