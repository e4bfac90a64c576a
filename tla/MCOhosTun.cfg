\* Two probes and two closers; a queue that one packet fills.
SPECIFICATION FairHistorySpec
CONSTANTS
  Probes = {q1, q2}
  Closers = {c1, c2}
  Capacity = 1
  Nothing = Nothing
  Failed = Failed
INVARIANTS
  TypeOK
  CloseIsNotLost
  InjectionIsNotLost
  EventsClosedOnce
  OwnWhenSettled
PROPERTIES
  CloseStopsReader
  InjectionIsRead
CHECK_DEADLOCK FALSE
