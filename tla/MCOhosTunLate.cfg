SPECIFICATION HistorySpec
CONSTANTS
  Probes = {q1, q2}
  Closers = {c1}
  Capacity = 4
  Nothing = Nothing
  Failed = Failed
INVARIANT AnswersAreOwn
CHECK_DEADLOCK FALSE
