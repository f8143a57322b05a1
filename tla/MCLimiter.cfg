\* 3/2 requests per second, half-second ticks: the bucket holds one and a half
\* tokens, and a window is up to a second and a half long.
CONSTANTS
  Callers = {c1, c2, c3}
  QpsNum = 3
  QpsDen = 2
  TicksPerSecond = 2
  MaxCalls = 2
  MaxSpan = 3
SPECIFICATION FairWindowSpec
INVARIANTS NoOversleep RateBound
PROPERTIES EagerBucket WaitReturns
CHECK_DEADLOCK FALSE
