SPECIFICATION MCSpec
CONSTANTS
  Command <- Commands
  ReadSize = 5
  MaxAsked = 2
  x = x
  n = n
  o = o
  s = s
  t = t
  nl = nl
  Byte = {x, n}
  NL = n
  MaxContent = 3
  BlockSize = 2
  PipeSize = 2
  MaxJobs = 3
  Open = o
  Shut = s
  Tick = t
  Newline = nl
  MaxLine = 2
  MaxLines = 3
INVARIANTS
  StreamExact
  ReplRunsWholePrograms
PROPERTIES
  ImplementsExchange
  JobsReturn
CHECK_DEADLOCK FALSE
