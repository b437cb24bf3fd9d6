SPECIFICATION MCSpec
CONSTANTS
  MaxCells = 4
  MaxRank = 3
  MaxDepth = 2
  MaxNum = 2
  MaxChain = 2
  MaxLong = 9000
  MaxDen = 4
  MaxSteps = 2
  alpha = alpha
  beta = beta
  gamma = gamma
  Name = {alpha, beta, gamma}
  Constant = {gamma}
  MaxThunks = 2
  Targets <- SomeTargets
  Values <- SomeValues
  Keys <- SomeKeys
  Contents <- SomeContents
  MaxWritten = 2
  MaxPairs = 2
  MaxCollected = 2
INVARIANTS
  StorageSound
  LayoutBlind
  TakeDropSplit
  RearrangeExact
  LabelsFollow
  GradeSorts
  SearchAgrees
  AssignSelects
  UnderWindowExact
  FoldLaws
  RoundTrips
  MapLaws
  NumbersExact
  NumbersOrdered
  Primality
  TrialDivision
  CircularExact
  DestructExact
CHECK_DEADLOCK FALSE
