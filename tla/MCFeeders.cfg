\* Puts into a graph of three feeders that transformers change.
SPECIFICATION Spec
CONSTANTS
  Feeder = {a, b, c}
  MaxOps = 7
  MaxDepth = 5
CHECK_DEADLOCK FALSE
PROPERTIES
  ForwardsWhatItFound
  DeliversDepthFirst
  PutsReturn
