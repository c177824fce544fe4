SPECIFICATION TimedSpec
CONSTANTS
  Array = 4
  Mat = 16
  Heads = 2
INVARIANTS
  TypeOK
  OperandsReady
  QuietAtStart
  InTime
PROPERTIES
  Completes
  ImplementsInference
