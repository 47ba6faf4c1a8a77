\* One output, weights 2, 1 and 0: the inputs' shares.
CONSTANTS
  InputNum = 3
  OutputNum = 1
  Iterations = 1
  VoqSize = 2
  Weights <- MCWeights
SPECIFICATION ShareSpec
INVARIANTS
  Proportional
