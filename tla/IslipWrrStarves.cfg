\* One input, two outputs: the pair of weight 2 is starved by the pair of
\* weight 1.
CONSTANTS
  InputNum = 1
  OutputNum = 2
  Iterations = 1
  VoqSize = 1
  Weights <- MCWeights
SPECIFICATION WrrFairSpec
PROPERTIES
  NoStarvation
