\* Three inputs compete for each of two outputs, and a second iteration can
\* match an output past the input it granted first.
CONSTANTS
  InputNum = 3
  OutputNum = 2
  Iterations = 2
  VoqSize = 1
SPECIFICATION FairSpec
PROPERTIES
  PointerMovesOnAcceptOnly
  NoStarvation
