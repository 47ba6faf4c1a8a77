\* Queues of two and a threshold of two: a queue is empty, waiting or critical.
\* Two iterations reach a maximal matching.
CONSTANTS
  InputNum = 2
  OutputNum = 2
  Iterations = 2
  VoqSize = 2
  Threshold = 2
SPECIFICATION SchedFairSpec
INVARIANTS
  SlotInv
  IterationProgress
  CriticalFirst
PROPERTIES
  ImplementsPim
  NobodyStarves
