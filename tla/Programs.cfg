\* Three ingress ports compete for one egress port, which is an ingress port too;
\* each has two credits and packets of two priorities.  Trees of up to three
\* bridges; three channels of up to two data; the four credits of the tower, and
\* none to four for the nodes; four lists of three cells, two of them read at a
\* time, in banks that are just large enough.
CONSTANTS
  Ingress = {0, 1, 2}
  Egress = {2}
  VC = {0}
  Credits = 2
  MaxPriority = 1
  MaxBus = 3
  MaxDevice = 1
  MaxFunction = 1
  ChannelNum = 3
  MaxData = 2
  TowerCredits = 4
  MaxCredit = 4
  SliceNum = 6
  LinkNum = 2
  Delay = 1
  WriteSlices = 3
  Lists = {1, 2, 3, 4}
  MaxWaiting = 1
SPECIFICATION Spec
\* The enumeration ends.
CHECK_DEADLOCK FALSE
INVARIANTS
  CreditsAccounted
  BusesReachable
  ListsIntact
  CreditsConserved
  NeverStalls
PROPERTIES
  TurnsTaken
  EveryListRead
  EveryoneServed
