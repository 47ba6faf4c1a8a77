\* Switches of two ports a side (three under steady load, as in TEST_starvation,
\* and three heads that compete for one output); scans over up to six ports;
\* three instructions on two addresses,
\* with the latencies of the LSU test and with stores slower than loads, and in the
\* cycle of that test, in which three loads may be under way at once.
CONSTANTS
  NumPorts = 2
  SteadyPorts = 3
  FifoInputs = 3
  MaxCells = 2
  MaxScan = 6
  MaxInst = 3
  Addr = {a1, a2}
SPECIFICATION Spec
\* The scan ends, and the load/store unit has executed its instructions.
CHECK_DEADLOCK FALSE
INVARIANTS
  BooksimSound
  StrictPriority
  TakesFirst
  MemoryConsistent
  LoadsReportedInTime
PROPERTIES
  ImplementsAbstract
  ServedInTurn
