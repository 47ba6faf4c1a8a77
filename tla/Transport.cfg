\* Four payloads in four instants, and four that are pushed with delays of up to
\* three into a queue of at most two; two threads and three lists of one transfer
\* that are given four times; transactions of up to three bytes on a memory of
\* two, anywhere among four addresses; copies of up to four bytes in bursts of one to four in a memory of six;
\* three packets that fit or do not fit into eight bytes; transfers of none to
\* three bytes in bursts of two, a whole and a part one.
CONSTANTS
  CbTime = 3
  MaxNotes = 4
  PeqTime = 12
  MaxDelay = 3
  MaxDep = 2
  Pushes = 4
  Threads = {1, 2}
  Lists = {1, 2, 3}
  Transfers = 1
  MaxAdds = 4
  Size = 2
  AddrSpace = 4
  Byte = {0, 1}
  MaxLen = 3
  MEM_SIZE = 6
  MaxLength = 4
  MaxBurst = 4
  MemSize = 8
  Align = 4
  Lengths = {1, 5}
  total_packets = 3
  Burst = 2
SPECIFICATION Spec
\* Transfers, packets and the bounded calls come to an end.
CHECK_DEADLOCK FALSE
INVARIANTS
  MovesExactly
  CopiesExactly
PROPERTIES
  ImplementsEventQueue
  EveryPayloadHandedOver
  ListsReplayed
  RunEnds
  IrqWithdrawn
