\* Delays of zero, one and two instants, so that calls meet and pass each other;
\* one transaction object more than PoolSafe allows.
CONSTANTS
  MaxDelay = 2
  MaxTrans = 5
SPECIFICATION Spec
INVARIANTS
  PoolSafe
  NoFatal
PROPERTIES
  EveryTransactionReturns
