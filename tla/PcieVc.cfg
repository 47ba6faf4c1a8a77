\* Three channels with one credit each, the first of weight two, any mix of schemes.
CONSTANTS
  Units = {"pcie_vc"}
  N = 3
  NumVC = 3
  MaxCredits = 1
  Weight = 2
SPECIFICATION Spec
INVARIANTS
  CreditsAccounted
PROPERTIES
  RoundRobinServes
