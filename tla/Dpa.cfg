\* Three ports: every diagonal has cells that share a row with one of the next
\* and a column with the other.
CONSTANTS
  Units = {"dpa"}
  N = 3
  NumVC = 3
  MaxCredits = 1
  Weight = 2
SPECIFICATION Spec
INVARIANTS
  GrantsMatch
  Maximal
PROPERTIES
  NoStarvation
