------------------------------ MODULE ScanLoop ------------------------------
(***************************************************************************)
(* The do-while scan of do_grant() (islip_basic.cpp:70-87) one turn at a   *)
(* time, from every start and for every set of eligible ports.  (The scan  *)
(* of an occupied input there ends in "continue", which in a do-while      *)
(* still evaluates the loop condition, so it is one more ineligible port.) *)
(***************************************************************************)
EXTENDS RoundRobin

CONSTANT MaxPorts   \* bound on the number of ports of the model

VARIABLES n, start, eligible, x, taken, done

vars == <<n, start, eligible, x, taken, done>>

Init ==
  /\ n \in 1 .. MaxPorts
  /\ start \in 0 .. n - 1
  /\ eligible \in SUBSET (0 .. n - 1)
  /\ x = start /\ taken = {} /\ done = FALSE

\* The scan stops on an eligible port.
Take ==
  /\ ~ done /\ x \in eligible
  /\ taken' = {x}
  /\ done' = TRUE
  /\ UNCHANGED <<n, start, eligible, x>>

\* Mutant of Following: the scan wraps one port early.
FollowingWrapsEarly(y) == IF y + 2 >= n THEN 0 ELSE y + 1

Following(y) == (y + 1) % n

\* It moves on, and gives up when it is back where it started.
Advance ==
  /\ ~ done /\ x \notin eligible
  /\ x' = Following(x)
  /\ done' = (x' = start)
  /\ UNCHANGED <<n, start, eligible, taken>>

Next == Take \/ Advance

\* The scan takes the eligible port FirstFrom names, and none only if no port
\* is eligible.
TakesFirst ==
  done => taken = IF eligible = {} THEN {} ELSE {FirstFrom(start, n, eligible)}
=============================================================================
