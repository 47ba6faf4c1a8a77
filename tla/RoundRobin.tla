----------------------------- MODULE RoundRobin -----------------------------
(***************************************************************************)
(* The cyclic scan every scheduler of modules/islip performs:              *)
(*                                                                         *)
(*     x = start;                                                          *)
(*     do { if (eligible(x)) { take x; break; }  x = (x + 1) % n; }        *)
(*     while (x != start);                                                 *)
(*                                                                         *)
(* The scan takes the eligible port at the least cyclic distance from      *)
(* start.  Module ScanLoop runs the loop itself step by step and checks    *)
(* that it computes FirstFrom.                                             *)
(***************************************************************************)
EXTENDS Integers

\* How many times x = (x + 1) % n is executed before the scan reaches x.
Dist(start, x, n) == (x + n - start) % n

\* The element of the nonempty set S of ports that the scan takes.
FirstFrom(start, n, S) ==
  CHOOSE x \in S : \A y \in S : Dist(start, x, n) <= Dist(start, y, n)
=============================================================================
