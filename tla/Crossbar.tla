------------------------------ MODULE Crossbar ------------------------------
(***************************************************************************)
(* What every scheduler of modules/islip promises its caller, whatever the *)
(* order in which it looks at the ports: a crossbar with virtual output    *)
(* queues in which, in one slot, cells are sent only from queues that hold *)
(* one and no input and no output is used twice.                           *)
(*                                                                         *)
(* voq[i][o] counts the cells waiting at input i for output o; sent is the *)
(* set of pairs <<i, o>> served so far in the current slot.                *)
(***************************************************************************)
EXTENDS Integers

CONSTANTS Inputs, Outputs, VoqSize

VARIABLES voq, sent
vars == <<voq, sent>>

\* No two pairs of M share an input or an output.
IsMatching(M) ==
  \A p, q \in M : p # q => p[1] # q[1] /\ p[2] # q[2]

Init ==
  /\ voq = [i \in Inputs |-> [o \in Outputs |-> 0]]
  /\ sent = {}

\* A cell arrives at a queue that has room.
Enqueue(i, o) ==
  /\ voq[i][o] < VoqSize
  /\ voq' = [voq EXCEPT ![i][o] = @ + 1]
  /\ UNCHANGED sent

\* A new slot starts: every port is free again.
StartSlot ==
  /\ sent' = {}
  /\ UNCHANGED voq

\* The cells of a set M of pairs of free ports cross together.
Dispatch(M) ==
  /\ \A p \in M : voq[p[1]][p[2]] > 0
  /\ sent' = sent \cup M
  /\ sent \cap M = {}
  /\ IsMatching(sent')
  /\ voq' = [i \in Inputs |-> [o \in Outputs |->
               IF <<i, o>> \in M THEN voq[i][o] - 1 ELSE voq[i][o]]]

Next ==
  \/ \E i \in Inputs, o \in Outputs : Enqueue(i, o)
  \/ StartSlot
  \/ \E M \in SUBSET (Inputs \X Outputs) : Dispatch(M)

Spec == Init /\ [][Next]_vars
=============================================================================
