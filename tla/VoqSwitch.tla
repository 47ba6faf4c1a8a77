----------------------------- MODULE VoqSwitch ------------------------------
(***************************************************************************)
(* The state the VOQ schedulers of modules/islip share (islip_basic, rrm,  *)
(* pim, islip_threshold and islip_wrr declare the same members) and the    *)
(* member functions that are the same code in each of them.                *)
(*                                                                         *)
(* A matrix of 0/1 flags is the set of pairs <<input, output>> whose flag  *)
(* is 1.  arbitration() runs to completion between two calls of request(), *)
(* so pc only separates its phases:                                        *)
(*   idle   no call in progress                                            *)
(*   grant  at the loop test, before do_grant()                            *)
(*   accept before do_accept()                                             *)
(*   update before update_pointers() and reset_iteration()                 *)
(***************************************************************************)
EXTENDS Integers, FiniteSets

CONSTANTS InputNum,    \* m_input_num
          OutputNum,   \* m_output_num
          Iterations,  \* m_iterations
          VoqSize      \* m_voq_size

ASSUME SwitchAssumption ==
  /\ InputNum \in Nat \ {0}
  /\ OutputNum \in Nat \ {0}
  /\ Iterations \in Nat
  /\ VoqSize \in Nat \ {0}

Inputs  == 0 .. InputNum - 1
Outputs == 0 .. OutputNum - 1
Pairs   == Inputs \X Outputs

VARIABLES m_voq, m_grants, m_accepts, m_input_occupied, m_output_occupied,
          m_iter_cnt, sch_result, pc

slotVars == <<m_input_occupied, m_output_occupied, m_iter_cnt, sch_result>>
svars == <<m_voq, m_grants, m_accepts, slotVars, pc>>

-----------------------------------------------------------------------------

\* The constructor: zeroed matrices, empty queues.
SwitchInit ==
  /\ m_voq = [i \in Inputs |-> [o \in Outputs |-> 0]]
  /\ m_grants = {} /\ m_accepts = {}
  /\ m_input_occupied = {} /\ m_output_occupied = {}
  /\ m_iter_cnt = 0 /\ sch_result = {}
  /\ pc = "idle"

\* The arguments request() is called with, some of them out of range.
RequestArgs == (-1 .. InputNum) \X (-1 .. OutputNum)

HasRoom(i, o) == m_voq[i][o] < VoqSize

\* request(): a cell with an index out of range, or for a full queue, is
\* dropped.
Arrive(i, o) ==
  /\ pc = "idle"
  /\ m_voq' = IF i \in Inputs /\ o \in Outputs /\ HasRoom(i, o)
              THEN [m_voq EXCEPT ![i][o] = @ + 1]
              ELSE m_voq
  /\ UNCHANGED <<m_grants, m_accepts, slotVars, pc>>

\* arbitration() starts with reset_arbiter(): every port is free and the
\* results of the last slot go.
StartSlot ==
  /\ pc = "idle"
  /\ m_iter_cnt' = 0
  /\ sch_result' = {}
  /\ m_input_occupied' = {} /\ m_output_occupied' = {}
  /\ m_grants' = {} /\ m_accepts' = {}
  /\ pc' = "grant"
  /\ UNCHANGED m_voq

\* An unmatched input with a cell for an unmatched output.
Open(p) ==
  /\ p[1] \in Inputs \ m_input_occupied
  /\ p[2] \in Outputs \ m_output_occupied
  /\ m_voq[p[1]][p[2]] > 0

\* The inputs output o may grant, and the outputs that may grant at all.
GrantCandidates(o) == {i \in Inputs : Open(<<i, o>>)}
GrantingOutputs == {o \in Outputs : GrantCandidates(o) # {}}

\* do_grant(): output o of GrantingOutputs grants input pick[o].
Grant(pick) ==
  /\ pc = "grant" /\ m_iter_cnt < Iterations
  /\ m_grants' = m_grants \cup {<<pick[o], o>> : o \in GrantingOutputs}
  /\ pc' = "accept"
  /\ UNCHANGED <<m_voq, m_accepts, slotVars>>

\* Mutant of AcceptCandidates: the scan of the outputs misses the first one.
AcceptCandidatesFromOne(i) ==
  {o \in Outputs \ m_output_occupied : o > 0 /\ <<i, o>> \in m_grants}

\* The outputs input i may accept, and the inputs that accept at all.
AcceptCandidates(i) == {o \in Outputs \ m_output_occupied : <<i, o>> \in m_grants}
AcceptingInputs == {i \in Inputs \ m_input_occupied : AcceptCandidates(i) # {}}

\* do_accept(): input i of AcceptingInputs accepts output pick[i].
Accept(pick) ==
  /\ pc = "accept"
  /\ m_accepts' = m_accepts \cup {<<i, pick[i]>> : i \in AcceptingInputs}
  /\ pc' = "update"
  /\ UNCHANGED <<m_voq, m_grants, slotVars>>

\* The pairs update_pointers() acts on.  Accepted pairs share no port
\* (AcceptsMatch), so the order of its two loops makes no difference.
Matched ==
  {p \in m_accepts : p[1] \notin m_input_occupied /\ p[2] \notin m_output_occupied}

\* Mutant of OccupyPorts: m_output_occupied is not set.
OccupyInputsOnly ==
  /\ m_input_occupied' = m_input_occupied \cup {p[1] : p \in Matched}
  /\ UNCHANGED m_output_occupied

\* The matched ports take no part in the later iterations of the slot.
OccupyPorts ==
  /\ m_input_occupied' = m_input_occupied \cup {p[1] : p \in Matched}
  /\ m_output_occupied' = m_output_occupied \cup {p[2] : p \in Matched}

\* One cell of every matched pair crosses.
TakeCells ==
  m_voq' = [i \in Inputs |-> [o \in Outputs |->
              IF <<i, o>> \in Matched THEN m_voq[i][o] - 1 ELSE m_voq[i][o]]]

\* update_pointers() without the pointers, then reset_iteration() and the
\* loop's m_iter_cnt++.
Serve ==
  /\ pc = "update"
  /\ OccupyPorts
  /\ TakeCells
  /\ sch_result' = sch_result \cup Matched
  /\ m_grants' = {} /\ m_accepts' = {}
  /\ m_iter_cnt' = m_iter_cnt + 1
  /\ pc' = "grant"

\* The loop of arbitration() ends and control returns to the caller.
SlotEnds ==
  /\ pc = "grant" /\ m_iter_cnt >= Iterations
  /\ pc' = "idle"
  /\ UNCHANGED <<m_voq, m_grants, m_accepts, slotVars>>

-----------------------------------------------------------------------------
(* What is expected of the schedulers.                                     *)

\* Every variable holds a value the code can represent: no queue is negative
\* or longer than m_voq_size.
SwitchTypeOK ==
  /\ m_voq \in [Inputs -> [Outputs -> 0 .. VoqSize]]
  /\ m_grants \in SUBSET Pairs
  /\ m_accepts \in SUBSET Pairs
  /\ m_input_occupied \in SUBSET Inputs
  /\ m_output_occupied \in SUBSET Outputs
  /\ m_iter_cnt \in 0 .. Iterations
  /\ sch_result \in SUBSET Pairs
  /\ pc \in {"idle", "grant", "accept", "update"}

Abstract == INSTANCE Crossbar WITH voq <- m_voq, sent <- sch_result

IsMatching(M) == Abstract!IsMatching(M)

\* Grants name only free ports with a waiting cell, and one input per output.
GrantsSound ==
  /\ \A p \in m_grants : Open(p)
  /\ \A p, q \in m_grants : p[2] = q[2] => p = q

\* Accepts answer grants and share no port, so that update_pointers() may
\* serve all of them in any order.
AcceptsMatch ==
  /\ m_accepts \subseteq m_grants
  /\ IsMatching(m_accepts)

\* The occupied flags are exactly the ports of the reported pairs, and these
\* are a matching: no port is used twice in a slot.
ResultSound ==
  /\ IsMatching(sch_result)
  /\ m_input_occupied = {p[1] : p \in sch_result}
  /\ m_output_occupied = {p[2] : p \in sch_result}

\* m_grants and m_accepts are live only inside an iteration, in the phases
\* after the one that fills them, and no iteration exceeds m_iterations.
PhaseSound ==
  /\ pc \in {"idle", "grant"} => m_grants = {}
  /\ pc \in {"idle", "grant", "accept"} => m_accepts = {}
  /\ pc \in {"accept", "update"} => m_iter_cnt < Iterations

\* What makes a slot correct: within an iteration grants and accepts name
\* only pairs that can be served, and the pairs served so far use no input
\* and no output twice.
SlotInv == GrantsSound /\ AcceptsMatch /\ ResultSound /\ PhaseSound

\* After k iterations of a slot there are k matched pairs, or no open pair is
\* left: an iteration never passes without a match while one is possible, so
\* min(m_input_num, m_output_num) iterations reach a maximal matching.
IterationProgress ==
  pc = "grant" => \/ Cardinality(sch_result) >= m_iter_cnt
                  \/ \A p \in Pairs : ~ Open(p)

\* A waiting cell is not passed over for ever: its queue is served eventually,
\* whatever arrives at the other queues.
NoStarvation ==
  \A i \in Inputs, o \in Outputs :
    m_voq[i][o] > 0 ~> <<i, o>> \in sch_result

\* The scheduler implements the crossbar: in a slot it sends only cells that
\* are queued and uses no port twice, and it neither loses nor invents cells.
ImplementsCrossbar == Abstract!Spec
=============================================================================
