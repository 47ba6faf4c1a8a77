------------------------------- MODULE IslipSp ------------------------------
(***************************************************************************)
(* modules/islip/islip_sp.cpp: iSLIP with strict priorities.  Every pair   *)
(* of ports has one queue per priority (0 is the highest); an output       *)
(* grants the pair with the highest priority, an input accepts by its      *)
(* pointer alone, and the pair loses a cell of its highest priority.       *)
(* The phases and the sets of pairs are those of module VoqSwitch.         *)
(***************************************************************************)
EXTENDS RoundRobin, FiniteSets, FiniteSetsExt

CONSTANTS InputNum, OutputNum, Iterations, VoqSize,
          Levels   \* m_priority_levels

Inputs  == 0 .. InputNum - 1
Outputs == 0 .. OutputNum - 1
Prios   == 0 .. Levels - 1

VARIABLES m_voq,       \* m_voq[i][o][p]
          m_g_ptr, m_a_ptr, m_grants, m_accepts, m_input_occupied,
          m_output_occupied, m_iter_cnt,
          sch_result,  \* the set of <<input, output, priority>>
          pc

pvars == <<m_g_ptr, m_a_ptr>>
slotVars == <<m_input_occupied, m_output_occupied, m_iter_cnt, sch_result>>
vars == <<m_voq, pvars, m_grants, m_accepts, slotVars, pc>>

Init ==
  /\ m_voq = [i \in Inputs |-> [o \in Outputs |-> [p \in Prios |-> 0]]]
  /\ m_g_ptr = [o \in Outputs |-> 0]
  /\ m_a_ptr = [i \in Inputs |-> 0]
  /\ m_grants = {} /\ m_accepts = {}
  /\ m_input_occupied = {} /\ m_output_occupied = {}
  /\ m_iter_cnt = 0 /\ sch_result = {}
  /\ pc = "idle"

HasRoom(i, o, p) == m_voq[i][o][p] < VoqSize

\* A cell out of range, or for a full queue, is dropped.
request(i, o, p) ==
  /\ pc = "idle"
  /\ m_voq' = IF /\ i \in Inputs /\ o \in Outputs /\ p < Levels
                 /\ HasRoom(i, o, p)
              THEN [m_voq EXCEPT ![i][o][p] = @ + 1]
              ELSE m_voq
  /\ UNCHANGED <<pvars, m_grants, m_accepts, slotVars, pc>>

\* reset_arbiter()
arbitration ==
  /\ pc = "idle"
  /\ m_iter_cnt' = 0 /\ sch_result' = {}
  /\ m_input_occupied' = {} /\ m_output_occupied' = {}
  /\ m_grants' = {} /\ m_accepts' = {}
  /\ pc' = "grant"
  /\ UNCHANGED <<m_voq, pvars>>

\* The unmatched inputs with a cell of priority p for output o.
Waiting(o, p) == {i \in Inputs \ m_input_occupied : m_voq[i][o][p] > 0}

\* Mutant of GrantPrio: the search ends at the lowest priority.
GrantPrioLowest(o) == Max({p \in Prios : Waiting(o, p) # {}})

\* The priority at which the search of output o ends.
GrantPrio(o) == Min({p \in Prios : Waiting(o, p) # {}})

GrantingOutputs ==
  {o \in Outputs \ m_output_occupied : \E p \in Prios : Waiting(o, p) # {}}

do_grant ==
  /\ pc = "grant" /\ m_iter_cnt < Iterations
  /\ m_grants' = m_grants \cup
       {<<FirstFrom(m_g_ptr[o], InputNum, Waiting(o, GrantPrio(o))), o>> :
          o \in GrantingOutputs}
  /\ pc' = "accept"
  /\ UNCHANGED <<m_voq, pvars, m_accepts, slotVars>>

AcceptCandidates(i) == {o \in Outputs \ m_output_occupied : <<i, o>> \in m_grants}

do_accept ==
  /\ pc = "accept"
  /\ m_accepts' = m_accepts \cup
       {<<i, FirstFrom(m_a_ptr[i], OutputNum, AcceptCandidates(i))>> :
          i \in {in \in Inputs \ m_input_occupied : AcceptCandidates(in) # {}}}
  /\ pc' = "update"
  /\ UNCHANGED <<m_voq, pvars, m_grants, slotVars>>

\* Accepted pairs share no port, as in module VoqSwitch.
Matched ==
  {q \in m_accepts : q[1] \notin m_input_occupied /\ q[2] \notin m_output_occupied}

\* The priority of the cell the pair <<i, o>> loses.
Selected(i, o) == Min({p \in Prios : m_voq[i][o][p] > 0})

\* Mutant of TakeCells: the cell that crosses stays in its queue.
TakeNoCells == UNCHANGED m_voq

TakeCells ==
  m_voq' = [i \in Inputs |-> [o \in Outputs |-> [p \in Prios |->
              IF <<i, o>> \in Matched /\ p = Selected(i, o)
              THEN m_voq[i][o][p] - 1 ELSE m_voq[i][o][p]]]]

\* Pointers move past the matched pairs in the first iteration only.
MovePointers ==
  IF m_iter_cnt = 0
  THEN /\ m_g_ptr' = [o \in Outputs |->
            IF \E i \in Inputs : <<i, o>> \in Matched
            THEN ((CHOOSE i \in Inputs : <<i, o>> \in Matched) + 1) % InputNum
            ELSE m_g_ptr[o]]
       /\ m_a_ptr' = [i \in Inputs |->
            IF \E o \in Outputs : <<i, o>> \in Matched
            THEN ((CHOOSE o \in Outputs : <<i, o>> \in Matched) + 1) % OutputNum
            ELSE m_a_ptr[i]]
  ELSE UNCHANGED pvars

\* update_pointers(), reset_iteration() and the loop's m_iter_cnt++.
update_pointers ==
  /\ pc = "update"
  /\ m_input_occupied' = m_input_occupied \cup {q[1] : q \in Matched}
  /\ m_output_occupied' = m_output_occupied \cup {q[2] : q \in Matched}
  /\ TakeCells
  /\ MovePointers
  /\ sch_result' = sch_result \cup {<<q[1], q[2], Selected(q[1], q[2])>> : q \in Matched}
  /\ m_grants' = {} /\ m_accepts' = {}
  /\ m_iter_cnt' = m_iter_cnt + 1
  /\ pc' = "grant"

SlotEnds ==
  /\ pc = "grant" /\ m_iter_cnt >= Iterations
  /\ pc' = "idle"
  /\ UNCHANGED <<m_voq, pvars, m_grants, m_accepts, slotVars>>

\* request() is not called with a negative priority, which it does not reject.
Next ==
  \/ \E i \in -1 .. InputNum, o \in -1 .. OutputNum, p \in 0 .. Levels : request(i, o, p)
  \/ arbitration
  \/ do_grant
  \/ do_accept
  \/ update_pointers
  \/ SlotEnds

Spec == Init /\ [][Next]_vars

-----------------------------------------------------------------------------

\* The queues never go below zero or beyond m_voq_size, the pointers index a
\* port.
TypeOK ==
  /\ m_voq \in [Inputs -> [Outputs -> [Prios -> 0 .. VoqSize]]]
  /\ m_g_ptr \in [Outputs -> Inputs]
  /\ m_a_ptr \in [Inputs -> Outputs]
  /\ m_grants \in SUBSET (Inputs \X Outputs)
  /\ m_accepts \in SUBSET m_grants
  /\ m_input_occupied \in SUBSET Inputs
  /\ m_output_occupied \in SUBSET Outputs
  /\ m_iter_cnt \in 0 .. Iterations
  /\ sch_result \in SUBSET (Inputs \X Outputs \X Prios)
  /\ pc \in {"idle", "grant", "accept", "update"}

\* No output serves a cell while an input that is left unmatched, or the served
\* input itself, holds a cell of higher priority for it, although an input
\* accepts without looking at priorities and later iterations fill the gaps.
StrictPriority ==
  pc = "grant" =>
    \A t \in sch_result, i \in Inputs, p \in Prios :
      p < t[3] /\ (i \in m_input_occupied => i = t[1]) => m_voq[i][t[2]][p] = 0

\* The number of cells that wait for a pair of ports, whatever their priorities,
\* and the pairs served in the slot.
Cells == [i \in Inputs |-> [o \in Outputs |->
            Cardinality({c \in Prios \X (1 .. VoqSize) : c[2] <= m_voq[i][o][c[1]]})]]
Served == {<<t[1], t[2]>> : t \in sch_result}

\* With the priorities of a pair of ports counted together, the scheduler
\* makes choices pim may make.
Matcher == INSTANCE Pim WITH
  VoqSize <- VoqSize * Levels,
  m_voq <- Cells,
  sch_result <- Served
=============================================================================
