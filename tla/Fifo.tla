-------------------------------- MODULE Fifo --------------------------------
(***************************************************************************)
(* modules/islip/fifo.cpp: the input-queued switch the VOQ schedulers are  *)
(* compared with.  An input has one queue, whose head alone competes for   *)
(* an output; m_grants keeps the served pairs until the next slot.         *)
(*                                                                         *)
(* A queue holds the output indices request() was given, which it does not *)
(* check: a cell for an output that does not exist is queued like any      *)
(* other and blocks its input for ever.                                    *)
(***************************************************************************)
EXTENDS RoundRobin, FiniteSets, Sequences, SequencesExt

CONSTANTS InputNum, OutputNum,
          MaxCells   \* bound on the cells the environment queues at an input

Inputs  == 0 .. InputNum - 1
Outputs == 0 .. OutputNum - 1

VARIABLES m_fifos, m_g_ptr, m_grants, pc

vars == <<m_fifos, m_g_ptr, m_grants, pc>>

Init ==
  /\ m_fifos = [i \in Inputs |-> <<>>]
  /\ m_g_ptr = [o \in Outputs |-> 0]
  /\ m_grants = {}
  /\ pc = "idle"

\* A cell for input i; a cell for an input that does not exist is dropped.
request(i, o) ==
  /\ pc = "idle"
  /\ m_fifos' = IF i \in Inputs THEN [m_fifos EXCEPT ![i] = Append(@, o)]
                                ELSE m_fifos
  /\ UNCHANGED <<m_g_ptr, m_grants, pc>>

\* The pointers index inputs but are set modulo m_output_num: with more
\* outputs than inputs the next scan would read past the queues, so the
\* environment calls it only when they are not.
init_priority_ptr ==
  /\ pc = "idle"
  /\ OutputNum <= InputNum
  /\ m_g_ptr' = [o \in Outputs |-> (o + 1) % OutputNum]
  /\ UNCHANGED <<m_fifos, m_grants, pc>>

\* reset()
arbitration ==
  /\ pc = "idle"
  /\ m_grants' = {}
  /\ pc' = "grant"
  /\ UNCHANGED <<m_fifos, m_g_ptr>>

\* The inputs whose head is for output o.
Requests(o) == {i \in Inputs : m_fifos[i] # <<>> /\ Head(m_fifos[i]) = o}

do_grant ==
  /\ pc = "grant"
  /\ m_grants' = {<<FirstFrom(m_g_ptr[o], InputNum, Requests(o)), o>> :
                    o \in {out \in Outputs : Requests(out) # {}}}
  /\ pc' = "update"
  /\ UNCHANGED <<m_fifos, m_g_ptr>>

\* Mutant of MovePointer: the pointer stays on the served input.
PointerOn(i) == i

MovePointer(i) == (i + 1) % InputNum

\* update_pointers(): the head of every granted input leaves its queue.
update_pointers ==
  /\ pc = "update"
  /\ m_fifos' = [i \in Inputs |-> IF \E o \in Outputs : <<i, o>> \in m_grants
                                  THEN Tail(m_fifos[i]) ELSE m_fifos[i]]
  /\ m_g_ptr' = [o \in Outputs |-> IF \E i \in Inputs : <<i, o>> \in m_grants
                 THEN MovePointer(CHOOSE i \in Inputs : <<i, o>> \in m_grants)
                 ELSE m_g_ptr[o]]
  /\ pc' = "idle"
  /\ UNCHANGED m_grants

Slot == arbitration \/ do_grant \/ update_pointers

\* MaxCells bounds the environment; the code has no limit.
Next ==
  \/ \E i \in -1 .. InputNum, o \in 0 .. OutputNum :
       /\ i \in Inputs => Len(m_fifos[i]) < MaxCells
       /\ request(i, o)
  \/ init_priority_ptr
  \/ Slot

Spec == Init /\ [][Next]_vars

-----------------------------------------------------------------------------

\* The pointers index an input and the queues hold what request() was given.
TypeOK ==
  /\ m_fifos \in [Inputs -> Seq(0 .. OutputNum)]
  /\ m_g_ptr \in [Outputs -> Inputs]
  /\ m_grants \in SUBSET (Inputs \X Outputs)
  /\ pc \in {"idle", "grant", "update"}

\* The number of cells that wait for a pair of ports, and the pairs served in the
\* slot.
Cells == [i \in Inputs |-> [o \in Outputs |->
            Cardinality({k \in DOMAIN m_fifos[i] : m_fifos[i][k] = o})]]
Served == IF pc = "idle" THEN m_grants ELSE {}

Abstract == INSTANCE Crossbar WITH VoqSize <- MaxCells, voq <- Cells, sent <- Served
=============================================================================
