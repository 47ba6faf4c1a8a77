---------------------------- MODULE BooksimIslip ----------------------------
(***************************************************************************)
(* modules/islip/booksim_islip.cpp: iSLIP as in the BookSim simulator.  The *)
(* caller announces which queues are not empty (set_ql), lets the          *)
(* scheduler run (islip_sch) and clears everything but the pointers (init).*)
(* Unlike the other schedulers it resets neither requests nor grants nor   *)
(* accepts between iterations: those of earlier iterations stay set.       *)
(***************************************************************************)
EXTENDS RoundRobin, FiniteSets

CONSTANTS NumPort,      \* m_num_port
          Iterations,   \* m_iterations
          MaxMatch      \* m_max_match

Ports == 0 .. NumPort - 1
Pairs == Ports \X Ports

VARIABLES m_ql, m_request, m_grant, m_accept, m_gi, m_ai,
          m_input_occupied, m_output_occupied, m_iter_cnt, sch_result, pc

flags == <<m_request, m_grant, m_accept>>
pointers == <<m_gi, m_ai>>
matched == <<m_input_occupied, m_output_occupied, sch_result>>
vars == <<m_ql, flags, pointers, matched, m_iter_cnt, pc>>

NoPointers == [k \in Ports |-> 0]

Cleared ==
  /\ m_request' = {} /\ m_grant' = {} /\ m_accept' = {}
  /\ m_input_occupied' = {} /\ m_output_occupied' = {} /\ sch_result' = {}

Init ==
  /\ m_ql = {} /\ m_request = {} /\ m_grant = {} /\ m_accept = {}
  /\ m_input_occupied = {} /\ m_output_occupied = {} /\ sch_result = {}
  /\ m_gi = NoPointers /\ m_ai = NoPointers
  /\ m_iter_cnt = 0
  /\ pc = "idle"

init ==
  /\ pc = "idle"
  /\ m_ql' = {} /\ Cleared
  /\ UNCHANGED <<pointers, m_iter_cnt, pc>>

init_priority_ptr ==
  /\ pc = "idle"
  /\ m_gi' = NoPointers /\ m_ai' = NoPointers
  /\ UNCHANGED <<m_ql, flags, matched, m_iter_cnt, pc>>

set_ql(i, j) ==
  /\ pc = "idle"
  /\ m_ql' = m_ql \cup {<<i, j>>}
  /\ UNCHANGED <<flags, pointers, matched, m_iter_cnt, pc>>

islip_sch ==
  /\ pc = "idle"
  /\ m_iter_cnt' = 0
  /\ pc' = "send_request"
  /\ UNCHANGED <<m_ql, flags, pointers, matched>>

send_request ==
  /\ pc = "send_request" /\ m_iter_cnt < Iterations
  /\ m_request' = m_request \cup m_ql
  /\ pc' = "do_grant"
  /\ UNCHANGED <<m_ql, m_grant, m_accept, pointers, matched, m_iter_cnt>>

FreeInputs  == Ports \ m_input_occupied
FreeOutputs == Ports \ m_output_occupied

Requests(j) == {i \in FreeInputs : <<i, j>> \in m_request}

\* With m_max_match a search ends at the first port that found a partner.
Heard(S) == IF MaxMatch THEN {k \in S : \A l \in S : k <= l} ELSE S

do_grant ==
  /\ pc = "do_grant"
  /\ m_grant' = m_grant \cup
       {<<FirstFrom(m_gi[j], NumPort, Requests(j)), j>> :
          j \in Heard({out \in FreeOutputs : Requests(out) # {}})}
  /\ pc' = "do_accept"
  /\ UNCHANGED <<m_ql, m_request, m_accept, pointers, matched, m_iter_cnt>>

Grants(i) == {j \in FreeOutputs : <<i, j>> \in m_grant}

do_accept ==
  /\ pc = "do_accept"
  /\ m_accept' = m_accept \cup
       {<<i, FirstFrom(m_ai[i], NumPort, Grants(i))>> :
          i \in Heard({in \in FreeInputs : Grants(in) # {}})}
  /\ pc' = "update_priority_ptr"
  /\ UNCHANGED <<m_ql, m_request, m_grant, pointers, matched, m_iter_cnt>>

\* The accepts that are acted on.  They share no port (FreshMatch), so the
\* order of the loops makes no difference.
Fresh == {q \in m_accept : q[1] \in FreeInputs /\ q[2] \in FreeOutputs}

PointersPast ==
  /\ m_gi' = [j \in Ports |-> IF \E i \in Ports : <<i, j>> \in Fresh
                THEN ((CHOOSE i \in Ports : <<i, j>> \in Fresh) + 1) % NumPort
                ELSE m_gi[j]]
  /\ m_ai' = [i \in Ports |-> IF \E j \in Ports : <<i, j>> \in Fresh
                THEN ((CHOOSE j \in Ports : <<i, j>> \in Fresh) + 1) % NumPort
                ELSE m_ai[i]]

\* Mutant of Occupy: the matched outputs are not marked.
OccupyInputsOnly ==
  /\ m_input_occupied' = m_input_occupied \cup {q[1] : q \in Fresh}
  /\ UNCHANGED m_output_occupied

Occupy ==
  /\ m_input_occupied' = m_input_occupied \cup {q[1] : q \in Fresh}
  /\ m_output_occupied' = m_output_occupied \cup {q[2] : q \in Fresh}

\* Pointers move in the first iteration only; then the loop's m_iter_cnt++.
update_priority_ptr ==
  /\ pc = "update_priority_ptr"
  /\ IF m_iter_cnt = 0 THEN PointersPast ELSE UNCHANGED pointers
  /\ Occupy
  /\ sch_result' = sch_result \cup Fresh
  /\ m_iter_cnt' = m_iter_cnt + 1
  /\ pc' = "send_request"
  /\ UNCHANGED <<m_ql, flags>>

Return ==
  /\ pc = "send_request" /\ m_iter_cnt >= Iterations
  /\ pc' = "idle"
  /\ UNCHANGED <<m_ql, flags, pointers, matched, m_iter_cnt>>

Iteration == send_request \/ do_grant \/ do_accept \/ update_priority_ptr \/ Return

Next ==
  \/ init
  \/ init_priority_ptr
  \/ \E i, j \in Ports : set_ql(i, j)
  \/ islip_sch
  \/ Iteration

Spec == Init /\ [][Next]_vars

\* The caller of TEST_starvation (test.cpp:342-359): every slot it clears the
\* scheduler and announces the same queues again.
Reannounce ==
  /\ pc = "idle"
  /\ Cleared
  /\ m_iter_cnt' = 0
  /\ pc' = "send_request"
  /\ UNCHANGED <<m_ql, pointers>>

SteadyInit ==
  /\ m_ql \in SUBSET Pairs
  /\ m_request = {} /\ m_grant = {} /\ m_accept = {}
  /\ m_input_occupied = {} /\ m_output_occupied = {} /\ sch_result = {}
  /\ m_gi = NoPointers /\ m_ai = NoPointers
  /\ m_iter_cnt = 0
  /\ pc = "idle"

SteadyNext == Reannounce \/ Iteration

-----------------------------------------------------------------------------

\* Flags and pointers index ports; the iterations are counted up to
\* m_iterations.
TypeOK ==
  /\ m_ql \subseteq Pairs /\ m_request \subseteq Pairs
  /\ m_grant \subseteq m_request /\ m_accept \subseteq m_grant
  /\ m_gi \in [Ports -> Ports] /\ m_ai \in [Ports -> Ports]
  /\ m_iter_cnt \in 0 .. Iterations
  /\ sch_result \subseteq m_accept

IsMatching(M) == \A p, q \in M : p # q => p[1] # q[1] /\ p[2] # q[2]

\* Although grants and accepts of earlier iterations are never withdrawn, the
\* new accepts share no port, no free output has granted two free inputs, and
\* the reported pairs are a matching of exactly the occupied ports.
StaleGrantsHarmless ==
  /\ IsMatching(Fresh)
  /\ \A p, q \in m_grant :
       /\ p[1] \in FreeInputs /\ q[1] \in FreeInputs
       /\ p[2] = q[2] /\ p[2] \in FreeOutputs
       => p = q
  /\ IsMatching(sch_result)
  /\ m_input_occupied = {q[1] : q \in sch_result}
  /\ m_output_occupied = {q[2] : q \in sch_result}

\* An iteration adds a match unless none is possible, also with m_max_match,
\* which adds exactly one: m_num_port iterations reach a maximal matching.
IterationProgress ==
  pc = "send_request" =>
    \/ Cardinality(sch_result) >= m_iter_cnt
    \/ \A q \in m_ql : q[1] \in m_input_occupied \/ q[2] \in m_output_occupied
=============================================================================
