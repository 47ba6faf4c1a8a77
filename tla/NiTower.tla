-------------------------------- MODULE NiTower ------------------------------
(***************************************************************************)
(* ni-tower_test.cpp: A sends B a word in every clock cycle for which it   *)
(* has a credit.  B takes a word off its queue in every second cycle in    *)
(* which the queue is not empty, and then gives A a credit back.  The two  *)
(* methods run in either order, and the calls they make take effect in the *)
(* middle of a cycle.                                                      *)
(***************************************************************************)
EXTENDS Naturals

CONSTANT Credits   \* of A at the start (4)

VARIABLES m_credits,
          m_data_queue,   \* number of words in the queue
          m_delay_cnt,
          ran,            \* modules whose method has run in this clock cycle
          idle            \* history: cycles in a row without a credit, up to 3

vars == <<m_credits, m_data_queue, m_delay_cnt, ran, idle>>

Init ==
  /\ m_credits = Credits
  /\ m_data_queue = 0 /\ m_delay_cnt = 0
  /\ ran = {"A", "B"} /\ idle = 0

posedge ==
  /\ ran = {"A", "B"} /\ ran' = {}
  /\ UNCHANGED <<m_credits, m_data_queue, m_delay_cnt, idle>>

\* A::process() and B's rcv_data_from().
A_process ==
  /\ "A" \notin ran /\ ran' = ran \cup {"A"}
  /\ IF m_credits > 0
     THEN /\ m_credits' = m_credits - 1
          /\ m_data_queue' = m_data_queue + 1
          /\ idle' = 0
     ELSE /\ idle' = IF idle = 3 THEN 3 ELSE idle + 1
          /\ UNCHANGED <<m_credits, m_data_queue>>
  /\ UNCHANGED m_delay_cnt

Pops == m_data_queue > 0 /\ m_delay_cnt = 1

\* B::process() and A's rcv_ctrl_from().
B_process ==
  /\ "B" \notin ran /\ ran' = ran \cup {"B"}
  /\ IF Pops
     THEN /\ m_data_queue' = m_data_queue - 1
          /\ m_credits' = m_credits + 1
          /\ m_delay_cnt' = 0
     ELSE /\ m_delay_cnt' = IF m_data_queue > 0 THEN m_delay_cnt + 1 ELSE m_delay_cnt
          /\ UNCHANGED <<m_data_queue, m_credits>>
  /\ UNCHANGED idle

Next == posedge \/ A_process \/ B_process

Spec == Init /\ [][Next]_vars

-----------------------------------------------------------------------------

TypeOK ==
  /\ m_credits \in Nat /\ m_data_queue \in Nat
  /\ m_delay_cnt \in 0 .. 1 /\ ran \subseteq {"A", "B"} /\ idle \in 0 .. 3

\* Every credit is with A or stands for a word in the queue, which therefore
\* never holds more words than there are credits.
CreditsConserved == m_credits + m_data_queue = Credits

\* B sets the pace, and A keeps it: A waits for at most two cycles on end.
NeverStalls == idle <= 2
=============================================================================
