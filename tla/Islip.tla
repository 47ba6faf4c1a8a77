-------------------------------- MODULE Islip -------------------------------
(***************************************************************************)
(* modules/islip/islip.cpp: a scheduler with strict priorities and speedup *)
(* (a port may be matched m_speedup times in a slot), which runs either as *)
(* iSLIP or as RRM.  Priorities are scheduled one after the other, each    *)
(* with its own pointers and its own iterations.  The scheduler works on   *)
(* m_shadow_ql, a copy of the queue lengths; m_ql itself only changes when *)
(* the caller announces cells (set_ql) or clears them (init).              *)
(*                                                                         *)
(* A matrix of flags is the set of the pairs whose flag is set.  pc names  *)
(* the function islip_sch() calls next.                                    *)
(***************************************************************************)
EXTENDS RoundRobin, FiniteSets, FiniteSetsExt, Functions

CONSTANTS NumPort,     \* m_num_port
          NumPrio,     \* m_num_prio
          IterArgs, SpeedupArgs, ModeArgs,  \* arguments of islip_sch()
          MaxCells     \* bound on the cells announced between two init()

ASSUME IslipAssumption ==
  /\ NumPort \in Nat \ {0} /\ NumPrio \in Nat \ {0} /\ MaxCells \in Nat
  /\ IterArgs \subseteq Nat \ {0} /\ SpeedupArgs \subseteq Nat
  /\ ModeArgs \subseteq BOOLEAN

Ports == 0 .. NumPort - 1
Prios == 0 .. NumPrio - 1
Pairs == Ports \X Ports

VARIABLES m_ql, m_shadow_ql,   \* [i][j][p]
          m_gi, m_ai,          \* [p][port]
          m_request, m_grant, m_accept,
          m_input_match_count, m_output_match_count,
          sch_result,          \* how often each pair is in sch_result
          m_current_iter, prio,
          call,                \* the arguments of the call in progress
          pc

pointers == <<m_gi, m_ai>>
counts == <<m_input_match_count, m_output_match_count>>
loop == <<m_current_iter, prio, call>>
vars == <<m_ql, m_shadow_ql, pointers, m_request, m_grant, m_accept, counts,
          sch_result, loop, pc>>

NoCells == [i \in Ports |-> [j \in Ports |-> [p \in Prios |-> 0]]]
NoMatch == [i \in Ports |-> 0]
NoResult == [q \in Pairs |-> 0]
Zeroes == [p \in Prios |-> [k \in Ports |-> 0]]

NoCall == [iterations |-> 0, speedup |-> 0, islip |-> TRUE]

Init ==
  /\ m_ql = NoCells /\ m_shadow_ql = NoCells
  /\ m_gi = Zeroes /\ m_ai = Zeroes
  /\ m_request = {} /\ m_grant = {} /\ m_accept = {}
  /\ m_input_match_count = NoMatch /\ m_output_match_count = NoMatch
  /\ sch_result = NoResult
  /\ m_current_iter = 0 /\ prio = 0
  /\ call = NoCall
  /\ pc = "idle"

init ==
  /\ pc = "idle"
  /\ m_ql' = NoCells
  /\ m_request' = {} /\ m_grant' = {} /\ m_accept' = {}
  /\ sch_result' = NoResult
  /\ UNCHANGED <<m_shadow_ql, pointers, counts, loop, pc>>

init_priority_ptr ==
  /\ pc = "idle"
  /\ m_gi' = Zeroes /\ m_ai' = Zeroes
  /\ UNCHANGED <<m_ql, m_shadow_ql, m_request, m_grant, m_accept, counts,
                 sch_result, loop, pc>>

\* How many cells are announced.
Announced == MapThenSumSet(LAMBDA t : m_ql[t[1]][t[2]][t[3]], Ports \X Ports \X Prios)

\* A cell of a priority that does not exist is ignored.  (at() throws for a
\* port that does not exist: not called.)  MaxCells bounds the caller: the code
\* has no limit.
set_ql(i, j, p) ==
  /\ pc = "idle"
  /\ Announced < MaxCells
  /\ m_ql' = IF p \in Prios THEN [m_ql EXCEPT ![i][j][p] = @ + 1] ELSE m_ql
  /\ UNCHANGED <<m_shadow_ql, pointers, m_request, m_grant, m_accept, counts,
                 sch_result, loop, pc>>

islip_sch(k, s, islip) ==
  /\ pc = "idle"
  /\ m_input_match_count' = NoMatch /\ m_output_match_count' = NoMatch
  /\ sch_result' = NoResult
  /\ m_shadow_ql' = m_ql
  /\ prio' = 0 /\ m_current_iter' = 0
  /\ call' = [iterations |-> k, speedup |-> s, islip |-> islip]
  /\ pc' = "send_request"
  /\ UNCHANGED <<m_ql, pointers, m_request, m_grant, m_accept>>

\* The ports with speedup left.
FreeInputs == {i \in Ports : m_input_match_count[i] < call.speedup}

\* Mutant of FreeOutputs: an output may be matched once too often.
FreeOutputsOneMore == {j \in Ports : m_output_match_count[j] <= call.speedup}

FreeOutputs == {j \in Ports : m_output_match_count[j] < call.speedup}

\* Every iteration starts with empty flag matrices.
send_request ==
  /\ pc = "send_request" /\ prio < NumPrio
  /\ m_request' = {q \in FreeInputs \X FreeOutputs : m_shadow_ql[q[1]][q[2]][prio] > 0}
  /\ m_grant' = {} /\ m_accept' = {}
  /\ pc' = "do_grant"
  /\ UNCHANGED <<m_ql, m_shadow_ql, pointers, counts, sch_result, loop>>

Requests(j) == {i \in Ports : <<i, j>> \in m_request}

\* In RRM mode the pointer of an output moves with its grant.
do_grant ==
  LET granted == {j \in FreeOutputs : Requests(j) # {}}
      Choice(j) == FirstFrom(m_gi[prio][j], NumPort, Requests(j))
  IN
  /\ pc = "do_grant"
  /\ m_grant' = m_grant \cup {<<Choice(j), j>> : j \in granted}
  /\ m_gi' = IF call.islip THEN m_gi
             ELSE [m_gi EXCEPT ![prio] = [j \in Ports |->
                     IF j \in granted THEN (Choice(j) + 1) % NumPort ELSE @[j]]]
  /\ pc' = "do_accept"
  /\ UNCHANGED <<m_ql, m_shadow_ql, m_ai, m_request, m_accept, counts, sch_result, loop>>

\* Mutant of Grants: the accept scan stops at the last output, without going
\* round to the outputs before its pointer.
GrantsToTheLast(i) == {j \in Ports : j >= m_ai[prio][i] /\ <<i, j>> \in m_grant}

Grants(i) == {j \in Ports : <<i, j>> \in m_grant}

\* A matched cell leaves the shadow queue.
TakeFromShadow(accepted) ==
  m_shadow_ql' = [i \in Ports |-> [j \in Ports |->
     IF <<i, j>> \in accepted THEN [m_shadow_ql[i][j] EXCEPT ![prio] = @ - 1]
                              ELSE m_shadow_ql[i][j]]]

do_accept ==
  LET accepted == {<<i, FirstFrom(m_ai[prio][i], NumPort, Grants(i))>> :
                     i \in {in \in FreeInputs : Grants(in) # {}}}
  IN
  /\ pc = "do_accept"
  /\ m_accept' = m_accept \cup accepted
  /\ m_input_match_count' = [i \in Ports |-> m_input_match_count[i] +
       Cardinality({j \in Ports : <<i, j>> \in accepted})]
  /\ m_output_match_count' = [j \in Ports |-> m_output_match_count[j] +
       Cardinality({i \in Ports : <<i, j>> \in accepted})]
  /\ TakeFromShadow(accepted)
  /\ pc' = "update_priority_ptr"
  /\ UNCHANGED <<m_ql, pointers, m_request, m_grant, sch_result, loop>>

\* The ports a pair of m_accept matches port k with, none or one.
OutputsOf(i) == {j \in Ports : <<i, j>> \in m_accept}
InputsOf(j)  == {i \in Ports : <<i, j>> \in m_accept}

\* The pointer moves past the matched port of S; S holds one port or none.
PointerPast(S, old) == IF S = {} THEN old ELSE (Max(S) + 1) % NumPort

\* In iSLIP mode the pointers move in the first iteration only.  Then the
\* loops of islip_sch() go on: next iteration, or next priority.
update_priority_ptr ==
  /\ pc = "update_priority_ptr"
  /\ m_gi' = IF call.islip /\ m_current_iter = 0
             THEN [m_gi EXCEPT ![prio] = [j \in Ports |-> PointerPast(InputsOf(j), @[j])]]
             ELSE m_gi
  /\ m_ai' = IF call.islip => m_current_iter = 0
             THEN [m_ai EXCEPT ![prio] = [i \in Ports |-> PointerPast(OutputsOf(i), @[i])]]
             ELSE m_ai
  /\ sch_result' = [q \in Pairs |-> sch_result[q] + (IF q \in m_accept THEN 1 ELSE 0)]
  /\ IF m_current_iter + 1 < call.iterations
     THEN m_current_iter' = m_current_iter + 1 /\ UNCHANGED prio
     ELSE m_current_iter' = 0 /\ prio' = prio + 1
  /\ pc' = "send_request"
  /\ UNCHANGED <<m_ql, m_shadow_ql, m_request, m_grant, m_accept, counts, call>>

\* islip_sch() returns when the priorities are through; its arguments and its
\* loop variable prio go.
Return ==
  /\ pc = "send_request" /\ prio = NumPrio
  /\ prio' = 0 /\ call' = NoCall
  /\ pc' = "idle"
  /\ UNCHANGED <<m_ql, m_shadow_ql, pointers, m_request, m_grant, m_accept,
                 counts, sch_result, m_current_iter>>

Caller ==
  \/ init
  \/ init_priority_ptr
  \/ \E i, j \in Ports, p \in 0 .. NumPrio : set_ql(i, j, p)
  \/ \E k \in IterArgs, s \in SpeedupArgs, islip \in ModeArgs : islip_sch(k, s, islip)

Next ==
  \/ Caller
  \/ send_request
  \/ do_grant
  \/ do_accept
  \/ update_priority_ptr
  \/ Return

Spec == Init /\ [][Next]_vars

-----------------------------------------------------------------------------

\* The cells at inputs I, for outputs J, of priorities P that a queue table has
\* between the lengths low and high.
Cells(low, high, I, J, P) ==
  UNION {{t} \X (low[t[1]][t[2]][t[3]] + 1 .. high[t[1]][t[2]][t[3]]) : t \in I \X J \X P}

\* Those that the call in progress has matched.
Matched(I, J, P) == Cells(m_shadow_ql, m_ql, I, J, P)

Served(I, J, P) == Cardinality(Matched(I, J, P))

\* Pointers index a port, and the shadow queues never go below zero.
TypeOK ==
  /\ m_ql \in [Ports -> [Ports -> [Prios -> Nat]]]
  /\ m_shadow_ql \in [Ports -> [Ports -> [Prios -> Nat]]]
  /\ m_gi \in [Prios -> [Ports -> Ports]]
  /\ m_ai \in [Prios -> [Ports -> Ports]]
  /\ m_accept \subseteq m_grant /\ m_grant \subseteq m_request
  /\ m_request \subseteq Pairs
  /\ m_input_match_count \in [Ports -> Nat]
  /\ m_output_match_count \in [Ports -> Nat]
  /\ prio \in 0 .. NumPrio /\ m_current_iter \in Nat
  /\ pc \in {"idle", "send_request", "do_grant", "do_accept", "update_priority_ptr"}

\* The three records of a slot agree at every iteration: what the shadow
\* queues lost, what the match counters count and what sch_result reports.  No
\* port is matched more often than the speedup allows.
BooksAgree ==
  /\ TypeOK
  /\ pc = "send_request" =>
       /\ \A i, j \in Ports : sch_result[<<i, j>>] = Served({i}, {j}, Prios)
       /\ \A i \in Ports : m_input_match_count[i] = Served({i}, Ports, Prios)
       /\ \A j \in Ports : m_output_match_count[j] = Served(Ports, {j}, Prios)
       /\ \A k \in Ports : /\ m_input_match_count[k] <= call.speedup
                           /\ m_output_match_count[k] <= call.speedup

\* A cell of priority p could still be matched.
OpenAt(p) ==
  \E i \in FreeInputs, j \in FreeOutputs : m_shadow_ql[i][j][p] > 0

\* Every iteration of a priority matches a cell unless none can be matched, so
\* that with NumPort * speedup iterations a lower priority gets only what the
\* higher ones cannot use: the speedup left over is not wasted either.
LevelProgress ==
  pc = "send_request" =>
    \A p \in Prios :
      \/ p > prio
      \/ ~ OpenAt(p)
      \/ Served(Ports, Ports, {p}) >=
           (IF p = prio THEN m_current_iter ELSE call.iterations)
=============================================================================
