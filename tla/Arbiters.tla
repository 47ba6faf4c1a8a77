------------------------------- MODULE Arbiters -----------------------------
(***************************************************************************)
(* The two arbiters that share no module with any other: the diagonal      *)
(* arbiter of modules/dpa and the virtual channels of pcie_vc.cpp.  One of *)
(* them is created; unit says which, and the variables of the other are 0. *)
(***************************************************************************)
EXTENDS Integers

CONSTANTS Units,                      \* the arbiters to choose from
          N,                          \* Dpa
          NumVC, MaxCredits, Weight   \* PcieVc

ASSUME ArbitersAssumption ==
  /\ N \in Nat \ {0}
  /\ NumVC \in Nat \ {0} /\ MaxCredits \in Nat \ {0} /\ Weight \in Nat \ {0}

VARIABLES m_ptr, m_row_mask, m_col_mask, m_requests, m_grants, row, pc,
          enabled, priority, scheme,
          current_credits, vc_queues, last_served_vc, rr_counters, owed, served,
          unit

dpaVars == <<m_ptr, m_row_mask, m_col_mask, m_requests, m_grants, row, pc>>
vcVars  == <<enabled, priority, scheme, current_credits, vc_queues, last_served_vc,
             rr_counters, owed, served>>
vars == <<dpaVars, vcVars, unit>>

D == INSTANCE Dpa
V == INSTANCE PcieVc

NoDpa == /\ m_ptr = 0 /\ m_row_mask = 0 /\ m_col_mask = 0 /\ m_requests = 0
         /\ m_grants = 0 /\ row = 0 /\ pc = 0
NoVc  == /\ enabled = 0 /\ priority = 0 /\ scheme = 0 /\ current_credits = 0
         /\ vc_queues = 0 /\ last_served_vc = 0 /\ rr_counters = 0 /\ owed = 0 /\ served = 0

Init ==
  /\ unit \in Units
  /\ \/ unit = "dpa" /\ D!Init /\ NoVc
     \/ unit = "pcie_vc" /\ V!Init /\ NoDpa

Next ==
  \/ unit = "dpa" /\ D!Next /\ UNCHANGED <<vcVars, unit>>
  \/ unit = "pcie_vc" /\ V!Next /\ UNCHANGED <<dpaVars, unit>>

\* arbitration() of dpa runs to its return and is called again and again; the
\* caller of pcie_vc goes on asking for packets.
Spec ==
  /\ Init /\ [][Next]_vars
  /\ WF_vars(unit = "dpa" /\ D!Arbitrate /\ UNCHANGED <<vcVars, unit>>)
  /\ WF_vars(unit = "pcie_vc" /\ V!arbitrate /\ UNCHANGED <<dpaVars, unit>>)

-----------------------------------------------------------------------------
(* The properties of the units; each is explained where it is defined.     *)

\* dpa.cpp: between two arbitrations the grants are a matching of requests.
GrantsMatch == unit = "dpa" => D!TypeOK /\ D!GrantsMatch

\* dpa.cpp: an arbitration leaves no request whose row and column are unused.
Maximal == unit = "dpa" => D!Maximal

\* dpa.cpp: a request is granted eventually: every diagonal comes first in its
\* turn, so the others cannot shut it out.
NoStarvation ==
  \A c \in D!Cells :
    (unit = "dpa" /\ c \in m_requests) ~> (unit = "dpa" /\ pc = "idle" /\ c \in m_grants)

\* pcie_vc.cpp: every credit that is not free belongs to a packet of its channel.
CreditsAccounted == unit = "pcie_vc" => V!CreditsAccounted

\* pcie_vc.cpp: a channel that stays enabled with packets waiting is served, when
\* all channels use one of the round robins.
RoundRobinServes ==
  \A v \in V!VC :
    /\ unit = "pcie_vc" /\ v \in V!Ready
    /\ scheme \in {[u \in V!VC |-> s] : s \in V!Schemes \ {"STRICT_PRIORITY"}}
    ~> unit = "pcie_vc" /\ (served = v \/ ~ enabled[v])
=============================================================================
