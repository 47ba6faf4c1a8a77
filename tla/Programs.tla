------------------------------- MODULE Programs ------------------------------
(***************************************************************************)
(* The programs of the repository that share no module with any other: the *)
(* switch arbiter, the enumeration and the quality-of-service selection of *)
(* test/, ni-tower_test.cpp and bank.cpp, and the two credit-based nodes   *)
(* of modules/node.  One of them is run; unit says which.  ran and idle    *)
(* belong to the tower and to the nodes; a variable that is no member of   *)
(* the module of the unit is 0.                                            *)
(***************************************************************************)
EXTENDS Integers, FiniteSets

CONSTANTS Ingress, Egress, VC, Credits, MaxPriority,               \* PcieArb
          MaxBus, MaxDevice, MaxFunction,                          \* PcieScan
          ChannelNum, MaxData,                                     \* Qos
          TowerCredits,                                            \* NiTower
          MaxCredit,                                               \* CreditNode
          SliceNum, LinkNum, Delay, WriteSlices, Lists, MaxWaiting \* Bank

ASSUME ArbAssumption ==
  /\ Ingress \in SUBSET Nat /\ IsFiniteSet(Ingress) /\ IsFiniteSet(Egress)
  /\ Credits \in Nat /\ MaxPriority \in Nat
ASSUME ScanAssumption == MaxBus \in Nat /\ MaxDevice \in Nat /\ MaxFunction \in Nat
ASSUME CreditAssumption == TowerCredits \in Nat \ {0} /\ MaxCredit \in Nat
ASSUME BankAssumption ==
  /\ SliceNum \in Nat \ {0} /\ LinkNum \in Nat \ {0}
  /\ Delay \in Nat \ {0} /\ WriteSlices \in Nat \ {0}
  /\ Lists \in SUBSET (Nat \ {0}) /\ IsFiniteSet(Lists)

VARIABLES vc_credits, ingress_buffers, arbitration_queues, last_served_ingress_port, pc, sent,
          calls, last_bus_number, bridges, discovered_devices,
          vc, cnt, last_sch, call, passed,
          m_credits, m_data_queue, m_delay_cnt,
          m_credit, m_credit_ret, granted,
          ran, idle,
          encode_que, decode_que, decode_que_head, queue_map, encode_vec, bank_deep_vec,
          written, last,
          unit

arbVars   == <<vc_credits, ingress_buffers, arbitration_queues, last_served_ingress_port, pc, sent>>
scanVars  == <<calls, last_bus_number, bridges, discovered_devices>>
qosVars   == <<vc, cnt, last_sch, call, passed>>
towerVars == <<m_credits, m_data_queue, m_delay_cnt>>
nodeVars  == <<m_credit, m_credit_ret, granted>>
cycleVars == <<ran, idle>>
bankVars  == <<encode_que, decode_que, decode_que_head, queue_map, encode_vec, bank_deep_vec,
               written, last>>
vars == <<arbVars, scanVars, qosVars, towerVars, nodeVars, cycleVars, bankVars, unit>>

Arb   == INSTANCE PcieArb
Scan  == INSTANCE PcieScan
QoS   == INSTANCE Qos
Tower == INSTANCE NiTower WITH Credits <- TowerCredits
Nodes == INSTANCE CreditNode
Banks == INSTANCE Bank

NoArb   == /\ vc_credits = 0 /\ ingress_buffers = 0 /\ arbitration_queues = 0
           /\ last_served_ingress_port = 0 /\ pc = 0 /\ sent = 0
NoScan  == calls = 0 /\ last_bus_number = 0 /\ bridges = 0 /\ discovered_devices = 0
NoQos   == vc = 0 /\ cnt = 0 /\ last_sch = 0 /\ call = 0 /\ passed = 0
NoTower == m_credits = 0 /\ m_data_queue = 0 /\ m_delay_cnt = 0
NoNodes == m_credit = 0 /\ m_credit_ret = 0 /\ granted = 0
NoCycle == ran = 0 /\ idle = 0
NoBank  == /\ encode_que = 0 /\ decode_que = 0 /\ decode_que_head = 0 /\ queue_map = 0
           /\ encode_vec = 0 /\ bank_deep_vec = 0 /\ written = 0 /\ last = 0

Init ==
  /\ unit \in {"pcie_arb", "pcie_scan", "qos", "ni_tower", "node", "bank"}
  /\ IF unit = "pcie_arb"  THEN Arb!Init   ELSE NoArb
  /\ IF unit = "pcie_scan" THEN Scan!Init  ELSE NoScan
  /\ IF unit = "qos"       THEN QoS!Init   ELSE NoQos
  /\ IF unit = "ni_tower"  THEN Tower!Init ELSE NoTower
  /\ IF unit = "node"      THEN Nodes!Init ELSE NoNodes
  /\ IF unit = "bank"      THEN Banks!Init ELSE NoBank
  /\ unit \notin {"ni_tower", "node"} => NoCycle

OnlyArb   == UNCHANGED <<scanVars, qosVars, towerVars, nodeVars, cycleVars, bankVars, unit>>
OnlyScan  == UNCHANGED <<arbVars, qosVars, towerVars, nodeVars, cycleVars, bankVars, unit>>
OnlyQos   == UNCHANGED <<arbVars, scanVars, towerVars, nodeVars, cycleVars, bankVars, unit>>
OnlyTower == UNCHANGED <<arbVars, scanVars, qosVars, nodeVars, bankVars, unit>>
OnlyNodes == UNCHANGED <<arbVars, scanVars, qosVars, towerVars, bankVars, unit>>
OnlyBank  == UNCHANGED <<arbVars, scanVars, qosVars, towerVars, nodeVars, cycleVars, unit>>

\* The loops of sp_sch() and rr_sch(), the clock of B, and A of bank.cpp.
QosLoop   == unit = "qos" /\ QoS!Loop /\ OnlyQos
BankClock == unit = "bank" /\ Banks!process /\ OnlyBank
BankA     == unit = "bank" /\ Banks!rcv_from /\ OnlyBank

Next ==
  \/ unit = "pcie_arb" /\ Arb!Next /\ OnlyArb
  \/ unit = "pcie_scan" /\ Scan!Next /\ OnlyScan
  \/ unit = "qos" /\ QoS!Next /\ OnlyQos
  \/ unit = "ni_tower" /\ Tower!Next /\ OnlyTower
  \/ unit = "node" /\ Nodes!Next /\ OnlyNodes
  \/ unit = "bank" /\ Banks!Next /\ OnlyBank

\* The loops of qos run to their end; in bank.cpp the clock ticks and A never
\* stops; the caller of the arbiter goes on running cycles.
Spec ==
  /\ Init /\ [][Next]_vars
  /\ WF_vars(QosLoop) /\ WF_vars(BankClock) /\ WF_vars(BankA)
  /\ []<>(unit = "pcie_arb" => pc = "idle") /\ []<>(unit = "pcie_arb" => pc = "arbitrate")

-----------------------------------------------------------------------------
(* The properties of the units; each is explained where it is defined.     *)

\* pcie_arb.cpp: credits of an ingress port are neither leaked nor invented.
CreditsAccounted == unit = "pcie_arb" => Arb!CreditsAccounted

\* pcie_arb.cpp: no ingress port with urgent packets is passed over for ever.
TurnsTaken ==
  \A p \in Ingress, e \in Egress :
    (unit = "pcie_arb" /\ \E k \in DOMAIN arbitration_queues[e] :
                            Arb!IsUrgent(arbitration_queues[e][k], p)) ~>
      (unit = "pcie_arb" /\ \E k \in DOMAIN sent[e] : Arb!IsUrgent(sent[e][k], p))

\* pcie_scan.cpp: accesses reach the bus that is enumerated, and in the end
\* every bus, over exactly the bridges on the way.
BusesReachable == unit = "pcie_scan" => Scan!TypeOK /\ Scan!BusesReachable

\* bank.cpp: no cell is lost, mixed up or freed twice.
ListsIntact == unit = "bank" => Banks!TypeOK /\ Banks!ListsIntact

\* bank.cpp: every list is read to its end.
EveryListRead ==
  \A q \in Lists : (unit = "bank" /\ q \in Banks!InUse) ~> (unit = "bank" /\ q \notin Banks!InUse)

\* node.cpp, ni-tower_test.cpp: whatever the order in which two modules run and
\* call into each other, no credit is lost and none is invented.
CreditsConserved ==
  /\ unit = "node" => Nodes!TypeOK /\ Nodes!CreditsConserved
  /\ unit = "ni_tower" => Tower!TypeOK /\ Tower!CreditsConserved

\* node.cpp: no node is without a credit for two cycles, and no debt exceeds two.
\* ni-tower_test.cpp: A waits for at most two cycles on end, as long as B takes over a
\* word and the order in which the methods run may add.
NeverStalls ==
  /\ unit = "node" => Nodes!NeverStalls
  /\ unit = "ni_tower" => Tower!NeverStalls

\* test.cpp: while a channel waits, others are served fewer than ChannelNum times in
\* all, and every call returns with empty queues.
EveryoneServed ==
  /\ [](unit = "qos" => QoS!TypeOK /\ QoS!WaitsOneRound)
  /\ (unit = "qos" /\ call # "none") ~> (unit = "qos" /\ call = "none" /\ QoS!Waiting = {})
=============================================================================
