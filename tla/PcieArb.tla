------------------------------- MODULE PcieArb -------------------------------
(***************************************************************************)
(* test/pcie_arb.cpp: the arbitration engine of a PCIe switch.  A received *)
(* packet takes a credit of its virtual channel at its ingress port.  In   *)
(* every cycle one packet of each ingress buffer joins the queue of its    *)
(* egress port, and every egress port sends the packet of highest          *)
(* priority, taking turns between ingress ports when several have it; that *)
(* gives the credit back.                                                  *)
(*                                                                         *)
(* The priority comes from a table of the ingress port that the caller may *)
(* rewrite between any two packets (configurePortPriority): any packet may *)
(* have any.  Likewise for the routing table (addRoute), which only ever   *)
(* names an existing egress port.  std::sort() keeps the requests of one   *)
(* port in order up to sixteen of them.                                    *)
(***************************************************************************)
EXTENDS Naturals, Sequences, SequencesExt

CONSTANTS Ingress, Egress,   \* port numbers
          VC,                \* virtual channels in use
          Credits,           \* 256
          MaxPriority

Packet == [port : Ingress, egress : Egress, vc : VC, priority : 0 .. MaxPriority]

VARIABLES vc_credits, ingress_buffers, arbitration_queues,
          last_served_ingress_port,
          pc,    \* idle, or arbitrate: inside arbitrationCycle()
          sent   \* history: what every egress port sent in the last cycle

vars == <<vc_credits, ingress_buffers, arbitration_queues,
          last_served_ingress_port, pc, sent>>

Init ==
  /\ vc_credits = [p \in Ingress |-> [v \in VC |-> Credits]]
  /\ ingress_buffers = [p \in Ingress |-> <<>>]
  /\ arbitration_queues = [e \in Egress |-> <<>>]
  /\ last_served_ingress_port = [e \in Egress |-> 0]
  /\ pc = "idle"
  /\ sent = [e \in Egress |-> <<>>]

\* A packet without credit is dropped.
receivePacket(packet) ==
  /\ pc = "idle"
  /\ vc_credits[packet.port][packet.vc] # 0
  /\ vc_credits' = [vc_credits EXCEPT ![packet.port][packet.vc] = @ - 1]
  /\ ingress_buffers' = [ingress_buffers EXCEPT ![packet.port] = Append(@, packet)]
  /\ UNCHANGED <<arbitration_queues, last_served_ingress_port, pc, sent>>

\* The loop over the map of ports visits them by number.
PortOrder(ports) ==
  [k \in 1 .. Cardinality(ports) |->
     CHOOSE p \in ports : Cardinality({q \in ports : q < p}) = k - 1]

\* The ports whose next packet is for egress port e.
Heading(e) == {p \in Ingress : ingress_buffers[p] # <<>> /\ Head(ingress_buffers[p]).egress = e}

\* The head of every ingress buffer joins the queue of its egress port, in the
\* order of the ports.
processIngressBuffers ==
  LET Requests(ports) == [k \in DOMAIN ports |-> Head(ingress_buffers[ports[k]])]
      Join(e) == arbitration_queues[e] \o Requests(PortOrder(Heading(e)))
  IN
  /\ pc = "idle"
  /\ arbitration_queues' = [e \in Egress |-> Join(e)]
  /\ ingress_buffers' = [p \in Ingress |->
       IF ingress_buffers[p] = <<>> THEN <<>> ELSE Tail(ingress_buffers[p])]
  /\ pc' = "arbitrate"
  /\ UNCHANGED <<vc_credits, last_served_ingress_port, sent>>

\* The requests of highest priority in a queue.
Highest(queue) ==
  {k \in DOMAIN queue : \A l \in DOMAIN queue : queue[l].priority <= queue[k].priority}

\* Mutant of NextPort: the port that was served last is served again.
NextPortAgain(e, ports) ==
  LET after == {p \in ports : p >= last_served_ingress_port[e]}
  IN  IF after = {} THEN Min(ports) ELSE Min(after)

\* roundRobinArbitration(): the next port after the one served last.
NextPort(e, ports) ==
  LET after == {p \in ports : p > last_served_ingress_port[e]}
  IN  IF after = {} THEN Min(ports) ELSE Min(after)

\* The place of the winner in the queue of e.
Winner(e) ==
  LET queue == arbitration_queues[e]
      high == Highest(queue)
      ports == {queue[k].port : k \in high}
  IN  IF Cardinality(high) = 1 THEN Min(high)
      ELSE Min({k \in high : queue[k].port = NextPort(e, ports)})

Served == {e \in Egress : arbitration_queues[e] # <<>>}

\* Mutant of Restored: the credit goes to the port the packet left by.
RestoredAtEgress(packets) ==
  [p \in Ingress |-> [v \in VC |->
     Min({Credits, vc_credits[p][v]
            + Cardinality({e \in DOMAIN packets : packets[e].egress = p /\ packets[e].vc = v})})]]

\* The credit the packet has taken.
IsOf(packet, p, v) == packet.port = p /\ packet.vc = v

\* transmitPacket() of all winners.
Restored(packets) ==
  [p \in Ingress |-> [v \in VC |->
     Min({Credits, vc_credits[p][v]
            + Cardinality({e \in DOMAIN packets : IsOf(packets[e], p, v)})})]]

\* Every egress port sends its winner.  Turns are remembered only when there was
\* a choice.
arbitrateEgressPorts ==
  LET winners == [e \in Served |-> arbitration_queues[e][Winner(e)]] IN
  /\ pc = "arbitrate"
  /\ arbitration_queues' = [e \in Egress |->
       IF e \in Served THEN RemoveAt(arbitration_queues[e], Winner(e)) ELSE <<>>]
  /\ last_served_ingress_port' = [e \in Egress |->
       IF e \in Served /\ Cardinality(Highest(arbitration_queues[e])) > 1
       THEN winners[e].port ELSE last_served_ingress_port[e]]
  /\ vc_credits' = Restored(winners)
  /\ sent' = [e \in Egress |-> IF e \in Served THEN <<winners[e]>> ELSE <<>>]
  /\ pc' = "idle"
  /\ UNCHANGED ingress_buffers

arbitrationCycle == processIngressBuffers \/ arbitrateEgressPorts

Next == arbitrationCycle \/ \E packet \in Packet : receivePacket(packet)

\* The caller goes on running cycles.
Spec == Init /\ [][Next]_vars /\ []<>(pc = "idle") /\ []<>(pc = "arbitrate")

-----------------------------------------------------------------------------

\* The places of the requests in the queues.
Places == UNION {{e} \X DOMAIN arbitration_queues[e] : e \in Egress}

\* Credits are neither leaked nor invented, although one is taken before the
\* packet is routed, and packets wait in two stages and overtake each other: a
\* credit that is not free belongs to exactly one waiting packet.
CreditsAccounted ==
  \A p \in Ingress, v \in VC :
    vc_credits[p][v]
      + Cardinality({k \in DOMAIN ingress_buffers[p] : IsOf(ingress_buffers[p][k], p, v)})
      + Cardinality({w \in Places : IsOf(arbitration_queues[w[1]][w[2]], p, v)})
    = Credits

IsUrgent(packet, p) == packet.port = p /\ packet.priority = MaxPriority

\* Ports whose packets have the highest priority take turns: none is passed over
\* for ever, although a turn without a rival is not remembered.
TurnsTaken ==
  \A p \in Ingress, e \in Egress :
    (\E k \in DOMAIN arbitration_queues[e] : IsUrgent(arbitration_queues[e][k], p)) ~>
      (\E k \in DOMAIN sent[e] : IsUrgent(sent[e][k], p))
=============================================================================
