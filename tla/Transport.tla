------------------------------- MODULE Transport -----------------------------
(***************************************************************************)
(* The modules that send, queue and serve transactions: the two payload    *)
(* event queues, the traffic generator and its memory, the packet          *)
(* generator and its receiver, and the DMA controllers and device.  One of *)
(* them is created, with the peer it has in the repository; unit says      *)
(* which.  Variables that have the same name in two of the modules are     *)
(* members of whichever unit was created, and a variable that is no member *)
(* of it is 0.                                                             *)
(***************************************************************************)
EXTENDS Naturals

CONSTANTS CbTime, MaxNotes,                             \* PeqCbPhase
          PeqTime, MaxDelay, MaxDep, Pushes,            \* Peq
          Threads, Lists, Transfers, MaxAdds,           \* TrafficGen
          Size, AddrSpace, Byte,                        \* Memory
          MEM_SIZE, MaxLength, MaxBurst,                \* DmaCtrl
          MemSize, Align, Lengths, total_packets,       \* PacketGen
          Burst,                                        \* DemoDma
          MaxLen                                        \* Memory, DemoDma

VARIABLES now, i, step, src_addr, dst_addr, memory,
          parity, m_e, fec, m_ppq, m_delta, m_immediate_yield, notes,
          m_peq,
          m_transfers, m_callback, process, transfers, m_it, adds, reported,
          mem_map, aborted, trans, before,
          length, burst_size, data_buffer, mem,
          packet_counter, success_count, error_count, received_reads, received_writes,
          total_received, sent,
          len, ctrl, irq, thread, tlen, buf, ev_pending, host, job,
          unit

loopVars    == <<i, step>>
addrVars    == <<src_addr, dst_addr>>
cbVars      == <<parity, m_e, fec, m_ppq, m_delta, m_immediate_yield, notes>>
trafficVars == <<m_transfers, m_callback, process, transfers, m_it, adds, reported>>
memVars     == <<mem_map, aborted, trans, before>>
ctrlVars    == <<length, burst_size, data_buffer, mem>>
packetVars  == <<packet_counter, success_count, error_count, received_reads, received_writes,
                 total_received, sent>>
demoVars    == <<len, ctrl, irq, thread, tlen, buf, ev_pending, host, job>>
vars == <<now, loopVars, addrVars, memory, cbVars, m_peq, trafficVars, memVars, ctrlVars,
          packetVars, demoVars, unit>>

Cb      == INSTANCE PeqCbPhase WITH MaxTime <- CbTime
PQ      == INSTANCE Peq WITH MaxTime <- PeqTime
Traffic == INSTANCE TrafficGen
Mem     == INSTANCE Memory
Ctrl    == INSTANCE DmaCtrl
Packets == INSTANCE PacketGen
Demo    == INSTANCE DemoDma

NoLoop    == i = 0 /\ step = 0
NoAddr    == src_addr = 0 /\ dst_addr = 0
NoCb      == /\ parity = 0 /\ m_e = 0 /\ fec = 0 /\ m_ppq = 0 /\ m_delta = 0
             /\ m_immediate_yield = 0 /\ notes = 0
NoTraffic == /\ m_transfers = 0 /\ m_callback = 0 /\ process = 0 /\ transfers = 0
             /\ m_it = 0 /\ adds = 0 /\ reported = 0
NoMem     == mem_map = 0 /\ aborted = 0 /\ trans = 0 /\ before = 0
NoCtrl    == length = 0 /\ burst_size = 0 /\ data_buffer = 0 /\ mem = 0
NoPackets == /\ packet_counter = 0 /\ success_count = 0 /\ error_count = 0
             /\ received_reads = 0 /\ received_writes = 0 /\ total_received = 0 /\ sent = 0
NoDemo    == /\ len = 0 /\ ctrl = 0 /\ irq = 0 /\ thread = 0 /\ tlen = 0 /\ buf = 0
             /\ ev_pending = 0 /\ host = 0 /\ job = 0

Init ==
  \/ /\ unit = "peq_with_cb_and_phase" /\ Cb!Init
     /\ NoLoop /\ NoAddr /\ memory = 0 /\ m_peq = 0
     /\ NoTraffic /\ NoMem /\ NoCtrl /\ NoPackets /\ NoDemo
  \/ /\ unit = "peq" /\ PQ!Init
     /\ NoAddr /\ memory = 0
     /\ NoCb /\ NoTraffic /\ NoMem /\ NoCtrl /\ NoPackets /\ NoDemo
  \/ /\ unit = "tg-tlm" /\ Traffic!Init
     /\ now = 0 /\ NoLoop /\ NoAddr /\ memory = 0 /\ m_peq = 0
     /\ NoCb /\ NoMem /\ NoCtrl /\ NoPackets /\ NoDemo
  \/ /\ unit = "memory" /\ Mem!Init
     /\ now = 0 /\ NoLoop /\ NoAddr /\ memory = 0 /\ m_peq = 0
     /\ NoCb /\ NoTraffic /\ NoCtrl /\ NoPackets /\ NoDemo
  \/ /\ unit = "dma_ctrl" /\ Ctrl!Init
     /\ now = 0 /\ memory = 0 /\ m_peq = 0
     /\ NoCb /\ NoTraffic /\ NoMem /\ NoPackets /\ NoDemo
  \/ /\ unit = "gen" /\ Packets!Init
     /\ now = 0 /\ NoLoop /\ NoAddr /\ m_peq = 0
     /\ NoCb /\ NoTraffic /\ NoMem /\ NoCtrl /\ NoDemo
  \/ /\ unit = "demo_dma" /\ Demo!Init
     /\ now = 0 /\ NoLoop /\ m_peq = 0
     /\ NoCb /\ NoTraffic /\ NoMem /\ NoCtrl /\ NoPackets

OnlyCb ==
  UNCHANGED <<loopVars, addrVars, memory, m_peq, trafficVars, memVars, ctrlVars,
              packetVars, demoVars, unit>>
OnlyPeq ==
  UNCHANGED <<addrVars, memory, cbVars, trafficVars, memVars, ctrlVars, packetVars,
              demoVars, unit>>
OnlyTraffic ==
  UNCHANGED <<now, loopVars, addrVars, memory, cbVars, m_peq, memVars, ctrlVars,
              packetVars, demoVars, unit>>
OnlyMem ==
  UNCHANGED <<now, loopVars, addrVars, memory, cbVars, m_peq, trafficVars, ctrlVars,
              packetVars, demoVars, unit>>
OnlyCtrl ==
  UNCHANGED <<now, memory, cbVars, m_peq, trafficVars, memVars, packetVars, demoVars, unit>>
OnlyPackets ==
  UNCHANGED <<now, loopVars, addrVars, cbVars, m_peq, trafficVars, memVars, ctrlVars,
              demoVars, unit>>
OnlyDemo ==
  UNCHANGED <<now, loopVars, cbVars, m_peq, trafficVars, memVars, ctrlVars, packetVars, unit>>

InCb(A)      == unit = "peq_with_cb_and_phase" /\ A /\ OnlyCb
InPeq(A)     == unit = "peq" /\ A /\ OnlyPeq
InTraffic(A) == unit = "tg-tlm" /\ A /\ OnlyTraffic
InDemo(A)    == unit = "demo_dma" /\ A /\ OnlyDemo

Next ==
  \/ InCb(Cb!Next)
  \/ InPeq(PQ!Next)
  \/ InTraffic(Traffic!Next)
  \/ unit = "memory" /\ Mem!Next /\ OnlyMem
  \/ unit = "dma_ctrl" /\ Ctrl!Next /\ OnlyCtrl
  \/ unit = "gen" /\ Packets!Next /\ OnlyPackets
  \/ InDemo(Demo!Next)

\* The fairness of each unit is explained in its module.
Spec ==
  /\ Init /\ [][Next]_vars
  /\ WF_vars(InCb(Cb!fecStep)) /\ WF_vars(InCb(Cb!NextDelta)) /\ WF_vars(InCb(Cb!SomeInstant))
  /\ WF_vars(InPeq(PQ!Next))
  /\ WF_vars(InTraffic(Traffic!run))
  /\ \A td \in Threads :
       /\ WF_vars(InTraffic(Traffic!GetTransfers(td)))
       /\ WF_vars(InTraffic(Traffic!generate(td)))
       /\ WF_vars(InTraffic(Traffic!Answered(td)))
       /\ WF_vars(InTraffic(Traffic!RunCallback(td)))
  /\ WF_vars(InDemo(Demo!Wake)) /\ WF_vars(InDemo(Demo!ev_dma_copy))
  /\ WF_vars(InDemo(Demo!do_dma_copy))

-----------------------------------------------------------------------------
(* The properties of the units; each is explained where it is defined.     *)

\* peq_with_cb_and_phase.h and peq.h: a payload is handed over in the delta cycle
\* or the instant it is due in, and in the order of the notifications.
ImplementsEventQueue ==
  /\ [](unit = "peq_with_cb_and_phase" => Cb!TypeOK)
  /\ unit = "peq_with_cb_and_phase" => Cb!Queue!Init
  /\ [][unit = "peq_with_cb_and_phase" => [Cb!Queue!Next]_(Cb!Queue!vars)]_vars
  /\ [](unit = "peq" => PQ!TypeOK)
  /\ unit = "peq" => PQ!Queue!Init
  /\ [][unit = "peq" => [PQ!Queue!Next]_(PQ!Queue!vars)]_vars

\* peq_with_cb_and_phase.h and peq.h: no payload waits for ever.
EveryPayloadHandedOver ==
  /\ \A p \in 1 .. MaxNotes :
       (unit = "peq_with_cb_and_phase" /\ Cb!Waiting(p)) ~>
         (unit = "peq_with_cb_and_phase" /\ ~ Cb!Waiting(p))
  /\ \A p \in 1 .. Pushes :
       (unit = "peq" /\ PQ!Waiting(p)) ~> (unit = "peq" /\ ~ PQ!Waiting(p))

\* tg-tlm.h: a list that a thread is given is replayed to its end, and then its
\* callback runs, unless another list takes its place.
ListsReplayed ==
  /\ [](unit = "tg-tlm" => Traffic!TypeOK)
  /\ [][unit = "tg-tlm" => Traffic!LetsGoWhenDone]_vars
  /\ \A td \in Threads, l \in Lists :
       /\ (unit = "tg-tlm" /\ Traffic!Has(td, l)) ~> (unit = "tg-tlm" /\ ~ Traffic!Has(td, l))
       /\ (unit = "tg-tlm" /\ m_callback[td] = l) ~>
            (unit = "tg-tlm" /\ (m_callback[td] # l \/ l \in reported))

\* memory.cpp: a transaction moves the bytes it names and no other one, up to what
\* Memory says of commands that are neither read nor write and of addresses at the
\* top.  gen.h: the receiver's memory and the statistics agree with what was sent.
MovesExactly ==
  /\ unit = "memory" => Mem!TypeOK /\ Mem!MovesExactly
  /\ unit = "gen" => Packets!StatisticsAgree

\* dma_ctrl_at.h, dma_ctrl_lt.h and demo-dma.cpp: at every moment the bytes copied
\* so far are the right ones, and no other byte is touched.
CopiesExactly ==
  /\ unit = "dma_ctrl" => Ctrl!CopiesExactly
  /\ unit = "demo_dma" => Demo!CopyFaithful

\* demo-dma.cpp: a transfer that runs ends or is paused.
RunEnds == (unit = "demo_dma" /\ "RUN" \in ctrl) ~> (unit = "demo_dma" /\ "RUN" \notin ctrl)

\* demo-dma.cpp: the interrupt is withdrawn once DONE is cleared.
IrqWithdrawn ==
  (unit = "demo_dma" /\ irq /\ "DONE" \notin ctrl) ~>
    (unit = "demo_dma" /\ (~ irq \/ "DONE" \in ctrl))
=============================================================================
