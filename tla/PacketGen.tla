------------------------------ MODULE PacketGen ------------------------------
(***************************************************************************)
(* modules/gen/gen.h: a generator sends packets, one after the other, with *)
(* b_transport() calls to a receiver that keeps a memory.  Any packet but  *)
(* a READ is a write.  The addresses are aligned and lie in the memory,    *)
(* but a packet may reach beyond its end; it is refused then.  The data    *)
(* of a packet are its number.                                             *)
(***************************************************************************)
EXTENDS Naturals, Sequences, FiniteSets, FiniteSetsExt

CONSTANTS MemSize,        \* bytes of the receiver's memory (256)
          Align,          \* alignment of addresses (4)
          Lengths,        \* 1 .. 8
          total_packets   \* 15

VARIABLES packet_counter, success_count, error_count,
          memory, received_reads, received_writes, total_received,
          sent     \* history: the packets

counters == <<packet_counter, success_count, error_count,
              received_reads, received_writes, total_received>>
vars == <<counters, memory, sent>>

Addresses == 0 .. MemSize - 1
Packets   == [type : {"READ", "WRITE", "CONTROL", "DATA"},
              address : {a \in Addresses : a % Align = 0}, length : Lengths]

Init ==
  /\ packet_counter = 0 /\ success_count = 0 /\ error_count = 0
  /\ received_reads = 0 /\ received_writes = 0 /\ total_received = 0
  /\ memory = [a \in Addresses |-> 0]
  /\ sent = <<>>

Fits(pkt) == pkt.address < MemSize /\ pkt.address + pkt.length <= MemSize

Covers(pkt, a) == pkt.address <= a /\ a < pkt.address + pkt.length

\* b_transport() of the receiver, and what send_packet() makes of the answer.
Refused(pkt) ==
  /\ ~ Fits(pkt)
  /\ error_count' = error_count + 1
  /\ UNCHANGED <<success_count, memory, received_reads, received_writes, total_received>>

Accepted(pkt) ==
  /\ Fits(pkt)
  /\ IF pkt.type = "READ"
     THEN /\ received_reads' = received_reads + 1
          /\ UNCHANGED <<memory, received_writes>>
     ELSE /\ received_writes' = received_writes + 1
          /\ memory' = [a \in Addresses |-> IF Covers(pkt, a) THEN packet_counter' ELSE memory[a]]
          /\ UNCHANGED received_reads
  /\ total_received' = total_received + 1
  /\ success_count' = success_count + 1
  /\ UNCHANGED error_count

send_packet ==
  /\ packet_counter < total_packets
  /\ packet_counter' = packet_counter + 1
  /\ \E pkt \in Packets :
       /\ sent' = Append(sent, pkt)
       /\ Refused(pkt) \/ Accepted(pkt)

Next == send_packet

Spec == Init /\ [][Next]_vars

-----------------------------------------------------------------------------

Whole == {k \in DOMAIN sent : sent[k].address + sent[k].length <= MemSize}
Writes == {k \in Whole : sent[k].type # "READ"}

\* The statistics of both sides agree with each other and with what was sent,
\* and every byte of the memory is that of the last whole packet written to it:
\* a packet that reaches beyond the end leaves no part of itself behind.
StatisticsAgree ==
  /\ success_count + error_count = packet_counter
  /\ total_received = Cardinality(Whole) /\ success_count = total_received
  /\ received_writes = Cardinality(Writes)
  /\ received_reads + received_writes = total_received
  /\ \A a \in Addresses :
       memory[a] = Max({k \in Writes : Covers(sent[k], a)} \cup {0})
=============================================================================
