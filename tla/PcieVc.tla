-------------------------------- MODULE PcieVc -------------------------------
(***************************************************************************)
(* test/pcie_vc.cpp: the arbitration engine of the virtual channels of a   *)
(* link.  A packet takes a credit of its channel, or of channel 0 if its   *)
(* own is disabled; arbitrate() hands out one packet, by strict priority,  *)
(* round robin or weighted round robin; the caller gives the credit back   *)
(* when it is done with the packet.                                        *)
(*                                                                         *)
(* The packets of a channel are counted.  configureVC() chooses priorities *)
(* and schemes before the first packet and enables or disables channels at *)
(* any time.  No weight is 0: with that of every waiting channel 0, the    *)
(* weighted round robin would call itself for ever.                        *)
(***************************************************************************)
EXTENDS Naturals, FiniteSets, FiniteSetsExt

CONSTANTS NumVC,        \* 8
          MaxCredits,   \* 256
          Weight        \* of channel 0; the others have weight 1

VC == 0 .. NumVC - 1
Schemes == {"STRICT_PRIORITY", "ROUND_ROBIN", "WEIGHTED_ROUND_ROBIN"}
NoVC == NumVC

weight == [v \in VC |-> IF v = 0 THEN Weight ELSE 1]

VARIABLES enabled, priority, scheme,   \* vc_resources
          current_credits, vc_queues, last_served_vc, rr_counters,
          owed,     \* history: packets handed out whose credit is not back
          served    \* history: the channel of the packet handed out last

config == <<priority, scheme>>
vars == <<enabled, config, current_credits, vc_queues, last_served_vc, rr_counters,
          owed, served>>

Init ==
  /\ enabled = [v \in VC |-> v = 0]
  /\ priority \in {[v \in VC |-> NumVC - 1 - v], [v \in VC |-> v], [v \in VC |-> 0]}
  /\ scheme \in [VC -> Schemes]
  /\ current_credits = [v \in VC |-> MaxCredits]
  /\ vc_queues = [v \in VC |-> 0]
  /\ last_served_vc = 0
  /\ rr_counters = [v \in VC |-> 0]
  /\ owed = [v \in VC |-> 0]
  /\ served = NoVC

configureVC(v, enable) ==
  /\ enabled' = [enabled EXCEPT ![v] = enable]
  /\ UNCHANGED <<config, current_credits, vc_queues, last_served_vc, rr_counters, owed, served>>

Target(v) == IF enabled[v] THEN v ELSE 0

\* Mutant of Charged: the credit is taken from the packet's own channel.
ChargedOwn(v) == [current_credits EXCEPT ![v] = @ - 1]

Charged(v) == [current_credits EXCEPT ![Target(v)] = @ - 1]

\* A packet of traffic class v; it is refused when no credit is left.
enqueuePacket(v) ==
  /\ current_credits[Target(v)] # 0
  /\ vc_queues' = [vc_queues EXCEPT ![Target(v)] = @ + 1]
  /\ current_credits' = Charged(v)
  /\ UNCHANGED <<enabled, config, last_served_vc, rr_counters, owed, served>>

Ready == {v \in VC : enabled[v] /\ vc_queues[v] > 0}

\* dequeueFromVC(), and what the caller then owes.
Dequeue(v) ==
  /\ vc_queues' = [vc_queues EXCEPT ![v] = @ - 1]
  /\ owed' = [owed EXCEPT ![v] = @ + 1]
  /\ served' = v
  /\ UNCHANGED <<enabled, config, current_credits>>

\* The first of the channels with the highest priority.
arbitrateStrictPriority ==
  /\ Dequeue(Min({v \in Ready : \A u \in Ready : priority[u] <= priority[v]}))
  /\ UNCHANGED <<last_served_vc, rr_counters>>

\* Mutant of NextVC: the search starts with the channel served last.
NextVCAgain ==
  LET after == {v \in Ready : v >= last_served_vc}
  IN  IF after = {} THEN Min(Ready) ELSE Min(after)

\* The channel that comes first after the one served last.
NextVC ==
  LET after == {v \in Ready : v > last_served_vc}
  IN  IF after = {} THEN Min(Ready) ELSE Min(after)

arbitrateRoundRobin ==
  /\ Dequeue(NextVC)
  /\ last_served_vc' = NextVC
  /\ UNCHANGED rr_counters

\* The first channel that has not used up its weight; when all have, all counters
\* start again.
arbitrateWeightedRoundRobin ==
  LET left == {v \in Ready : rr_counters[v] < weight[v]}
      v == IF left = {} THEN Min(Ready) ELSE Min(left)
  IN
  /\ Dequeue(v)
  /\ rr_counters' = IF left = {} THEN [u \in VC |-> IF u = v THEN 1 ELSE 0]
                                 ELSE [rr_counters EXCEPT ![v] = @ + 1]
  /\ UNCHANGED last_served_vc

\* The scheme is that of the first channel with a packet.
arbitrate ==
  /\ Ready # {}   \* otherwise it returns nothing
  /\ \/ scheme[Min(Ready)] = "STRICT_PRIORITY" /\ arbitrateStrictPriority
     \/ scheme[Min(Ready)] = "ROUND_ROBIN" /\ arbitrateRoundRobin
     \/ scheme[Min(Ready)] = "WEIGHTED_ROUND_ROBIN" /\ arbitrateWeightedRoundRobin

\* The caller restores the credit of a packet it was given.
restoreCredits(v) ==
  /\ owed[v] > 0
  /\ owed' = [owed EXCEPT ![v] = @ - 1]
  /\ current_credits' = [current_credits EXCEPT ![v] = Min({@ + 1, MaxCredits})]
  /\ UNCHANGED <<enabled, config, vc_queues, last_served_vc, rr_counters, served>>

Next ==
  \/ \E v \in VC, enable \in BOOLEAN : configureVC(v, enable)
  \/ \E v \in VC : enqueuePacket(v)
  \/ arbitrate
  \/ \E v \in VC : restoreCredits(v)

-----------------------------------------------------------------------------

\* A credit that is not free belongs to a packet that waits in the same channel,
\* or that the caller got from it: also when channels are disabled and enabled
\* while packets wait, and packets of one class go through two channels.
CreditsAccounted ==
  \A v \in VC : current_credits[v] + vc_queues[v] + owed[v] = MaxCredits
=============================================================================
