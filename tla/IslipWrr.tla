------------------------------ MODULE IslipWrr ------------------------------
(***************************************************************************)
(* modules/islip/islip_wrr.cpp: iSLIP with weighted round robin.  Every    *)
(* pair of ports has a quota per round; outputs and inputs choose the pair *)
(* that has used the smallest share of its weight.                         *)
(*                                                                         *)
(* arbitration() runs min(m_iterations, 1) iterations: Iterations is that  *)
(* minimum.  The queues of this scheduler have no limit: VoqSize only      *)
(* bounds the cells the environment sends.  Its names differ from those of *)
(* IslipBasic, together with which it is extended.                         *)
(***************************************************************************)
EXTENDS PointerSwitch

CONSTANT Weights   \* m_weights[in][out]

ASSUME WrrAssumption == Weights \in [Inputs -> [Outputs -> Nat]]

\* What min(m_iterations, 1) may be.
OneIteration == Iterations \in {0, 1}

VARIABLE m_current_quota

wrrVars == <<vars, m_current_quota>>

WrrInit == PointerInit /\ m_current_quota = Weights

wrr_request(i, o) ==
  /\ i \in Inputs /\ o \in Outputs => HasRoom(i, o)
  /\ Arrive(i, o)
  /\ UNCHANGED <<pvars, m_current_quota>>

wrr_arbitration == StartSlot /\ UNCHANGED <<pvars, m_current_quota>>

\* The part of its weight that pair p has used is not larger than that of q:
\* the comparison of the two quotients, without the division.
UsedNoMore(p, q) ==
  LET Used(r) == Weights[r[1]][r[2]] - m_current_quota[r[1]][r[2]]
  IN  Used(p) * Weights[q[1]][q[2]] <= Used(q) * Weights[p[1]][p[2]]

\* Both searches look at the pairs with quota left first.
InQuota(p) == m_current_quota[p[1]][p[2]] > 0

\* For each output, the first input from m_g_ptr[o] on with the smallest share, or the first candidate when none has quota left.
select_wrr_input ==
  LET Rated(o) == {i \in GrantCandidates(o) : InQuota(<<i, o>>)}
      Best(o) == {i \in Rated(o) : \A k \in Rated(o) : UsedNoMore(<<i, o>>, <<k, o>>)}
  IN  [o \in GrantingOutputs |->
         FirstFrom(m_g_ptr[o], InputNum,
                   IF Rated(o) = {} THEN GrantCandidates(o) ELSE Best(o))]

\* Mutant of RoundOver: a round ends when one waiting input has no quota left.
RoundOverEarly(o) ==
  o \notin m_output_occupied /\ \E i \in GrantCandidates(o) : ~ InQuota(<<i, o>>)

\* No waiting input of output o has quota left.
RoundOver(o) ==
  o \notin m_output_occupied /\ \A i \in GrantCandidates(o) : ~ InQuota(<<i, o>>)

\* The second search of select_wrr_input() refills the quotas of the inputs
\* with traffic for the output.
GrantPhase ==
  /\ Grant(select_wrr_input)
  /\ m_current_quota' = [i \in Inputs |-> [o \in Outputs |->
        IF RoundOver(o) /\ m_voq[i][o] > 0 THEN Weights[i][o]
                                           ELSE m_current_quota[i][o]]]
  /\ UNCHANGED pvars

\* select_wrr_output(), over the outputs that grant the input.
select_wrr_output ==
  LET Rated(i) == {o \in AcceptCandidates(i) : InQuota(<<i, o>>)}
      Best(i) == {o \in Rated(i) : \A k \in Rated(i) : UsedNoMore(<<i, o>>, <<i, k>>)}
  IN  [i \in AcceptingInputs |->
         FirstFrom(m_a_ptr[i], OutputNum,
                   IF Rated(i) = {} THEN AcceptCandidates(i) ELSE Best(i))]

\* The second search of select_wrr_output() refills all quotas of the input.
\* A granted pair has quota left unless its weight is 0.
AcceptPhase ==
  /\ Accept(select_wrr_output)
  /\ m_current_quota' = [i \in Inputs |->
        IF /\ i \in AcceptingInputs
           /\ \A o \in AcceptCandidates(i) : ~ InQuota(<<i, o>>)
        THEN Weights[i] ELSE m_current_quota[i]]
  /\ UNCHANGED pvars

\* A served pair uses one of its quota.
UseQuota ==
  m_current_quota' = [i \in Inputs |-> [o \in Outputs |->
     IF <<i, o>> \in Matched THEN m_current_quota[i][o] - 1 ELSE m_current_quota[i][o]]]

ServePhase ==
  /\ Serve
  /\ UseQuota
  /\ m_g_ptr' = GrantPtrPast(Matched)
  /\ m_a_ptr' = AcceptPtrPast(Matched)

Return == SlotEnds /\ UNCHANGED <<pvars, m_current_quota>>

WrrSlot ==
  \/ wrr_arbitration
  \/ GrantPhase
  \/ AcceptPhase
  \/ ServePhase
  \/ Return

WrrNext == WrrSlot \/ \E a \in RequestArgs : wrr_request(a[1], a[2])

WrrSpec == WrrInit /\ [][WrrNext]_wrrVars

\* arbitration() runs to its return and is called again and again.
WrrFairSpec == WrrSpec /\ WF_wrrVars(WrrSlot)

-----------------------------------------------------------------------------

\* No pair is served beyond its quota: a quota never goes below zero, but for
\* a pair of weight 0, which is served on credit when nobody else waits.
QuotasKept ==
  /\ TypeOK
  /\ \A i \in Inputs, o \in Outputs :
       m_current_quota[i][o] \in
         (IF Weights[i][o] = 0 THEN -1 ELSE 0) .. Weights[i][o]
=============================================================================
