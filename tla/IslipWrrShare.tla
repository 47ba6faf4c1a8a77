---------------------------- MODULE IslipWrrShare ---------------------------
(***************************************************************************)
(* The share of output 0 that two inputs of IslipWrr get while both have   *)
(* cells waiting, measured by a history variable.                          *)
(***************************************************************************)
EXTENDS MCIslipWrr

VARIABLE lag   \* cells served of input 0 times the weight of input 1, less
               \* those of input 1 times the weight of input 0, since one of
               \* the two queues was empty

shareVars == <<wrrVars, lag>>

ShareInit == WrrInit /\ lag = 0

\* What a slot adds to lag when it ends.
Gain ==
  (IF <<0, 0>> \in sch_result THEN Weights[1][0] ELSE 0) -
  (IF <<1, 0>> \in sch_result THEN Weights[0][0] ELSE 0)

ShareNext ==
  /\ WrrNext
  /\ lag' = CASE Return -> lag + Gain
              [] wrr_arbitration /\ (m_voq[0][0] = 0 \/ m_voq[1][0] = 0) -> 0
              [] OTHER -> lag

ShareSpec == ShareInit /\ [][ShareNext]_shareVars

\* While both inputs stay backlogged, the output serves them in proportion to
\* their weights: what one is ahead of the other never grows beyond what two
\* rounds of quotas allow, however long the backlog lasts; no quota is overdrawn.
Proportional ==
  LET bound == 2 * Weights[0][0] * Weights[1][0]
  IN  lag \in -bound .. bound /\ QuotasKept
=============================================================================
