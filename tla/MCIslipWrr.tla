----------------------------- MODULE MCIslipWrr -----------------------------
(* Weights for the runs of IslipWrr. *)
EXTENDS IslipWrr

\* 2 and 1 for the first output, 1 and 0 for the second.
MCWeights == [i \in Inputs |-> [o \in Outputs |-> 2 - i - o]]
=============================================================================
