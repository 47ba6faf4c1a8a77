---------------------------- MODULE PointerSwitch ---------------------------
(***************************************************************************)
(* The round-robin pointers that islip_basic, rrm and islip_threshold add  *)
(* to the members of VoqSwitch: m_g_ptr[o] is where the grant scan of      *)
(* output o starts, m_a_ptr[i] where the accept scan of input i starts.    *)
(***************************************************************************)
EXTENDS VoqSwitch, RoundRobin

VARIABLES m_g_ptr, m_a_ptr

pvars == <<m_g_ptr, m_a_ptr>>
vars == <<svars, pvars>>

PointerInit ==
  /\ SwitchInit
  /\ m_g_ptr = [o \in Outputs |-> 0]
  /\ m_a_ptr = [i \in Inputs |-> 0]

\* The accept scan of do_accept(): from m_a_ptr[i] over the outputs that
\* grant input i.
AcceptScan ==
  [i \in AcceptingInputs |->
     FirstFrom(m_a_ptr[i], OutputNum, AcceptCandidates(i))]

\* Mutant of GrantPtrPast: the pointer stays on the served input.
GrantPtrOn(M) ==
  [o \in Outputs |-> IF \E i \in Inputs : <<i, o>> \in M
                     THEN CHOOSE i \in Inputs : <<i, o>> \in M
                     ELSE m_g_ptr[o]]

\* Pointers one past the pairs of M; the other pointers stay.
GrantPtrPast(M) ==
  [o \in Outputs |-> IF \E i \in Inputs : <<i, o>> \in M
                     THEN ((CHOOSE i \in Inputs : <<i, o>> \in M) + 1) % InputNum
                     ELSE m_g_ptr[o]]
AcceptPtrPast(M) ==
  [i \in Inputs |-> IF \E o \in Outputs : <<i, o>> \in M
                    THEN ((CHOOSE o \in Outputs : <<i, o>> \in M) + 1) % OutputNum
                    ELSE m_a_ptr[i]]

-----------------------------------------------------------------------------

\* The pointers index a port and the other variables are well typed.
TypeOK ==
  /\ SwitchTypeOK
  /\ m_g_ptr \in [Outputs -> Inputs]
  /\ m_a_ptr \in [Inputs -> Outputs]

Matcher == INSTANCE Pim

\* The scheduler is a way of making the choices that pim leaves to chance:
\* each output grants one input that requests it, each input accepts one
\* output that grants it, and every request or grant is answered.
ImplementsPim == Matcher!Spec
=============================================================================
