----------------------------- MODULE IslipBasic -----------------------------
(***************************************************************************)
(* modules/islip/islip_basic.cpp: iSLIP.  The grant and accept pointers    *)
(* move past a pair only when the grant is accepted, and only in the first *)
(* iteration of a slot.                                                    *)
(***************************************************************************)
EXTENDS PointerSwitch

Init == PointerInit

request(i, o) == Arrive(i, o) /\ UNCHANGED pvars

arbitration == StartSlot /\ UNCHANGED pvars
\* The grant scan: from m_g_ptr[o] over the unmatched inputs with a cell for o.
GrantScan ==
  [o \in GrantingOutputs |->
     FirstFrom(m_g_ptr[o], InputNum, GrantCandidates(o))]

do_grant == Grant(GrantScan) /\ UNCHANGED pvars

do_accept == Accept(AcceptScan) /\ UNCHANGED pvars

\* Mutant of MovePointers: every iteration moves the pointers.
MovePointersAlways ==
  /\ m_g_ptr' = GrantPtrPast(Matched)
  /\ m_a_ptr' = AcceptPtrPast(Matched)

\* The pointers move past the served pairs in the first iteration only.
MovePointers ==
  /\ m_g_ptr' = IF m_iter_cnt = 0 THEN GrantPtrPast(Matched) ELSE m_g_ptr
  /\ m_a_ptr' = IF m_iter_cnt = 0 THEN AcceptPtrPast(Matched) ELSE m_a_ptr

update_pointers == Serve /\ MovePointers

Next ==
  \/ \E a \in RequestArgs : request(a[1], a[2])
  \/ arbitration
  \/ do_grant
  \/ do_accept
  \/ update_pointers
  \/ (SlotEnds /\ UNCHANGED pvars)

Spec == Init /\ [][Next]_vars

\* arbitration() contains no blocking call: once entered it runs to its return,
\* and the caller goes on scheduling slots.
Slot ==
  \/ arbitration
  \/ do_grant
  \/ do_accept
  \/ update_pointers
  \/ (SlotEnds /\ UNCHANGED pvars)

FairSpec == Spec /\ WF_vars(Slot)

-----------------------------------------------------------------------------

\* An output's pointer leaves its place only to go one past an input whose
\* cell for it is served in the first iteration, and that input's pointer
\* goes one past the output: until then the output goes on granting the same
\* input.  This is what separates iSLIP from RRM.
PointerMovesOnAcceptOnly ==
  [][\A o \in Outputs :
       m_g_ptr'[o] # m_g_ptr[o] =>
         \E i \in Inputs : /\ <<i, o>> \in sch_result' \ sch_result
                           /\ m_g_ptr'[o] = (i + 1) % InputNum
                           /\ m_a_ptr'[i] = (o + 1) % OutputNum
                           /\ m_iter_cnt = 0]_vars
=============================================================================
