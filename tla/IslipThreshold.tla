--------------------------- MODULE IslipThreshold ---------------------------
(***************************************************************************)
(* modules/islip/islip_threshold.cpp: iSLIP in which an output grants the  *)
(* inputs whose queue for it has reached m_threshold before the others.    *)
(***************************************************************************)
EXTENDS PointerSwitch

CONSTANT Threshold   \* m_threshold

Init == PointerInit

request(i, o) == Arrive(i, o) /\ UNCHANGED pvars

arbitration == StartSlot /\ UNCHANGED pvars

\* The candidates of the first scan, over the queues at the threshold.
Critical(o) == {i \in GrantCandidates(o) : m_voq[i][o] >= Threshold}

\* Mutant of GrantScan: the first scan, for critical queues, is missing.
GrantScanOnce ==
  [o \in GrantingOutputs |->
     FirstFrom(m_g_ptr[o], InputNum, GrantCandidates(o))]

\* Both scans start at m_g_ptr[o]; the second runs only if the first finds no
\* input.
GrantScan ==
  [o \in GrantingOutputs |->
     FirstFrom(m_g_ptr[o], InputNum,
               IF Critical(o) # {} THEN Critical(o) ELSE GrantCandidates(o))]

do_grant == Grant(GrantScan) /\ UNCHANGED pvars

do_accept == Accept(AcceptScan) /\ UNCHANGED pvars

MovePointers ==
  /\ m_g_ptr' = IF m_iter_cnt = 0 THEN GrantPtrPast(Matched) ELSE m_g_ptr
  /\ m_a_ptr' = IF m_iter_cnt = 0 THEN AcceptPtrPast(Matched) ELSE m_a_ptr

update_pointers == Serve /\ MovePointers

Slot ==
  \/ arbitration
  \/ do_grant
  \/ do_accept
  \/ update_pointers
  \/ (SlotEnds /\ UNCHANGED pvars)

Next ==
  \/ \E a \in RequestArgs : request(a[1], a[2])
  \/ Slot

Spec == Init /\ [][Next]_vars

-----------------------------------------------------------------------------

\* A cell of a queue below the threshold crosses to an output only if every
\* input that has a critical queue for that output is matched elsewhere, in
\* whichever iteration the cell was chosen.  (A served pair has lost a cell.)
CriticalBeforeOthers ==
  pc = "grant" =>
    \A p \in sch_result :
      m_voq[p[1]][p[2]] + 1 < Threshold =>
        \A i \in Inputs \ m_input_occupied : m_voq[i][p[2]] < Threshold
=============================================================================
