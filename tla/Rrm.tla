--------------------------------- MODULE Rrm --------------------------------
(***************************************************************************)
(* modules/islip/rrm.cpp: Round-Robin Matching.  A grant moves the output's *)
(* pointer whether or not it is accepted, and every iteration moves it.    *)
(***************************************************************************)
EXTENDS PointerSwitch

Init == PointerInit

\* A caller may stagger the pointers before it uses the scheduler.  They index
\* inputs but are reduced modulo m_output_num: with more outputs than inputs
\* the scan of do_grant() would read past the queues, and it is not called.
init_priority_ptr ==
  /\ pc = "idle"
  /\ OutputNum <= InputNum
  /\ m_g_ptr' = [o \in Outputs |-> (o + 1) % OutputNum]
  /\ UNCHANGED <<svars, m_a_ptr>>

request(i, o) == Arrive(i, o) /\ UNCHANGED pvars

arbitration == StartSlot /\ UNCHANGED pvars

\* Mutant of GrantScan: the output grants the input its pointer names without
\* looking for a request.
GrantWithoutScan == [o \in GrantingOutputs |-> m_g_ptr[o]]

GrantScan ==
  [o \in GrantingOutputs |->
     FirstFrom(m_g_ptr[o], InputNum, GrantCandidates(o))]

do_grant ==
  /\ Grant(GrantScan)
  /\ m_g_ptr' = GrantPtrPast(m_grants')
  /\ UNCHANGED m_a_ptr

do_accept ==
  /\ Accept(AcceptScan)
  /\ m_a_ptr' = AcceptPtrPast(m_accepts')
  /\ UNCHANGED m_g_ptr

update_pointers == Serve /\ UNCHANGED pvars

Slot ==
  \/ arbitration
  \/ do_grant
  \/ do_accept
  \/ update_pointers
  \/ (SlotEnds /\ UNCHANGED pvars)

Next ==
  \/ \E a \in RequestArgs : request(a[1], a[2])
  \/ init_priority_ptr
  \/ Slot

Spec == Init /\ [][Next]_vars
=============================================================================
