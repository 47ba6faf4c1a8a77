--------------------------------- MODULE Pim --------------------------------
(***************************************************************************)
(* modules/islip/pim.cpp: Parallel Iterative Matching.  Each output grants *)
(* a random input among those that request it, each input accepts a random *)
(* output among those that grant it.  The draws of the Mersenne twister    *)
(* are a nondeterministic choice, which makes this module the common       *)
(* abstraction of the schedulers that choose by pointers.                  *)
(***************************************************************************)
EXTENDS VoqSwitch

Init == SwitchInit

request(i, o) == Arrive(i, o)

arbitration == StartSlot

do_grant ==
  \E pick \in [GrantingOutputs -> Inputs] :
    /\ \A o \in GrantingOutputs : pick[o] \in GrantCandidates(o)
    /\ Grant(pick)

do_accept ==
  \E pick \in [AcceptingInputs -> Outputs] :
    /\ \A i \in AcceptingInputs : pick[i] \in AcceptCandidates(i)
    /\ Accept(pick)

update_pointers == Serve

Next ==
  \/ \E a \in RequestArgs : request(a[1], a[2])
  \/ arbitration
  \/ do_grant
  \/ do_accept
  \/ update_pointers
  \/ SlotEnds

Spec == Init /\ [][Next]_svars
=============================================================================
