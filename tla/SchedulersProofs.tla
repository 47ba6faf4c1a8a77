--------------------------- MODULE SchedulersProofs -------------------------
(***************************************************************************)
(* rrm.cpp, islip_basic.cpp, islip_threshold.cpp and pim.cpp for every     *)
(* number of ports, iterations and queue places: each implements pim, and  *)
(* with it the crossbar.  The pointers of islip_basic.cpp move only past a *)
(* pair whose cell is served in the first iteration, and islip_threshold.- *)
(* cpp serves critical queues first, for every threshold.  islip_wrr.cpp   *)
(* implements pim with all weights, and serves two backlogged inputs in    *)
(* proportion to theirs.                                                   *)
(***************************************************************************)
EXTENDS Schedulers, IslipBasic, IslipWrrShare, Lemmas

-----------------------------------------------------------------------------
(* pim.cpp: the slot invariant, the refinement of the crossbar and the     *)
(* progress of the iterations, which every scheduler that implements pim   *)
(* inherits.                                                               *)

\* The inductive invariant: the slot invariant of the run, with the types.
SwitchInv == SwitchTypeOK /\ SlotInv

\* The phases of pim.cpp in the terms of VoqSwitch: whatever the draws are.
PimGrant ==
  \E pick \in [GrantingOutputs -> Inputs] :
    /\ \A o \in GrantingOutputs : pick[o] \in GrantCandidates(o)
    /\ Grant(pick)
PimAccept ==
  \E pick \in [AcceptingInputs -> Outputs] :
    /\ \A i \in AcceptingInputs : pick[i] \in AcceptCandidates(i)
    /\ Accept(pick)

PimNext ==
  \/ \E a \in RequestArgs : Arrive(a[1], a[2])
  \/ StartSlot
  \/ PimGrant
  \/ PimAccept
  \/ Serve
  \/ SlotEnds

\* Pim declares the state of VoqSwitch again; its steps are these.
LEMMA SamePim ==
  /\ Matcher!Init => SwitchInit
  /\ [Matcher!Next]_(Matcher!svars) => [PimNext]_svars
<1>1. Matcher!Init => SwitchInit
  BY DEF Matcher!Init, Matcher!SwitchInit, SwitchInit, Matcher!Inputs, Matcher!Outputs,
         Inputs, Outputs
<1>2. [Matcher!Next]_(Matcher!svars) => [PimNext]_svars
  BY DEF Matcher!svars, svars, Matcher!slotVars, slotVars, Matcher!Next,
         PimNext, Matcher!RequestArgs, RequestArgs, Matcher!request,
         Matcher!arbitration, Matcher!do_grant, PimGrant, Matcher!do_accept, PimAccept,
         Matcher!update_pointers, Matcher!SlotEnds, SlotEnds, Matcher!Arrive, Arrive,
         Matcher!HasRoom, HasRoom, Matcher!StartSlot, StartSlot, Matcher!Grant, Grant,
         Matcher!Accept, Accept, Matcher!Serve, Serve,
         Matcher!OccupyPorts, OccupyPorts, Matcher!TakeCells, TakeCells,
         Matcher!Matched, Matched, Matcher!GrantCandidates, GrantCandidates,
         Matcher!GrantingOutputs, GrantingOutputs, Matcher!AcceptCandidates, AcceptCandidates,
         Matcher!AcceptingInputs, AcceptingInputs, Matcher!Open, Open,
         Matcher!Inputs, Inputs, Matcher!Outputs, Outputs
<1> QED
  BY <1>1, <1>2

\* Splits a step of the scheduler into its actions.
LEMMA PimSteps ==
  ASSUME [PimNext]_svars
  PROVE  \/ \E i \in -1 .. InputNum, o \in -1 .. OutputNum : Arrive(i, o)
         \/ StartSlot
         \/ PimGrant
         \/ PimAccept
         \/ Serve
         \/ SlotEnds
         \/ UNCHANGED svars
  BY DEF PimNext, RequestArgs

\* The ports update_pointers() finds unmatched are those of all the accepts.
LEMMA MatchedIsAccepts ==
  ASSUME SwitchInv
  PROVE  /\ Matched = m_accepts
         /\ \A p \in Matched : Open(p)
         /\ IsMatching(Matched)
  BY DEF SwitchInv, SlotInv, GrantsSound, AcceptsMatch, Matched, Open

\* Every step keeps the variables well typed; in update_pointers() that rests
\* on the accepted queues being nonempty.
LEMMA PimTypeStep ==
  ASSUME SwitchInv, [PimNext]_svars
  PROVE  SwitchTypeOK'
<1> USE SwitchAssumption DEF SwitchInv, SwitchTypeOK, slotVars, svars
<1>1. ASSUME NEW i \in -1 .. InputNum, NEW o \in -1 .. OutputNum, Arrive(i, o)
      PROVE  SwitchTypeOK'
  BY <1>1 DEF Arrive, HasRoom
<1>2. CASE StartSlot
  BY <1>2 DEF StartSlot
<1>3. CASE PimGrant
  <2>1. PICK pick \in [GrantingOutputs -> Inputs] : Grant(pick)
    BY <1>3 DEF PimGrant
  <2>2. \A o \in GrantingOutputs : <<pick[o], o>> \in Pairs
    BY <2>1 DEF GrantingOutputs, Pairs
  <2>3. m_grants' \in SUBSET Pairs
    BY <2>1, <2>2 DEF Grant
  <2> QED
    BY <2>1, <2>3 DEF Grant
<1>4. CASE PimAccept
  <2>1. PICK pick \in [AcceptingInputs -> Outputs] : Accept(pick)
    BY <1>4 DEF PimAccept
  <2>2. \A i \in AcceptingInputs : <<i, pick[i]>> \in Pairs
    BY <2>1 DEF AcceptingInputs, Pairs
  <2>3. m_accepts' \in SUBSET Pairs
    BY <2>1, <2>2 DEF Accept
  <2> QED
    BY <2>1, <2>3 DEF Accept
<1>5. CASE Serve
  <2>1. Matched \in SUBSET Pairs
    BY DEF Matched
  <2>2. \A i \in Inputs, o \in Outputs :
          <<i, o>> \in Matched => m_voq[i][o] \in 1 .. VoqSize
    BY MatchedIsAccepts DEF Open
  <2>3. m_voq' \in [Inputs -> [Outputs -> 0 .. VoqSize]]
    BY <1>5, <2>2 DEF Serve, TakeCells
  <2>4. /\ m_input_occupied' \in SUBSET Inputs
        /\ m_output_occupied' \in SUBSET Outputs
        /\ sch_result' \in SUBSET Pairs
    BY <1>5, <2>1 DEF Serve, OccupyPorts, Pairs
  <2>5. m_iter_cnt' \in 0 .. Iterations
    BY <1>5 DEF Serve, SlotInv, PhaseSound
  <2> QED
    BY <1>5, <2>3, <2>4, <2>5 DEF Serve
<1>6. CASE SlotEnds
  BY <1>6 DEF SlotEnds
<1>7. CASE UNCHANGED svars
  BY <1>7
<1> QED
  BY <1>1, <1>2, <1>3, <1>4, <1>5, <1>6, <1>7, PimSteps

\* Every step keeps the slot invariant.
LEMMA PimSlotStep ==
  ASSUME SwitchInv, [PimNext]_svars
  PROVE  SlotInv'
<1> USE DEF SwitchInv, SlotInv, slotVars, svars
<1>1. ASSUME NEW i \in -1 .. InputNum, NEW o \in -1 .. OutputNum, Arrive(i, o)
      PROVE  SlotInv'
  <2>1. m_grants = {} /\ m_accepts = {}
    BY <1>1 DEF Arrive, PhaseSound
  <2> QED
    BY <1>1, <2>1 DEF Arrive, GrantsSound, AcceptsMatch, ResultSound, PhaseSound,
                      IsMatching, Abstract!IsMatching
<1>2. CASE StartSlot
  BY <1>2 DEF StartSlot, GrantsSound, AcceptsMatch, ResultSound, PhaseSound,
              IsMatching, Abstract!IsMatching
<1>3. CASE PimGrant
  <2>1. PICK pick \in [GrantingOutputs -> Inputs] :
          /\ \A o \in GrantingOutputs : pick[o] \in GrantCandidates(o)
          /\ Grant(pick)
    BY <1>3 DEF PimGrant
  <2>2. m_grants' = {<<pick[o], o>> : o \in GrantingOutputs} /\ m_accepts' = {}
    BY <2>1 DEF Grant, PhaseSound
  <2>3. \A o \in GrantingOutputs : Open(<<pick[o], o>>)
    BY <2>1 DEF GrantCandidates
  <2>4. \A p : Open(p)' <=> Open(p)
    BY <2>1 DEF Grant, Open
  <2>5. GrantsSound'
    BY <2>2, <2>3, <2>4 DEF GrantsSound
  <2>6. AcceptsMatch'
    BY <2>2 DEF AcceptsMatch, IsMatching, Abstract!IsMatching
  <2>7. ResultSound' /\ PhaseSound'
    BY <2>1, <2>2 DEF Grant, ResultSound, PhaseSound, IsMatching, Abstract!IsMatching
  <2> QED
    BY <2>5, <2>6, <2>7
<1>4. CASE PimAccept
  <2>1. PICK pick \in [AcceptingInputs -> Outputs] :
          /\ \A i \in AcceptingInputs : pick[i] \in AcceptCandidates(i)
          /\ Accept(pick)
    BY <1>4 DEF PimAccept
  <2>2. m_accepts' = {<<i, pick[i]>> : i \in AcceptingInputs} /\ m_grants' = m_grants
    BY <2>1 DEF Accept, PhaseSound
  <2>3. \A i \in AcceptingInputs : <<i, pick[i]>> \in m_grants
    BY <2>1 DEF AcceptCandidates
  <2>4. GrantsSound'
    BY <2>1, <2>2 DEF Accept, GrantsSound, Open
  <2>5. AcceptsMatch'
    BY <2>2, <2>3 DEF AcceptsMatch, GrantsSound, IsMatching, Abstract!IsMatching
  <2>6. ResultSound' /\ PhaseSound'
    BY <2>1 DEF Accept, ResultSound, PhaseSound, IsMatching, Abstract!IsMatching
  <2> QED
    BY <2>4, <2>5, <2>6
<1>5. CASE Serve
  <2>1. m_grants' = {} /\ m_accepts' = {} /\ pc' = "grant"
    BY <1>5 DEF Serve
  <2>2. GrantsSound' /\ AcceptsMatch' /\ PhaseSound'
    BY <2>1 DEF GrantsSound, AcceptsMatch, PhaseSound, IsMatching, Abstract!IsMatching
  <2>3. IsMatching(sch_result \cup Matched)
    BY MatchedIsAccepts DEF ResultSound, Open, IsMatching, Abstract!IsMatching
  <2>4. ResultSound'
    BY <1>5, <2>3 DEF Serve, OccupyPorts, ResultSound, IsMatching, Abstract!IsMatching
  <2> QED
    BY <2>2, <2>4
<1>6. CASE SlotEnds
  BY <1>6 DEF SlotEnds, GrantsSound, AcceptsMatch, ResultSound, PhaseSound, Open,
              IsMatching, Abstract!IsMatching
<1>7. CASE UNCHANGED svars
  BY <1>7 DEF GrantsSound, AcceptsMatch, ResultSound, PhaseSound, Open,
              IsMatching, Abstract!IsMatching
<1> QED
  BY <1>1, <1>2, <1>3, <1>4, <1>5, <1>6, <1>7, PimSteps

\* pim.cpp: in every slot, whatever the random draws, the grants and accepts
\* name only pairs that can be served and no port is matched twice; no queue
\* goes below zero or beyond m_voq_size.
THEOREM PimSlotSafe == Matcher!Spec => [](SwitchTypeOK /\ SlotInv)
<1>1. SwitchInit => SwitchInv
  BY SwitchAssumption
     DEF SwitchInit, SwitchInv, SwitchTypeOK, SlotInv, GrantsSound, AcceptsMatch,
         ResultSound, PhaseSound, IsMatching, Abstract!IsMatching
<1>2. SwitchInv /\ [PimNext]_svars => SwitchInv'
  BY PimTypeStep, PimSlotStep DEF SwitchInv
<1>3. SwitchInv => SwitchTypeOK /\ SlotInv
  BY DEF SwitchInv
<1> QED
  BY <1>1, <1>2, <1>3, SamePim, PTL DEF Matcher!Spec

\* A step of pim is a step of the crossbar, or leaves queues and result alone.
LEMMA PimRefinesStep ==
  ASSUME SwitchInv, [PimNext]_svars
  PROVE  [Abstract!Next]_(Abstract!vars)
<1> USE DEF Abstract!vars, slotVars, svars
<1>1. ASSUME NEW i \in -1 .. InputNum, NEW o \in -1 .. OutputNum, Arrive(i, o)
      PROVE  [Abstract!Next]_(Abstract!vars)
  <2>1. CASE i \in Inputs /\ o \in Outputs /\ HasRoom(i, o)
    <3>1. Abstract!Enqueue(i, o)
      BY <1>1, <2>1 DEF Arrive, HasRoom, Abstract!Enqueue
    <3> QED
      BY <2>1, <3>1 DEF Abstract!Next
  <2>2. CASE ~ (i \in Inputs /\ o \in Outputs /\ HasRoom(i, o))
    BY <1>1, <2>2 DEF Arrive
  <2> QED
    BY <2>1, <2>2
<1>2. CASE StartSlot
  BY <1>2 DEF StartSlot, Abstract!Next, Abstract!StartSlot
<1>3. CASE PimGrant
  BY <1>3 DEF PimGrant, Grant
<1>4. CASE PimAccept
  BY <1>4 DEF PimAccept, Accept
<1>5. CASE Serve
  <2>1. Matched \in SUBSET (Inputs \X Outputs)
    BY DEF SwitchInv, SwitchTypeOK, Matched, Pairs
  <2>2. \A p \in Matched : m_voq[p[1]][p[2]] > 0
    BY MatchedIsAccepts DEF Open
  <2>3. sch_result \cap Matched = {}
    BY DEF SwitchInv, SlotInv, ResultSound, Matched
  <2>4. sch_result' = sch_result \cup Matched /\ IsMatching(sch_result')
    BY <1>5, PimSlotStep DEF Serve, SlotInv, ResultSound, IsMatching
  <2>5. Abstract!Dispatch(Matched)
    BY <1>5, <2>2, <2>3, <2>4 DEF Abstract!Dispatch, IsMatching, Serve, TakeCells
  <2> QED
    BY <2>1, <2>5 DEF Abstract!Next
<1>6. CASE SlotEnds
  BY <1>6 DEF SlotEnds
<1>7. CASE UNCHANGED svars
  BY <1>7
<1> QED
  BY <1>1, <1>2, <1>3, <1>4, <1>5, <1>6, <1>7, PimSteps

\* pim.cpp implements the crossbar: it sends only cells that are queued, uses
\* no port twice in a slot, and neither loses nor invents a cell.
THEOREM PimImplementsCrossbar == Matcher!Spec => ImplementsCrossbar
<1>1. SwitchInit => Abstract!Init
  BY DEF SwitchInit, Abstract!Init
<1>2. SwitchInv /\ [PimNext]_svars => [Abstract!Next]_(Abstract!vars)
  BY PimRefinesStep
<1>3. Matcher!Spec => []SwitchInv
  BY PimSlotSafe, PTL DEF SwitchInv
<1> QED
  BY <1>1, <1>2, <1>3, SamePim, PTL DEF Matcher!Spec, ImplementsCrossbar, Abstract!Spec

-----------------------------------------------------------------------------
(* Progress of the iterations.                                             *)

\* There is a pair left to match.
SomeOpen == \E p \in Pairs : Open(p)

\* IterationProgress carried through the phases of an iteration: while a pair
\* is open, some output has granted and some input has accepted.
ProgressInv ==
  /\ pc # "idle" /\ SomeOpen => Cardinality(sch_result) >= m_iter_cnt
  /\ pc = "accept" /\ SomeOpen => m_grants # {}
  /\ pc = "update" /\ SomeOpen => m_accepts # {}

\* A set of pairs of ports is finite.
LEMMA PairsFinite ==
  ASSUME NEW M \in SUBSET Pairs
  PROVE  IsFiniteSet(M) /\ Cardinality(M) \in Nat
<1>1. IsFiniteSet(Inputs) /\ IsFiniteSet(Outputs)
  <2>1. InputNum - 1 \in Int /\ OutputNum - 1 \in Int
    BY SwitchAssumption
  <2> QED
    BY <2>1, FS_Interval DEF Inputs, Outputs
<1>2. IsFiniteSet(Pairs)
  BY <1>1, FS_Product DEF Pairs
<1>3. IsFiniteSet(M)
  BY <1>2, FS_Subset
<1> QED
  BY <1>3, FS_CardinalityType

\* An iteration that starts with an open pair adds a pair to the result; one
\* that starts with none leaves none.
LEMMA PimProgressStep ==
  ASSUME SwitchInv, ProgressInv, [PimNext]_svars
  PROVE  ProgressInv'
<1> USE DEF slotVars, svars
<1>1. ASSUME NEW i \in -1 .. InputNum, NEW o \in -1 .. OutputNum, Arrive(i, o)
      PROVE  ProgressInv'
  BY <1>1 DEF Arrive, ProgressInv
<1>2. CASE StartSlot
  <2>1. Cardinality(sch_result') = 0
    BY <1>2, FS_EmptySet DEF StartSlot
  <2> QED
    BY <1>2, <2>1 DEF StartSlot, ProgressInv
<1>3. CASE PimGrant
  <2>1. PICK pick \in [GrantingOutputs -> Inputs] : Grant(pick)
    BY <1>3 DEF PimGrant
  <2>2. SomeOpen' <=> SomeOpen
    BY <2>1 DEF Grant, SomeOpen, Open
  <2>3. ASSUME SomeOpen  PROVE m_grants' # {}
    <3>1. PICK p \in Pairs : Open(p)
      BY <2>3 DEF SomeOpen
    <3>2. p[2] \in GrantingOutputs
      <4>1. p = <<p[1], p[2]>> /\ p[1] \in Inputs /\ p[2] \in Outputs
        BY DEF Pairs
      <4>2. p[1] \in GrantCandidates(p[2])
        BY <3>1, <4>1 DEF GrantCandidates, Open
      <4> QED
        BY <4>1, <4>2 DEF GrantingOutputs
    <3> QED
      BY <2>1, <3>2 DEF Grant
  <2> QED
    BY <2>1, <2>2, <2>3 DEF Grant, ProgressInv
<1>4. CASE PimAccept
  <2>1. PICK pick \in [AcceptingInputs -> Outputs] : Accept(pick)
    BY <1>4 DEF PimAccept
  <2>2. SomeOpen' <=> SomeOpen
    BY <2>1 DEF Accept, SomeOpen, Open
  <2>3. ASSUME SomeOpen  PROVE m_accepts' # {}
    <3>1. PICK p \in m_grants : Open(p)
      BY <2>1, <2>3 DEF ProgressInv, Accept, SwitchInv, SlotInv, GrantsSound
    <3>2. p = <<p[1], p[2]>> /\ p[1] \in Inputs /\ p[2] \in Outputs
      BY DEF SwitchInv, SwitchTypeOK, Pairs
    <3>3. p[1] \in AcceptingInputs
      BY <3>1, <3>2 DEF AcceptingInputs, AcceptCandidates, Open
    <3> QED
      BY <2>1, <3>3 DEF Accept
  <2> QED
    BY <2>1, <2>2, <2>3 DEF Accept, ProgressInv
<1>5. CASE Serve
  <2>1. SomeOpen' => SomeOpen
    <3>1. ASSUME NEW p \in Pairs, Open(p)'  PROVE Open(p)
      <4>1. m_voq'[p[1]][p[2]] <= m_voq[p[1]][p[2]]
        BY <1>5 DEF Serve, TakeCells, Pairs, SwitchInv, SwitchTypeOK
      <4>2. p[1] \in Inputs /\ p[2] \in Outputs
        BY DEF Pairs
      <4>3. m_voq[p[1]][p[2]] \in Int /\ m_voq'[p[1]][p[2]] \in Int
        BY <1>5, <4>2 DEF Serve, TakeCells, SwitchInv, SwitchTypeOK
      <4> QED
        BY <1>5, <3>1, <4>1, <4>3 DEF Serve, OccupyPorts, Open
    <3> QED
      BY <3>1 DEF SomeOpen, Pairs, Inputs, Outputs
  <2>2. ASSUME SomeOpen  PROVE Cardinality(sch_result') >= m_iter_cnt'
    <3>1. PICK q \in Matched : q \notin sch_result
      BY <1>5, <2>2, MatchedIsAccepts
         DEF ProgressInv, Serve, Open, SwitchInv, SlotInv, ResultSound
    <3>2. sch_result' = sch_result \cup Matched
      BY <1>5 DEF Serve
    <3>3. Cardinality(sch_result \cup {q}) = Cardinality(sch_result) + 1
      BY <3>1, PairsFinite, FS_AddElement DEF SwitchInv, SwitchTypeOK
    <3>4. IsFiniteSet(sch_result') /\ Cardinality(sch_result') \in Nat
      BY PimTypeStep, PairsFinite DEF SwitchTypeOK
    <3>5. sch_result \cup {q} \subseteq sch_result'
      BY <3>1, <3>2
    <3>6. Cardinality(sch_result \cup {q}) <= Cardinality(sch_result')
      BY <3>4, <3>5, FS_Subset
    <3>7. Cardinality(sch_result) >= m_iter_cnt
      BY <1>5, <2>2 DEF ProgressInv, Serve
    <3> QED
      BY <1>5, <3>3, <3>4, <3>6, <3>7, PairsFinite DEF Serve, SwitchInv, SwitchTypeOK
  <2> QED
    BY <1>5, <2>1, <2>2 DEF Serve, ProgressInv
<1>6. CASE SlotEnds
  BY <1>6 DEF SlotEnds, ProgressInv
<1>7. CASE UNCHANGED svars
  BY <1>7 DEF ProgressInv, SomeOpen, Open
<1> QED
  BY <1>1, <1>2, <1>3, <1>4, <1>5, <1>6, <1>7, PimSteps

\* pim.cpp: k iterations match k pairs unless no pair is left to match, so
\* that min(m_input_num, m_output_num) iterations give a maximal matching.
THEOREM PimProgress == Matcher!Spec => []IterationProgress
<1>1. SwitchInit => ProgressInv
  BY DEF SwitchInit, ProgressInv
<1>2. SwitchInv /\ ProgressInv /\ [PimNext]_svars => ProgressInv'
  BY PimProgressStep
<1>3. ProgressInv => IterationProgress
  BY DEF ProgressInv, IterationProgress, SomeOpen
<1>4. Matcher!Spec => []SwitchInv
  BY PimSlotSafe, PTL DEF SwitchInv
<1> QED
  BY <1>1, <1>2, <1>3, <1>4, SamePim, PTL DEF Matcher!Spec

-----------------------------------------------------------------------------
(* What the schedulers share: the pointers index a port, and a scan makes  *)
(* one of the choices that pim leaves to chance.                           *)

\* The pointers index a port.
PointersOK ==
  /\ m_g_ptr \in [Outputs -> Inputs]
  /\ m_a_ptr \in [Inputs -> Outputs]

\* Moving pointers past any set of pairs keeps them in range.
LEMMA PtrPastInRange ==
  ASSUME PointersOK, NEW M
  PROVE  /\ GrantPtrPast(M) \in [Outputs -> Inputs]
         /\ AcceptPtrPast(M) \in [Inputs -> Outputs]
<1>1. \A k \in Int : k % InputNum \in Inputs /\ k % OutputNum \in Outputs
  BY SwitchAssumption DEF Inputs, Outputs
<1>2. ASSUME NEW o \in Outputs, \E i \in Inputs : <<i, o>> \in M
      PROVE  ((CHOOSE i \in Inputs : <<i, o>> \in M) + 1) % InputNum \in Inputs
  BY <1>1, <1>2 DEF Inputs
<1>3. ASSUME NEW i \in Inputs, \E o \in Outputs : <<i, o>> \in M
      PROVE  ((CHOOSE o \in Outputs : <<i, o>> \in M) + 1) % OutputNum \in Outputs
  BY <1>1, <1>3 DEF Outputs
<1>4. GrantPtrPast(M) \in [Outputs -> Inputs]
  BY <1>2 DEF PointersOK, GrantPtrPast
<1>5. AcceptPtrPast(M) \in [Inputs -> Outputs]
  BY <1>3 DEF PointersOK, AcceptPtrPast
<1> QED
  BY <1>4, <1>5

\* A scan for the grant of output o that looks at some of its candidates
\* takes one of them.
LEMMA GrantScanMember ==
  ASSUME PointersOK, NEW o \in Outputs,
         NEW S \in SUBSET GrantCandidates(o), S # {}
  PROVE  FirstFrom(m_g_ptr[o], InputNum, S) \in S
<1>1. m_g_ptr[o] \in 0 .. InputNum - 1
  BY DEF PointersOK, Inputs
<1>2. S \in SUBSET (0 .. InputNum - 1)
  BY DEF GrantCandidates, Inputs
<1> QED
  BY <1>1, <1>2, SwitchAssumption, FirstFromMember

\* The accept scan is one of the choices pim may make.
LEMMA AcceptScanChoice ==
  ASSUME PointersOK
  PROVE  /\ AcceptScan \in [AcceptingInputs -> Outputs]
         /\ \A i \in AcceptingInputs : AcceptScan[i] \in AcceptCandidates(i)
<1>1. ASSUME NEW i \in AcceptingInputs
      PROVE  FirstFrom(m_a_ptr[i], OutputNum, AcceptCandidates(i)) \in AcceptCandidates(i)
  <2>1. m_a_ptr[i] \in 0 .. OutputNum - 1
    BY DEF PointersOK, AcceptingInputs, Outputs
  <2>2. /\ AcceptCandidates(i) \in SUBSET (0 .. OutputNum - 1)
        /\ AcceptCandidates(i) # {}
    BY DEF AcceptingInputs, AcceptCandidates, Outputs
  <2> QED
    BY <2>1, <2>2, SwitchAssumption, FirstFromMember
<1>2. \A i \in AcceptingInputs : AcceptCandidates(i) \subseteq Outputs
  BY DEF AcceptCandidates
<1> QED
  BY <1>1, <1>2 DEF AcceptScan

-----------------------------------------------------------------------------
(* The phases of a scheduler as steps of pim.                              *)

\* The candidates of the two modules are the same.
LEMMA SameCandidates ==
  /\ Matcher!GrantingOutputs = GrantingOutputs
  /\ Matcher!AcceptingInputs = AcceptingInputs
  /\ Matcher!Inputs = Inputs /\ Matcher!Outputs = Outputs
  /\ \A o : Matcher!GrantCandidates(o) = GrantCandidates(o)
  /\ \A i : Matcher!AcceptCandidates(i) = AcceptCandidates(i)
  BY DEF Matcher!Open, Matcher!GrantCandidates, Matcher!GrantingOutputs,
         Matcher!AcceptCandidates, Matcher!AcceptingInputs, Matcher!Inputs,
         Matcher!Outputs, Open, GrantCandidates, GrantingOutputs,
         AcceptCandidates, AcceptingInputs, Inputs, Outputs

\* A request, the start and the end of a slot, and the service of the accepted
\* pairs are the same in all schedulers.
LEMMA CommonSteps ==
  ASSUME \/ \E a \in RequestArgs : Arrive(a[1], a[2])
         \/ StartSlot
         \/ Serve
         \/ SlotEnds
  PROVE  Matcher!Next
<1> USE DEF Matcher!slotVars, slotVars
<1>1. ASSUME NEW a \in RequestArgs, Arrive(a[1], a[2])  PROVE Matcher!Next
  <2>1. Matcher!request(a[1], a[2])
    BY <1>1, SameCandidates DEF Arrive, HasRoom, Matcher!request, Matcher!Arrive, Matcher!HasRoom
  <2>2. a \in Matcher!RequestArgs
    BY DEF RequestArgs, Matcher!RequestArgs
  <2> QED
    BY <2>1, <2>2 DEF Matcher!Next
<1>2. CASE StartSlot
  BY <1>2 DEF StartSlot, Matcher!Next, Matcher!arbitration, Matcher!StartSlot
<1>3. CASE Serve
  <2>1. Matcher!update_pointers
    BY <1>3, SameCandidates DEF Serve, OccupyPorts, TakeCells, Matched,
         Matcher!update_pointers, Matcher!Serve, Matcher!OccupyPorts,
         Matcher!TakeCells, Matcher!Matched
  <2> QED
    BY <2>1 DEF Matcher!Next
<1>4. CASE SlotEnds
  BY <1>4 DEF SlotEnds, Matcher!Next, Matcher!SlotEnds
<1> QED
  BY <1>1, <1>2, <1>3, <1>4

\* Any choice of an input for each output with candidates is one that pim may make.
LEMMA GrantStep ==
  ASSUME NEW pick \in [GrantingOutputs -> Inputs],
         \A o \in GrantingOutputs : pick[o] \in GrantCandidates(o),
         Grant(pick)
  PROVE  Matcher!Next
<1>1. Matcher!Grant(pick)
  BY SameCandidates DEF Grant, Matcher!Grant, slotVars, Matcher!slotVars
<1>2. Matcher!do_grant
  BY <1>1, SameCandidates DEF Matcher!do_grant
<1> QED
  BY <1>2 DEF Matcher!Next

\* So is the choice of the accept scan.
LEMMA AcceptStep ==
  ASSUME PointersOK, Accept(AcceptScan)
  PROVE  Matcher!Next
<1>1. Matcher!Accept(AcceptScan)
  BY SameCandidates DEF Accept, Matcher!Accept, slotVars, Matcher!slotVars
<1>2. Matcher!do_accept
  BY <1>1, SameCandidates, AcceptScanChoice DEF Matcher!do_accept
<1> QED
  BY <1>2 DEF Matcher!Next

\* The grant scan over all candidates chooses one of them for each output.
LEMMA FullScanChoice ==
  ASSUME PointersOK
  PROVE  LET scan == [o \in GrantingOutputs |->
                        FirstFrom(m_g_ptr[o], InputNum, GrantCandidates(o))]
         IN  /\ scan \in [GrantingOutputs -> Inputs]
             /\ \A o \in GrantingOutputs : scan[o] \in GrantCandidates(o)
<1>1. ASSUME NEW o \in GrantingOutputs
      PROVE  FirstFrom(m_g_ptr[o], InputNum, GrantCandidates(o)) \in GrantCandidates(o)
  BY GrantScanMember DEF GrantingOutputs
<1>2. \A o \in GrantingOutputs : GrantCandidates(o) \subseteq Inputs
  BY DEF GrantCandidates
<1> QED
  BY <1>1, <1>2

\* The schedulers start as pim does, with pointers in range.
LEMMA PointersInit ==
  ASSUME PointerInit
  PROVE  PointersOK /\ Matcher!Init
<1>1. PointersOK
  BY SwitchAssumption DEF PointerInit, PointersOK, Inputs, Outputs
<1>2. Matcher!Init
  BY SameCandidates DEF PointerInit, SwitchInit, Matcher!Init, Matcher!SwitchInit
<1> QED
  BY <1>1, <1>2

-----------------------------------------------------------------------------
(* islip_basic.cpp on its own.                                             *)

\* Pointers stay in range.
LEMMA PointersStep ==
  ASSUME PointersOK, [Next]_vars
  PROVE  PointersOK'
<1>1. CASE MovePointers
  BY <1>1, PtrPastInRange DEF MovePointers, PointersOK
<1>2. CASE UNCHANGED pvars
  BY <1>2 DEF pvars, PointersOK
<1> QED
  BY <1>1, <1>2 DEF Next, vars, request, arbitration, do_grant, do_accept,
                    update_pointers

\* Every step of the scheduler is a step of pim.
LEMMA RefinesPimStep ==
  ASSUME PointersOK, [Next]_vars
  PROVE  [Matcher!Next]_(Matcher!svars)
<1>1. CASE do_grant
  BY <1>1, FullScanChoice, GrantStep DEF do_grant, GrantScan
<1>2. CASE do_accept
  BY <1>2, AcceptStep DEF do_accept
<1>3. CASE UNCHANGED vars
  BY <1>3 DEF vars, svars, slotVars, Matcher!svars, Matcher!slotVars
<1> QED
  BY <1>1, <1>2, <1>3, CommonSteps DEF Next, request, arbitration, update_pointers

\* islip_basic.cpp implements pim: its pointers only resolve the choices pim
\* makes at random.
THEOREM IslipBasicImplementsPim == Spec => ImplementsPim
<1>1. Init => PointersOK /\ Matcher!Init
  BY PointersInit DEF Init
<1>2. PointersOK /\ [Next]_vars => PointersOK'
  BY PointersStep
<1>3. PointersOK /\ [Next]_vars => [Matcher!Next]_(Matcher!svars)
  BY RefinesPimStep
<1> QED
  BY <1>1, <1>2, <1>3, PTL DEF Spec, ImplementsPim, Matcher!Spec

\* islip_basic.cpp: in every slot no port is matched twice, only queued cells
\* are matched, and every pointer and queue length stays in range.
THEOREM IslipBasicSlotSafe == Spec => [](TypeOK /\ SlotInv)
<1>1. Init => PointersOK
  BY PointersInit DEF Init
<1>2. PointersOK /\ [Next]_vars => PointersOK'
  BY PointersStep
<1>3. Spec => []PointersOK
  BY <1>1, <1>2, PTL DEF Spec
<1>4. PointersOK /\ SwitchTypeOK => TypeOK
  BY DEF TypeOK, PointersOK
<1> QED
  BY <1>3, <1>4, IslipBasicImplementsPim, PimSlotSafe, PTL DEF ImplementsPim

\* islip_basic.cpp: an output's grant pointer leaves an input only past a pair
\* that is served in the first iteration.
THEOREM IslipBasicPointers == Spec => PointerMovesOnAcceptOnly
<1> DEFINE Moves(o, i) ==
      /\ <<i, o>> \in sch_result' \ sch_result
      /\ m_g_ptr'[o] = (i + 1) % InputNum
      /\ m_a_ptr'[i] = (o + 1) % OutputNum
      /\ m_iter_cnt = 0
<1>1. ASSUME TypeOK, SlotInv, Next, NEW o \in Outputs, m_g_ptr'[o] # m_g_ptr[o]
      PROVE  \E i \in Inputs : Moves(o, i)
  <2>1. update_pointers
    BY <1>1 DEF Next, pvars, request, arbitration, do_grant, do_accept
  <2>2. m_iter_cnt = 0 /\ m_g_ptr' = GrantPtrPast(Matched) /\ m_a_ptr' = AcceptPtrPast(Matched)
    BY <1>1, <2>1 DEF update_pointers, MovePointers
  <2>3. PICK i \in Inputs : <<i, o>> \in Matched /\ m_g_ptr'[o] = (i + 1) % InputNum
    BY <1>1, <2>2 DEF GrantPtrPast
  <2>4. \A out \in Outputs : <<i, out>> \in Matched => out = o
    BY <1>1, <2>3 DEF SlotInv, AcceptsMatch, IsMatching, Abstract!IsMatching, Matched
  <2>5. m_a_ptr'[i] = (o + 1) % OutputNum
    <3>1. (CHOOSE out \in Outputs : <<i, out>> \in Matched) = o
      BY <1>1, <2>3, <2>4
    <3> QED
      BY <2>2, <2>3, <3>1 DEF AcceptPtrPast
  <2>6. <<i, o>> \in sch_result' \ sch_result
    BY <1>1, <2>1, <2>3 DEF update_pointers, Serve, SlotInv, ResultSound, Matched
  <2> QED
    BY <2>2, <2>3, <2>5, <2>6
<1>2. ASSUME TypeOK, SlotInv, [Next]_vars
      PROVE  [\A o \in Outputs : m_g_ptr'[o] # m_g_ptr[o] => \E i \in Inputs : Moves(o, i)]_vars
  BY <1>1, <1>2
<1> QED
  BY <1>2, IslipBasicSlotSafe, PTL DEF Spec, PointerMovesOnAcceptOnly

-----------------------------------------------------------------------------
(* The actions of the three modules, in the terms of PointerSwitch and of  *)
(* IslipBasic.                                                             *)

\* rrm.cpp has the members and functions of PointerSwitch.
LEMMA RrmMembers ==
  /\ R!svars = svars /\ R!pvars = pvars /\ R!RequestArgs = RequestArgs
  /\ \A i, o : R!Arrive(i, o) <=> Arrive(i, o)
  /\ (R!StartSlot <=> StartSlot) /\ (R!SlotEnds <=> SlotEnds) /\ (R!Serve <=> Serve)
  /\ \A pick : (R!Grant(pick) <=> Grant(pick)) /\ (R!Accept(pick) <=> Accept(pick))
  /\ R!GrantingOutputs = GrantingOutputs /\ R!AcceptScan = AcceptScan
  /\ \A o : R!GrantCandidates(o) = GrantCandidates(o)
  /\ \A start, n, S : R!FirstFrom(start, n, S) = FirstFrom(start, n, S)
  /\ R!Matched = Matched
  /\ \A M : /\ R!GrantPtrPast(M) = GrantPtrPast(M)
            /\ R!AcceptPtrPast(M) = AcceptPtrPast(M)
<1>1. R!Inputs = Inputs /\ R!Outputs = Outputs /\ R!Matched = Matched
  BY DEF R!Inputs, Inputs, R!Outputs, Outputs, R!Matched, Matched
<1>2. /\ \A o : R!GrantCandidates(o) = GrantCandidates(o)
      /\ \A i : R!AcceptCandidates(i) = AcceptCandidates(i)
      /\ \A start, n, S : R!FirstFrom(start, n, S) = FirstFrom(start, n, S)
  BY <1>1 DEF R!GrantCandidates, GrantCandidates, R!Open, Open,
              R!AcceptCandidates, AcceptCandidates, R!FirstFrom, FirstFrom,
              R!Dist, Dist
<1>3. /\ R!GrantingOutputs = GrantingOutputs
      /\ R!AcceptingInputs = AcceptingInputs /\ R!AcceptScan = AcceptScan
  BY <1>1, <1>2 DEF R!GrantingOutputs, GrantingOutputs, R!AcceptingInputs,
              AcceptingInputs, R!AcceptScan, AcceptScan
<1>4. \A M : /\ R!GrantPtrPast(M) = GrantPtrPast(M)
            /\ R!AcceptPtrPast(M) = AcceptPtrPast(M)
  BY <1>1 DEF R!GrantPtrPast, GrantPtrPast, R!AcceptPtrPast, AcceptPtrPast
<1>5. /\ R!svars = svars /\ R!pvars = pvars /\ R!RequestArgs = RequestArgs
      /\ \A i, o : R!Arrive(i, o) <=> Arrive(i, o)
      /\ (R!StartSlot <=> StartSlot) /\ (R!SlotEnds <=> SlotEnds) /\ (R!Serve <=> Serve)
      /\ \A pick : (R!Grant(pick) <=> Grant(pick)) /\ (R!Accept(pick) <=> Accept(pick))
  BY <1>1, <1>3 DEF R!svars, svars, R!slotVars, slotVars, R!pvars, pvars,
              R!RequestArgs, RequestArgs, R!Arrive, Arrive, R!HasRoom, HasRoom,
              R!StartSlot, StartSlot, R!SlotEnds, SlotEnds, R!Serve, Serve,
              R!OccupyPorts, OccupyPorts, R!TakeCells, TakeCells,
              R!Grant, Grant, R!Accept, Accept
<1> QED
  BY <1>1, <1>2, <1>3, <1>4, <1>5

\* islip_basic.cpp has the members and functions of PointerSwitch.
LEMMA BasicMembers ==
  /\ B!svars = svars /\ B!pvars = pvars /\ B!RequestArgs = RequestArgs
  /\ \A i, o : B!Arrive(i, o) <=> Arrive(i, o)
  /\ (B!StartSlot <=> StartSlot) /\ (B!SlotEnds <=> SlotEnds) /\ (B!Serve <=> Serve)
  /\ \A pick : (B!Grant(pick) <=> Grant(pick)) /\ (B!Accept(pick) <=> Accept(pick))
  /\ B!GrantingOutputs = GrantingOutputs /\ B!AcceptScan = AcceptScan
  /\ \A o : B!GrantCandidates(o) = GrantCandidates(o)
  /\ \A start, n, S : B!FirstFrom(start, n, S) = FirstFrom(start, n, S)
  /\ B!Matched = Matched
  /\ \A M : /\ B!GrantPtrPast(M) = GrantPtrPast(M)
            /\ B!AcceptPtrPast(M) = AcceptPtrPast(M)
<1>1. B!Inputs = Inputs /\ B!Outputs = Outputs /\ B!Matched = Matched
  BY DEF B!Inputs, Inputs, B!Outputs, Outputs, B!Matched, Matched
<1>2. /\ \A o : B!GrantCandidates(o) = GrantCandidates(o)
      /\ \A i : B!AcceptCandidates(i) = AcceptCandidates(i)
      /\ \A start, n, S : B!FirstFrom(start, n, S) = FirstFrom(start, n, S)
  BY <1>1 DEF B!GrantCandidates, GrantCandidates, B!Open, Open,
              B!AcceptCandidates, AcceptCandidates, B!FirstFrom, FirstFrom,
              B!Dist, Dist
<1>3. /\ B!GrantingOutputs = GrantingOutputs
      /\ B!AcceptingInputs = AcceptingInputs /\ B!AcceptScan = AcceptScan
  BY <1>1, <1>2 DEF B!GrantingOutputs, GrantingOutputs, B!AcceptingInputs,
              AcceptingInputs, B!AcceptScan, AcceptScan
<1>4. \A M : /\ B!GrantPtrPast(M) = GrantPtrPast(M)
            /\ B!AcceptPtrPast(M) = AcceptPtrPast(M)
  BY <1>1 DEF B!GrantPtrPast, GrantPtrPast, B!AcceptPtrPast, AcceptPtrPast
<1>5. /\ B!svars = svars /\ B!pvars = pvars /\ B!RequestArgs = RequestArgs
      /\ \A i, o : B!Arrive(i, o) <=> Arrive(i, o)
      /\ (B!StartSlot <=> StartSlot) /\ (B!SlotEnds <=> SlotEnds) /\ (B!Serve <=> Serve)
      /\ \A pick : (B!Grant(pick) <=> Grant(pick)) /\ (B!Accept(pick) <=> Accept(pick))
  BY <1>1, <1>3 DEF B!svars, svars, B!slotVars, slotVars, B!pvars, pvars,
              B!RequestArgs, RequestArgs, B!Arrive, Arrive, B!HasRoom, HasRoom,
              B!StartSlot, StartSlot, B!SlotEnds, SlotEnds, B!Serve, Serve,
              B!OccupyPorts, OccupyPorts, B!TakeCells, TakeCells,
              B!Grant, Grant, B!Accept, Accept
<1> QED
  BY <1>1, <1>2, <1>3, <1>4, <1>5

\* islip_threshold.cpp has the members and functions of PointerSwitch.
LEMMA ThresholdMembers ==
  /\ T!svars = svars /\ T!pvars = pvars /\ T!RequestArgs = RequestArgs
  /\ \A i, o : T!Arrive(i, o) <=> Arrive(i, o)
  /\ (T!StartSlot <=> StartSlot) /\ (T!SlotEnds <=> SlotEnds) /\ (T!Serve <=> Serve)
  /\ \A pick : (T!Grant(pick) <=> Grant(pick)) /\ (T!Accept(pick) <=> Accept(pick))
  /\ T!GrantingOutputs = GrantingOutputs /\ T!AcceptScan = AcceptScan
  /\ \A o : T!GrantCandidates(o) = GrantCandidates(o)
  /\ \A start, n, S : T!FirstFrom(start, n, S) = FirstFrom(start, n, S)
  /\ T!Matched = Matched
  /\ \A M : /\ T!GrantPtrPast(M) = GrantPtrPast(M)
            /\ T!AcceptPtrPast(M) = AcceptPtrPast(M)
<1>1. T!Inputs = Inputs /\ T!Outputs = Outputs /\ T!Matched = Matched
  BY DEF T!Inputs, Inputs, T!Outputs, Outputs, T!Matched, Matched
<1>2. /\ \A o : T!GrantCandidates(o) = GrantCandidates(o)
      /\ \A i : T!AcceptCandidates(i) = AcceptCandidates(i)
      /\ \A start, n, S : T!FirstFrom(start, n, S) = FirstFrom(start, n, S)
  BY <1>1 DEF T!GrantCandidates, GrantCandidates, T!Open, Open,
              T!AcceptCandidates, AcceptCandidates, T!FirstFrom, FirstFrom,
              T!Dist, Dist
<1>3. /\ T!GrantingOutputs = GrantingOutputs
      /\ T!AcceptingInputs = AcceptingInputs /\ T!AcceptScan = AcceptScan
  BY <1>1, <1>2 DEF T!GrantingOutputs, GrantingOutputs, T!AcceptingInputs,
              AcceptingInputs, T!AcceptScan, AcceptScan
<1>4. \A M : /\ T!GrantPtrPast(M) = GrantPtrPast(M)
            /\ T!AcceptPtrPast(M) = AcceptPtrPast(M)
  BY <1>1 DEF T!GrantPtrPast, GrantPtrPast, T!AcceptPtrPast, AcceptPtrPast
<1>5. /\ T!svars = svars /\ T!pvars = pvars /\ T!RequestArgs = RequestArgs
      /\ \A i, o : T!Arrive(i, o) <=> Arrive(i, o)
      /\ (T!StartSlot <=> StartSlot) /\ (T!SlotEnds <=> SlotEnds) /\ (T!Serve <=> Serve)
      /\ \A pick : (T!Grant(pick) <=> Grant(pick)) /\ (T!Accept(pick) <=> Accept(pick))
  BY <1>1, <1>3 DEF T!svars, svars, T!slotVars, slotVars, T!pvars, pvars,
              T!RequestArgs, RequestArgs, T!Arrive, Arrive, T!HasRoom, HasRoom,
              T!StartSlot, StartSlot, T!SlotEnds, SlotEnds, T!Serve, Serve,
              T!OccupyPorts, OccupyPorts, T!TakeCells, TakeCells,
              T!Grant, Grant, T!Accept, Accept
<1> QED
  BY <1>1, <1>2, <1>3, <1>4, <1>5

\* What rrm.cpp does differently is how the pointers move.
LEMMA RrmSteps ==
  ASSUME R!Next
  PROVE  \/ (\E a \in RequestArgs : Arrive(a[1], a[2])) /\ UNCHANGED pvars
         \/ UNCHANGED svars /\ R!init_priority_ptr
         \/ (StartSlot \/ Serve \/ SlotEnds) /\ UNCHANGED pvars
         \/ Grant(GrantScan) /\ m_g_ptr' = GrantPtrPast(m_grants') /\ UNCHANGED m_a_ptr
         \/ Accept(AcceptScan) /\ m_a_ptr' = AcceptPtrPast(m_accepts') /\ UNCHANGED m_g_ptr
<1>1. R!GrantScan = GrantScan
  BY RrmMembers DEF R!GrantScan, GrantScan
<1> QED
  BY <1>1, RrmMembers DEF R!Next, R!Slot, R!request, R!arbitration, R!do_grant,
         R!do_accept, R!update_pointers, R!init_priority_ptr, R!pvars, R!svars,
         R!slotVars, pvars, svars, slotVars

\* The instance of IslipBasic in Schedulers makes the steps of IslipBasic.
LEMMA BasicSteps ==
  ASSUME B!Next
  PROVE  Next
<1>1. B!GrantScan = GrantScan
  BY BasicMembers DEF B!GrantScan, GrantScan
<1>2. B!update_pointers <=> update_pointers
  BY BasicMembers DEF B!update_pointers, B!MovePointers, update_pointers, MovePointers
<1> QED
  BY <1>1, <1>2, BasicMembers
     DEF B!Next, B!request, B!arbitration, B!do_grant, B!do_accept,
         Next, request, arbitration, do_grant, do_accept, B!pvars, pvars

\* The queues of output o that have reached the threshold, and what the two
\* scans of islip_threshold.cpp choose.
Critical(o) == {i \in GrantCandidates(o) : m_voq[i][o] >= Threshold}
CriticalScan ==
  [o \in GrantingOutputs |->
     FirstFrom(m_g_ptr[o], InputNum,
               IF Critical(o) # {} THEN Critical(o) ELSE GrantCandidates(o))]

\* What islip_threshold.cpp does differently is the grant scan.
LEMMA ThresholdSteps ==
  ASSUME T!Next
  PROVE  \/ \E a \in RequestArgs : request(a[1], a[2])
         \/ arbitration
         \/ Grant(CriticalScan) /\ UNCHANGED pvars
         \/ do_accept
         \/ update_pointers
         \/ SlotEnds /\ UNCHANGED pvars
<1>1. \A o : T!Critical(o) = Critical(o)
  BY ThresholdMembers DEF T!Critical, Critical
<1>2. T!GrantScan = CriticalScan
  BY <1>1, ThresholdMembers DEF T!GrantScan, CriticalScan
<1>3. T!update_pointers <=> update_pointers
  BY ThresholdMembers DEF T!update_pointers, T!MovePointers, update_pointers, MovePointers
<1> QED
  BY <1>2, <1>3, ThresholdMembers
     DEF T!Next, T!Slot, T!request, T!arbitration, T!do_grant, T!do_accept,
         request, arbitration, do_accept, T!pvars, pvars

\* The scan takes a critical queue if there is one, and else any candidate.
LEMMA CriticalScanChoice ==
  ASSUME PointersOK
  PROVE  /\ CriticalScan \in [GrantingOutputs -> Inputs]
         /\ \A o \in GrantingOutputs :
              /\ CriticalScan[o] \in GrantCandidates(o)
              /\ Critical(o) # {} => CriticalScan[o] \in Critical(o)
<1>1. ASSUME NEW o \in GrantingOutputs
      PROVE  /\ CriticalScan[o] \in GrantCandidates(o)
             /\ Critical(o) # {} => CriticalScan[o] \in Critical(o)
  <2>1. o \in Outputs /\ GrantCandidates(o) # {}
    BY DEF GrantingOutputs
  <2>2. Critical(o) \in SUBSET GrantCandidates(o)
    BY DEF Critical
  <2>3. CASE Critical(o) # {}
    <3>1. FirstFrom(m_g_ptr[o], InputNum, Critical(o)) \in Critical(o)
      BY <2>1, <2>2, <2>3, GrantScanMember
    <3> QED
      BY <2>2, <2>3, <3>1 DEF CriticalScan
  <2>4. CASE Critical(o) = {}
    <3>1. FirstFrom(m_g_ptr[o], InputNum, GrantCandidates(o)) \in GrantCandidates(o)
      BY <2>1, GrantScanMember
    <3> QED
      BY <2>4, <3>1 DEF CriticalScan
  <2> QED
    BY <2>3, <2>4
<1>2. \A o \in Outputs : GrantCandidates(o) \subseteq Inputs
  BY DEF GrantCandidates
<1> QED
  BY <1>1, <1>2 DEF CriticalScan, GrantingOutputs

-----------------------------------------------------------------------------
(* All four schedulers implement pim.                                      *)

\* Every step of rrm.cpp keeps the pointers in range and is a step of pim, or
\* moves pointers only.
LEMMA RrmStep ==
  ASSUME PointersOK, R!Next
  PROVE  PointersOK' /\ [Matcher!Next]_(Matcher!svars)
<1>1. PointersOK'
  <2>1. CASE R!init_priority_ptr
    <3>1. \A o \in Outputs : (o + 1) % OutputNum \in Inputs
      BY <2>1, SwitchAssumption DEF R!init_priority_ptr, Inputs, Outputs
    <3> QED
      BY <2>1, <3>1, RrmMembers DEF R!init_priority_ptr, R!Outputs, Outputs, PointersOK
  <2> QED
    BY <2>1, RrmSteps, PtrPastInRange DEF pvars, PointersOK
<1>2. UNCHANGED svars => UNCHANGED Matcher!svars
  BY DEF svars, slotVars, Matcher!svars, Matcher!slotVars
<1>3. Grant(GrantScan) => Matcher!Next
  BY FullScanChoice, GrantStep DEF GrantScan
<1> QED
  BY <1>1, <1>2, <1>3, RrmSteps, AcceptStep, CommonSteps

\* So does, and is, every step of islip_threshold.cpp.
LEMMA ThresholdStep ==
  ASSUME PointersOK, T!Next
  PROVE  PointersOK' /\ [Matcher!Next]_(Matcher!svars)
<1>1. CASE Next
  BY <1>1, PointersStep, RefinesPimStep
<1>2. CASE Grant(CriticalScan) /\ UNCHANGED pvars
  BY <1>2, CriticalScanChoice, GrantStep DEF pvars, PointersOK
<1> QED
  BY <1>1, <1>2, ThresholdSteps DEF Next

\* And every step of the scheduler that was created.
LEMMA SchedStep ==
  ASSUME PointersOK, [SchedNext]_schedVars
  PROVE  PointersOK' /\ [Matcher!Next]_(Matcher!svars)
<1>1. CASE Matcher!Next /\ UNCHANGED pvars
  BY <1>1 DEF pvars, PointersOK
<1>2. CASE R!Next
  BY <1>2, RrmStep
<1>3. CASE B!Next
  BY <1>3, BasicSteps, PointersStep, RefinesPimStep
<1>4. CASE T!Next
  BY <1>4, ThresholdStep
<1>5. CASE UNCHANGED schedVars
  BY <1>5, PointersStep, RefinesPimStep DEF schedVars
<1> QED
  BY <1>1, <1>2, <1>3, <1>4, <1>5 DEF SchedNext

\* rrm.cpp, islip_basic.cpp and islip_threshold.cpp implement pim: pointers and
\* thresholds only resolve the choices that pim makes at random.
THEOREM SchedulersImplementPim == SchedSpec => ImplementsPim
<1>1. SchedInit => PointersOK /\ Matcher!Init
  BY PointersInit DEF SchedInit
<1>2. PointersOK /\ [SchedNext]_schedVars => PointersOK' /\ [Matcher!Next]_(Matcher!svars)
  BY SchedStep
<1> QED
  BY <1>1, <1>2, PTL DEF SchedSpec, ImplementsPim, Matcher!Spec

\* In every slot of any of them no port is matched twice, only queued cells are
\* matched, and every pointer and queue length stays in range.
THEOREM SchedulersSlotSafe == SchedSpec => [](TypeOK /\ SlotInv)
<1>1. SchedInit => PointersOK
  BY PointersInit DEF SchedInit
<1>2. PointersOK /\ [SchedNext]_schedVars => PointersOK'
  BY SchedStep
<1>3. SchedSpec => []PointersOK
  BY <1>1, <1>2, PTL DEF SchedSpec
<1>4. PointersOK /\ SwitchTypeOK => TypeOK
  BY DEF TypeOK, PointersOK
<1> QED
  BY <1>3, <1>4, SchedulersImplementPim, PimSlotSafe, PTL DEF ImplementsPim

\* k iterations of any of them match k pairs unless no pair is left to match.
THEOREM SchedulersProgress == SchedSpec => []IterationProgress
  BY SchedulersImplementPim, PimProgress, PTL DEF ImplementsPim

-----------------------------------------------------------------------------
(* Critical queues first.                                                  *)

\* No unmatched input has a critical queue for output o.
NoneCritical(o) == \A i \in Inputs \ m_input_occupied : m_voq[i][o] < Threshold

\* CriticalBeforeOthers in every phase of a slot, and what makes it true of the
\* next pairs: a grant for a queue below the threshold is made only if none is
\* at the threshold.
CriticalInv ==
  scheduler = "islip_threshold" =>
    /\ pc # "idle" =>
         \A p \in sch_result : m_voq[p[1]][p[2]] + 1 < Threshold => NoneCritical(p[2])
    /\ \A p \in m_grants : m_voq[p[1]][p[2]] < Threshold => NoneCritical(p[2])

\* Within a slot queues only shrink and inputs only become matched.
LEMMA ServeKeepsNoneCritical ==
  ASSUME TypeOK, SlotInv, Serve, NEW o \in Outputs, NoneCritical(o)
  PROVE  NoneCritical(o)'
<1>1. ASSUME NEW i \in Inputs \ m_input_occupied'
      PROVE  m_voq'[i][o] < Threshold
  <2>1. i \in Inputs \ m_input_occupied
    BY <1>1 DEF Serve, OccupyPorts
  <2>2. m_voq[i][o] < Threshold /\ m_voq[i][o] \in Nat
    BY <2>1 DEF NoneCritical, TypeOK, SwitchTypeOK
  <2>3. m_voq'[i][o] = m_voq[i][o] \/ m_voq'[i][o] = m_voq[i][o] - 1
    BY DEF Serve, TakeCells
  <2> QED
    BY <2>2, <2>3, ThresholdAssumption
<1> QED
  BY <1>1 DEF NoneCritical, Inputs

\* The grants of a scan that looks at the critical queues first.
LEMMA CriticalGrant ==
  ASSUME PointersOK, TypeOK, SlotInv, Grant(CriticalScan),
         NEW p \in m_grants', m_voq[p[1]][p[2]] < Threshold
  PROVE  NoneCritical(p[2])
<1>1. m_grants = {}
  BY DEF Grant, SlotInv, PhaseSound
<1>2. PICK o \in GrantingOutputs : p = <<CriticalScan[o], o>>
  BY <1>1 DEF Grant
<1>3. Critical(o) = {}
  <2>1. CriticalScan[o] \in Inputs /\ o \in Outputs
    BY CriticalScanChoice DEF GrantingOutputs
  <2>2. m_voq[CriticalScan[o]][o] \in Nat /\ m_voq[CriticalScan[o]][o] < Threshold
    BY <1>2, <2>1 DEF TypeOK, SwitchTypeOK
  <2>3. CriticalScan[o] \notin Critical(o)
    BY <2>2, ThresholdAssumption DEF Critical
  <2> QED
    BY <2>3, CriticalScanChoice
<1>4. o \in Outputs \ m_output_occupied
  BY DEF GrantingOutputs, GrantCandidates, Open
<1>5. ASSUME NEW i \in Inputs \ m_input_occupied  PROVE m_voq[i][o] < Threshold
  <2>1. m_voq[i][o] \in Nat
    BY <1>4 DEF TypeOK, SwitchTypeOK
  <2>2. ASSUME m_voq[i][o] >= Threshold  PROVE i \in Critical(o)
    BY <1>4, <2>1, <2>2, ThresholdAssumption DEF Critical, GrantCandidates, Open
  <2> QED
    BY <1>3, <2>1, <2>2, ThresholdAssumption
<1> QED
  BY <1>2, <1>5 DEF NoneCritical

\* Every step keeps CriticalInv.
LEMMA CriticalStep ==
  ASSUME PointersOK, TypeOK, SlotInv, SlotInv', CriticalInv, [SchedNext]_schedVars
  PROVE  CriticalInv'
<1> SUFFICES ASSUME scheduler' = "islip_threshold"
             PROVE  CriticalInv'
  BY DEF CriticalInv
<1>1. scheduler = "islip_threshold"
  BY DEF SchedNext, schedVars
<1>2. CASE UNCHANGED schedVars
  BY <1>1, <1>2 DEF schedVars, vars, svars, slotVars, CriticalInv, NoneCritical
<1>3. CASE Grant(CriticalScan)
  BY <1>1, <1>3, CriticalGrant DEF Grant, slotVars, CriticalInv, NoneCritical
<1>4. CASE \E a \in RequestArgs : Arrive(a[1], a[2])
  BY <1>4 DEF Arrive, CriticalInv, SlotInv, PhaseSound
<1>5. CASE StartSlot
  BY <1>5 DEF StartSlot, CriticalInv
<1>6. CASE Accept(AcceptScan)
  BY <1>1, <1>6 DEF Accept, slotVars, CriticalInv, NoneCritical
<1>7. CASE Serve
  <2>1. m_grants' = {} /\ sch_result' = sch_result \cup Matched /\ pc = "update"
    BY <1>7 DEF Serve
  <2>2. ASSUME NEW p \in sch_result', m_voq'[p[1]][p[2]] + 1 < Threshold
        PROVE  NoneCritical(p[2])'
    <3>1. p \in Pairs /\ p = <<p[1], p[2]>> /\ p[1] \in Inputs /\ p[2] \in Outputs
      BY <2>1 DEF TypeOK, SwitchTypeOK, Pairs, Matched
    <3>2. m_voq[p[1]][p[2]] \in Nat
      BY <3>1 DEF TypeOK, SwitchTypeOK
    <3>3. CASE p \in Matched
      <4>1. m_voq'[p[1]][p[2]] = m_voq[p[1]][p[2]] - 1
        BY <1>7, <3>1, <3>3 DEF Serve, TakeCells
      <4>2. p \in m_grants
        BY <3>3 DEF Matched, SlotInv, AcceptsMatch
      <4>3. NoneCritical(p[2])
        BY <1>1, <2>2, <3>2, <4>1, <4>2 DEF CriticalInv
      <4> QED
        BY <1>7, <3>1, <4>3, ServeKeepsNoneCritical
    <3>4. CASE p \notin Matched
      <4>1. m_voq'[p[1]][p[2]] = m_voq[p[1]][p[2]]
        BY <1>7, <3>1, <3>4 DEF Serve, TakeCells
      <4>2. NoneCritical(p[2])
        BY <1>1, <2>1, <2>2, <3>4, <4>1 DEF CriticalInv
      <4> QED
        BY <1>7, <3>1, <4>2, ServeKeepsNoneCritical
    <3> QED
      BY <3>3, <3>4
  <2> QED
    BY <2>1, <2>2 DEF CriticalInv
<1>8. CASE SlotEnds
  BY <1>1, <1>8 DEF SlotEnds, slotVars, CriticalInv, NoneCritical
<1> QED
  BY <1>1, <1>2, <1>3, <1>4, <1>5, <1>6, <1>7, <1>8, ThresholdSteps
     DEF SchedNext, request, arbitration, do_accept, update_pointers

\* islip_threshold.cpp: a cell of a queue below the threshold crosses only if no
\* unmatched input has a critical queue for its output, in any iteration and for
\* every threshold.
THEOREM ThresholdCriticalFirst == SchedSpec => []CriticalFirst
<1>1. SchedInit => CriticalInv
  BY DEF SchedInit, PointerInit, SwitchInit, CriticalInv
<1>2. TypeOK => PointersOK
  BY DEF TypeOK, PointersOK
<1>3. PointersOK /\ TypeOK /\ SlotInv /\ SlotInv' /\ CriticalInv /\ [SchedNext]_schedVars
        => CriticalInv'
  BY CriticalStep
<1>4. TypeOK /\ CriticalInv => CriticalFirst
  BY DEF CriticalInv, CriticalFirst, T!CriticalBeforeOthers, NoneCritical, T!Inputs, Inputs
<1> QED
  BY <1>1, <1>2, <1>3, <1>4, SchedulersSlotSafe, PTL DEF SchedSpec

-----------------------------------------------------------------------------
(* islip_wrr.cpp: its quotas and searches are another way of making pim's  *)
(* choices.                                                                *)

Quota(i, o) == m_current_quota[i][o]

\* Every quota is within its weight; one of weight 0 may be overdrawn once.
QuotaRange ==
  /\ m_current_quota \in [Inputs -> [Outputs -> Int]]
  /\ \A i \in Inputs, o \in Outputs :
       Quota(i, o) \in (IF Weights[i][o] = 0 THEN -1 ELSE 0) .. Weights[i][o]

\* A pair that is granted can be served: it has quota, or no weight and no debt.
GrantsCovered ==
  \A p \in m_grants : Quota(p[1], p[2]) > 0 \/ (Weights[p[1]][p[2]] = 0 /\ Quota(p[1], p[2]) = 0)

\* The only iteration starts with all ports free.
FirstIteration == pc # "idle" /\ m_iter_cnt = 0 => sch_result = {}

WrrInv == SwitchInv /\ PointersOK /\ QuotaRange /\ GrantsCovered /\ FirstIteration

\* Among ports with quota left there is one with the smallest share.
LEMMA BestInput ==
  ASSUME QuotaRange, NEW o \in Outputs,
         NEW S \in SUBSET Inputs, S # {}, \A i \in S : Quota(i, o) > 0
  PROVE  \E b \in S : \A k \in S : UsedNoMore(<<b, o>>, <<k, o>>)
<1> DEFINE u == [i \in S |-> Weights[i][o] - Quota(i, o)]
           w == [i \in S |-> Weights[i][o]]
<1>1. \A i \in S : u[i] \in Nat /\ w[i] \in Nat \ {0}
  BY WrrAssumption DEF QuotaRange
<1>2. InputNum - 1 \in Nat /\ S \in SUBSET (0 .. InputNum - 1)
  BY SwitchAssumption DEF Inputs
<1>3. \E b \in S : \A k \in S : u[b] * w[k] <= u[k] * w[b]
  <2> HIDE DEF u, w
  <2> QED
    BY <1>1, <1>2, LeastShare
<1>4. \A b, k \in S : u[b] * w[k] <= u[k] * w[b] <=> UsedNoMore(<<b, o>>, <<k, o>>)
  BY DEF UsedNoMore, Quota
<1> HIDE DEF u, w
<1> QED
  BY <1>3, <1>4

LEMMA BestOutput ==
  ASSUME QuotaRange, NEW i \in Inputs,
         NEW S \in SUBSET Outputs, S # {}, \A o \in S : Quota(i, o) > 0
  PROVE  \E b \in S : \A k \in S : UsedNoMore(<<i, b>>, <<i, k>>)
<1> DEFINE u == [o \in S |-> Weights[i][o] - Quota(i, o)]
           w == [o \in S |-> Weights[i][o]]
<1>1. \A o \in S : u[o] \in Nat /\ w[o] \in Nat \ {0}
  BY WrrAssumption DEF QuotaRange
<1>2. OutputNum - 1 \in Nat /\ S \in SUBSET (0 .. OutputNum - 1)
  BY SwitchAssumption DEF Outputs
<1>3. \E b \in S : \A k \in S : u[b] * w[k] <= u[k] * w[b]
  <2> HIDE DEF u, w
  <2> QED
    BY <1>1, <1>2, LeastShare
<1>4. \A b, k \in S : u[b] * w[k] <= u[k] * w[b] <=> UsedNoMore(<<i, b>>, <<i, k>>)
  BY DEF UsedNoMore, Quota
<1> HIDE DEF u, w
<1> QED
  BY <1>3, <1>4

\* The grant scan chooses a candidate for each output, one with quota if there is one.
LEMMA WrrGrantChoice ==
  ASSUME WrrInv
  PROVE  /\ select_wrr_input \in [GrantingOutputs -> Inputs]
         /\ \A o \in GrantingOutputs :
              /\ select_wrr_input[o] \in GrantCandidates(o)
              /\ Quota(select_wrr_input[o], o) > 0 \/ \A i \in GrantCandidates(o) : ~ (Quota(i, o) > 0)
<1> DEFINE Rated(o) == {i \in GrantCandidates(o) : Quota(i, o) > 0}
           Best(o) == {i \in Rated(o) : \A k \in Rated(o) : UsedNoMore(<<i, o>>, <<k, o>>)}
           Chosen(o) == IF Rated(o) = {} THEN GrantCandidates(o) ELSE Best(o)
<1>1. select_wrr_input = [o \in GrantingOutputs |-> FirstFrom(m_g_ptr[o], InputNum, Chosen(o))]
  BY DEF select_wrr_input, InQuota, Quota
<1>2. ASSUME NEW o \in GrantingOutputs
      PROVE  /\ Chosen(o) \in SUBSET GrantCandidates(o) /\ Chosen(o) # {}
             /\ \A i \in Chosen(o) : Quota(i, o) > 0 \/ \A k \in GrantCandidates(o) : ~ (Quota(k, o) > 0)
  <2>1. GrantCandidates(o) # {} /\ GrantCandidates(o) \subseteq Inputs /\ o \in Outputs
    BY DEF GrantingOutputs, GrantCandidates
  <2>2. CASE Rated(o) = {}
    BY <2>1, <2>2
  <2>3. CASE Rated(o) # {}
    <3>1. Best(o) # {}
      <4>1. Rated(o) \in SUBSET Inputs /\ \A i \in Rated(o) : Quota(i, o) > 0
        BY <2>1
      <4> HIDE DEF Rated
      <4>2. \E b \in Rated(o) : \A k \in Rated(o) : UsedNoMore(<<b, o>>, <<k, o>>)
        BY <2>1, <2>3, <4>1, BestInput DEF WrrInv
      <4> QED
        BY <4>2
    <3> QED
      BY <2>3, <3>1
  <2> QED
    BY <2>2, <2>3
<1> HIDE DEF Chosen
<1>3. ASSUME NEW o \in GrantingOutputs
      PROVE  FirstFrom(m_g_ptr[o], InputNum, Chosen(o)) \in Chosen(o)
  BY <1>2, GrantScanMember DEF GrantingOutputs, WrrInv
<1>4. \A o \in GrantingOutputs : GrantCandidates(o) \subseteq Inputs
  BY DEF GrantCandidates
<1> QED
  BY <1>1, <1>2, <1>3, <1>4

LEMMA WrrAcceptChoice ==
  ASSUME WrrInv
  PROVE  /\ select_wrr_output \in [AcceptingInputs -> Outputs]
         /\ \A i \in AcceptingInputs : select_wrr_output[i] \in AcceptCandidates(i)
<1> DEFINE Rated(i) == {o \in AcceptCandidates(i) : Quota(i, o) > 0}
           Best(i) == {o \in Rated(i) : \A k \in Rated(i) : UsedNoMore(<<i, o>>, <<i, k>>)}
           Chosen(i) == IF Rated(i) = {} THEN AcceptCandidates(i) ELSE Best(i)
<1>1. select_wrr_output = [i \in AcceptingInputs |-> FirstFrom(m_a_ptr[i], OutputNum, Chosen(i))]
  BY DEF select_wrr_output, InQuota, Quota
<1>2. ASSUME NEW i \in AcceptingInputs
      PROVE  Chosen(i) \in SUBSET AcceptCandidates(i) /\ Chosen(i) # {}
  <2>1. AcceptCandidates(i) # {} /\ AcceptCandidates(i) \subseteq Outputs /\ i \in Inputs
    BY DEF AcceptingInputs, AcceptCandidates
  <2>2. CASE Rated(i) = {}
    BY <2>1, <2>2
  <2>3. CASE Rated(i) # {}
    <3>1. Best(i) # {}
      <4>1. Rated(i) \in SUBSET Outputs /\ \A o \in Rated(i) : Quota(i, o) > 0
        BY <2>1
      <4> HIDE DEF Rated
      <4>2. \E b \in Rated(i) : \A k \in Rated(i) : UsedNoMore(<<i, b>>, <<i, k>>)
        BY <2>1, <2>3, <4>1, BestOutput DEF WrrInv
      <4> QED
        BY <4>2
    <3> QED
      BY <2>3, <3>1
  <2> QED
    BY <2>2, <2>3
<1> HIDE DEF Chosen
<1>3. ASSUME NEW i \in AcceptingInputs
      PROVE  FirstFrom(m_a_ptr[i], OutputNum, Chosen(i)) \in Chosen(i)
  <2>1. m_a_ptr[i] \in 0 .. OutputNum - 1
    BY DEF WrrInv, PointersOK, AcceptingInputs, Outputs
  <2>2. Chosen(i) \in SUBSET (0 .. OutputNum - 1) /\ Chosen(i) # {}
    BY <1>2 DEF AcceptCandidates, Outputs
  <2> QED
    BY <2>1, <2>2, SwitchAssumption, FirstFromMember
<1>4. \A i \in AcceptingInputs : AcceptCandidates(i) \subseteq Outputs
  BY DEF AcceptCandidates
<1> QED
  BY <1>1, <1>2, <1>3, <1>4

\* The steps, in the terms of PointerSwitch.
LEMMA WrrSteps ==
  ASSUME [WrrNext]_wrrVars
  PROVE  \/ GrantPhase
         \/ AcceptPhase
         \/ ServePhase
         \/ /\ UNCHANGED <<pvars, m_current_quota>>
            /\ \/ \E a \in RequestArgs : Arrive(a[1], a[2])
               \/ StartSlot \/ SlotEnds \/ UNCHANGED svars
BY DEF WrrNext, WrrSlot, wrrVars, vars, wrr_request, wrr_arbitration, Return, pvars,
   svars, slotVars

\* Each of them is a step of pim and keeps the pointers in range.
LEMMA WrrRefines ==
  ASSUME WrrInv, [WrrNext]_wrrVars
  PROVE  [Matcher!Next]_(Matcher!svars) /\ SwitchInv' /\ PointersOK'
<1>1. ASSUME GrantPhase  PROVE Matcher!Next /\ PointersOK'
  <2>1. Grant(select_wrr_input) /\ UNCHANGED pvars
    BY <1>1 DEF GrantPhase, pvars
  <2>2. Matcher!Next
    BY <2>1, GrantStep, WrrGrantChoice
  <2> QED
    BY <2>1, <2>2 DEF pvars, PointersOK, WrrInv
<1>2. ASSUME AcceptPhase  PROVE Matcher!Next /\ PointersOK'
  <2>1. Accept(select_wrr_output) /\ UNCHANGED pvars
    BY <1>2 DEF AcceptPhase, pvars
  <2>2. Matcher!Next
    <3>1. Matcher!Accept(select_wrr_output)
      BY <2>1, SameCandidates DEF Accept, Matcher!Accept, slotVars, Matcher!slotVars
    <3>2. Matcher!do_accept
      BY <3>1, SameCandidates, WrrAcceptChoice DEF Matcher!do_accept
    <3> QED
      BY <3>2 DEF Matcher!Next
  <2> QED
    BY <2>1, <2>2 DEF pvars, PointersOK, WrrInv
<1>3. ASSUME ServePhase  PROVE Matcher!Next /\ PointersOK'
  <2>1. Serve /\ m_g_ptr' = GrantPtrPast(Matched) /\ m_a_ptr' = AcceptPtrPast(Matched)
    BY <1>3 DEF ServePhase
  <2> QED
    BY <2>1, CommonSteps, PtrPastInRange DEF WrrInv, PointersOK
<1>4. ASSUME /\ UNCHANGED <<pvars, m_current_quota>>
             /\ \/ \E a \in RequestArgs : Arrive(a[1], a[2])
                \/ StartSlot \/ SlotEnds \/ UNCHANGED svars
      PROVE  [Matcher!Next]_(Matcher!svars) /\ PointersOK'
  <2>1. PointersOK'
    BY <1>4 DEF pvars, PointersOK, WrrInv
  <2>2. UNCHANGED svars => UNCHANGED Matcher!svars
    BY DEF svars, slotVars, Matcher!svars, Matcher!slotVars
  <2> QED
    BY <1>4, <2>1, <2>2, CommonSteps
<1>5. [Matcher!Next]_(Matcher!svars) /\ PointersOK'
  BY <1>1, <1>2, <1>3, <1>4, WrrSteps
<1>6. [PimNext]_svars
  BY <1>5, SamePim
<1>7. SwitchInv'
  BY <1>6, PimTypeStep, PimSlotStep DEF SwitchInv, WrrInv
<1> QED
  BY <1>5, <1>7

\* An output that has granted an input did so while no port was matched.
LEMMA WrrFirst ==
  ASSUME OneIteration, WrrInv, pc \in {"grant", "accept", "update"}, pc = "grant" => m_iter_cnt < Iterations
  PROVE  m_iter_cnt = 0 /\ sch_result = {} /\ m_input_occupied = {} /\ m_output_occupied = {}
<1>1. m_iter_cnt = 0
  BY DEF OneIteration, WrrInv, SwitchInv, SlotInv, PhaseSound, SwitchTypeOK
<1>2. sch_result = {}
  BY <1>1 DEF WrrInv, FirstIteration
<1> QED
  BY <1>1, <1>2 DEF WrrInv, SwitchInv, SlotInv, ResultSound

\* What grants make of the quotas.
LEMMA WrrGrantQuota ==
  ASSUME OneIteration, WrrInv, GrantPhase
  PROVE  QuotaRange' /\ GrantsCovered'
<1>1. /\ Grant(select_wrr_input)
      /\ m_current_quota' = [i \in Inputs |-> [o \in Outputs |->
           IF RoundOver(o) /\ m_voq[i][o] > 0 THEN Weights[i][o] ELSE m_current_quota[i][o]]]
  BY DEF GrantPhase
<1>2. ASSUME NEW i \in Inputs, NEW o \in Outputs
      PROVE  Quota(i, o)' = IF RoundOver(o) /\ m_voq[i][o] > 0 THEN Weights[i][o] ELSE Quota(i, o)
  BY <1>1 DEF Quota
<1>3. QuotaRange'
  <2>1. ASSUME NEW i \in Inputs, NEW o \in Outputs
        PROVE  Quota(i, o)' \in Int /\ Quota(i, o)' \in (IF Weights[i][o] = 0 THEN -1 ELSE 0) .. Weights[i][o]
    BY <1>2, WrrAssumption DEF WrrInv, QuotaRange, Quota
  <2>2. m_current_quota' = [i \in Inputs |-> [o \in Outputs |-> Quota(i, o)']]
    BY <1>1 DEF Quota
  <2>3. m_current_quota' \in [Inputs -> [Outputs -> Int]]
    BY <2>1, <2>2
  <2> QED
    BY <2>1, <2>3 DEF QuotaRange
<1>4. m_output_occupied = {} /\ m_grants = {}
  BY <1>1, WrrFirst DEF Grant, WrrInv, SwitchInv, SlotInv, PhaseSound
<1>5. m_grants' = {<<select_wrr_input[o], o>> : o \in GrantingOutputs}
  BY <1>1, <1>4 DEF Grant
<1>6. ASSUME NEW o \in GrantingOutputs
      PROVE  \E i \in Inputs :
               /\ i = select_wrr_input[o]
               /\ Quota(i, o)' > 0 \/ (Weights[i][o] = 0 /\ Quota(i, o)' = 0)
  <2>0. PICK i \in Inputs : i = select_wrr_input[o]
    BY WrrGrantChoice
  <2>1. /\ i \in GrantCandidates(o) /\ o \in Outputs
        /\ Quota(i, o) > 0 \/ \A k \in GrantCandidates(o) : ~ (Quota(k, o) > 0)
    BY <2>0, WrrGrantChoice DEF GrantingOutputs
  <2>2. i \in Inputs /\ m_voq[i][o] > 0
    BY <2>1 DEF GrantCandidates, Open
  <2>3. Weights[i][o] \in Nat
    BY <2>1, <2>2, WrrAssumption
  <2>4. CASE Quota(i, o) > 0
    <3>1. ~ RoundOver(o)
      BY <2>1, <2>4 DEF RoundOver, InQuota, Quota
    <3> QED
      BY <1>2, <2>0, <2>1, <2>2, <2>4, <3>1
  <2>5. CASE ~ (Quota(i, o) > 0)
    <3>1. RoundOver(o)
      BY <1>4, <2>1, <2>5 DEF RoundOver, InQuota, Quota
    <3>2. Quota(i, o)' = Weights[i][o]
      BY <1>2, <2>1, <2>2, <3>1
    <3> QED
      BY <2>0, <2>2, <2>3, <3>2
  <2> QED
    BY <2>4, <2>5
<1>7. GrantsCovered'
  <2> SUFFICES ASSUME NEW p \in m_grants'
               PROVE  (Quota(p[1], p[2]) > 0 \/ (Weights[p[1]][p[2]] = 0 /\ Quota(p[1], p[2]) = 0))'
    BY DEF GrantsCovered
  <2>1. PICK o \in GrantingOutputs : p = <<select_wrr_input[o], o>>
    BY <1>5
  <2> QED
    BY <1>6, <2>1 DEF Quota
<1> QED
  BY <1>3, <1>7

\* An input that accepts has no refill coming, unless a weight is 0.
LEMMA WrrAcceptQuota ==
  ASSUME WrrInv, AcceptPhase
  PROVE  /\ QuotaRange' /\ GrantsCovered'
         /\ \A i \in Inputs : (\A o \in Outputs : Weights[i][o] # 0) =>
              \A o \in Outputs : Quota(i, o)' = Quota(i, o)
<1> DEFINE Refilled(i) == i \in AcceptingInputs /\ \A o \in AcceptCandidates(i) : ~ (Quota(i, o) > 0)
<1>1. /\ Accept(select_wrr_output)
      /\ m_current_quota' = [i \in Inputs |-> IF Refilled(i) THEN Weights[i] ELSE m_current_quota[i]]
  BY DEF AcceptPhase, InQuota, Quota
<1>2. m_grants' = m_grants
  BY <1>1 DEF Accept
<1> HIDE DEF Refilled
<1>3. ASSUME NEW i \in Inputs, NEW o \in Outputs
      PROVE  Quota(i, o)' = IF Refilled(i) THEN Weights[i][o] ELSE Quota(i, o)
  BY <1>1 DEF Quota
<1>4. QuotaRange'
  <2>1. ASSUME NEW i \in Inputs, NEW o \in Outputs
        PROVE  Quota(i, o)' \in (IF Weights[i][o] = 0 THEN -1 ELSE 0) .. Weights[i][o]
    BY <1>3, WrrAssumption DEF WrrInv, QuotaRange
  <2>2. m_current_quota' \in [Inputs -> [Outputs -> Int]]
    <3>1. Weights \in [Inputs -> [Outputs -> Int]] /\ m_current_quota \in [Inputs -> [Outputs -> Int]]
      BY WrrAssumption DEF WrrInv, QuotaRange
    <3> QED
      BY <1>1, <3>1
  <2> QED
    BY <2>1, <2>2 DEF QuotaRange
<1>5. \A p \in m_grants : p[1] \in Inputs /\ p[2] \in Outputs
  BY DEF WrrInv, SwitchInv, SwitchTypeOK, Pairs
<1>6. GrantsCovered'
  <2> SUFFICES ASSUME NEW p \in m_grants
               PROVE  Quota(p[1], p[2])' > 0 \/ (Weights[p[1]][p[2]] = 0 /\ Quota(p[1], p[2])' = 0)
    BY <1>2 DEF GrantsCovered, Quota
  <2>1. p[1] \in Inputs /\ p[2] \in Outputs
    BY <1>5
  <2>2. Weights[p[1]][p[2]] \in Nat
    BY <2>1, WrrAssumption
  <2> QED
    BY <1>3, <2>1, <2>2 DEF WrrInv, GrantsCovered
<1>7. ASSUME NEW i \in Inputs, \A o \in Outputs : Weights[i][o] # 0  PROVE ~ Refilled(i)
  <2> SUFFICES ASSUME Refilled(i)  PROVE FALSE
    OBVIOUS
  <2>1. PICK o \in AcceptCandidates(i) : ~ (Quota(i, o) > 0)
    BY DEF Refilled, AcceptingInputs
  <2>2. o \in Outputs /\ <<i, o>> \in m_grants
    BY DEF AcceptCandidates
  <2> QED
    BY <1>7, <2>1, <2>2 DEF WrrInv, GrantsCovered
<1> QED
  BY <1>3, <1>4, <1>6, <1>7

\* A served pair was granted, and uses one of its quota.
LEMMA WrrUpdateQuota ==
  ASSUME OneIteration, WrrInv, ServePhase
  PROVE  /\ QuotaRange' /\ GrantsCovered'
         /\ sch_result = {} /\ sch_result' = Matched
         /\ \A i \in Inputs, o \in Outputs :
              Quota(i, o)' = IF <<i, o>> \in Matched THEN Quota(i, o) - 1 ELSE Quota(i, o)
<1>1. /\ Serve
      /\ m_current_quota' = [i \in Inputs |-> [o \in Outputs |->
           IF <<i, o>> \in Matched THEN m_current_quota[i][o] - 1 ELSE m_current_quota[i][o]]]
  BY DEF ServePhase, UseQuota
<1>2. \A i \in Inputs, o \in Outputs :
        Quota(i, o)' = IF <<i, o>> \in Matched THEN Quota(i, o) - 1 ELSE Quota(i, o)
  BY <1>1 DEF Quota
<1>3. sch_result = {} /\ sch_result' = Matched
  <2>1. pc = "update"
    BY <1>1 DEF Serve
  <2> QED
    BY <1>1, <2>1, WrrFirst DEF Serve
<1>4. GrantsCovered'
  BY <1>1 DEF Serve, GrantsCovered
<1>5. ASSUME NEW i \in Inputs, NEW o \in Outputs
      PROVE  Quota(i, o)' \in Int /\ Quota(i, o)' \in (IF Weights[i][o] = 0 THEN -1 ELSE 0) .. Weights[i][o]
  <2>1. Weights[i][o] \in Nat /\ Quota(i, o) \in (IF Weights[i][o] = 0 THEN -1 ELSE 0) .. Weights[i][o]
    BY WrrAssumption DEF WrrInv, QuotaRange
  <2>2. CASE <<i, o>> \in Matched
    <3>1. <<i, o>> \in m_grants
      BY <2>2 DEF Matched, WrrInv, SwitchInv, SlotInv, AcceptsMatch
    <3>2. Quota(i, o) > 0 \/ (Weights[i][o] = 0 /\ Quota(i, o) = 0)
      BY <3>1 DEF WrrInv, GrantsCovered
    <3> QED
      BY <1>2, <2>1, <2>2, <3>2
  <2>3. CASE <<i, o>> \notin Matched
    BY <1>2, <2>1, <2>3
  <2> QED
    BY <2>2, <2>3
<1>6. QuotaRange'
  <2>1. m_current_quota' = [i \in Inputs |-> [o \in Outputs |-> Quota(i, o)']]
    BY <1>1 DEF Quota
  <2>2. m_current_quota' \in [Inputs -> [Outputs -> Int]]
    BY <1>5, <2>1
  <2> QED
    BY <1>5, <2>2 DEF QuotaRange
<1> QED
  BY <1>2, <1>3, <1>4, <1>6

\* All steps keep the invariant and are steps of pim.
LEMMA WrrStep ==
  ASSUME OneIteration, WrrInv, [WrrNext]_wrrVars
  PROVE  WrrInv' /\ [Matcher!Next]_(Matcher!svars)
<1>1. [Matcher!Next]_(Matcher!svars) /\ SwitchInv' /\ PointersOK'
  BY WrrRefines
<1>2. CASE GrantPhase
  <2>1. Grant(select_wrr_input)
    BY <1>2 DEF GrantPhase
  <2>2. FirstIteration'
    BY <2>1 DEF Grant, slotVars, WrrInv, FirstIteration
  <2> QED
    BY <1>1, <1>2, <2>2, WrrGrantQuota DEF WrrInv
<1>3. CASE AcceptPhase
  <2>1. Accept(select_wrr_output)
    BY <1>3 DEF AcceptPhase
  <2>2. FirstIteration'
    BY <2>1 DEF Accept, slotVars, WrrInv, FirstIteration
  <2> QED
    BY <1>1, <1>3, <2>2, WrrAcceptQuota DEF WrrInv
<1>4. CASE ServePhase
  <2>1. Serve
    BY <1>4 DEF ServePhase
  <2>2. FirstIteration'
    BY <2>1 DEF Serve, WrrInv, FirstIteration, SwitchInv, SwitchTypeOK
  <2> QED
    BY <1>1, <1>4, <2>2, WrrUpdateQuota DEF WrrInv
<1>5. CASE /\ UNCHANGED <<pvars, m_current_quota>>
           /\ \/ \E a \in RequestArgs : Arrive(a[1], a[2])
              \/ StartSlot \/ SlotEnds \/ UNCHANGED svars
  <2>1. QuotaRange'
    BY <1>5 DEF WrrInv, QuotaRange, Quota
  <2>2. m_grants' \subseteq m_grants
    BY <1>5 DEF Arrive, StartSlot, SlotEnds, svars
  <2>3. GrantsCovered'
    BY <1>5, <2>2 DEF WrrInv, GrantsCovered, Quota
  <2>4. FirstIteration'
    BY <1>5 DEF WrrInv, FirstIteration, Arrive, StartSlot, SlotEnds, svars, slotVars
  <2> QED
    BY <1>1, <2>1, <2>3, <2>4 DEF WrrInv
<1> QED
  BY <1>1, <1>2, <1>3, <1>4, <1>5, WrrSteps

\* The scheduler starts in it.
LEMMA WrrStart ==
  ASSUME WrrInit
  PROVE  WrrInv /\ Matcher!Init
<1>1. PointerInit /\ m_current_quota = Weights
  BY DEF WrrInit
<1>2. PointersOK /\ Matcher!Init
  BY <1>1, PointersInit
<1>3. SwitchInit
  BY <1>2, SamePim
<1>4. SwitchInv
  BY <1>3, SwitchAssumption DEF SwitchInit, SwitchInv, SwitchTypeOK, SlotInv,
     GrantsSound, AcceptsMatch, ResultSound, PhaseSound, IsMatching, Abstract!IsMatching
<1>5. QuotaRange
  BY <1>1, WrrAssumption DEF QuotaRange, Quota
<1> QED
  BY <1>2, <1>3, <1>4, <1>5 DEF WrrInv, GrantsCovered, FirstIteration, SwitchInit


\* islip_wrr.cpp implements pim as well, with whatever weights: the quotas only
\* resolve the choices pim makes at random.
THEOREM WrrImplementsPim ==
  ASSUME OneIteration
  PROVE  WrrSpec => ImplementsPim
<1>1. WrrInit => WrrInv /\ Matcher!Init
  BY WrrStart
<1>2. WrrInv /\ [WrrNext]_wrrVars => WrrInv' /\ [Matcher!Next]_(Matcher!svars)
  BY WrrStep
<1> QED
  BY <1>1, <1>2, PTL DEF WrrSpec, ImplementsPim, Matcher!Spec

\* No pair is ever served beyond its quota.
LEMMA QuotasOfInv == WrrInv => QuotasKept
<1>1. WrrInv => TypeOK
  BY DEF WrrInv, SwitchInv, PointersOK, TypeOK
<1>2. WrrInv => \A i \in Inputs, o \in Outputs :
        m_current_quota[i][o] \in (IF Weights[i][o] = 0 THEN -1 ELSE 0) .. Weights[i][o]
  BY DEF WrrInv, QuotaRange, Quota
<1> QED
  BY <1>1, <1>2 DEF QuotasKept

THEOREM WrrQuotasKept ==
  ASSUME OneIteration
  PROVE  WrrSpec => []QuotasKept
<1>1. WrrInit => WrrInv
  BY WrrStart
<1>2. WrrInv /\ [WrrNext]_wrrVars => WrrInv'
  BY WrrStep
<1> QED
  BY <1>1, <1>2, QuotasOfInv, PTL DEF WrrSpec

-----------------------------------------------------------------------------
(* The shares of inputs 0 and 1 in output 0.                               *)

W0 == Weights[0][0]
W1 == Weights[1][0]

\* No weight of the two inputs is 0: their quotas are refilled only by grants.
BothWeighted == InputNum >= 2 /\ \A o \in Outputs : Weights[0][o] # 0 /\ Weights[1][o] # 0

\* How far the used quota of input 0 is ahead of that of input 1, as in lag.
Ahead == W0 * Quota(1, 0) - W1 * Quota(0, 0)

\* lag is what Ahead has grown since both queues became backlogged; it is
\* brought up to date when a slot ends, and is 0 unless both have a cell when
\* a slot starts.
LagInv ==
  /\ lag \in -(2 * W0 * W1) .. 2 * W0 * W1
  /\ \E base \in -(W0 * W1) .. W0 * W1 :
       Ahead - base = IF pc = "idle" THEN lag ELSE lag + Gain
  /\ pc = "grant" /\ m_iter_cnt = 0 => lag = 0 \/ (m_voq[0][0] > 0 /\ m_voq[1][0] > 0)

\* Products grow with their second factor.
LEMMA ProductsOrdered ==
  ASSUME NEW w \in Nat, NEW n \in Nat, NEW k \in 0 .. n
  PROVE  w * k \in 0 .. w * n
<1>1. w * n = w * k + w * (n - k) /\ w * (n - k) >= 0 /\ w * k >= 0
  OBVIOUS
<1>2. w * n \in Int /\ w * k \in Int
  OBVIOUS
<1> QED
  BY <1>1, <1>2

\* The pairs <<0, 0>> and <<1, 0>> exist and have weights.
LEMMA TwoPairs ==
  ASSUME BothWeighted
  PROVE  /\ 0 \in Inputs /\ 1 \in Inputs /\ 0 \in Outputs
         /\ W0 \in Nat \ {0} /\ W1 \in Nat \ {0}
         /\ W0 * W1 \in Nat /\ 2 * W0 * W1 = 2 * (W0 * W1)
<1>1. 0 \in Inputs /\ 1 \in Inputs /\ 0 \in Outputs
  BY SwitchAssumption DEF BothWeighted, Inputs, Outputs
<1>2. W0 \in Nat \ {0} /\ W1 \in Nat \ {0}
  BY <1>1, WrrAssumption DEF BothWeighted, W0, W1
<1> QED
  BY <1>1, <1>2

\* A round of quotas moves Ahead by no more than the product of the weights.
LEMMA AheadRange ==
  ASSUME BothWeighted, QuotaRange
  PROVE  /\ Quota(0, 0) \in 0 .. W0 /\ Quota(1, 0) \in 0 .. W1
         /\ Ahead \in -(W0 * W1) .. W0 * W1
<1>1. Quota(0, 0) \in 0 .. W0 /\ Quota(1, 0) \in 0 .. W1
  BY TwoPairs DEF QuotaRange, W0, W1
<1>2. W0 * Quota(1, 0) \in 0 .. W0 * W1 /\ W1 * Quota(0, 0) \in 0 .. W1 * W0
  BY <1>1, TwoPairs, ProductsOrdered
<1>3. W1 * W0 = W0 * W1
  BY TwoPairs
<1> QED
  BY <1>1, <1>2, <1>3, TwoPairs DEF Ahead

\* How lag moves with the steps.
LEMMA LagMoves ==
  ASSUME ShareNext
  PROVE  \/ Return /\ lag' = lag + Gain
         \/ wrr_arbitration /\ (m_voq[0][0] = 0 \/ m_voq[1][0] = 0) /\ lag' = 0
         \/ wrr_arbitration /\ ~ (m_voq[0][0] = 0 \/ m_voq[1][0] = 0) /\ lag' = lag
         \/ /\ \/ GrantPhase \/ AcceptPhase \/ ServePhase
               \/ \E a \in RequestArgs : wrr_request(a[1], a[2])
            /\ lag' = lag
<1>1. Return => pc = "grant" /\ pc' = "idle"
  BY DEF Return, SlotEnds
<1>2. wrr_arbitration => pc = "idle" /\ pc' = "grant"
  BY DEF wrr_arbitration, StartSlot
<1>3. GrantPhase => pc' = "accept"
  BY DEF GrantPhase, Grant
<1>4. AcceptPhase => pc' = "update"
  BY DEF AcceptPhase, Accept
<1>5. ServePhase => pc = "update"
  BY DEF ServePhase, Serve
<1>6. (\E a \in RequestArgs : wrr_request(a[1], a[2])) => pc = "idle" /\ pc' = "idle"
  BY DEF wrr_request, Arrive
<1>7. \/ wrr_arbitration \/ GrantPhase \/ AcceptPhase \/ ServePhase \/ Return
      \/ \E a \in RequestArgs : wrr_request(a[1], a[2])
  BY DEF ShareNext, WrrNext, WrrSlot
<1>8. lag' = CASE Return -> lag + Gain
               [] wrr_arbitration /\ (m_voq[0][0] = 0 \/ m_voq[1][0] = 0) -> 0
               [] OTHER -> lag
  BY DEF ShareNext
<1>9. CASE Return
  BY <1>1, <1>2, <1>8, <1>9
<1>10. CASE wrr_arbitration
  BY <1>1, <1>2, <1>8, <1>10
<1>11. CASE ~ Return /\ ~ wrr_arbitration
  BY <1>7, <1>8, <1>11
<1> QED
  BY <1>9, <1>10, <1>11

\* What a slot adds to lag is what its matches add to Ahead.
GainOf(M) == (IF <<0, 0>> \in M THEN W1 ELSE 0) - (IF <<1, 0>> \in M THEN W0 ELSE 0)

\* A step that moves nothing lag depends on keeps the invariant.
LEMMA LagKept ==
  ASSUME BothWeighted, LagInv, lag' = lag, (pc' = "idle") = (pc = "idle"),
         GainOf(sch_result)' = GainOf(sch_result), Ahead' = Ahead,
         (pc' = "grant" /\ m_iter_cnt' = 0) => \/ lag = 0
                                               \/ m_voq'[0][0] > 0 /\ m_voq'[1][0] > 0
  PROVE  LagInv'
<1>1. Gain = GainOf(sch_result) /\ Gain' = GainOf(sch_result)'
  BY DEF Gain, GainOf, W0, W1
<1>2. PICK base \in -(W0 * W1) .. W0 * W1 : Ahead - base = IF pc = "idle" THEN lag ELSE lag + Gain
  BY DEF LagInv
<1>3. W0' = W0 /\ W1' = W1
  BY DEF W0, W1
<1>4. Ahead' - base = (IF pc' = "idle" THEN lag' ELSE lag' + Gain')
  BY <1>1, <1>2
<1> QED
  BY <1>3, <1>4 DEF LagInv

\* A slot that is about to grant, accept or serve has served nobody yet.
LEMMA NoGainYet ==
  ASSUME sch_result = {}
  PROVE  Gain = 0 /\ GainOf(sch_result) = 0
  BY TwoPairs DEF Gain, GainOf, W0, W1

\* While both inputs wait, a refill finds both quotas used up.
LEMMA LagGrant ==
  ASSUME OneIteration, BothWeighted, WrrInv, LagInv, GrantPhase, lag' = lag
  PROVE  LagInv'
<1>1. /\ Grant(select_wrr_input)
      /\ m_current_quota' = [i \in Inputs |-> [o \in Outputs |->
           IF RoundOver(o) /\ m_voq[i][o] > 0 THEN Weights[i][o] ELSE m_current_quota[i][o]]]
  BY DEF GrantPhase
<1>2. /\ pc = "grant" /\ m_iter_cnt < Iterations /\ pc' = "accept"
      /\ sch_result' = sch_result /\ m_voq' = m_voq
  BY <1>1 DEF Grant, slotVars
<1>3. m_iter_cnt = 0 /\ sch_result = {} /\ m_input_occupied = {} /\ m_output_occupied = {}
  BY <1>2, WrrFirst
<1>4. Gain = 0 /\ Gain' = 0 /\ GainOf(sch_result)' = GainOf(sch_result)
  <2>1. sch_result' = {}
    BY <1>2, <1>3
  <2>2. Gain = 0 /\ GainOf(sch_result) = 0
    BY <1>3, NoGainYet
  <2>3. Gain' = 0 /\ GainOf(sch_result)' = 0
    BY <2>1 DEF Gain, GainOf, W0, W1
  <2> QED
    BY <2>2, <2>3
<1>5. QuotaRange'
  BY WrrGrantQuota
<1>6. Ahead' \in -(W0 * W1) .. W0 * W1
  <2>1. (Quota(0, 0) \in 0 .. W0 /\ Quota(1, 0) \in 0 .. W1)'
    BY <1>5, TwoPairs DEF QuotaRange, W0, W1
  <2>2. W0 * Quota(1, 0)' \in 0 .. W0 * W1 /\ W1 * Quota(0, 0)' \in 0 .. W1 * W0
    BY <2>1, TwoPairs, ProductsOrdered DEF W0, W1
  <2>3. W1 * W0 = W0 * W1
    BY TwoPairs
  <2> QED
    BY <2>2, <2>3, TwoPairs DEF Ahead, W0, W1
<1>7. CASE lag = 0
  <2>1. Ahead' - Ahead' = lag' + Gain'
    <3>1. Ahead' \in Int
      BY <1>6
    <3>2. \A x \in Int : x - x = 0
      OBVIOUS
    <3>3. lag' + Gain' = 0
      BY <1>4, <1>7
    <3> QED
      BY <3>1, <3>2, <3>3
  <2>2. W0' = W0 /\ W1' = W1
    BY DEF W0, W1
  <2>3. lag' \in -(2 * W0 * W1) .. 2 * W0 * W1
    BY DEF LagInv
  <2> QED
    BY <1>2, <1>6, <2>1, <2>2, <2>3 DEF LagInv
<1>8. CASE m_voq[0][0] > 0 /\ m_voq[1][0] > 0
  <2>1. /\ Quota(0, 0)' = IF RoundOver(0) THEN W0 ELSE Quota(0, 0)
        /\ Quota(1, 0)' = IF RoundOver(0) THEN W1 ELSE Quota(1, 0)
    BY <1>1, <1>8, TwoPairs DEF Quota, W0, W1
  <2>2. Ahead' = Ahead
    <3>1. CASE RoundOver(0)
      <4>1. 0 \in GrantCandidates(0) /\ 1 \in GrantCandidates(0)
        BY <1>3, <1>8, TwoPairs DEF GrantCandidates, Open
      <4>2. ~ (Quota(0, 0) > 0) /\ ~ (Quota(1, 0) > 0)
        BY <3>1, <4>1 DEF RoundOver, InQuota, Quota
      <4>3. Quota(0, 0) = 0 /\ Quota(1, 0) = 0
        BY <4>2, AheadRange DEF WrrInv
      <4>4. Ahead = 0
        BY <4>3, TwoPairs DEF Ahead
      <4>5. Ahead' = W0 * W1 - W1 * W0
        BY <2>1, <3>1 DEF Ahead, W0, W1
      <4> QED
        BY <4>4, <4>5, TwoPairs
    <3>2. CASE ~ RoundOver(0)
      BY <2>1, <3>2 DEF Ahead, W0, W1
    <3> QED
      BY <3>1, <3>2
  <2> QED
    BY <1>2, <1>4, <2>2, LagKept
<1> QED
  BY <1>2, <1>3, <1>7, <1>8 DEF LagInv

\* Serving a pair moves Ahead by what the slot will add to lag.
LEMMA LagUpdate ==
  ASSUME OneIteration, BothWeighted, WrrInv, LagInv, ServePhase, lag' = lag
  PROVE  LagInv'
<1>1. Serve
  BY DEF ServePhase
<1>2. pc = "update" /\ pc' = "grant" /\ m_iter_cnt' = m_iter_cnt + 1 /\ m_iter_cnt' # 0
  BY <1>1 DEF Serve, WrrInv, SwitchInv, SwitchTypeOK
<1>3. sch_result = {} /\ sch_result' = Matched
  BY WrrUpdateQuota
<1>4. /\ Quota(0, 0)' = IF <<0, 0>> \in Matched THEN Quota(0, 0) - 1 ELSE Quota(0, 0)
      /\ Quota(1, 0)' = IF <<1, 0>> \in Matched THEN Quota(1, 0) - 1 ELSE Quota(1, 0)
  BY WrrUpdateQuota, TwoPairs
<1>5. Quota(0, 0) \in Int /\ Quota(1, 0) \in Int
  BY TwoPairs, AheadRange DEF WrrInv
<1>6. Ahead' = Ahead + GainOf(Matched)
  <2>1. Ahead' = W0 * Quota(1, 0)' - W1 * Quota(0, 0)'
    BY DEF Ahead, W0, W1
  <2>2. /\ W0 * (Quota(1, 0) - 1) = W0 * Quota(1, 0) - W0
        /\ W1 * (Quota(0, 0) - 1) = W1 * Quota(0, 0) - W1
        /\ W0 * Quota(1, 0) \in Int /\ W1 * Quota(0, 0) \in Int
    BY <1>5, TwoPairs
  <2> QED
    BY <1>4, <2>1, <2>2, TwoPairs DEF Ahead, GainOf
<1>7. Gain = 0 /\ Gain' = GainOf(Matched)
  <2>1. Gain' = GainOf(Matched)
    BY <1>3 DEF Gain, GainOf, W0, W1
  <2> QED
    BY <1>3, <2>1, NoGainYet
<1>8. PICK base \in -(W0 * W1) .. W0 * W1 : Ahead - base = lag
  BY <1>2, <1>7 DEF LagInv
<1>9. Ahead' - base = lag' + Gain'
  <2>1. Ahead \in Int /\ GainOf(Matched) \in Int
    BY AheadRange, TwoPairs DEF WrrInv, GainOf
  <2> QED
    BY <1>6, <1>7, <1>8, <2>1, TwoPairs
<1>10. W0' = W0 /\ W1' = W1
  BY DEF W0, W1
<1> QED
  BY <1>2, <1>9, <1>10 DEF LagInv

\* All steps keep lag in step with Ahead.
LEMMA LagStep ==
  ASSUME OneIteration, BothWeighted, WrrInv, LagInv, [ShareNext]_shareVars
  PROVE  LagInv'
<1>1. ASSUME sch_result' = sch_result  PROVE GainOf(sch_result)' = GainOf(sch_result)
  BY <1>1 DEF GainOf, W0, W1
<1>2. ASSUME m_current_quota' = m_current_quota  PROVE Ahead' = Ahead
  BY <1>2 DEF Ahead, Quota, W0, W1
<1>3. Ahead \in -(W0 * W1) .. W0 * W1 /\ W0 * W1 \in Nat /\ Ahead - Ahead = 0
  BY AheadRange, TwoPairs DEF WrrInv
<1>4. W0' = W0 /\ W1' = W1
  BY DEF W0, W1
<1>5. CASE Return /\ lag' = lag + Gain
  <2>1. SlotEnds /\ UNCHANGED m_current_quota
    BY <1>5 DEF Return
  <2>2. pc = "grant" /\ pc' = "idle" /\ Ahead' = Ahead
    BY <1>2, <2>1 DEF SlotEnds
  <2>3. PICK base \in -(W0 * W1) .. W0 * W1 : Ahead - base = lag + Gain
    BY <2>2 DEF LagInv
  <2>4. lag' = Ahead - base
    BY <1>5, <2>3
  <2>5. lag' \in -(2 * W0 * W1) .. 2 * W0 * W1
    BY <1>3, <2>4, TwoPairs
  <2> QED
    BY <1>4, <2>2, <2>4, <2>5 DEF LagInv
<1>6. CASE wrr_arbitration /\ (m_voq[0][0] = 0 \/ m_voq[1][0] = 0) /\ lag' = 0
  <2>1. StartSlot /\ UNCHANGED m_current_quota
    BY <1>6 DEF wrr_arbitration
  <2>2. pc' = "grant" /\ sch_result' = {} /\ Ahead' = Ahead
    BY <1>2, <2>1 DEF StartSlot
  <2>3. Gain' = 0
    BY <2>2 DEF Gain
  <2>4. Ahead' - Ahead = lag' + Gain'
    BY <1>3, <1>6, <2>2, <2>3
  <2>5. lag' \in -(2 * W0 * W1) .. 2 * W0 * W1
    BY <1>6, TwoPairs
  <2> QED
    BY <1>3, <1>4, <1>6, <2>2, <2>4, <2>5 DEF LagInv
<1>7. CASE wrr_arbitration /\ ~ (m_voq[0][0] = 0 \/ m_voq[1][0] = 0) /\ lag' = lag
  <2>1. StartSlot /\ UNCHANGED m_current_quota
    BY <1>7 DEF wrr_arbitration
  <2>2. pc = "idle" /\ pc' = "grant" /\ sch_result' = {} /\ Ahead' = Ahead /\ m_voq' = m_voq
    BY <1>2, <2>1 DEF StartSlot
  <2>3. Gain' = 0
    BY <2>2 DEF Gain
  <2>4. PICK base \in -(W0 * W1) .. W0 * W1 : Ahead - base = lag
    BY <2>2 DEF LagInv
  <2>5. Ahead' - base = lag' + Gain'
    BY <1>3, <1>7, <2>2, <2>3, <2>4
  <2>6. m_voq[0][0] > 0 /\ m_voq[1][0] > 0
    BY <1>7, TwoPairs DEF WrrInv, SwitchInv, SwitchTypeOK
  <2>7. lag' \in -(2 * W0 * W1) .. 2 * W0 * W1
    BY <1>7 DEF LagInv
  <2> QED
    BY <1>4, <1>7, <2>2, <2>5, <2>6, <2>7 DEF LagInv
<1>8. CASE GrantPhase /\ lag' = lag
  BY <1>8, LagGrant
<1>9. CASE AcceptPhase /\ lag' = lag
  <2>1. Accept(select_wrr_output)
    BY <1>9 DEF AcceptPhase
  <2>2. Quota(0, 0)' = Quota(0, 0) /\ Quota(1, 0)' = Quota(1, 0)
    BY <1>9, TwoPairs, WrrAcceptQuota DEF BothWeighted
  <2>3. Ahead' = Ahead
    BY <2>2 DEF Ahead, W0, W1
  <2>4. pc = "accept" /\ pc' = "update" /\ sch_result' = sch_result
    BY <2>1 DEF Accept, slotVars
  <2> QED
    BY <1>1, <1>9, <2>3, <2>4, LagKept
<1>10. CASE ServePhase /\ lag' = lag
  BY <1>10, LagUpdate
<1>11. CASE (\E a \in RequestArgs : wrr_request(a[1], a[2])) /\ lag' = lag
  <2>1. PICK a \in RequestArgs : Arrive(a[1], a[2]) /\ UNCHANGED m_current_quota
    BY <1>11 DEF wrr_request
  <2>2. pc = "idle" /\ pc' = "idle" /\ sch_result' = sch_result
    BY <2>1 DEF Arrive, slotVars
  <2> QED
    BY <1>1, <1>2, <1>11, <2>1, <2>2, LagKept
<1>12. CASE UNCHANGED shareVars
  <2>1. /\ lag' = lag /\ m_current_quota' = m_current_quota /\ sch_result' = sch_result
        /\ pc' = pc /\ m_iter_cnt' = m_iter_cnt /\ m_voq' = m_voq
    BY <1>12 DEF shareVars, wrrVars, vars, svars, slotVars
  <2>2. pc' = "grant" /\ m_iter_cnt' = 0 => \/ lag = 0
                                            \/ m_voq'[0][0] > 0 /\ m_voq'[1][0] > 0
    BY <2>1 DEF LagInv
  <2> QED
    BY <1>1, <1>2, <2>1, <2>2, LagKept
<1> QED
  BY <1>5, <1>6, <1>7, <1>8, <1>9, <1>10, <1>11, <1>12, LagMoves

\* While the queues of inputs 0 and 1 for output 0 stay backlogged, the cells
\* served of them keep to the proportion of the weights within what two rounds
\* of quotas allow: for any number of ports and any weights of the other pairs,
\* as long as the two inputs have no pair of weight 0.
THEOREM WrrProportional ==
  ASSUME OneIteration, BothWeighted
  PROVE  ShareSpec => []Proportional
<1>1. ASSUME ShareInit  PROVE WrrInv /\ LagInv
  <2>1. WrrInit /\ lag = 0
    BY <1>1 DEF ShareInit
  <2>2. WrrInv /\ PointerInit /\ m_current_quota = Weights
    BY <2>1, WrrStart DEF WrrInit
  <2>3. pc = "idle"
    BY <2>2 DEF PointerInit, SwitchInit
  <2>4. Ahead = W0 * W1 - W1 * W0
    BY <2>2 DEF Ahead, Quota, W0, W1
  <2>5. Ahead - 0 = lag /\ 0 \in -(W0 * W1) .. W0 * W1 /\ lag \in -(2 * W0 * W1) .. 2 * W0 * W1
    BY <2>1, <2>4, TwoPairs
  <2> QED
    BY <2>2, <2>3, <2>5 DEF LagInv
<1>2. ASSUME WrrInv, LagInv, [ShareNext]_shareVars  PROVE WrrInv' /\ LagInv'
  <2>1. [WrrNext]_wrrVars
    BY <1>2 DEF ShareNext, shareVars
  <2> QED
    BY <1>2, <2>1, WrrStep, LagStep
<1>3. WrrInv /\ LagInv => Proportional
  BY QuotasOfInv DEF LagInv, Proportional, W0, W1
<1>4. WrrInv /\ LagInv /\ [ShareNext]_shareVars => WrrInv' /\ LagInv'
  BY <1>2
<1>5. ShareInit => WrrInv /\ LagInv
  BY <1>1
<1> QED
  BY <1>3, <1>4, <1>5, PTL DEF ShareSpec
=============================================================================
