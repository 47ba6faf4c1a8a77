------------------------------ MODULE Schedulers ----------------------------
(***************************************************************************)
(* One caller with one of the schedulers that share the members of         *)
(* PointerSwitch; which one is chosen when it is created.  What they must  *)
(* have in common is stated once, for all of them.                         *)
(***************************************************************************)
EXTENDS PointerSwitch

CONSTANT Threshold   \* m_threshold of islip_threshold

ASSUME ThresholdAssumption == Threshold \in Nat \ {0}

VARIABLE scheduler

schedVars == <<vars, scheduler>>

R == INSTANCE Rrm
B == INSTANCE IslipBasic
T == INSTANCE IslipThreshold

SchedInit ==
  /\ PointerInit
  /\ scheduler \in {"pim", "rrm", "islip_basic", "islip_threshold"}

SchedNext ==
  /\ UNCHANGED scheduler
  /\ \/ scheduler = "pim" /\ Matcher!Next /\ UNCHANGED pvars
     \/ scheduler = "rrm" /\ R!Next
     \/ scheduler = "islip_basic" /\ B!Next
     \/ scheduler = "islip_threshold" /\ T!Next

SchedSpec == SchedInit /\ [][SchedNext]_schedVars

SchedSlot ==
  /\ UNCHANGED scheduler
  /\ \/ scheduler = "rrm" /\ R!Slot
     \/ scheduler = "islip_basic" /\ B!Slot
     \/ scheduler = "islip_threshold" /\ T!Slot

\* arbitration() contains no blocking call: once entered it runs to its return,
\* and the caller goes on scheduling slots.  rrm's init_priority_ptr() is called
\* when the scheduler is set up, not for ever after.  (Nothing is asked of pim:
\* its random draws may starve a queue.)
SchedFairSpec ==
  /\ SchedSpec
  /\ WF_schedVars(SchedSlot)
  /\ <>[][~ (scheduler = "rrm" /\ R!init_priority_ptr)]_vars

-----------------------------------------------------------------------------

\* T-SLIP: a cell of a queue below the threshold crosses only if no unmatched
\* input has a critical queue for its output.
CriticalFirst == scheduler = "islip_threshold" => T!CriticalBeforeOthers

\* No queue of RRM waits for ever, although its pointers may synchronise, and
\* none of T-SLIP that has reached the threshold, although a queue of another
\* input may refill as fast as it is served.
NobodyStarves ==
  /\ scheduler = "rrm" => NoStarvation
  /\ scheduler = "islip_threshold" =>
       \A i \in Inputs, o \in Outputs :
         m_voq[i][o] >= Threshold ~> <<i, o>> \in sch_result
=============================================================================
