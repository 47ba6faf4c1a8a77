------------------------------ MODULE Standalone ----------------------------
(***************************************************************************)
(* The sequential components that share no state with any other: the       *)
(* switches fifo, islip_booksim and islip_sp, the scan loop of the         *)
(* schedulers, and the load/store unit.  A program creates one of them and *)
(* is its only caller; unit says which.  Variables that have the same name *)
(* in two of the modules are members of whichever unit was created, and a  *)
(* variable that is no member of it is 0.                                  *)
(***************************************************************************)
EXTENDS Integers, Sequences

CONSTANTS NumPorts,         \* ports on each side of the small switches
          SteadyPorts,      \* ports of the booksim switch under steady load
          FifoInputs,       \* inputs that compete for the one output of fifo
          MaxCells, MaxScan, MaxInst, Addr

ASSUME PortsAssumption ==
  /\ NumPorts \in Nat \ {0} /\ SteadyPorts \in Nat \ {0} /\ FifoInputs \in Nat \ {0}
  /\ MaxCells \in Nat /\ MaxInst \in Nat

VARIABLES m_fifos,
          m_ql, m_request, m_grant, m_accept, m_gi, m_ai,
          m_voq, m_a_ptr, m_accepts,
          m_g_ptr, m_grants, m_input_occupied, m_output_occupied, m_iter_cnt,
          sch_result, pc,
          n, start, eligible, x, taken, done,
          m_memory, m_store_buffer, m_inflight_queue, m_finished_loads,
          program, reported,
          unit

fifoVars    == <<m_fifos>>
booksimVars == <<m_ql, m_request, m_grant, m_accept, m_gi, m_ai>>
spVars      == <<m_voq, m_a_ptr, m_accepts>>
scanVars    == <<n, start, eligible, x, taken, done>>
lsuVars     == <<m_memory, m_store_buffer, m_inflight_queue, m_finished_loads,
                 program, reported>>
fifoSp      == <<m_g_ptr, m_grants>>
booksimSp   == <<m_input_occupied, m_output_occupied, m_iter_cnt, sch_result>>
vars == <<fifoVars, booksimVars, spVars, scanVars, lsuVars, fifoSp, booksimSp, pc, unit>>

Fifo2 == INSTANCE Fifo WITH InputNum <- NumPorts, OutputNum <- NumPorts
Fifo1 == INSTANCE Fifo WITH InputNum <- FifoInputs, OutputNum <- 1
\* The programs give booksim_islip as many iterations as ports, with and without
\* m_max_match, and two iterations under steady load.
Booksim(NumPort, Iterations, MaxMatch) == INSTANCE BooksimIslip
Sp == INSTANCE IslipSp WITH
           InputNum <- NumPorts, OutputNum <- NumPorts, Iterations <- NumPorts,
           VoqSize <- 1, Levels <- 2
Scan == INSTANCE ScanLoop WITH MaxPorts <- MaxScan
LS == INSTANCE Lsu WITH LoadLatency <- 3, StoreLatency <- 2
SlowStores == INSTANCE Lsu WITH LoadLatency <- 1, StoreLatency <- 3

\* A caller that does as it likes, with either order of the latencies, and one that
\* goes through the cycle of TEST_load_forwarding.
IsLsu == unit \in {"lsu", "lsu_slow_stores", "lsu_cycle"}

NoFifo    == m_fifos = 0
NoBooksim == /\ m_ql = 0 /\ m_request = 0 /\ m_grant = 0 /\ m_accept = 0
             /\ m_gi = 0 /\ m_ai = 0
NoSp      == m_voq = 0 /\ m_a_ptr = 0 /\ m_accepts = 0
NoScan    == n = 0 /\ start = 0 /\ eligible = 0 /\ x = 0 /\ taken = 0 /\ done = 0
NoLsu     == /\ m_memory = 0 /\ m_store_buffer = 0 /\ m_inflight_queue = 0
             /\ m_finished_loads = 0 /\ program = 0 /\ reported = 0
NoFifoSp    == m_g_ptr = 0 /\ m_grants = 0
NoBooksimSp == /\ m_input_occupied = 0 /\ m_output_occupied = 0
               /\ m_iter_cnt = 0 /\ sch_result = 0

Init ==
  \/ /\ unit = "fifo2" /\ Fifo2!Init
     /\ NoBooksim /\ NoSp /\ NoScan /\ NoLsu /\ NoBooksimSp
  \/ /\ unit = "fifo1" /\ Fifo1!Init
     /\ NoBooksim /\ NoSp /\ NoScan /\ NoLsu /\ NoBooksimSp
  \/ /\ unit \in {"booksim", "booksim_max"} /\ Booksim(NumPorts, NumPorts, FALSE)!Init
     /\ NoFifo /\ NoSp /\ NoScan /\ NoLsu /\ NoFifoSp
  \/ /\ unit = "booksim_steady" /\ Booksim(SteadyPorts, 2, FALSE)!SteadyInit
     /\ NoFifo /\ NoSp /\ NoScan /\ NoLsu /\ NoFifoSp
  \/ /\ unit = "islip_sp" /\ Sp!Init
     /\ NoFifo /\ NoBooksim /\ NoScan /\ NoLsu
  \/ /\ unit = "scan" /\ Scan!Init
     /\ NoFifo /\ NoBooksim /\ NoSp /\ NoLsu /\ NoFifoSp /\ NoBooksimSp /\ pc = 0
  \/ /\ IsLsu /\ LS!Init /\ pc = IF unit = "lsu_cycle" THEN "tick" ELSE 0
     /\ NoFifo /\ NoBooksim /\ NoSp /\ NoScan /\ NoFifoSp /\ NoBooksimSp

OnlyFifo    == UNCHANGED <<booksimVars, spVars, scanVars, lsuVars, booksimSp>>
OnlyBooksim == UNCHANGED <<fifoVars, spVars, scanVars, lsuVars, fifoSp>>
OnlySp      == UNCHANGED <<fifoVars, booksimVars, scanVars, lsuVars>>
OnlyScan    == UNCHANGED <<fifoVars, booksimVars, spVars, lsuVars, fifoSp, booksimSp, pc>>
OnlyLsu     == UNCHANGED <<fifoVars, booksimVars, spVars, scanVars, fifoSp, booksimSp>>

\* The calls that run by themselves once they are made, or that the caller
\* repeats for ever.
FifoSlot   == unit = "fifo1" /\ Fifo1!Slot /\ OnlyFifo
SteadySlot == unit = "booksim_steady" /\ Booksim(SteadyPorts, 2, FALSE)!SteadyNext /\ OnlyBooksim

\* A cycle of TEST_load_forwarding (test.cpp:965-999): the clock ticks, at most one
\* request is issued, and the caller asks once for a result.
CycleTick  == /\ pc = "tick" /\ pc' = "issue"
              /\ IF DOMAIN m_inflight_queue # {} THEN LS!tick ELSE UNCHANGED lsuVars
CycleIssue == /\ pc = "issue" /\ pc' = "poll"
              /\ \/ \E op \in {"LOAD", "STORE"}, a \in Addr : LS!issue_request(op, a)
                 \/ UNCHANGED lsuVars
CyclePoll  == /\ pc = "poll" /\ pc' = "tick"
              /\ IF m_finished_loads # <<>> THEN LS!has_completed_load ELSE UNCHANGED lsuVars
Cycle == CycleTick \/ CycleIssue \/ CyclePoll

Next ==
  /\ UNCHANGED unit
  /\ \/ unit = "fifo2" /\ Fifo2!Next /\ OnlyFifo
     \/ unit = "fifo1" /\ Fifo1!Next /\ OnlyFifo
     \/ unit = "booksim" /\ Booksim(NumPorts, NumPorts, FALSE)!Next /\ OnlyBooksim
     \/ unit = "booksim_max" /\ Booksim(NumPorts, NumPorts, TRUE)!Next /\ OnlyBooksim
     \/ SteadySlot
     \/ unit = "islip_sp" /\ Sp!Next /\ OnlySp
     \/ unit = "scan" /\ Scan!Next /\ OnlyScan
     \/ unit = "lsu" /\ LS!Next /\ OnlyLsu /\ UNCHANGED pc
     \/ unit = "lsu_slow_stores" /\ SlowStores!Next /\ OnlyLsu /\ UNCHANGED pc
     \/ unit = "lsu_cycle" /\ Cycle /\ OnlyLsu

\* fifo's arbitration() runs to its return and is called again and again, and
\* its pointers are not set back for ever; the loop of TEST_starvation
\* (test.cpp:345) goes on.
Spec ==
  /\ Init /\ [][Next]_vars
  /\ WF_vars(FifoSlot /\ UNCHANGED unit)
  /\ WF_vars(SteadySlot /\ UNCHANGED unit)
  /\ <>[][~ (unit = "fifo1" /\ Fifo1!init_priority_ptr)]_vars

-----------------------------------------------------------------------------
(* The properties of the units; each is explained where it is defined.     *)

\* booksim_islip.cpp: flags that are never withdrawn lead to no double match, and
\* no iteration passes without a match while one is possible.
BooksimSound ==
  /\ unit = "booksim" =>
       Booksim(NumPorts, NumPorts, FALSE)!TypeOK /\ Booksim(NumPorts, NumPorts, FALSE)!StaleGrantsHarmless /\ Booksim(NumPorts, NumPorts, FALSE)!IterationProgress
  /\ unit = "booksim_max" =>
       Booksim(NumPorts, NumPorts, TRUE)!TypeOK /\ Booksim(NumPorts, NumPorts, TRUE)!StaleGrantsHarmless /\ Booksim(NumPorts, NumPorts, TRUE)!IterationProgress
  /\ unit = "booksim_steady" => Booksim(SteadyPorts, 2, FALSE)!TypeOK

\* islip_sp.cpp: no output serves a lower priority than it could.
StrictPriority == unit = "islip_sp" => Sp!TypeOK /\ Sp!StrictPriority

\* islip_basic.cpp:70-87: the scan takes the port FirstFrom names.
TakesFirst == unit = "scan" => Scan!TakesFirst

\* lsu.cpp: no load returns a value older than the last store before it, and the
\* memory ends up with what the store buffer forwards.
MemoryConsistent == IsLsu => LS!TypeOK /\ LS!LoadNotStale /\ LS!MemoryCatchesUp

\* islip_sp.cpp: counted over the priorities, each output grants and each input
\* accepts as pim may, every answer that can be given is given, and the queues
\* change by the cells that cross.
\*
\* fifo.cpp: the switch is a crossbar too.  The cells of an input, whatever
\* their order in its queue, leave one at a time, to the output they are for,
\* and no output takes two in a slot: update_pointers() pops heads, and may do
\* so only because heads are what was granted.
ImplementsAbstract ==
  /\ unit = "islip_sp" => Sp!Matcher!Init
  /\ [][unit = "islip_sp" => [Sp!Matcher!Next]_(Sp!Matcher!svars)]_vars
  /\ [](unit = "fifo2" => Fifo2!TypeOK)
  /\ unit = "fifo2" => Fifo2!Abstract!Init
  /\ [][unit = "fifo2" => [Fifo2!Abstract!Next]_(Fifo2!Abstract!vars)]_vars

\* fifo.cpp: a cell at the head of its queue for the output leaves, however
\* often the heads of other inputs compete for it.
\*
\* booksim_islip.cpp: whatever set of queues never runs empty, each of them is
\* served again and again: two iterations with pointers that move in the first
\* one only starve nobody.
ServedInTurn ==
  /\ \A i \in Fifo1!Inputs :
       (unit = "fifo1" /\ i \in Fifo1!Requests(0)) ~>
         (unit = "fifo1" /\ pc = "idle" /\ <<i, 0>> \in m_grants)
  /\ \A q \in Booksim(SteadyPorts, 2, FALSE)!Pairs :
       (unit = "booksim_steady" /\ q \in m_ql) ~>
         (unit = "booksim_steady" /\ q \in sch_result)

\* lsu.cpp: no load is lost, and none is reported twice, although several requests
\* may finish in one tick.  A caller that issues at most one request per cycle and
\* asks once has the result in the cycle in which the load is done: no two loads
\* finish in one tick, whatever stores there are, so that none waits for a younger
\* one, although results are handed out youngest first.  (A caller that issues more
\* has no such promise: under an unending stream of loads, of which two finish
\* between two questions once, an old result may wait for ever.)
LoadsReportedInTime ==
  /\ IsLsu => LS!NoLoadLost
  /\ unit = "lsu_cycle" /\ pc = "tick" => m_finished_loads = <<>>
=============================================================================
