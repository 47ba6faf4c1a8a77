--------------------------------- MODULE Lsu --------------------------------
(***************************************************************************)
(* modules/lsu/lsu.cpp: a load/store unit.  A request waits m_load_latency *)
(* or m_store_latency ticks; a load reads the store buffer first, which a  *)
(* store enters when it is issued and never leaves.                        *)
(*                                                                         *)
(* Instructions are numbered in program order.  A store writes its own     *)
(* number, so that a value tells which store it comes from; the values the *)
(* memory starts with are 0 (init_memory) and -1 (0xDEADBEEF).  The queue  *)
(* is in program order, because requests are added at its end and taken    *)
(* out anywhere: it is the function that gives the numbers of the requests *)
(* in it the ticks they still have to wait.                                *)
(***************************************************************************)
EXTENDS Integers, Sequences, SequencesExt, FiniteSets, FiniteSetsExt

CONSTANTS Addr,          \* addresses
          LoadLatency, StoreLatency,
          MaxInst        \* bound on the instructions of the model

VARIABLES m_memory, m_store_buffer,  \* m_store_buffer: a function on the
                                     \* addresses that have an entry
          m_inflight_queue, m_finished_loads,
          program,   \* history: the instructions issued so far
          reported   \* history: the results has_completed_load() returned

vars == <<m_memory, m_store_buffer, m_inflight_queue, m_finished_loads, program, reported>>

\* The constructor, and init_memory() for some of the addresses.
Init ==
  /\ m_memory \in [Addr -> {0, -1}]
  /\ m_store_buffer = [a \in {} |-> 0]
  /\ m_inflight_queue = [k \in {} |-> 0] /\ m_finished_loads = <<>>
  /\ program = <<>> /\ reported = {}

\* Mutant of Forwardable: a store is forwarded only once it is committed.
ForwardWhenCommitted(op, a) == m_store_buffer

\* The store buffer after an instruction is issued.
Forwardable(op, a) ==
  IF op = "STORE"
  THEN [b \in DOMAIN m_store_buffer \cup {a} |->
          IF b = a THEN Len(program) + 1 ELSE m_store_buffer[b]]
  ELSE m_store_buffer

issue_request(op, a) ==
  /\ Len(program) < MaxInst
  /\ program' = Append(program, [op |-> op, addr |-> a])
  /\ m_inflight_queue' =
       [k \in DOMAIN m_inflight_queue \cup {Len(program) + 1} |->
          IF k \in DOMAIN m_inflight_queue THEN m_inflight_queue[k]
          ELSE IF op = "LOAD" THEN LoadLatency ELSE StoreLatency]
  /\ m_store_buffer' = Forwardable(op, a)
  /\ UNCHANGED <<m_memory, m_finished_loads, reported>>

\* read_logic(), with the memory mem.
read_logic(mem, a) ==
  IF a \in DOMAIN m_store_buffer THEN m_store_buffer[a] ELSE mem[a]

\* The requests whose time is up in this tick.
Due == {k \in DOMAIN m_inflight_queue : m_inflight_queue[k] <= 1}

StoresTo(a, S) == {k \in S : program[k] = [op |-> "STORE", addr |-> a]}
Stores(a) == StoresTo(a, DOMAIN program)

\* The memory when the requests of done have finished, in queue order.
MemoryAfter(done) ==
  [a \in Addr |-> IF StoresTo(a, done) = {} THEN m_memory[a] ELSE Max(StoresTo(a, done))]

\* What tick() reports of a load, which the requests before it precede.
Result(k) == <<k, read_logic(MemoryAfter({j \in Due : j < k}), program[k].addr)>>
ResultsOf(loads) == [k \in DOMAIN loads |-> Result(loads[k])]

DueLoads == {k \in Due : program[k].op = "LOAD"}

\* The one sequence of the requests of S in queue order.
InOrder(S) ==
  {s \in [1 .. Cardinality(S) -> S] : \A j, k \in DOMAIN s : j < k => s[j] < s[k]}

\* Mutant of Remaining: erase() removes the requests before the finished one too.
RemainingAfterDue ==
  IF Due = {} THEN DOMAIN m_inflight_queue
  ELSE {k \in DOMAIN m_inflight_queue : k > Max(Due)}

\* The requests that stay in the queue.
Remaining == DOMAIN m_inflight_queue \ Due

tick ==
  /\ DOMAIN m_inflight_queue # {}   \* otherwise nothing changes
  /\ m_memory' = MemoryAfter(Due)
  /\ \E loads \in InOrder(DueLoads) :
       m_finished_loads' = m_finished_loads \o ResultsOf(loads)
  /\ m_inflight_queue' = [k \in Remaining |-> m_inflight_queue[k] - 1]
  /\ UNCHANGED <<m_store_buffer, program, reported>>

\* The load that finished last is returned first.  (It returns false, and
\* changes nothing, when there is none.)
has_completed_load ==
  /\ m_finished_loads # <<>>
  /\ reported' = reported \cup {Last(m_finished_loads)}
  /\ m_finished_loads' = Front(m_finished_loads)
  /\ UNCHANGED <<m_memory, m_store_buffer, m_inflight_queue, program>>

Next ==
  \/ \E op \in {"LOAD", "STORE"}, a \in Addr : issue_request(op, a)
  \/ tick
  \/ has_completed_load

-----------------------------------------------------------------------------

\* The queue holds issued instructions, the store buffer only stores to the
\* address they are filed under.
TypeOK ==
  /\ m_memory \in [Addr -> -1 .. MaxInst]
  /\ DOMAIN m_store_buffer \subseteq Addr
  /\ \A a \in DOMAIN m_store_buffer : m_store_buffer[a] \in Stores(a)
  /\ DOMAIN m_inflight_queue \subseteq DOMAIN program

\* A load returns the value of a store to its address, never of one older than
\* the last store issued before the load; and an initial value only if there
\* was no such store.  (It may be that of a younger store: TEST_load_forwarding
\* wants it so.)
LoadNotStale ==
  \A res \in reported \cup {m_finished_loads[k] : k \in DOMAIN m_finished_loads} :
    LET a == program[res[1]].addr
        older == {k \in Stores(a) : k < res[1]}
    IN  IF res[2] <= 0 THEN older = {}
                       ELSE res[2] \in Stores(a) /\ \A k \in older : k <= res[2]

\* Once no store to an address is under way, the memory holds what the store
\* buffer goes on forwarding: that the buffer is never drained does no harm,
\* because stores commit in the order in which they entered it.
MemoryCatchesUp ==
  \A a \in DOMAIN m_store_buffer :
    StoresTo(a, DOMAIN m_inflight_queue) = {} => m_memory[a] = m_store_buffer[a]

\* The places of load k among the results that wait, and what was handed out of it.
WaitingAt(k) == {j \in DOMAIN m_finished_loads : m_finished_loads[j][1] = k}
HandedOut(k) == {res \in reported : res[1] = k}

\* A load that was issued is in flight, or its result waits, or was handed out: one
\* of the three, and once, however many requests finish in one tick.
NoLoadLost ==
  \A k \in DOMAIN program : program[k].op = "LOAD" =>
    Cardinality({k} \cap DOMAIN m_inflight_queue) + Cardinality(WaitingAt(k))
      + Cardinality(HandedOut(k)) = 1
=============================================================================
