# A verification project for SystemC-TLM

The repository collects SystemC/TLM models of network-on-chip parts: crossbar
schedulers, an arbiter, a load/store unit, credit-based nodes, DMA devices,
payload event queues, traffic generators, and two PCIe arbitration engines.
This directory models the parts that keep state and make decisions in TLA+,
checks them with TLC on small instances and proves the central properties for
all parameters with TLAPS.

Run, in this directory:

    tlasany M.tla                          # parse
    tlc -workers 2 -config X.cfg M         # a run; PROJECT.json pairs X and M
    tlapm M.tla                            # the proofs of M (the *Proofs modules)

`PROJECT.json` lists components, runs, theorems, hazards, and for every
definition the source lines it stands for. It also names, for every property, a
*mutant*: a plausible mistake in the code, written as an operator just above
the definition it would replace, under which the property fails. Mutants take
no part in any specification.

## 1. Inventory

Sources are under `src/`. `include/` and `libs/` (SystemC, spdlog, googletest,
tinyxml2) are third-party; one header of theirs is modelled, because the
four-phase initiator and target rest on it.

| Part | State | Operations | What is hard | What makes it correct |
|---|---|---|---|---|
| `modules/islip/islip_basic`, `rrm`, `pim`, `islip_threshold` | virtual output queues, grant/accept matrices, occupied flags, pointers | `request`, `arbitration` (iterations of grant, accept, update), `init_priority_ptr` | every iteration works on what the earlier ones left; pointers decide who waits for how long | no port twice in a slot, no cell lost or invented, progress in every iteration, nobody starves |
| `islip_sp` | queues per priority | same | the highest priority must win over several iterations although accepting ignores it | strict priority |
| `islip_wrr` | quotas per pair | same | shares over many slots; refills in the middle of a slot | service in proportion to the weights |
| `islip` | queue lengths, a shadow copy, match counters, pointers per priority | `set_ql`, `init`, `islip_sch`, `init_priority_ptr` | several matches per port and slot; three records of the same facts | the records agree; a lower priority gets only what is left |
| `booksim_islip` | requests, grants and accepts that are *not* reset between iterations | the same | stale flags | stale grants are harmless |
| `fifo` | one queue per input | `request`, `arbitration` | only heads compete | heads are served in turn |
| `modules/dpa` | request and grant matrix, masks, rotating diagonal | `request`, `arbitration` | the grant matrix is overwritten cell by cell | maximal matching, no starvation |
| `modules/lsu` | store buffer, queue in flight, memory, finished loads | `issue_request`, `tick`, `has_completed_load` | several requests finish in one tick; loads see the buffer first | no stale load, no load lost; a result in the cycle in which it is done, if requests come one per cycle |
| `modules/node` | credits, credits owed | clocked method, `nb_transport_fw` | nodes call into each other in mid-method, in either order | credits conserved, traffic never stalls |
| `modules/dmac/demo-dma` | registers, copy thread, interrupt | register writes, copy loop | the host writes registers while the thread is inside a bus transaction; events can be lost | every byte once, every start answered, interrupt withdrawn |
| `test/peq_test` initiator and target | request/response in progress, deferred calls, reference counts, payload event queues | four phases with random delays | delays reorder calls; an object is shared by two holders | exclusion rules, no premature reuse, every transaction returns |
| `test/pcie_arb` | credits, ingress buffers, priority queues | `receivePacket`, `arbitrationCycle` | two stages, overtaking, turns remembered only on conflict | credits accounted for, turns taken |
| `test/pcie_vc` | channels, credits, counters | `configureVC`, `enqueuePacket`, `arbitrate`, `restoreCredits` | channels switched on and off under traffic, three schemes | credits stay with their channel, round robins serve all |
| `modules/gen/tg-tlm.h`, `traffic-desc.h` | one list and one callback per thread, the position in a list | `addTransfers`, `setTransfers`, the thread | a list is handed over while the thread may wait, replay, or run its callback; the event is lost if nobody waits | every list is replayed to its end and reported, unless another one replaces it |
| `modules/gen/gen.h` | packet counters of both sides, the receiver's memory | packets one after the other | packets that reach beyond the memory; a failure counts on one side only | both statistics agree with what was sent; a packet changes its own bytes only |
| `include/.../peq_with_cb_and_phase.h` | payloads by due time, two delta lists of alternating parity, an immediate list, one event | `notify` with and without a delay, `cancel_all`, `fec` | the event holds one notification, so `fec` must renew it for all it leaves behind; callbacks notify in its middle | a payload is handed over in the delta cycle or instant it is due in, in order, and none waits for ever |
| `modules/peq` | payloads by due time | push, pop, the polling loop of `peq_test` | delays reorder payloads | the same, at the polls |
| `modules/memory` | byte map | `b_transport` | byte enables repeated over the data, streaming width that wraps, the last byte of the memory | exactly the bytes named are moved |
| `modules/dmac/dma_ctrl_lt.h`, `dma_ctrl_at.h` | registers, position, a buffer for the region | copy loop in bursts | the part burst at the end; regions at the end of the memory, or that overlap | at any moment the bytes copied so far are the right ones |
| `bank.cpp` | free slices, links and data of two banks, heads, readers, names | clocked writer and readers, `rcv_from` | a bank is read once in a cycle and not written then; slices are freed while others are chained; names are used again | every list is read to its end, in order, no slice in two lists |
| `ni-tower_test.cpp` | credits, a queue, a delay | clocked send and return | both methods run in either order and call into each other | credits conserved, A waits for two cycles at most |
| `test/pcie_scan.cpp` | bus numbers of bridges, the calls that have not returned | depth-first enumeration | a bridge forwards a range of buses that is not known until its subtree is done | every access reaches its bus, every bridge is given its own bus |
| `test/test.cpp`, class `Qos` | queues, counter, next channel | `in`, `sp_sch`, `rr_sch` | a counter, not the queues, ends the loops | a channel waits for one round at most, calls return with empty queues |
| `modules/top`, `dma_engine.h`, `main.cpp`, `socket_test.cpp`, rest of `test.cpp` | bindings; (never compiled); tests | - | - | - |

The schedulers are used by one caller at a time and do not call each other.
Nodes, initiator and target, generators and memories, and DMA host and device
talk through TLM calls that take effect at once, in the middle of the caller's method; what can be
interleaved is decided by the SystemC scheduler at `wait()` and at events.

## 2. Modules

Abstract specifications are at the top of each group.

| Module | Models | Notes |
|---|---|---|
| `Crossbar` | what every scheduler promises: cells leave queues that hold one, no port twice per slot | implemented by `Pim` and `Fifo` |
| `VoqSwitch` | the members and functions that are the same code in five schedulers | no specification of its own |
| `Pim` | `pim.cpp`; random draws are nondeterministic | abstraction of the pointer schedulers and, with the priorities of a pair counted together, of `IslipSp` |
| `RoundRobin`, `ScanLoop` | the do-while scan as a definition, and turn by turn | `TakesFirst`: both agree |
| `PointerSwitch` | the pointers of the next three | |
| `IslipBasic`, `Rrm`, `IslipThreshold` | the files of these names | each implements `Pim` |
| `Schedulers` | composition: one of the four above, chosen at creation | common properties stated once |
| `IslipWrr`, `MCIslipWrr`, `IslipWrrShare` | `islip_wrr.cpp`; weights for TLC; a history variable for shares | |
| `IslipSp`, `Islip`, `BooksimIslip`, `Fifo`, `Dpa`, `Lsu` | the files of these names | |
| `Standalone` | composition: one sequential unit, chosen at creation | |
| `EventQueue` | what a payload event queue promises | implemented by `PeqCbPhase`, `Peq` |
| `PeqCbPhase` | `peq_with_cb_and_phase.h` with SystemC's event and any owner | |
| `Peq` | `peq.h` with the loop of `peq_test()` | |
| `AtProtocol` | initiator, target, memory manager of `peq_test.cpp` | its queues keep the same promise, without cancelling |
| `TrafficGen` | threads, lists and callbacks of `tg-tlm.h`, with a target that answers at any time | |
| `Memory`, `PacketGen`, `DmaCtrl` | `memory.cpp`, `gen.h`, `dma_ctrl_at.h` (with `dma_ctrl_lt.h` as the case of one burst) | |
| `DemoDma` | `demo-dma.cpp` with a host | |
| `Transport` | composition: one of the seven units that send, queue and serve transactions, chosen at creation | |
| `PcieVc` | `pcie_vc.cpp` | |
| `Arbiters` | | composition: `Dpa` or `PcieVc` |
| `PcieArb`, `PcieScan`, `Bank`, `NiTower`, `Qos` | the files of these names; `Qos` is a class of `test.cpp` | |
| `CreditNode` | `node.cpp`, two nodes bound crosswise | |
| `Programs` | composition: one of these six, chosen at creation | |
| `Lemmas`, `*Proofs` | theorems (section 5) | |

How state and actions correspond to the code:

* Variables have the names of the members. A matrix of 0/1 flags is the set of
  the pairs whose flag is set. What a call keeps in locals between two steps
  (`pc`, the loop counters, `call`) is a variable too; history variables are
  marked as such.
* A public function is an action. A scheduler's `arbitration()` never gives way,
  but it is split at its phases (`pc`), so that properties can be stated of every
  iteration; `request()` is possible between two slots only. The order of loops
  over ports is left out where the accepted pairs are shown to share no port
  (`AcceptsMatch`, `BooksimSound`).
* `islip_wrr` compares quotients of doubles; the model compares the products
  crosswise, which is the same for weights that are small integers.
* A clocked method is one action per node and cycle, both calls into the peer
  included, in either order. A SystemC thread is cut where it may give way:
  at `wait()`, and in `DemoDma` also in every bus transaction.
* `AtProtocol` has SystemC time: delta cycles within an instant, then the next
  instant. Calls due in the same delta cycle run in any order between the two
  queues, and in the order of notification within one.
* `PeqCbPhase` runs one callback of `fec()` in a step, in which the callback may
  notify; the owner and other processes notify when `fec()` does not run.
* `Bank` makes one action of a clock cycle of B: writer, both readers and the
  return of slices run in one method, in a fixed order. `NiTower` has one action
  per method and cycle, in either order, as `CreditNode`.
* `PcieScan` keeps the recursion of `enumerateBus()` as a stack, one level per
  call that has not returned; the answer to a probe is chosen when it is made, so
  a run covers every tree within the bounds.
* The composite modules hold one unit of several, and a variable that is no
  member of the unit is 0. The units do not share state; they are composed where
  the same questions are asked of them.
* Logging, data values and addresses are left out unless a property is about
  them: `Lsu` names stores by their number and keeps its queue, which is in program
  order, as the ticks left to each number, the DMA modules bytes by their source,
  `PacketGen` data by the packet, and `Bank` cells by list and place.

## 3. Runs

| Run | Asks | Bounds and why they are enough |
|---|---|---|
| `schedulers` | Do pim, rrm, islip_basic and islip_threshold match no port twice (`SlotInv`), make progress in every iteration (`IterationProgress`), implement pim (`ImplementsPim`)? Do critical queues come first (`CriticalFirst`), and does nobody starve (`NobodyStarves`)? | 2x2 ports, two iterations, queues of two, threshold two: both conflicts at an output and at an input, a second iteration with something left to match, and queues that are empty, waiting and critical |
| `islip_basic` | Pointers move on accepted grants of the first iteration only (`PointerMovesOnAcceptOnly`); no queue starves (`NoStarvation`) | three inputs, so that a turn can skip one; two outputs and iterations, so that a later iteration can serve a queue without a pointer moving |
| `islip_wrr_share` | Are two backlogged inputs served by weight and is no quota overdrawn (`Proportional`)? | one output, weights 2, 1 and 0. The history variable `lag` has no bound of its own, so a drift would show |
| `islip_wrr_starves` | Does the accept scan keep fairness, as the comment at `islip_wrr.cpp:87` says? It does not: see section 4 | one input, two outputs |
| `islip` | Do shadow queues, counters and result agree and respect the speedup (`BooksAgree`)? Does no priority waste matches (`LevelProgress`)? | two ports, priorities, iterations, speedups, both modes; `MaxCells` bounds the caller |
| `dpa` | Do the grants form a matching of requests (`GrantsMatch`), a maximal one (`Maximal`), and is every request granted (`NoStarvation`)? | three ports: on two, a row and a column share two diagonals, and the order cannot matter |
| `standalone` | Do `booksim_islip`'s stale grants do no harm (`BooksimSound`)? Does `islip_sp` serve the highest priority (`StrictPriority`)? Does the scan take the first candidate (`TakesFirst`)? Do loads see the latest store (`MemoryConsistent`), is no load lost or reported twice, and has a caller that issues at most one request per cycle each result in the cycle it is done (`LoadsReportedInTime`)? Do `fifo` and `islip_sp` implement their abstractions (`ImplementsAbstract`), and do `fifo` and `booksim_islip` starve nobody (`ServedInTurn`)? | two ports a side; three under the steady load of `TEST_starvation`, so that a pointer that is not moved can pass the same input over again and again; three instructions on two addresses: store, load and a younger store to one of them, or as many loads as are under way at once when one is issued per cycle |
| `at_protocol` | Is no transaction reused too early (`PoolSafe`), is no rule of the protocol broken (`NoFatal`), does every transaction come back (`EveryTransactionReturns`)? | delays 0 to 2: simultaneous, adjacent, overtaking. `PoolSafe` bounds the pool by four objects and the fifth is there to refute it |
| `transport` | Do the two payload event queues keep their promise (`ImplementsEventQueue`, `EveryPayloadHandedOver`)? Is every list replayed (`ListsReplayed`)? Do memory and packets move the bytes they name and no other, whatever the command and whichever loop takes it (`MovesExactly`)? Do the DMA devices (`CopiesExactly`)? Does a started transfer end or get paused (`RunEnds`), is the interrupt withdrawn (`IrqWithdrawn`)? | four payloads in four instants: two in a delta cycle, and one that makes the event of an earlier or a later one obsolete; two threads and three lists, so that a thread is busy, waiting, or overwritten; transactions of any command one byte longer than the memory, anywhere in an address space twice its size, so that they lie in it, across its end, beyond it, and over the top; copies at its end and overlapping; bursts with a part one at the end |
| `programs` | Are credits accounted for (`CreditsAccounted`), do urgent ports take turns (`TurnsTaken`)? Is every bus reached over the right bridges (`BusesReachable`)? Are the lists of `bank.cpp` intact (`ListsIntact`) and read to the end (`EveryListRead`)? Are the channels of `Qos` served (`EveryoneServed`)? Do the nodes and the tower conserve their credits (`CreditsConserved`), and is their traffic steady (`NeverStalls`)? | three ingress ports, one egress port that is an ingress port as well, two credits, two priorities: a turn that skips a port, and packets of one port that wait in both stages; trees of three bridges, in a row, side by side, and both; four lists of three cells, two read at a time, in two banks of six slices, the fewest in which a free slice is always left; three channels; 0 to 4 credits for the nodes: none, one, and more than can be under way |
| `pcie_vc` | Do credits stay with their channel (`CreditsAccounted`), do the round robins serve all (`RoundRobinServes`)? | three channels with one credit, weight two for the first, every mix of schemes |

Deadlock is checked in all runs but `standalone` (the scan ends, the load/store
unit runs out of instructions), `transport` (transfers and packets come to an
end, and the caller of the queues stops after its bounded calls) and `programs`
(the enumeration ends).

### Fairness

* Schedulers, `Dpa`, `Fifo`, `BooksimIslip`: `arbitration()` contains no
  blocking call, so once entered it returns, and the caller of a switch
  schedules slot after slot (the loops of `test.cpp`). The functions that reset
  pointers are set-up functions: `<>[][~ init_priority_ptr]` says that the
  caller stops calling them. Nothing is assumed of arrivals.
* `Lsu` needs none: the caller of `LoadsReportedInTime` ticks, issues and asks in turn
  (`test.cpp:965-999`), and the property speaks of where it is in that cycle.
* `AtProtocol`: notified processes run and time passes, as the SystemC kernel
  guarantees; the loop of the initiator thread ends. Delays are finite.
* `transport`: the kernel runs a method whose event is notified, and lets delta
  cycles and time pass (`PeqCbPhase`); the loop of `peq_test()` goes on (`Peq`);
  threads run when they can, and the target answers (`TrafficGen`). Weak fairness
  is enough because the calls that could keep another action from being enabled
  are bounded by `MaxNotes` and `MaxAdds`. In `DemoDma` timers run out and bus
  transactions end; nothing is assumed of the host beyond returning from its own
  register write.
* `programs`: the caller of `PcieArb` goes on running cycles; written
  `[]<>(pc = ...)`, which says the same of this module as weak fairness of
  `arbitrationCycle`. The clock of `bank.cpp` ticks, and A goes on naming lists.
  The loops of `Qos` contain no blocking call. The nodes and the tower need no
  fairness: their properties are invariants.
* `PcieVc`, as fairness of `Arbiters`: the caller goes on asking for packets. Credits need not come back.

`EveryTransactionReturns` and similar properties are about what was accepted;
that an idle caller does nothing for ever is allowed everywhere.

## 4. What the checks show

All properties hold but one. `islip_wrr_starves` refutes the comment at
`islip_wrr.cpp:87`, which says that the accept scan keeps fairness because it
starts at the round-robin pointer. The pointer only breaks ties between equal
shares. With one input and two backlogged outputs of weights 2 and 1,
`select_wrr_input()` refills the quota of the second pair in every slot, where
it is the only input of its output; its used share is 0 again at every accept,
and the first pair is never accepted once it has used a cell of its quota.
Among the inputs of one output the weights work as intended (`islip_wrr_share`); with
several outputs too, for inputs that have no pair of weight 0 (`WrrProportional`).

Some facts that the models make precise:

* RRM serves every queue although its pointers may run in step; under iSLIP with
  several iterations, moving the pointers in the first one only is what prevents
  starvation (the mutants of `islip_basic` and `standalone`).
* The grant flags that `booksim_islip` never withdraws do no harm, because a
  free output has granted at most one free input.
* The target of `peq_test` never needs more than one slot for a waiting response
  and the pool never more than four objects.
* `demo-dma` loses notifications, but never a start. Its interrupt may stay
  raised across two transfers when the second is done before the thread comes
  by after the acknowledgement. A host that pauses in the last burst sees no
  DONE until it sets RUN again.
* `peq_with_cb_and_phase.h` keeps the promise `AtProtocol` relies on, although its
  event holds one notification only: every place that leaves a payload behind
  renews it (the mutants of `transport` drop one of them).
* `addTransfers()` of the traffic generator replaces a list the thread has not
  taken yet, together with its callback; nothing else loses a list. Its
  notification is lost when the thread is busy, and the thread looks again before
  it waits.
* `dma_ctrl_at.h` copies correctly unless the destination begins inside the source
  and the transfer takes several bursts: then a burst may read bytes that an
  earlier one has overwritten (`ForwardSafe`, the condition of `CopiesExactly`).
* The banks of `bank.cpp` keep every cell because the names in use bound the
  cells in flight. With fewer slices the writer falls back to a full bank
  (`bank.cpp:268`) and cells are lost, without a report.
* The two loops of `memory.cpp` disagree about a command that is neither read nor
  write (`DataTransfer::IGNORE`): the slow path stores its data (`:103`), the fast path
  does nothing (`:120`). `MovesExactly` says so. The bounds check of the fast path
  (`:108`) is a sum of 64 bits: an access that runs over the top of the address space
  and ends inside the memory is not refused.
* `lsu.cpp:58` hands out the youngest result first. With at most one request per cycle
  and one question no two results ever wait (`LoadsReportedInTime`). With more, once two
  loads finish between two questions, the older one waits behind every younger load, for
  ever if they keep coming; no property covers that caller, and nothing in the code
  promises it more.
* A queue of `islip_threshold` below the threshold waits for as long as another input
  keeps a critical one for the same output; `CriticalFirst` and `NobodyStarves`
  promise something to critical queues only.
* The enumeration of `pcie_scan.cpp` never probes the further functions of a
  bridge that has several.
* A node with a credit sends at least in every other cycle, and a peer never
  owes it more than two.

Comments that the code does not bear out, and that no run refutes: the comments
of `test.cpp:138-147` and `:300` give results the schedulers do not produce;
`pcie_arb.cpp` labels small numbers "high priority" where the larger number
wins; `pcie_vc.cpp:245` speaks of the highest-priority channel where the code
takes the scheme of the lowest-numbered one, and `:96` of a channel 0 that is
always enabled, which `configureVC()` may disable. `traffic-desc.h:104` sets the
region of a transaction from its `qos` field.

## 5. Proofs

| Module | Theorems | For every |
|---|---|---|
| `Lemmas` | facts the others cite: `FirstFromIs` and `FirstFromMember` (the scan returns the nearest eligible port), the elements of a queue after `Append`, `Tail` and `RemoveAt`, `LeastNat` and `MaxIs` (a set of numbers has a least one, a bounded one a greatest), `SameSize` (counting), `ModIs` (remainders), `LeastShare` (among some fractions one is the smallest), `RecursionExists` and `RecursionUnique` (a recursion on a number defines one function), `Cut` (a sequence cut in two) | queue, number of ports |
| `SchedulersProofs` | `PimSlotSafe`, `PimImplementsCrossbar`, `PimProgress`; `SchedulersImplementPim`, `SchedulersSlotSafe`, `SchedulersProgress`, `ThresholdCriticalFirst`, `IslipBasicPointers` (and the first two for `IslipBasic` alone); `WrrImplementsPim`, `WrrQuotasKept`, `WrrProportional` | number of ports, iterations, queue length, threshold, weights |
| `StandaloneProofs` | `ScanTakesFirst`, `BooksimIsSound`, `SpIsStrict`, `SwitchesImplementAbstract`, `LsuIsConsistent`, `LsuReportsInTime` | number of ports and of cells the caller queues, start and eligible ports of the scan, number of instructions and of addresses |
| `ArbitersProofs` | `ArbitersInvariant`, `DpaGrantsMatch`, `DpaMaximal`, `VcCreditsAccounted` | number of ports; number of channels, credits and weights |
| `IslipProofs` | `IslipInvariant`, `IslipBooksAgree`, `IslipLevelProgress` | number of ports, priorities, cells, iterations and speedup |
| `AtProtocolProofs` | `StagesInvariant`, `PoolIsSafe`, `NothingFatal` | delays, number of transaction objects |
| `TransportProofs` | `DmaCopiesExactly`; `MemoriesMoveExactly`; `QueuesKeepPromise` | size of the memory, length of region and burst, placement of the regions, behaviour of the host; transactions and packets of any length; number of payloads and instants |
| `ProgramsProofs` | `EnumerationRoutes`, `CreditSafe`, `CreditSteady`, `ArbKeepsCredits`; `BankKeepsCells`, `RoomyBanksKeepCells` | number of buses, devices and functions, tree of devices; number of credits; number of ports and channels, priorities and routes of the packets; number of slices, lists, readers and cells of a list, delay |

Assumptions are those declared with the constants (`SwitchAssumption`,
`CreditAssumption`, `ScanAssumption`, `ArbAssumption`, `PortsAssumption`, `BoundsAssumption`,
`ArbitersAssumption`, `IslipAssumption`, `WrrAssumption`, `BankAssumption`): the numbers of ports, credits, delays and so on are
natural numbers, not 0 where the code needs one. TLC evaluates them in the runs.

*Switches.* `SlotInv` is inductive together with the type invariant: grants
name only free ports with a waiting cell, one input per output (`GrantsSound`);
accepts answer grants and share no port (`AcceptsMatch`); the occupied flags are
the ports of the result (`ResultSound`); and matrices are empty outside their
phases (`PhaseSound`), which is what makes the first two hold when an iteration
begins. `IterationProgress` needs more: an iteration in which a pair is open
grants, and so accepts, at least one, which its invariant carries from phase to
phase as "a grant exists" and "an accept exists". The proofs are made for `Pim`,
whose choices are arbitrary. For the others it is enough that a scan's choice is one
that pim may make (`FullScanChoice`, `CriticalScanChoice`, `AcceptScanChoice`), so
that each phase is a step of pim; safety and progress are then inherited through
the refinement, and only the range of the pointers is proved again. `CriticalFirst`
speaks of the end of an iteration; its invariant says the same of every phase, and
of the grants: one for a queue below the threshold is made only while no unmatched
input has a critical queue, and within a slot queues only shrink.

*Weights.* That `islip_wrr` makes choices of `Pim` needs more than a scan: the port with the
smallest used share must exist, although shares are compared crosswise and only
among pairs with quota left (`LeastShare`). Then a granted pair can pay for its
cell, unless its weight is 0 (`GrantsCovered`), so quotas stay in range. For
`Proportional`, `Ahead` measures how far the used quota of one input is ahead of the
other's. It never exceeds the product of the weights; a refill while both inputs wait finds both
quotas used up and leaves it at 0; and a slot moves it by what it adds to `lag`. So
`lag` is what `Ahead` has grown since the backlog began (`LagInv`). The theorems assume at most
one iteration, as the code has it (`OneIteration`), and `WrrProportional` that neither
input has a pair of weight 0 (`BothWeighted`). The last is needed: when a pair of weight 0 is
granted and accepted, `select_wrr_output()` refills all quotas of its input in the middle of a
round, and that input gets more than its share of the other outputs.

*Scan.* The ports that the loop has passed are not eligible (`ScanInv`), so the one
it stops at has no eligible port nearer to the start; `FirstFromIs` says that
only one port has this property, and that `FirstFrom` is that port.

*BookSim.* `BooksimSound` speaks of accepts, which are made from grant flags that may be
several iterations old. The invariant separates the *open* grants, between ports
that are both unmatched: they were made in this iteration, there is at most one per
output (`BooksMatched`), and under `m_max_match` at most one in all; a grant that
is left over has a matched port at one end. Every input with an open
grant accepts one of them, so accepts share no port and an iteration in which a
request is open makes a match (`BooksProgress`).

*Strict priority.* A grant of `islip_sp` answers the highest priority that an
unmatched input holds for the output. That must still be true when the iteration has
ended and inputs have been matched: unmatched inputs only become fewer, cells only
leave with a match, and an output that is matched keeps the priority of its match
(`SpPhase`, `SpResult`). That every step is one of `Pim`, on the cells of a pair
counted together, needs no more: a pair has a cell if and only if it has one of some
priority (`SpCellsAre`), so outputs and inputs choose among the same candidates
(`SpSameChoices`), and a match takes exactly one cell.

*Priorities and speedup.* The invariant of `islip` counts the cells that the call has matched,
those that `m_ql` has and `m_shadow_ql` has no more, at a pair, an input and an output
(`CellInv`). `do_accept()` adds exactly one cell per accepted pair, the last of its
queue (`MatchedGrows`), and the accepts are a matching between ports that have
speedup left (`AcceptedMatches`), so no count passes the speedup. That no
level ends with an open pair before its iterations are used up is carried from
phase to phase: a request gives a grant and a grant an accept (`PhaseInv`), and the
pairs that are open only become fewer (`OpenShrinks`).

*Input queues.* `update_pointers()` pops the head of every granted input without
looking at it. The invariant `FifoInv` says that it may: until then a grant
names the head of its input's queue, and each output has granted once, so no two
grants share a port. A pop then changes the number of cells for the granted
output only (`CountTail`), and an arrival that of its output (`CountAppend`), which
are the steps of the crossbar.

*Load/store unit.* The store buffer forwards the youngest store to an address and is
never drained, so memory must end up with the same value. `LsuInv` says why it does:
stores, which all wait equally long, leave the queue in the order of the program, so
once the forwarded store has left it no store to its address is in flight and
memory holds it. A load of an address without an entry has no store before it. A
tick may write several stores to one address; the youngest wins (`MemoryAfterIs`).
`LsuReportsInTime` has two parts. A load is in one place of three, in flight, waiting or
handed out, and once (`InOnePlace`): a tick appends one result for each load that is due
(`TickAppends`), and a question takes the last one away. In the cycle of the load/store
test the loads in flight all have different times to wait, the youngest the longest
(`CycleInv`), so at most one is due per tick and its result is asked for before the next.

*Four phases.* Neither the references nor the flags of initiator and target
say where a transaction is; the invariant `Good` of `AtProtocolProofs` gives each one
a stage of its life (free, held by the thread, requested, deferred, worked on,
waiting for its response, answered, done), of which everything else is a function: the one
place that names the transaction, its reference count, and the flags of both
sides. Two facts carry the weight. An END_REQ is due no later than the internal
event of the same transaction, so that a response never finds its own request
in progress; and the pipeline of the target holds at most two transactions. With
the one that is requested, deferred or held there are never more than four, which
bounds the pool (`PoolSafe`), and the slot for a waiting response is free when it
is needed (`NoFatal`). The order of notifications within a delta cycle enters
through `NotifyTimely`.

*Nodes and tower.* `CreditsConserved` is not enough to bound waiting. What a node owes
depends on who has run in the current cycle (`OwedInv`), and a node that could
not send has a credit again as soon as its peer has run (`IdleInv`). In the tower, a cycle in which B has
words and does not pop is followed by one in which it does, so the cycles A has
waited say how far B's delay has come (`WaitInv`).

*Diagonal arbiter.* A grant of the last arbitration survives until its cell is
visited, so the grants of the visited diagonals are told apart from the others
(`Seen`): on them the grants are a matching whose rows and columns are exactly
those masked (`MaskInv`), and every request has its row or column masked
(`CoverInv`). When all diagonals are visited nothing else is left.

*Virtual channels.* `CreditsAccounted` is inductive with the ranges of the counters,
once each search is known to find a channel with a packet: then no counter
goes below zero, and a credit that is restored is one that was taken, so the cap
of `restoreCredits()` is never reached.

*DMA.* `CopiesExactly` speaks of memory between bursts; in the middle of a burst
the right bytes are in the buffer. The invariant of `DmaCtrl` says what the buffer
holds up to the point that was read, that what lies before `i` has been copied,
and that it fits into the memory, so the burst that fails is the first to reach
beyond its end. In `DemoDma` the registers move during the transfer, so its
invariant ties them to the job that was programmed (`OnTheWay`) and the local
`buf` to the burst between its two bus transactions (`InBurst`), whatever the host
writes in between. The other units of `Transport` leave these variables alone.
The theorem states its assumptions (sizes and lengths are natural numbers) itself.

*Memory.* `MovesExactly` compares a loop over the bytes with a reference that is not
one. `Carried` says what the loop has done after some positions (at each address the
last byte that was stored there, in the data what was read, an error if an active
position lies beyond the end), and no number of positions can be the least for which this
is wrong. That positions and places correspond is a fact about remainders
(`ModIs`), and so is what a sum of addresses is at the top of the address space
(`Sum64Is`). The fast path is compared directly: a piece that is carried out lies in the
memory (`PieceAt`, `PieceFinished`), and one that is refused has a byte that does not
(`PieceRefused`), but for `OverTheTop`. The theorem assumes that memory and
transactions are smaller than the address space. Packets need only the statistics
themselves and the numbering of what was
sent.

*Event queues.* The refinement mapping reads the payloads of an instant out of the
sorted list, between the first place that is not before it and the first that is
later. `InsertPayloads` and `TailPayloads` say that an insertion appends to
exactly one of these stretches and that `delete_top()` takes the head of the one that
is due; so every step is one of the promise, or none. That neither a delta cycle nor
an instant is left too early rests on the one event. `CbInv` says what it is
notified for once `fec()` has returned: for the next delta cycle if the list of the other
parity has payloads, and no later than any timed payload (and, while `fec()` is in
its last loop, already for the former). It also says which lists `fec()`
has emptied so far and keeps empty although its callback notifies. A callback may insert
in front of the list only what is later than now, so `delete_top()` after it deletes the
payload it was called for. For the queue that is polled it is enough that nothing in
it is due unless the client is popping (`PqInv`).

*Enumeration.* `BusesReachable` speaks of the bus that is enumerated; for it to hold
of the next one, every bus found so far must be reached, by one bridge on every bus
on the way (`OneTakes`). A new bridge gets the next number and is open to all higher
ones. That this takes no access from another bridge needs the stack: the bridges
between the calls are open, all others are closed at or below the last number
(`OpenInv`), buses grow along the stack (`StackInv`), and a bus has no bridge yet at a
device that is still to be probed (`DeviceInv`). When a call returns, its bridge is
closed at the last number, which changes nothing for the numbers given out. The
numbers are the bridges counted (`NumbersInv`), so they never reach the wrap-around
of the `uint8_t` while `FoundBridge` is possible.

*Switch arbiter.* For each ingress port and channel, the free credits, the packets in
the port's own buffer (`Homed`) and those in the queues of all egress ports add up to
`Credits` (`Accounted`). When the heads of the buffers join the queues, a port's
head gets one new place in one queue, because the loop visits each port once
(`PortOrderIs`); the packets left in the buffer move up by one (`JoinKeeps`). When
the winners leave, which `WinnerIs` finds in every queue that is not empty, the
others keep their order and no two winners share a place (`SendKeeps`). What comes
back was therefore taken, and the cap of `restoreVCCredits()` is never reached.

*Banks.* The code stores a list as a chain of slices, and a chain can be followed by
recursion only. The invariant therefore names the cells: for each list a sequence of
places, in their order, that has not been read (`BankInv` says that there is one). No place
is named twice, each slice that is named leads to the next one of its list and belongs to it, the
map names the first, and a slice is free exactly if it is not named (`Chains`). No list
is in two queues or twice in one (`Queues`); lists that wait to be read are complete and those
that are read not empty (`Filled`); the list that is written ends at `last` and has `written` cells
(`Writing`); the free slices are counted (`Counted`). One cycle first reads and may cut off the head of
some lists (`ReadsSound`), then writes and may add a cell at the end of one (`WriteSound`);
that the recursion in `ListsIntact` runs along the cells is `ChainedIs`.
`BankKeepsCells` assumes `BankHasRoom`: the bank the writer looks at has a free
slice. That depends on how evenly the banks fill and drain for the given latencies,
and in banks that are too small it is false and cells are lost. `ListsIntact` in the
run `programs` shows that none is lost there, with the fewest slices for which that holds;
`RoomyBanksKeepCells` derives it when one bank has room for all lists
(`Roomy`), as 128 slices have for eight lists of 16 cells.

Only model-checked: all liveness properties and whatever rests on `ENABLED`.

## 6. What is not modelled

* `dma_engine.h` is never compiled (its include guard is `#ifdef`). `top`, `main.cpp`
  and `socket_test.cpp` bind sockets and start tests.
* In the traffic generator, the XML file, the attributes of a transfer (`get_config`
  sets every streaming width to 4) and the check of the data read.
* The direct memory and debug interfaces of `memory.cpp`, which are empty, and the
  intervals between packets of `gen.h`.
* The bytes of the configuration space in `pcie_scan.cpp`. More than 255 bridges,
  after which the bus number, a `uint8_t`, would start again.
* The third-party code. Of some 137000 lines that are compiled, 94 in 100 are headers
  of SystemC, spdlog, googletest and tinyxml2 in `include/`. They are libraries that
  the components call; except for the payload event queue, the modules state what
  they need of them (events, delta cycles, containers) and mark it external.
* Calls that are undefined in the code are not made: `init_priority_ptr()` with
  more outputs than inputs, a negative priority in `islip_sp`, ports that do not
  exist in `islip`, reprogramming the DMA device in the middle of a transfer,
  weight 0 in `pcie_vc`'s weighted round robin. A cell for an output that does not
  exist may be requested of `fifo`; it blocks its input, and `ServedInTurn` excepts
  what waits behind it.
* In `AtProtocol`, the last `b_transport()` and the error responses of the
  target, which this initiator never provokes.

## 7. Plan

Order of work, most important first; all of it is done.

1. The common scheduler state, `Pim` as abstraction, `IslipBasic`, `Rrm`, their
   refinement and its proof.
2. The other schedulers, the diagonal arbiter and the load/store unit.
3. The concurrent TLM components: nodes, DMA device, four-phase protocol.
4. The PCIe engines.
5. Proofs about nodes, the diagonal arbiter and the virtual channels.
6. The payload event queues under an abstract specification, traffic generator,
   memory, DMA controllers and packet generator (`Transport`), and the proof that
   both DMA devices copy exactly.
7. `Bank`, `NiTower`, `PcieScan` and `Qos` (`Programs`).
8. Proofs that all four pointer schedulers implement `Pim`, and that critical
   queues come first (`SchedulersProofs`).
9. The proof that the enumeration routes every access (`ProgramsProofs`).
10. Proofs about the safety of `AtProtocol`, of the scan, `booksim_islip` and `islip_sp`
   (`StandaloneProofs`), and of the tower.
11. The payload event queues refine their abstract specification for every number of
   payloads and instants.
12. The proof that the switch arbiter accounts for its credits (`ProgramsProofs`).
13. `fifo` implements the crossbar and `islip_sp` implements pim, for every number of
   ports (`StandaloneProofs`); loads of the load/store unit see the latest store.
14. `islip` keeps its books and wastes no iteration, for every number of ports
   (`IslipProofs`).
15. The memory moves exactly the bytes that a transaction names (`TransportProofs`).
16. `islip_wrr` implements pim and serves by weight (`SchedulersProofs`).
17. The two banks keep every cell (`ProgramsProofs`).
