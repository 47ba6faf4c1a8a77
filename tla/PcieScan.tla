------------------------------- MODULE PcieScan ------------------------------
(***************************************************************************)
(* test/pcie_scan.cpp: the enumeration of a PCIe tree.  enumerateBus()     *)
(* probes the devices of a bus one after the other.  A bridge gets the     *)
(* next free bus number for the bus behind it, passes every higher number  *)
(* on while that bus is enumerated by a recursive call, and is then set to *)
(* the highest number that was given out behind it.  calls is the stack of *)
(* the calls, the innermost one last.                                      *)
(*                                                                         *)
(* What a place of the configuration space holds is decided when it is     *)
(* probed.  There are at most MaxBus bridges: with another one the number, *)
(* a uint8_t, would be 0 again.                                            *)
(***************************************************************************)
EXTENDS Naturals, Sequences, FiniteSets

CONSTANTS MaxBus,       \* 255
          MaxDevice,    \* 31
          MaxFunction   \* 7

Buses     == 0 .. MaxBus
Devices   == 0 .. MaxDevice
Functions == 0 .. MaxFunction

VARIABLES calls,             \* frames of enumerateBus()
          last_bus_number,
          bridges,           \* the bus number registers of configured bridges
          discovered_devices

vars == <<calls, last_bus_number, bridges, discovered_devices>>

\* enumerateSystem().
Init ==
  /\ calls = <<[bus |-> 0, device |-> 0, max_subordinate_bus |-> 0]>>
  /\ last_bus_number = 0
  /\ bridges = {} /\ discovered_devices = {}

-----------------------------------------------------------------------------

This == calls[Len(calls)]
Callers == SubSeq(calls, 1, Len(calls) - 1)

Probing == calls # <<>> /\ This.device <= MaxDevice

Function(f) == <<This.bus, This.device, f>>

NextDevice == [calls EXCEPT ![Len(calls)].device = @ + 1]

NoDevice ==
  /\ Probing
  /\ calls' = NextDevice
  /\ UNCHANGED <<last_bus_number, bridges, discovered_devices>>

Bridge(secondary, subordinate) ==
  [bus |-> This.bus, device |-> This.device, secondary |-> secondary, subordinate |-> subordinate]

\* Mutant of configureBridge: nothing behind the new bus can be reached.
configureOneBus == bridges \cup {Bridge(last_bus_number + 1, last_bus_number + 1)}

\* configureBridge(): the bridge passes on its own bus and every higher one.
configureBridge == bridges \cup {Bridge(last_bus_number + 1, MaxBus)}

\* A bridge: its other functions are not probed.
FoundBridge ==
  /\ Probing /\ Cardinality(bridges) < MaxBus
  /\ discovered_devices' = discovered_devices \cup {Function(0)}
  /\ last_bus_number' = last_bus_number + 1
  /\ bridges' = configureBridge
  /\ calls' = Append(calls, [bus |-> last_bus_number', device |-> 0,
                             max_subordinate_bus |-> last_bus_number'])

\* Any other device: its further functions are probed if it has several.
FoundEndpoint ==
  /\ Probing
  /\ \E functions \in SUBSET (Functions \ {0}) :
       discovered_devices' = discovered_devices \cup {Function(f) : f \in functions \cup {0}}
  /\ calls' = NextDevice
  /\ UNCHANGED <<last_bus_number, bridges>>

Highest(a, b) == IF a > b THEN a ELSE b

\* The call returns; updateBridgeSubordinate() closes the bridge the caller has
\* reached.
Return ==
  /\ calls # <<>> /\ This.device > MaxDevice
  /\ IF Callers = <<>>
     THEN calls' = <<>> /\ UNCHANGED bridges
     ELSE LET caller == Callers[Len(Callers)] IN
          /\ bridges' = {IF b.bus = caller.bus /\ b.device = caller.device
                         THEN [b EXCEPT !.subordinate = This.max_subordinate_bus]
                         ELSE b : b \in bridges}
          /\ calls' = [Callers EXCEPT ![Len(Callers)] =
               [caller EXCEPT !.device = @ + 1,
                              !.max_subordinate_bus = Highest(@, This.max_subordinate_bus)]]
  /\ UNCHANGED <<last_bus_number, discovered_devices>>

Next == NoDevice \/ FoundBridge \/ FoundEndpoint \/ Return

Spec == Init /\ [][Next]_vars

-----------------------------------------------------------------------------

TypeOK ==
  /\ calls \in Seq([bus : Buses, device : 0 .. MaxDevice + 1, max_subordinate_bus : Buses])
  /\ last_bus_number \in Buses
  /\ bridges \subseteq [bus : Buses, device : Devices, secondary : Buses, subordinate : Buses]
  /\ discovered_devices \subseteq Buses \X Devices \X Functions

Routes(b, bus) == b.secondary <= bus /\ bus <= b.subordinate

Taking(bus, target) == {b \in bridges : b.bus = bus /\ Routes(b, target)}

\* An access to a bus finds its way: starting at bus 0, one bridge of every bus
\* on the path, and only one, passes it on.
Reachable(target) ==
  \A bus \in 0 .. target - 1 :
    (bus = 0 \/ \E b \in bridges : b.secondary = bus /\ Routes(b, target)) =>
      Cardinality(Taking(bus, target)) = 1

\* While a bus is enumerated, accesses to it pass every bridge on the way and
\* no other one, although the bridges on the way are open to all numbers and
\* those enumerated before have been closed; and at the end this holds for
\* every bus, and no bridge passes on a number that was not given out.
BusesReachable ==
  /\ calls # <<>> => Reachable(This.bus)
  /\ calls = <<>> =>
       /\ \A bus \in 0 .. last_bus_number : Reachable(bus)
       /\ \A b \in bridges : b.subordinate <= last_bus_number
  /\ \A b, c \in bridges : b.secondary = c.secondary => b = c
=============================================================================
