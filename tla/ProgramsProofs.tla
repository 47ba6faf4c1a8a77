---------------------------- MODULE ProgramsProofs --------------------------
(***************************************************************************)
(* The programs for every value of their constants: the enumeration of     *)
(* pcie_scan.cpp routes every access, the credits of node.cpp and of       *)
(* ni-tower_test.cpp are conserved and keep the traffic going, the         *)
(* switch of pcie_arb.cpp leaks and invents none of its own, and the two   *)
(* banks of bank.cpp keep every cell of every list.                        *)
(***************************************************************************)
EXTENDS Programs, Lemmas, FiniteSetTheorems, SequenceTheorems, TLAPS

-----------------------------------------------------------------------------
(* The enumeration.  A bridge is open, passing on every number from its    *)
(* own on, exactly while the bus behind it is enumerated, and then it is   *)
(* closed at the highest number given out.  So at any time each number     *)
(* that has been given out is taken, on every bus on its way, by one       *)
(* bridge.                                                                 *)

Depth == Len(calls)

Frame == [bus : Scan!Buses, device : 0 .. MaxDevice + 1, max_subordinate_bus : Scan!Buses]

\* Bridge b leads from the bus of call k to that of the call it has made.
LeadsOn(b, k) ==
  /\ b.bus = calls[k].bus /\ b.device = calls[k].device
  /\ b.secondary = calls[k + 1].bus

\* The numbers given out are the secondary buses of the bridges; no two bridges
\* share a number or a place.
NumbersInv ==
  /\ IsFiniteSet(bridges) /\ Cardinality(bridges) = last_bus_number
  /\ \A b \in bridges : b.bus < b.secondary /\ b.secondary <= last_bus_number
  /\ \A b, c \in bridges :
       b.secondary = c.secondary \/ (b.bus = c.bus /\ b.device = c.device) => b = c

\* The calls go down the tree, and the innermost has seen every number.
StackInv ==
  /\ Depth > 0 => /\ calls[1].bus = 0
                  /\ calls[Depth].max_subordinate_bus = last_bus_number
  /\ \A k \in 1 .. Depth : /\ calls[k].bus <= last_bus_number
                           /\ calls[k].max_subordinate_bus <= last_bus_number
  /\ \A k, l \in 1 .. Depth : k < l => calls[k].bus < calls[l].bus

\* The bridges between the calls are open, and all others closed.
OpenInv ==
  /\ \A k \in 1 .. Depth - 1 : \E b \in bridges : LeadsOn(b, k) /\ b.subordinate = MaxBus
  /\ \A b \in bridges :
       b.subordinate <= last_bus_number \/ \E k \in 1 .. Depth - 1 : LeadsOn(b, k)

\* A bus has no bridge at a device number that has not been probed.
DeviceInv ==
  \A b \in bridges, k \in 1 .. Depth :
    b.bus = calls[k].bus =>
      /\ b.device <= calls[k].device
      /\ k = Depth => b.device < calls[k].device

\* On every bus on the way to target one bridge takes the access.
OneTakes(target) ==
  \A bus \in 0 .. target - 1 :
    (bus = 0 \/ \E b \in bridges : b.secondary = bus /\ Scan!Routes(b, target)) =>
      /\ \E b \in bridges : b.bus = bus /\ Scan!Routes(b, target)
      /\ \A b, c \in bridges : /\ b.bus = bus /\ Scan!Routes(b, target)
                               /\ c.bus = bus /\ Scan!Routes(c, target)
                               => b = c

ScanInv ==
  /\ Scan!TypeOK
  /\ NumbersInv /\ StackInv /\ OpenInv /\ DeviceInv
  /\ \A target \in 0 .. last_bus_number : OneTakes(target)

-----------------------------------------------------------------------------
(* The stack of calls.                                                     *)

\* A call goes on to the next device.
LEMMA CallAdvances ==
  ASSUME Scan!TypeOK, Scan!Probing, calls' = Scan!NextDevice
  PROVE  /\ calls' \in Seq(Frame) /\ Len(calls') = Depth /\ Depth \in Nat \ {0}
         /\ \A k \in 1 .. Depth :
              calls'[k] = IF k = Depth THEN [calls[k] EXCEPT !.device = @ + 1] ELSE calls[k]
<1>1. calls \in Seq(Frame) /\ Depth \in Nat \ {0}
  BY DEF Scan!TypeOK, Frame, Scan!Probing, Depth
<1>2. calls[Depth] \in Frame /\ Depth \in 1 .. Depth
  BY <1>1, ElementOfSeq DEF Depth
<1>3. [calls[Depth] EXCEPT !.device = @ + 1] \in Frame
  BY <1>2, ScanAssumption DEF Frame, Scan!Probing, Scan!This, Depth
<1>4. calls' = [calls EXCEPT ![Depth] = [calls[Depth] EXCEPT !.device = @ + 1]]
  BY DEF Scan!NextDevice, Depth
<1> HIDE DEF Depth
<1> QED
  BY <1>1, <1>2, <1>3, <1>4, ExceptSeq DEF Depth

\* A call is made for a bus.
LEMMA CallMade ==
  ASSUME Scan!TypeOK, NEW frame \in Frame, calls' = Append(calls, frame)
  PROVE  /\ calls' \in Seq(Frame) /\ Len(calls') = Depth + 1 /\ Depth \in Nat
         /\ \A k \in 1 .. Depth + 1 : calls'[k] = IF k = Depth + 1 THEN frame ELSE calls[k]
<1>1. calls \in Seq(Frame) /\ Depth \in Nat
  BY DEF Scan!TypeOK, Frame, Depth
<1> QED
  BY <1>1, AppendProperties DEF Depth

\* A call returns to its caller.
LEMMA CallReturns ==
  ASSUME Scan!TypeOK, Depth > 1,
         calls[Depth - 1].device <= MaxDevice,
         calls' = [Scan!Callers EXCEPT ![Len(Scan!Callers)] =
                     [Scan!Callers[Len(Scan!Callers)] EXCEPT
                        !.device = @ + 1,
                        !.max_subordinate_bus = Scan!Highest(@, Scan!This.max_subordinate_bus)]]
  PROVE  /\ calls' \in Seq(Frame) /\ Len(calls') = Depth - 1 /\ Depth \in Nat
         /\ \A k \in 1 .. Depth - 1 :
              calls'[k] = IF k = Depth - 1
                          THEN [calls[k] EXCEPT !.device = @ + 1,
                                                !.max_subordinate_bus =
                                                  Scan!Highest(@, calls[Depth].max_subordinate_bus)]
                          ELSE calls[k]
<1> DEFINE callers == SubSeq(calls, 1, Depth - 1)
           frame == [calls[Depth - 1] EXCEPT !.device = @ + 1,
                       !.max_subordinate_bus =
                         Scan!Highest(@, calls[Depth].max_subordinate_bus)]
<1>1. calls \in Seq(Frame) /\ Depth \in Nat
  BY DEF Scan!TypeOK, Frame, Depth
<1>2. \A k \in 1 .. Depth : calls[k] \in Frame
  BY <1>1, ElementOfSeq DEF Depth
<1>3. /\ callers \in Seq(Frame) /\ Len(callers) = Depth - 1
      /\ \A k \in 1 .. Depth - 1 : callers[k] = calls[k]
  BY <1>1, <1>2, SubSeqProperties
<1>4. calls[Depth - 1] \in Frame /\ calls[Depth] \in Frame
  BY <1>1, <1>2
<1>5. frame \in Frame
  <2>1. calls[Depth - 1].device + 1 \in 0 .. MaxDevice + 1
    BY <1>4, ScanAssumption DEF Frame
  <2>2. Scan!Highest(calls[Depth - 1].max_subordinate_bus, calls[Depth].max_subordinate_bus)
          \in Scan!Buses
    BY <1>4 DEF Frame, Scan!Highest
  <2> QED
    BY <1>4, <2>1, <2>2 DEF Frame
<1>6. calls' = [callers EXCEPT ![Depth - 1] = frame]
  <2>1. Scan!Callers = callers /\ Len(Scan!Callers) = Depth - 1
    BY <1>3 DEF Scan!Callers, Depth
  <2>2. Scan!Callers[Len(Scan!Callers)] = calls[Depth - 1] /\ Scan!This = calls[Depth]
    BY <1>1, <1>3, <2>1 DEF Scan!This, Depth
  <2> HIDE DEF callers
  <2> QED
    BY <2>1, <2>2
<1> HIDE DEF callers, frame
<1>7. Depth - 1 \in 1 .. Len(callers)
  BY <1>1, <1>3
<1>8. /\ calls' \in Seq(Frame) /\ Len(calls') = Depth - 1
      /\ \A k \in 1 .. Depth - 1 : calls'[k] = IF k = Depth - 1 THEN frame ELSE callers[k]
  <2>1. /\ [callers EXCEPT ![Depth - 1] = frame] \in Seq(Frame)
        /\ Len([callers EXCEPT ![Depth - 1] = frame]) = Len(callers)
        /\ \A k \in 1 .. Len(callers) :
             [callers EXCEPT ![Depth - 1] = frame][k] = IF k = Depth - 1 THEN frame ELSE callers[k]
    BY <1>3, <1>5, <1>7, ExceptSeq
  <2> QED
    BY <1>3, <1>6, <2>1
<1> QED
  BY <1>1, <1>3, <1>8 DEF frame

-----------------------------------------------------------------------------
(* Each step of the enumeration keeps the invariant.                       *)

\* Cardinality of FiniteSets as PcieScan sees it.
LEMMA SameCardinality == \A S : Scan!Cardinality(S) = Cardinality(S)
  BY DEF Scan!Cardinality, Cardinality

\* What holds of bridges, buses and calls for their types.
LEMMA ScanTypes ==
  ASSUME Scan!TypeOK
  PROVE  /\ MaxBus \in Nat /\ MaxDevice \in Nat
         /\ last_bus_number \in 0 .. MaxBus /\ Depth \in Nat
         /\ \A k \in 1 .. Depth : /\ calls[k] \in Frame
                                  /\ calls[k].bus \in 0 .. MaxBus
                                  /\ calls[k].device \in 0 .. MaxDevice + 1
                                  /\ calls[k].max_subordinate_bus \in 0 .. MaxBus
         /\ \A b \in bridges : /\ b.bus \in 0 .. MaxBus /\ b.device \in 0 .. MaxDevice
                               /\ b.secondary \in 0 .. MaxBus
                               /\ b.subordinate \in 0 .. MaxBus
<1>1. calls \in Seq(Frame) /\ Depth \in Nat
  BY DEF Scan!TypeOK, Frame, Depth
<1>2. \A k \in 1 .. Depth : calls[k] \in Frame
  BY <1>1, ElementOfSeq DEF Depth
<1> QED
  BY <1>1, <1>2, ScanAssumption DEF Scan!TypeOK, Scan!Buses, Scan!Devices, Frame

\* enumerateSystem() starts on bus 0, before any bridge is known.
LEMMA ScanStarts ==
  ASSUME Scan!Init
  PROVE  ScanInv
<1>1. /\ Depth = 1 /\ calls[1] = [bus |-> 0, device |-> 0, max_subordinate_bus |-> 0]
      /\ last_bus_number = 0 /\ bridges = {} /\ discovered_devices = {}
  BY DEF Scan!Init, Depth
<1>2. Scan!TypeOK
  BY ScanAssumption DEF Scan!Init, Scan!TypeOK, Scan!Buses, Scan!Devices, Scan!Functions
<1>3. NumbersInv
  BY <1>1, FS_EmptySet DEF NumbersInv
<1>4. StackInv /\ OpenInv /\ DeviceInv
  BY <1>1 DEF StackInv, OpenInv, DeviceInv
<1>5. \A target \in 0 .. last_bus_number : OneTakes(target)
  BY <1>1 DEF OneTakes
<1> QED
  BY <1>2, <1>3, <1>4, <1>5 DEF ScanInv

\* A place that holds no bridge.
LEMMA ProbeKeepsInv ==
  ASSUME ScanInv, Scan!Probing, calls' = Scan!NextDevice,
         UNCHANGED <<last_bus_number, bridges>>,
         discovered_devices' \subseteq Scan!Buses \X Scan!Devices \X Scan!Functions
  PROVE  ScanInv'
<1>inv. /\ Scan!TypeOK /\ NumbersInv /\ StackInv /\ OpenInv /\ DeviceInv
       /\ \A target \in 0 .. last_bus_number : OneTakes(target)
  BY DEF ScanInv
<1>types. /\ MaxBus \in Nat /\ MaxDevice \in Nat
         /\ last_bus_number \in 0 .. MaxBus /\ Depth \in Nat
         /\ \A k \in 1 .. Depth : /\ calls[k] \in Frame
                                  /\ calls[k].bus \in 0 .. MaxBus
                                  /\ calls[k].device \in 0 .. MaxDevice + 1
                                  /\ calls[k].max_subordinate_bus \in 0 .. MaxBus
         /\ \A b \in bridges : /\ b.bus \in 0 .. MaxBus /\ b.device \in 0 .. MaxDevice
                               /\ b.secondary \in 0 .. MaxBus
                               /\ b.subordinate \in 0 .. MaxBus
  BY <1>inv, ScanTypes
<1>1. /\ calls' \in Seq(Frame) /\ Depth' = Depth /\ Depth \in Nat \ {0}
      /\ \A k \in 1 .. Depth :
           calls'[k] = IF k = Depth THEN [calls[k] EXCEPT !.device = @ + 1] ELSE calls[k]
  BY <1>inv, CallAdvances DEF Depth
<1>2. \A k \in 1 .. Depth :
        /\ calls'[k].bus = calls[k].bus
        /\ calls'[k].max_subordinate_bus = calls[k].max_subordinate_bus
        /\ calls'[k].device = IF k = Depth THEN calls[k].device + 1 ELSE calls[k].device
  BY <1>1, <1>types DEF Frame
<1>3. Scan!TypeOK'
  BY <1>inv, <1>1 DEF Scan!TypeOK, Frame, Scan!Buses, Scan!Devices, Scan!Functions
<1>4. NumbersInv'
  BY <1>inv DEF NumbersInv
<1>5. StackInv'
  BY <1>inv, <1>1, <1>2 DEF StackInv
<1>6. ASSUME NEW b, NEW k \in 1 .. Depth - 1
      PROVE  LeadsOn(b, k)' <=> LeadsOn(b, k)
  <2>1. k \in 1 .. Depth /\ k + 1 \in 1 .. Depth /\ k # Depth
    BY <1>1
  <2>2. /\ calls'[k].bus = calls[k].bus /\ calls'[k].device = calls[k].device
        /\ calls'[k + 1].bus = calls[k + 1].bus
    BY <1>2, <2>1
  <2> QED
    BY <2>2 DEF LeadsOn
<1>7. OpenInv'
  BY <1>inv, <1>1, <1>6 DEF OpenInv
<1>8. DeviceInv'
  <2>1. ASSUME NEW b \in bridges, NEW k \in 1 .. Depth, b.bus = calls'[k].bus
        PROVE  b.device <= calls'[k].device /\ (k = Depth => b.device < calls'[k].device)
    <3>1. b.device <= calls[k].device
      BY <1>inv, <1>2, <2>1 DEF DeviceInv
    <3> QED
      BY <1>2, <2>1, <3>1, <1>types
  <2> QED
    BY <1>1, <2>1 DEF DeviceInv
<1>9. \A target \in 0 .. last_bus_number' : OneTakes(target)'
  BY <1>inv DEF OneTakes, Scan!Routes
<1> QED
  BY <1>3, <1>4, <1>5, <1>7, <1>8, <1>9 DEF ScanInv

\* A bridge is found and the bus behind it enumerated.
LEMMA BridgeKeepsInv ==
  ASSUME ScanInv, Scan!FoundBridge
  PROVE  ScanInv'
<1>0. PICK new, frame, added, depth :
        /\ new = last_bus_number + 1 /\ depth = Depth
        /\ frame = [bus |-> new, device |-> 0, max_subordinate_bus |-> new]
        /\ added = [bus |-> calls[depth].bus, device |-> calls[depth].device,
                    secondary |-> new, subordinate |-> MaxBus]
  OBVIOUS
<1>inv. /\ Scan!TypeOK /\ NumbersInv /\ StackInv /\ OpenInv /\ DeviceInv
       /\ \A target \in 0 .. last_bus_number : OneTakes(target)
  BY DEF ScanInv
<1>types. /\ MaxBus \in Nat /\ MaxDevice \in Nat
         /\ last_bus_number \in 0 .. MaxBus /\ Depth \in Nat
         /\ \A k \in 1 .. Depth : /\ calls[k] \in Frame
                                  /\ calls[k].bus \in 0 .. MaxBus
                                  /\ calls[k].device \in 0 .. MaxDevice + 1
                                  /\ calls[k].max_subordinate_bus \in 0 .. MaxBus
         /\ \A b \in bridges : /\ b.bus \in 0 .. MaxBus /\ b.device \in 0 .. MaxDevice
                               /\ b.secondary \in 0 .. MaxBus
                               /\ b.subordinate \in 0 .. MaxBus
  BY <1>inv, ScanTypes
<1>1. /\ Depth \in Nat \ {0} /\ depth = Depth /\ new = last_bus_number + 1
      /\ calls[Depth].device <= MaxDevice
      /\ last_bus_number' = new /\ bridges' = bridges \cup {added}
      /\ calls' = Append(calls, frame)
      /\ discovered_devices' = discovered_devices \cup {<<calls[Depth].bus, calls[Depth].device, 0>>}
  BY <1>inv, <1>0 DEF Scan!FoundBridge, Scan!Probing, Scan!This, Scan!configureBridge, Scan!Bridge,
         Scan!Function, Scan!TypeOK, Depth
<1>2. /\ last_bus_number \in 0 .. MaxBus - 1 /\ new \in 1 .. MaxBus
      /\ calls[Depth].bus <= last_bus_number
  <2>1. last_bus_number < MaxBus
    BY <1>inv, SameCardinality DEF Scan!FoundBridge, NumbersInv
  <2> QED
    BY <1>inv, <1>1, <2>1, <1>types, ScanAssumption DEF StackInv
<1>3. frame \in Frame
  BY <1>0, <1>2, ScanAssumption DEF Frame, Scan!Buses
<1>4. /\ calls' \in Seq(Frame) /\ Depth' = Depth + 1
      /\ \A k \in 1 .. Depth + 1 : calls'[k] = IF k = Depth + 1 THEN frame ELSE calls[k]
  BY <1>inv, <1>1, <1>3, CallMade DEF Depth
<1>numbers. /\ Depth \in Nat \ {0} /\ Depth' = Depth + 1
           /\ last_bus_number' = new /\ new = last_bus_number + 1
  BY <1>1, <1>4
<1>5. frame.bus = new /\ frame.device = 0 /\ frame.max_subordinate_bus = new
  BY <1>0
<1>6. /\ added.bus = calls[Depth].bus /\ added.device = calls[Depth].device
      /\ added.secondary = new /\ added.subordinate = MaxBus
  BY <1>0
<1>7. \A b \in bridges : /\ b.secondary <= last_bus_number
                         /\ b.bus < b.secondary
                         /\ b.bus = added.bus => b.device < added.device
  BY <1>inv, <1>1, <1>6 DEF NumbersInv, DeviceInv
<1>ranges. last_bus_number \in Nat /\ \A b \in bridges : b.bus \in Nat /\ b.secondary \in Nat
  BY <1>inv, ScanAssumption DEF Scan!TypeOK, Scan!Buses
<1>8. Scan!TypeOK'
  <2>1. added \in [bus : Scan!Buses, device : Scan!Devices, secondary : Scan!Buses,
                   subordinate : Scan!Buses]
    BY <1>0, <1>1, <1>2, <1>types, ScanAssumption DEF Scan!Buses, Scan!Devices
  <2>3. new \in Scan!Buses
    BY <1>2 DEF Scan!Buses
  <2>2. <<calls[Depth].bus, calls[Depth].device, 0>> \in
           Scan!Buses \X Scan!Devices \X Scan!Functions
    BY <1>1, <1>2, <1>types, ScanAssumption DEF Scan!Buses, Scan!Devices, Scan!Functions
  <2> QED
    BY <1>inv, <1>1, <1>4, <2>1, <2>2, <2>3 DEF Scan!TypeOK, Frame
<1>9. NumbersInv'
  <2>1. added \notin bridges
    BY <1>1, <1>2, <1>6, <1>7, <1>types
  <2>2. IsFiniteSet(bridges') /\ Cardinality(bridges') = last_bus_number'
    BY <1>inv, <1>1, <2>1, FS_AddElement DEF NumbersInv
  <2>3. \A b \in bridges' : b.bus < b.secondary /\ b.secondary <= last_bus_number'
    BY <1>1, <1>2, <1>6, <1>7, <1>types
  <2>4. \A b \in bridges : b.secondary # added.secondary /\ ~ (b.bus = added.bus /\ b.device = added.device)
    BY <1>1, <1>2, <1>6, <1>7, <1>types
  <2>5. \A b, c \in bridges' :
          b.secondary = c.secondary \/ (b.bus = c.bus /\ b.device = c.device) => b = c
    BY <1>inv, <1>1, <2>4 DEF NumbersInv
  <2> QED
    BY <1>inv, <2>2, <2>3, <2>5 DEF NumbersInv
<1>10. StackInv'
  <2>1. ASSUME NEW k \in 1 .. Depth'
        PROVE  calls'[k].bus <= new /\ calls'[k].max_subordinate_bus <= new
    <3>1. CASE k = Depth + 1
      <4>1. calls'[k] = frame
        BY <1>4, <1>numbers, <3>1
      <4> QED
        BY <1>numbers, <1>2, <1>5, <4>1, <1>types
    <3>2. CASE k \in 1 .. Depth
      <4>1. k \in 1 .. Depth + 1 /\ k # Depth + 1
        BY <1>numbers, <3>2
      <4>2. calls'[k] = calls[k]
        BY <1>4, <4>1
      <4> QED
        BY <1>inv, <1>numbers, <3>2, <4>2, <1>types DEF StackInv
    <3>3. k = Depth + 1 \/ k \in 1 .. Depth
      BY <1>numbers
    <3> QED
      BY <3>1, <3>2, <3>3
  <2>2. ASSUME NEW k \in 1 .. Depth', NEW l \in 1 .. Depth', k < l
        PROVE  calls'[k].bus < calls'[l].bus
    <3>1. k \in 1 .. Depth /\ calls'[k] = calls[k]
      <4>1. k \in 1 .. Depth + 1 /\ k # Depth + 1
        BY <1>numbers, <2>2
      <4> QED
        BY <1>4, <1>numbers, <4>1
    <3>2. CASE l = Depth + 1
      <4>1. calls'[l] = frame
        BY <1>4, <1>numbers, <3>2
      <4> QED
        BY <1>inv, <1>numbers, <1>5, <3>1, <4>1, <1>types DEF StackInv
    <3>3. CASE l \in 1 .. Depth
      <4>1. l \in 1 .. Depth + 1 /\ l # Depth + 1
        BY <1>numbers, <3>3
      <4>2. calls'[l] = calls[l]
        BY <1>4, <4>1
      <4> QED
        BY <1>inv, <2>2, <3>1, <3>3, <4>2 DEF StackInv
    <3>4. l = Depth + 1 \/ l \in 1 .. Depth
      BY <1>numbers
    <3> QED
      BY <3>2, <3>3, <3>4
  <2>3. calls'[1].bus = 0 /\ calls'[Depth'].max_subordinate_bus = last_bus_number'
    <3>1. 1 \in 1 .. Depth + 1 /\ 1 # Depth + 1 /\ Depth + 1 \in 1 .. Depth + 1
      BY <1>1
    <3>2. calls'[1] = calls[1] /\ calls'[Depth + 1] = frame
      BY <1>4, <3>1
    <3> QED
      BY <1>inv, <1>1, <1>4, <1>5, <3>2 DEF StackInv
  <2> QED
    BY <1>1, <2>1, <2>2, <2>3 DEF StackInv
<1>11. ASSUME NEW b, NEW k \in 1 .. Depth - 1
       PROVE  LeadsOn(b, k)' <=> LeadsOn(b, k)
  <2>1. k \in 1 .. Depth + 1 /\ k + 1 \in 1 .. Depth + 1 /\ k # Depth + 1 /\ k + 1 # Depth + 1
    BY <1>1
  <2>2. calls'[k] = calls[k] /\ calls'[k + 1] = calls[k + 1]
    BY <1>4, <2>1
  <2> QED
    BY <2>2 DEF LeadsOn
<1>12. LeadsOn(added, depth)'
  <2>1. depth \in 1 .. Depth + 1 /\ depth + 1 = Depth + 1 /\ depth # Depth + 1
    BY <1>1
  <2>2. calls'[depth] = calls[depth] /\ calls'[depth + 1] = frame
    BY <1>4, <2>1
  <2> QED
    BY <1>1, <1>5, <1>6, <2>2 DEF LeadsOn
<1>13. OpenInv'
  <2>1. \A k \in 1 .. Depth' - 1 : \E b \in bridges' : LeadsOn(b, k)' /\ b.subordinate = MaxBus
    <3>1. ASSUME NEW k \in 1 .. Depth - 1
          PROVE  \E b \in bridges' : LeadsOn(b, k)' /\ b.subordinate = MaxBus
      BY <1>inv, <1>1, <1>11 DEF OpenInv
    <3>2. \E b \in bridges' : LeadsOn(b, depth)' /\ b.subordinate = MaxBus
      BY <1>1, <1>6, <1>12
    <3>3. \A k \in 1 .. Depth' - 1 : k \in 1 .. Depth - 1 \/ k = Depth
      BY <1>1, <1>4
    <3> QED
      BY <1>1, <3>1, <3>2, <3>3
  <2>2. ASSUME NEW b \in bridges'
        PROVE  b.subordinate <= last_bus_number' \/ \E k \in 1 .. Depth' - 1 : LeadsOn(b, k)'
    <3>1. CASE b = added
      BY <1>1, <1>4, <1>12, <3>1
    <3>2. CASE b \in bridges /\ b.subordinate <= last_bus_number
      BY <1>1, <1>2, <3>2, <1>types
    <3>3. CASE b \in bridges /\ \E k \in 1 .. Depth - 1 : LeadsOn(b, k)
      BY <1>1, <1>4, <1>11, <3>3
    <3> QED
      BY <1>inv, <1>1, <3>1, <3>2, <3>3 DEF OpenInv
  <2> QED
    BY <1>inv, <2>1, <2>2 DEF OpenInv
<1>14. DeviceInv'
  <2>1. ASSUME NEW b \in bridges', NEW k \in 1 .. Depth', b.bus = calls'[k].bus
        PROVE  b.device <= calls'[k].device /\ (k = Depth' => b.device < calls'[k].device)
    <3>1. b.bus < new
      <4>1. CASE b \in bridges
        <5>1. b.bus < b.secondary /\ b.secondary <= last_bus_number
          BY <1>7, <4>1
        <5> QED
          BY <5>1, <1>ranges, <4>1, <1>numbers
      <4>2. CASE b = added
        BY <1>1, <1>2, <1>6, <4>2, <1>types
      <4> QED
        BY <1>1, <4>1, <4>2
    <3>2. k \in 1 .. Depth + 1
      BY <1>4
    <3>3. k # Depth + 1
      BY <1>2, <1>4, <1>5, <2>1, <3>1, <3>2, <1>types
    <3>4. k \in 1 .. Depth /\ calls'[k] = calls[k] /\ k # Depth'
      BY <1>numbers, <1>4, <3>2, <3>3
    <3>5. CASE b \in bridges
      BY <1>inv, <2>1, <3>4, <3>5 DEF DeviceInv
    <3>6. CASE b = added
      <4>1. k = Depth
        <5>1. calls[k].bus = calls[Depth].bus
          BY <1>6, <2>1, <3>4, <3>6
        <5>2. ~ (k < Depth)
          BY <1>inv, <1>1, <3>4, <5>1, <1>types DEF StackInv
        <5> QED
          BY <1>1, <3>4, <5>2
      <4> QED
        BY <1>1, <1>6, <3>4, <3>6, <4>1, <1>types
    <3> QED
      BY <1>1, <3>4, <3>5, <3>6
  <2> QED
    BY <2>1 DEF DeviceInv
<1>15. ASSUME NEW target \in 0 .. last_bus_number
       PROVE  OneTakes(target)'
  <2>1. ~ Scan!Routes(added, target)
    BY <1>1, <1>2, <1>6, <1>types DEF Scan!Routes
  <2>2. OneTakes(target)
    BY <1>inv
  <2> QED
    BY <1>inv, <1>1, <2>1, <2>2 DEF OneTakes, Scan!Routes
<1>16. OneTakes(new)'
  <2>1. ASSUME NEW b \in bridges, Scan!Routes(b, new)
        PROVE  \E k \in 1 .. Depth - 1 : LeadsOn(b, k)
    <3>1. ~ (b.subordinate <= last_bus_number)
      BY <1>1, <1>2, <2>1, <1>types DEF Scan!Routes
    <3> QED
      BY <1>inv, <3>1 DEF OpenInv
  <2>2. ASSUME NEW b \in bridges, Scan!Routes(b, new)
        PROVE  b.bus # added.bus
    <3>1. PICK k \in 1 .. Depth - 1 : LeadsOn(b, k)
      BY <2>1, <2>2
    <3>2. calls[k].bus < calls[Depth].bus
      BY <1>inv, <1>1, <3>1 DEF StackInv
    <3> QED
      BY <1>1, <1>6, <3>1, <3>2, <1>types DEF LeadsOn
  <2>3. ASSUME NEW b \in bridges, Scan!Routes(b, new), NEW c \in bridges, Scan!Routes(c, new),
               b.bus = c.bus
        PROVE  b = c
    <3>1. PICK k \in 1 .. Depth - 1 : LeadsOn(b, k)
      BY <2>1, <2>3
    <3>2. PICK l \in 1 .. Depth - 1 : LeadsOn(c, l)
      BY <2>1, <2>3
    <3>3. k = l
      <4>1. calls[k].bus = calls[l].bus /\ k \in 1 .. Depth /\ l \in 1 .. Depth
        <5>1. k \in 1 .. Depth /\ l \in 1 .. Depth
          BY <1>numbers
        <5> QED
          BY <2>3, <3>1, <3>2, <5>1 DEF LeadsOn
      <4>2. ~ (k < l) /\ ~ (l < k)
        BY <1>inv, <4>1, <1>types DEF StackInv
      <4> QED
        BY <4>1, <4>2
    <3> QED
      BY <1>inv, <3>1, <3>2, <3>3 DEF LeadsOn, NumbersInv
  <2>4. ASSUME NEW bus \in 0 .. new - 1,
               bus = 0 \/ \E b \in bridges' : b.secondary = bus /\ Scan!Routes(b, new)
        PROVE  \E k \in 1 .. Depth : calls[k].bus = bus
    <3>1. CASE bus = 0
      BY <1>inv, <1>1, <3>1 DEF StackInv
    <3>2. CASE bus # 0
      <4>1. PICK b \in bridges' : b.secondary = bus /\ Scan!Routes(b, new)
        BY <2>4, <3>2
      <4>2. b \in bridges
        BY <1>1, <1>2, <1>6, <4>1
      <4>3. PICK k \in 1 .. Depth - 1 : LeadsOn(b, k)
        BY <2>1, <4>1, <4>2
      <4> QED
        BY <1>1, <4>1, <4>3 DEF LeadsOn
    <3> QED
      BY <3>1, <3>2
  <2>5. ASSUME NEW bus \in 0 .. new - 1,
               bus = 0 \/ \E b \in bridges' : b.secondary = bus /\ Scan!Routes(b, new)
        PROVE  \E b \in bridges' : b.bus = bus /\ Scan!Routes(b, new)
    <3>1. PICK k \in 1 .. Depth : calls[k].bus = bus
      BY <2>4, <2>5
    <3>2. CASE k = Depth
      BY <1>1, <1>2, <1>6, <3>1, <3>2 DEF Scan!Routes
    <3>3. CASE k # Depth
      <4>1. k \in 1 .. Depth - 1 /\ k + 1 \in 1 .. Depth
        BY <1>1, <3>3
      <4>2. PICK b \in bridges : LeadsOn(b, k) /\ b.subordinate = MaxBus
        BY <1>inv, <4>1 DEF OpenInv
      <4>3. Scan!Routes(b, new)
        BY <1>1, <1>2, <4>2, <1>types, <1>7 DEF Scan!Routes
      <4> QED
        BY <1>1, <3>1, <4>2, <4>3 DEF LeadsOn
    <3> QED
      BY <3>2, <3>3
  <2>6. \A b, c \in bridges' : /\ Scan!Routes(b, new) /\ Scan!Routes(c, new) /\ b.bus = c.bus
                               => b = c
    BY <1>1, <2>2, <2>3
  <2> QED
    BY <1>inv, <1>1, <2>5, <2>6 DEF OneTakes, Scan!Routes
<1>17. \A target \in 0 .. last_bus_number' : OneTakes(target)'
  <2>1. \A target \in 0 .. last_bus_number' : target \in 0 .. last_bus_number \/ target = new
    BY <1>1, <1>2
  <2> QED
    BY <1>15, <1>16, <2>1
<1> QED
  BY <1>8, <1>9, <1>10, <1>13, <1>14, <1>17 DEF ScanInv

\* The first call returns: every bridge is closed.
LEMMA EndKeepsInv ==
  ASSUME ScanInv, Depth = 1, calls' = <<>>,
         UNCHANGED <<last_bus_number, bridges, discovered_devices>>
  PROVE  ScanInv'
<1>inv. /\ Scan!TypeOK /\ NumbersInv /\ OpenInv
       /\ \A target \in 0 .. last_bus_number : OneTakes(target)
  BY DEF ScanInv
<1>1. Depth' = 0
  BY DEF Depth
<1>2. Scan!TypeOK'
  BY <1>inv DEF Scan!TypeOK
<1>3. NumbersInv'
  BY <1>inv DEF NumbersInv
<1>4. StackInv' /\ DeviceInv'
  BY <1>1 DEF StackInv, DeviceInv
<1>5. OpenInv'
  BY <1>inv, <1>1 DEF OpenInv
<1>6. \A target \in 0 .. last_bus_number' : OneTakes(target)'
  BY <1>inv DEF OneTakes, Scan!Routes
<1> QED
  BY <1>2, <1>3, <1>4, <1>5, <1>6 DEF ScanInv

\* A bridge passes on the same numbers, of those given out, whether it is open
\* or closed at the highest of them.
LEMMA CloseKeepsInv ==
  ASSUME ScanInv, Scan!Return, Depth > 1
  PROVE  ScanInv'
<1>inv. /\ Scan!TypeOK /\ NumbersInv /\ StackInv /\ OpenInv /\ DeviceInv
       /\ \A target \in 0 .. last_bus_number : OneTakes(target)
  BY DEF ScanInv
<1>types. /\ MaxBus \in Nat /\ MaxDevice \in Nat
         /\ last_bus_number \in 0 .. MaxBus /\ Depth \in Nat
         /\ \A k \in 1 .. Depth : /\ calls[k] \in Frame
                                  /\ calls[k].bus \in 0 .. MaxBus
                                  /\ calls[k].device \in 0 .. MaxDevice + 1
                                  /\ calls[k].max_subordinate_bus \in 0 .. MaxBus
         /\ \A b \in bridges : /\ b.bus \in 0 .. MaxBus /\ b.device \in 0 .. MaxDevice
                               /\ b.secondary \in 0 .. MaxBus
                               /\ b.subordinate \in 0 .. MaxBus
  BY <1>inv, ScanTypes
<1>0. PICK caller : caller = Depth - 1
  OBVIOUS
<1>1. /\ caller \in 1 .. Depth /\ caller + 1 = Depth /\ caller \in 1 .. Depth - 1
      /\ Depth \in 1 .. Depth
  BY <1>0, <1>types
<1>2. PICK open \in bridges : LeadsOn(open, caller) /\ open.subordinate = MaxBus
  BY <1>inv, <1>1 DEF OpenInv
<1>3. /\ open.bus = calls[caller].bus /\ open.device = calls[caller].device
      /\ open.secondary = calls[Depth].bus
      /\ calls[caller].device <= MaxDevice
  BY <1>1, <1>2, <1>types DEF LeadsOn
<1>4. PICK closed : closed = [open EXCEPT !.subordinate = last_bus_number]
  OBVIOUS
<1>5. /\ open \in [bus : Scan!Buses, device : Scan!Devices, secondary : Scan!Buses,
                   subordinate : Scan!Buses]
      /\ last_bus_number \in Scan!Buses
  BY <1>inv DEF Scan!TypeOK
<1>6. /\ closed \in [bus : Scan!Buses, device : Scan!Devices, secondary : Scan!Buses,
                     subordinate : Scan!Buses]
      /\ closed.bus = open.bus /\ closed.device = open.device
      /\ closed.secondary = open.secondary /\ closed.subordinate = last_bus_number
  BY <1>4, <1>5
<1>7. /\ Scan!This = calls[Depth] /\ Scan!Callers = SubSeq(calls, 1, Depth - 1)
      /\ Scan!This.max_subordinate_bus = last_bus_number
  BY <1>inv, <1>1 DEF Scan!This, Scan!Callers, StackInv, Depth
<1>8. /\ Scan!Callers # <<>> /\ Len(Scan!Callers) = caller
      /\ Scan!Callers[Len(Scan!Callers)] = calls[caller]
  <2>1. calls \in Seq(Frame)
    BY <1>inv DEF Scan!TypeOK, Frame
  <2>2. /\ SubSeq(calls, 1, Depth - 1) \in Seq(Frame)
        /\ Len(SubSeq(calls, 1, Depth - 1)) = Depth - 1
        /\ \A k \in 1 .. Depth - 1 : SubSeq(calls, 1, Depth - 1)[k] = calls[k]
    BY <1>types, <2>1, SubSeqProperties DEF Depth
  <2>3. Len(Scan!Callers) = caller /\ Scan!Callers[caller] = calls[caller]
    BY <1>0, <1>1, <1>7, <2>2
  <2>4. Scan!Callers # <<>>
    BY <1>1, <1>types, <2>3
  <2> QED
    BY <2>3, <2>4
<1> DEFINE frame == Scan!Callers[Len(Scan!Callers)]
           M(b)  == IF b.bus = frame.bus /\ b.device = frame.device
                    THEN [b EXCEPT !.subordinate = Scan!This.max_subordinate_bus] ELSE b
<1>9. /\ last_bus_number' = last_bus_number /\ discovered_devices' = discovered_devices
      /\ bridges' = {M(b) : b \in bridges}
      /\ calls' = [Scan!Callers EXCEPT ![Len(Scan!Callers)] =
                     [frame EXCEPT !.device = @ + 1,
                                   !.max_subordinate_bus =
                                     Scan!Highest(@, Scan!This.max_subordinate_bus)]]
  BY <1>8 DEF Scan!Return
<1>10. /\ calls' \in Seq(Frame) /\ Len(calls') = Depth - 1
       /\ \A k \in 1 .. Depth - 1 :
            calls'[k] = IF k = Depth - 1
                        THEN [calls[k] EXCEPT !.device = @ + 1,
                                              !.max_subordinate_bus =
                                                Scan!Highest(@, calls[Depth].max_subordinate_bus)]
                        ELSE calls[k]
  BY <1>inv, <1>0, <1>3, <1>9, CallReturns
<1>11. /\ Depth' = caller
       /\ \A k \in 1 .. caller :
            /\ calls'[k].bus = calls[k].bus
            /\ calls'[k].device = IF k = caller THEN calls[k].device + 1 ELSE calls[k].device
            /\ calls'[k].max_subordinate_bus = IF k = caller THEN last_bus_number
                                               ELSE calls[k].max_subordinate_bus
  <2>1. Depth' = caller
    BY <1>0, <1>10 DEF Depth
  <2>2. ASSUME NEW k \in 1 .. caller, k # caller
        PROVE  calls'[k] = calls[k]
    BY <1>0, <1>1, <1>10, <2>2
  <2>3. calls'[caller] = [calls[caller] EXCEPT !.device = @ + 1,
                            !.max_subordinate_bus =
                              Scan!Highest(@, calls[Depth].max_subordinate_bus)]
    BY <1>0, <1>1, <1>10
  <2>4. /\ calls[caller].max_subordinate_bus <= last_bus_number
        /\ calls[Depth].max_subordinate_bus = last_bus_number
    BY <1>inv, <1>1 DEF StackInv
  <2>5. Scan!Highest(calls[caller].max_subordinate_bus, calls[Depth].max_subordinate_bus)
          = last_bus_number
    BY <1>1, <1>types, <2>4 DEF Scan!Highest
  <2>6. calls[caller] \in Frame
    BY <1>1, <1>types
  <2>7. /\ calls'[caller].bus = calls[caller].bus
        /\ calls'[caller].device = calls[caller].device + 1
        /\ calls'[caller].max_subordinate_bus = last_bus_number
    BY <2>3, <2>5, <2>6 DEF Frame
  <2> QED
    BY <2>1, <2>2, <2>7
\* What the bridges were and have become.
<1>12. \A b \in bridges : b.bus = open.bus /\ b.device = open.device => b = open
  BY <1>inv DEF NumbersInv
<1>13. bridges' = (bridges \ {open}) \cup {closed}
  <2>1. \A b \in bridges : b.bus = frame.bus /\ b.device = frame.device <=> b = open
    BY <1>3, <1>8, <1>12
  <2>2. \A b \in bridges : M(b) = IF b = open THEN closed ELSE b
    BY <1>4, <1>7, <2>1
  <2> HIDE DEF M
  <2>3. ASSUME NEW x \in bridges'
        PROVE  x \in (bridges \ {open}) \cup {closed}
    <3>1. PICK b \in bridges : x = M(b)
      BY <1>9
    <3> QED
      BY <2>2, <3>1
  <2>4. ASSUME NEW x \in (bridges \ {open}) \cup {closed}
        PROVE  x \in bridges'
    <3>1. \A b \in bridges : M(b) \in bridges'
      BY <1>9
    <3> QED
      BY <2>2, <3>1
  <2> QED
    BY <2>3, <2>4
<1> HIDE DEF frame, M
<1>14. \A t \in 0 .. last_bus_number : Scan!Routes(closed, t) <=> Scan!Routes(open, t)
  BY <1>2, <1>6, <1>types DEF Scan!Routes
<1>15. \A b \in bridges' : \E a \in bridges :
         /\ a.bus = b.bus /\ a.device = b.device /\ a.secondary = b.secondary
         /\ \A t \in 0 .. last_bus_number : Scan!Routes(b, t) <=> Scan!Routes(a, t)
         /\ b = IF a = open THEN closed ELSE a
  BY <1>6, <1>13, <1>14
<1>16. \A a \in bridges : \E b \in bridges' :
         /\ a.bus = b.bus /\ a.device = b.device /\ a.secondary = b.secondary
         /\ \A t \in 0 .. last_bus_number : Scan!Routes(b, t) <=> Scan!Routes(a, t)
         /\ b = IF a = open THEN closed ELSE a
  BY <1>6, <1>13, <1>14
<1>17. Scan!TypeOK'
  <2>1. bridges' \subseteq [bus : Scan!Buses, device : Scan!Devices, secondary : Scan!Buses,
                            subordinate : Scan!Buses]
    BY <1>inv, <1>6, <1>13 DEF Scan!TypeOK
  <2> QED
    BY <1>inv, <1>9, <1>10, <2>1 DEF Scan!TypeOK, Frame
<1>18. NumbersInv'
  <2>1. closed \notin bridges \ {open}
    BY <1>6, <1>12
  <2>2. IsFiniteSet(bridges \ {open}) /\ Cardinality(bridges \ {open}) = last_bus_number - 1
    BY <1>inv, FS_RemoveElement DEF NumbersInv
  <2>3. /\ IsFiniteSet((bridges \ {open}) \cup {closed})
        /\ Cardinality((bridges \ {open}) \cup {closed}) = last_bus_number - 1 + 1
    BY <2>1, <2>2, FS_AddElement
  <2>4. IsFiniteSet(bridges') /\ Cardinality(bridges') = last_bus_number'
    <3>1. last_bus_number - 1 + 1 = last_bus_number
      BY <1>types
    <3> QED
      BY <1>9, <1>13, <2>3, <3>1, Zenon
  <2>5. \A b \in bridges' : b.bus < b.secondary /\ b.secondary <= last_bus_number'
    BY <1>inv, <1>9, <1>15 DEF NumbersInv
  <2>6. \A b, c \in bridges' :
          b.secondary = c.secondary \/ (b.bus = c.bus /\ b.device = c.device) => b = c
    BY <1>inv, <1>15 DEF NumbersInv
  <2> QED
    BY <2>4, <2>5, <2>6 DEF NumbersInv
<1>19. StackInv'
  <2>1. \A k \in 1 .. caller : k \in 1 .. Depth
    BY <1>1, <1>types
  <2>2. calls'[1].bus = 0 /\ calls'[caller].max_subordinate_bus = last_bus_number
    BY <1>inv, <1>1, <1>11, <1>types DEF StackInv
  <2>3. \A k \in 1 .. caller : /\ calls'[k].bus <= last_bus_number
                              /\ calls'[k].max_subordinate_bus <= last_bus_number
    BY <1>inv, <1>11, <1>types, <2>1 DEF StackInv
  <2>4. \A k, l \in 1 .. caller : k < l => calls'[k].bus < calls'[l].bus
    BY <1>inv, <1>11, <2>1 DEF StackInv
  <2> QED
    BY <1>9, <1>11, <2>2, <2>3, <2>4 DEF StackInv
<1>20. ASSUME NEW b, NEW k \in 1 .. caller - 1
       PROVE  LeadsOn(b, k)' <=> LeadsOn(b, k)
  <2>1. k \in 1 .. caller /\ k + 1 \in 1 .. caller /\ k # caller
    BY <1>1, <1>types
  <2>2. /\ calls'[k].bus = calls[k].bus /\ calls'[k].device = calls[k].device
        /\ calls'[k + 1].bus = calls[k + 1].bus
    BY <1>11, <2>1
  <2> QED
    BY <2>2 DEF LeadsOn
<1>21. OpenInv'
  <2>1. ASSUME NEW k \in 1 .. caller - 1
        PROVE  \E b \in bridges' : LeadsOn(b, k)' /\ b.subordinate = MaxBus
    <3>1. k \in 1 .. Depth - 1 /\ k + 1 \in 1 .. Depth /\ k + 1 < Depth
      BY <1>1, <1>types
    <3>2. PICK b \in bridges : LeadsOn(b, k) /\ b.subordinate = MaxBus
      BY <1>inv, <3>1 DEF OpenInv
    <3>3. calls[k + 1].bus < calls[Depth].bus
      BY <1>inv, <1>1, <3>1 DEF StackInv
    <3>4. b # open
      BY <1>1, <1>3, <1>types, <3>1, <3>2, <3>3 DEF LeadsOn
    <3> QED
      BY <1>13, <1>20, <3>2, <3>4
  <2>2. ASSUME NEW b \in bridges'
        PROVE  b.subordinate <= last_bus_number' \/ \E k \in 1 .. caller - 1 : LeadsOn(b, k)'
    <3>1. CASE b = closed
      BY <1>6, <1>9, <1>types, <3>1
    <3>2. CASE b \in bridges /\ b # open
      <4>1. CASE b.subordinate <= last_bus_number
        BY <1>9, <4>1
      <4>2. CASE \E k \in 1 .. Depth - 1 : LeadsOn(b, k)
        <5>1. PICK k \in 1 .. Depth - 1 : LeadsOn(b, k)
          BY <4>2
        <5>2. k # caller
          BY <1>3, <1>12, <3>2, <5>1 DEF LeadsOn
        <5>3. k \in 1 .. caller - 1
          BY <1>0, <1>types, <5>2
        <5> QED
          BY <1>20, <5>1, <5>3
      <4> QED
        BY <1>inv, <3>2, <4>1, <4>2 DEF OpenInv
    <3> QED
      BY <1>13, <3>1, <3>2
  <2> QED
    BY <1>11, <2>1, <2>2 DEF OpenInv
<1>22. DeviceInv'
  <2>1. ASSUME NEW b \in bridges', NEW k \in 1 .. caller, b.bus = calls'[k].bus
        PROVE  b.device <= calls'[k].device /\ (k = caller => b.device < calls'[k].device)
    <3>1. PICK a \in bridges : a.bus = b.bus /\ a.device = b.device
      BY <1>15
    <3>2. k \in 1 .. Depth /\ a.bus = calls[k].bus
      BY <1>1, <1>11, <1>types, <2>1, <3>1
    <3>3. a.device <= calls[k].device
      BY <1>inv, <3>2 DEF DeviceInv
    <3> QED
      BY <1>11, <1>types, <3>1, <3>2, <3>3
  <2> QED
    BY <1>11, <2>1 DEF DeviceInv
<1>23. ASSUME NEW target \in 0 .. last_bus_number
       PROVE  OneTakes(target)'
  <2>1. ASSUME NEW bus \in 0 .. target - 1,
               bus = 0 \/ \E b \in bridges' : b.secondary = bus /\ Scan!Routes(b, target)
        PROVE  /\ \E b \in bridges' : b.bus = bus /\ Scan!Routes(b, target)
               /\ \A b, c \in bridges' : /\ b.bus = bus /\ Scan!Routes(b, target)
                                         /\ c.bus = bus /\ Scan!Routes(c, target)
                                         => b = c
    <3>1. bus = 0 \/ \E a \in bridges : a.secondary = bus /\ Scan!Routes(a, target)
      BY <1>15, <2>1
    <3>2. /\ \E a \in bridges : a.bus = bus /\ Scan!Routes(a, target)
          /\ \A a, d \in bridges : /\ a.bus = bus /\ Scan!Routes(a, target)
                                   /\ d.bus = bus /\ Scan!Routes(d, target)
                                   => a = d
      BY <1>inv, <3>1 DEF OneTakes
    <3>3. \E b \in bridges' : b.bus = bus /\ Scan!Routes(b, target)
      BY <1>16, <3>2
    <3>4. ASSUME NEW b \in bridges', NEW c \in bridges',
                 b.bus = bus, Scan!Routes(b, target), c.bus = bus, Scan!Routes(c, target)
          PROVE  b = c
      <4>1. PICK a \in bridges : /\ a.bus = b.bus /\ Scan!Routes(a, target)
                                /\ b = IF a = open THEN closed ELSE a
        BY <1>15, <3>4
      <4>2. PICK d \in bridges : /\ d.bus = c.bus /\ Scan!Routes(d, target)
                                /\ c = IF d = open THEN closed ELSE d
        BY <1>15, <3>4
      <4>3. a = d
        BY <3>2, <3>4, <4>1, <4>2
      <4> QED
        BY <4>1, <4>2, <4>3
    <3> QED
      BY <3>3, <3>4
  <2> QED
    BY <2>1 DEF OneTakes, Scan!Routes
<1>24. \A target \in 0 .. last_bus_number' : OneTakes(target)'
  BY <1>9, <1>23
<1> QED
  BY <1>17, <1>18, <1>19, <1>21, <1>22, <1>24 DEF ScanInv

\* Every step of enumerateBus() keeps the invariant.
LEMMA ScanStepKeepsInv ==
  ASSUME ScanInv, Scan!Next
  PROVE  ScanInv'
<1>inv. Scan!TypeOK
  BY DEF ScanInv
<1>1. CASE Scan!NoDevice
  BY <1>inv, <1>1, ProbeKeepsInv DEF Scan!NoDevice, Scan!TypeOK
<1>2. CASE Scan!FoundBridge
  BY <1>2, BridgeKeepsInv
<1>3. CASE Scan!FoundEndpoint
  <2>1. Depth \in 1 .. Depth /\ Scan!This = calls[Depth]
    BY <1>inv, <1>3 DEF Scan!FoundEndpoint, Scan!Probing, Scan!TypeOK, Scan!This, Depth
  <2>2. Scan!This.bus \in Scan!Buses /\ Scan!This.device \in Scan!Devices
    BY <1>inv, <1>3, <2>1, ScanTypes
       DEF Scan!FoundEndpoint, Scan!Probing, Scan!Buses, Scan!Devices
  <2>3. \A f \in Scan!Functions :
          Scan!Function(f) \in Scan!Buses \X Scan!Devices \X Scan!Functions
    BY <2>2 DEF Scan!Function
  <2>4. 0 \in Scan!Functions
    BY ScanAssumption DEF Scan!Functions
  <2>5. PICK functions \in SUBSET (Scan!Functions \ {0}) :
          discovered_devices' = discovered_devices
                                \cup {Scan!Function(f) : f \in functions \cup {0}}
    BY <1>3 DEF Scan!FoundEndpoint
  <2>6. discovered_devices' \subseteq Scan!Buses \X Scan!Devices \X Scan!Functions
    BY <1>inv, <2>3, <2>4, <2>5 DEF Scan!TypeOK
  <2> QED
    BY <1>3, <2>6, ProbeKeepsInv DEF Scan!FoundEndpoint
<1>4. CASE Scan!Return
  <2>1. calls \in Seq(Frame) /\ Depth \in Nat /\ Depth # 0
    BY <1>inv, <1>4 DEF Scan!Return, Scan!TypeOK, Frame, Depth
  <2>2. CASE Depth > 1
    BY <1>4, <2>2, CloseKeepsInv
  <2>3. CASE Depth = 1
    <3>1. Scan!Callers = <<>>
      BY <2>1, <2>3, SubSeqProperties DEF Scan!Callers, Depth
    <3> QED
      BY <1>4, <2>3, <3>1, EndKeepsInv DEF Scan!Return
  <2> QED
    BY <2>1, <2>2, <2>3
<1> QED
  BY <1>1, <1>2, <1>3, <1>4 DEF Scan!Next

-----------------------------------------------------------------------------
(* What the invariant says of accesses.                                    *)

\* An access that one bridge takes on every bus finds its way.
LEMMA OneTakesIsReachable ==
  ASSUME NEW target \in Nat, OneTakes(target)
  PROVE  Scan!Reachable(target)
<1>1. ASSUME NEW bus \in 0 .. target - 1,
             bus = 0 \/ \E b \in bridges : b.secondary = bus /\ Scan!Routes(b, target)
      PROVE  Scan!Cardinality(Scan!Taking(bus, target)) = 1
  <2>1. PICK b \in bridges : b.bus = bus /\ Scan!Routes(b, target)
    BY <1>1 DEF OneTakes
  <2>2. \A c \in bridges : c.bus = bus /\ Scan!Routes(c, target) => c = b
    BY <1>1, <2>1 DEF OneTakes
  <2>3. Scan!Taking(bus, target) = {b}
    BY <2>1, <2>2 DEF Scan!Taking
  <2> QED
    BY <2>3, FS_Singleton, SameCardinality
<1> QED
  BY <1>1 DEF Scan!Reachable

\* The invariant implies the property of the run.
LEMMA InvRoutes ==
  ASSUME ScanInv
  PROVE  Scan!TypeOK /\ Scan!BusesReachable
<1>inv. /\ Scan!TypeOK /\ NumbersInv /\ StackInv /\ OpenInv
       /\ \A target \in 0 .. last_bus_number : OneTakes(target)
  BY DEF ScanInv
<1>1. last_bus_number \in Nat
  BY <1>inv, ScanTypes
<1>2. \A target \in 0 .. last_bus_number : Scan!Reachable(target)
  BY <1>inv, <1>1, OneTakesIsReachable
<1>3. ASSUME calls # <<>>
      PROVE  Scan!Reachable(Scan!This.bus)
  <2>1. Depth \in 1 .. Depth /\ Scan!This = calls[Depth]
    BY <1>inv, <1>3 DEF Scan!TypeOK, Scan!This, Depth
  <2>2. Scan!This.bus \in 0 .. last_bus_number
    BY <1>inv, <1>1, <2>1, ScanTypes DEF StackInv
  <2> QED
    BY <1>2, <2>2
<1>4. ASSUME calls = <<>>
      PROVE  \A b \in bridges : b.subordinate <= last_bus_number
  <2>1. Depth = 0
    BY <1>4 DEF Depth
  <2> QED
    BY <1>inv, <2>1 DEF OpenInv
<1>5. \A b, c \in bridges : b.secondary = c.secondary => b = c
  BY <1>inv DEF NumbersInv
<1> QED
  BY <1>inv, <1>2, <1>3, <1>4, <1>5 DEF Scan!BusesReachable

-----------------------------------------------------------------------------

\* pcie_scan.cpp: at every point of the enumeration the bus that is enumerated
\* is reached, over one bridge on every bus on the way; in the end every bus is,
\* for every number of buses and devices and whatever sits where.
THEOREM EnumerationRoutes == Spec => []BusesReachable
<1> DEFINE Inv == unit = "pcie_scan" => ScanInv
<1>1. Init => Inv
  BY ScanStarts DEF Init
<1>2. Inv /\ [Next]_vars => Inv'
  <2>1. SUFFICES ASSUME Inv, [Next]_vars, unit' = "pcie_scan"
                 PROVE  ScanInv'
    OBVIOUS
  <2>2. unit = "pcie_scan" /\ (Scan!Next \/ UNCHANGED scanVars)
    BY <2>1 DEF Next, vars, OnlyArb, OnlyScan, OnlyQos, OnlyTower, OnlyNodes, OnlyBank
  <2>3. ScanInv
    BY <2>1, <2>2
  <2>4. CASE Scan!Next
    BY <2>3, <2>4, ScanStepKeepsInv
  <2>5. CASE UNCHANGED scanVars
    BY <2>3, <2>5 DEF scanVars, ScanInv, NumbersInv, StackInv, OpenInv, DeviceInv, OneTakes,
                      LeadsOn, Depth, Scan!TypeOK, Scan!Routes
  <2> QED
    BY <2>2, <2>4, <2>5
<1>3. Inv => BusesReachable
  BY InvRoutes DEF BusesReachable
<1> QED
  BY <1>1, <1>2, <1>3, PTL DEF Spec

-----------------------------------------------------------------------------
(* Credits between two nodes.  A debt is at most one per cycle and one per *)
(* order of the two methods; a node without a credit is owed one.          *)

\* What a node owes depends on who has run: it starts a cycle with at most one
\* credit owed, its own step pays one and its peer's step adds one.
OwedInv ==
  \A n \in Nodes!Node :
    m_credit_ret[n] <= (IF n \in ran THEN 0 ELSE 1) + (IF Nodes!Peer(n) \in ran THEN 1 ELSE 0)

\* A node that could not send has a credit again as soon as its peer has run.
IdleInv ==
  \A n \in Nodes!Node :
    granted[n] > 0 /\ idle[n] > 0 =>
      /\ idle[n] = 1
      /\ m_credit[n] > 0 \/ (n \in ran /\ Nodes!Peer(n) \notin ran)

NodeInv == Nodes!TypeOK /\ Nodes!CreditsConserved /\ OwedInv /\ IdleInv

\* The two nodes are each other's peers.
LEMMA Peers ==
  ASSUME NEW n \in Nodes!Node
  PROVE  /\ Nodes!Peer(n) \in Nodes!Node /\ Nodes!Peer(n) # n /\ Nodes!Peer(Nodes!Peer(n)) = n
         /\ \A k \in Nodes!Node : k = n \/ k = Nodes!Peer(n)
  BY DEF Nodes!Node, Nodes!Peer

\* The nodes start without debts.
LEMMA NodesStart == Nodes!Init => NodeInv
<1> SUFFICES ASSUME Nodes!Init PROVE NodeInv
  OBVIOUS
<1>1. Nodes!TypeOK
  BY CreditAssumption DEF Nodes!Init, Nodes!TypeOK
<1>2. Nodes!CreditsConserved
  BY CreditAssumption, Peers DEF Nodes!Init, Nodes!CreditsConserved
<1>3. OwedInv /\ IdleInv
  BY CreditAssumption, Peers DEF Nodes!Init, OwedInv, IdleInv
<1>4. QED
  BY <1>1, <1>2, <1>3 DEF NodeInv

\* A cycle starts when both have run.
LEMMA PosedgeKeepsInv == NodeInv /\ Nodes!posedge => NodeInv'
<1> SUFFICES ASSUME NodeInv, Nodes!posedge PROVE NodeInv'
  OBVIOUS
<1> USE DEF NodeInv
<1>1. Nodes!TypeOK' /\ Nodes!CreditsConserved'
  BY DEF Nodes!TypeOK, Nodes!CreditsConserved, Nodes!posedge
<1>2. OwedInv'
  BY Peers DEF OwedInv, Nodes!posedge
<1>3. IdleInv'
  \* Both nodes have run, so nobody is waiting for its peer.
  BY Peers DEF IdleInv, Nodes!posedge
<1>4. QED
  BY <1>1, <1>2, <1>3

\* A node pays at most one credit, and causes at most one debt.
LEMMA MethodKeepsInv ==
  ASSUME NEW n \in Nodes!Node, NodeInv, Nodes!mth_entry(n)
  PROVE  NodeInv'
<1> DEFINE p == Nodes!Peer(n)
<1>1. p \in Nodes!Node /\ p # n /\ Nodes!Peer(p) = n /\ Nodes!Node = {n, p}
  BY Peers
<1> HIDE DEF p
<1>2. /\ granted \in [Nodes!Node -> Nat] /\ m_credit \in [Nodes!Node -> Nat]
      /\ m_credit_ret \in [Nodes!Node -> Nat] /\ idle \in [Nodes!Node -> 0 .. 2]
      /\ ran \subseteq Nodes!Node /\ n \notin ran
  BY CreditAssumption DEF NodeInv, Nodes!TypeOK, Nodes!mth_entry
\* The step, variable by variable.
<1>3. /\ m_credit'[n] = IF m_credit[n] > 0 THEN m_credit[n] - 1 ELSE m_credit[n]
      /\ m_credit'[p] = IF m_credit_ret[n] > 0 THEN m_credit[p] + 1 ELSE m_credit[p]
      /\ m_credit' \in [Nodes!Node -> Nat]
  BY <1>1, <1>2 DEF Nodes!mth_entry, Nodes!CreditsAfter, Nodes!Sends, Nodes!Returns, p
<1>4. /\ m_credit_ret'[n] = IF m_credit_ret[n] > 0 THEN m_credit_ret[n] - 1 ELSE m_credit_ret[n]
      /\ m_credit_ret'[p] = IF m_credit[n] > 0 THEN m_credit_ret[p] + 1 ELSE m_credit_ret[p]
      /\ m_credit_ret' \in [Nodes!Node -> Nat]
  BY <1>1, <1>2 DEF Nodes!mth_entry, Nodes!OwedAfter, Nodes!Sends, Nodes!Returns, p
<1>5. /\ idle'[n] = IF m_credit[n] > 0 THEN 0 ELSE IF idle[n] = 2 THEN 2 ELSE idle[n] + 1
      /\ idle'[p] = idle[p]
      /\ idle' \in [Nodes!Node -> 0 .. 2]
  BY <1>1, <1>2 DEF Nodes!mth_entry, Nodes!Sends
<1>6. granted' = granted /\ ran' = ran \cup {n}
  BY DEF Nodes!mth_entry
<1>7. Nodes!TypeOK'
  BY <1>1, <1>2, <1>3, <1>4, <1>5, <1>6 DEF NodeInv, Nodes!TypeOK
<1>8. m_credit[n] + m_credit_ret[p] = granted[n] /\ m_credit[p] + m_credit_ret[n] = granted[p]
  BY <1>1 DEF NodeInv, Nodes!CreditsConserved, p
<1>9. Nodes!CreditsConserved'
  <2>1. /\ m_credit'[n] + m_credit_ret'[p] = granted'[n]
        /\ m_credit'[p] + m_credit_ret'[n] = granted'[p]
    BY <1>1, <1>2, <1>3, <1>4, <1>6, <1>8
  <2>2. QED
    BY <1>1, <2>1 DEF Nodes!CreditsConserved, p
<1>10. /\ m_credit_ret[n] <= 1 + (IF p \in ran THEN 1 ELSE 0)
       /\ m_credit_ret[p] <= (IF p \in ran THEN 0 ELSE 1)
  BY <1>1, <1>2 DEF NodeInv, OwedInv, p
<1>11. OwedInv'
  <2>1. /\ m_credit_ret'[n] <= (IF p \in ran' THEN 1 ELSE 0)
        /\ m_credit_ret'[p] <= (IF p \in ran' THEN 0 ELSE 1) + 1
    BY <1>1, <1>2, <1>4, <1>6, <1>10
  <2>2. QED
    BY <1>1, <1>2, <1>6, <1>4, <2>1 DEF OwedInv, p
<1>12. IdleInv'
  \* The node had a credit if its peer has run before it in this cycle, or if
  \* it could not send in the last one.
  <2>1. granted[n] > 0 /\ (p \in ran \/ idle[n] > 0) => m_credit[n] > 0
    <3>1. granted[n] > 0 /\ p \in ran => m_credit[n] > 0
      BY <1>1, <1>2, <1>8, <1>10
    <3>2. granted[n] > 0 /\ idle[n] > 0 => m_credit[n] > 0
      BY <1>1, <1>2 DEF NodeInv, IdleInv
    <3>3. QED
      BY <3>1, <3>2
  <2>2. granted'[n] > 0 /\ idle'[n] > 0 => idle'[n] = 1 /\ n \in ran' /\ p \notin ran'
    BY <1>1, <1>2, <1>5, <1>6, <2>1
  \* The peer gets back whatever it lacks.
  <2>3. granted'[p] > 0 /\ idle'[p] > 0 => idle'[p] = 1 /\ m_credit'[p] > 0
    <3>1. granted[p] > 0 /\ idle[p] > 0 => idle[p] = 1
      BY <1>1 DEF NodeInv, IdleInv
    <3>2. granted[p] > 0 => m_credit'[p] > 0
      BY <1>1, <1>2, <1>3, <1>8
    <3>3. QED
      BY <1>5, <1>6, <3>1, <3>2
  <2>4. QED
    BY <1>1, <2>2, <2>3 DEF IdleInv, p
<1>13. QED
  BY <1>7, <1>9, <1>11, <1>12 DEF NodeInv

\* A step of the nodes.
LEMMA NodesStepKeepsInv == NodeInv /\ Nodes!Next => NodeInv'
<1> SUFFICES ASSUME NodeInv, Nodes!Next PROVE NodeInv'
  OBVIOUS
<1>1. CASE Nodes!posedge
  BY <1>1, PosedgeKeepsInv
<1>2. CASE \E n \in Nodes!Node : Nodes!mth_entry(n)
  BY <1>2, MethodKeepsInv
<1>3. QED
  BY <1>1, <1>2 DEF Nodes!Next

\* With any credits but none, no node is idle for two cycles and no debt exceeds
\* two.
LEMMA NodesSteady ==
  ASSUME NodeInv
  PROVE  Nodes!NeverStalls
<1> SUFFICES ASSUME NEW n \in Nodes!Node
             PROVE  /\ granted[n] > 0 => idle[n] <= 1
                    /\ m_credit_ret[n] <= 2
  BY DEF Nodes!NeverStalls
<1>1. idle[n] \in 0 .. 2 /\ m_credit_ret[n] \in Nat
  BY DEF NodeInv, Nodes!TypeOK
<1>2. QED
  BY <1>1 DEF NodeInv, OwedInv, IdleInv

-----------------------------------------------------------------------------
(* ni-tower_test.cpp, for any number of credits but none: B, which works   *)
(* while A has no credit, gives one back before A has waited three cycles.  *)

\* A waits at most twice in a row.  B has worked once by the time A waits again:
\* if it runs before A in that cycle it pops, and otherwise it pops after it.
WaitInv ==
  /\ idle <= 2
  /\ m_credits = 0 =>
       /\ idle = 0 => ("A" \notin ran /\ "B" \in ran => m_delay_cnt = 1)
       /\ idle = 1 => /\ "A" \notin ran => "B" \notin ran
                      /\ "A" \notin ran \/ "B" \in ran => m_delay_cnt = 1
       /\ idle = 2 => "A" \in ran /\ "B" \notin ran /\ m_delay_cnt = 1

TowerInv == Tower!TypeOK /\ Tower!CreditsConserved /\ WaitInv

\* A starts with its credits.
LEMMA TowerStarts == Tower!Init => TowerInv
  BY CreditAssumption DEF Tower!Init, TowerInv, Tower!TypeOK, Tower!CreditsConserved, WaitInv

\* A step of the tower.
LEMMA TowerStepKeepsInv == TowerInv /\ Tower!Next => TowerInv'
<1> SUFFICES ASSUME TowerInv, Tower!Next PROVE TowerInv'
  OBVIOUS
<1>inv. /\ Tower!TypeOK /\ Tower!CreditsConserved /\ WaitInv
        /\ TowerCredits \in Nat \ {0}
  BY CreditAssumption DEF TowerInv
<1>1. CASE Tower!posedge
  <2>1. Tower!TypeOK' /\ Tower!CreditsConserved'
    BY <1>inv, <1>1 DEF Tower!posedge, Tower!TypeOK, Tower!CreditsConserved
  <2>2. WaitInv'
    BY <1>inv, <1>1 DEF Tower!posedge, Tower!TypeOK, WaitInv
  <2> QED
    BY <2>1, <2>2 DEF TowerInv
<1>2. CASE Tower!A_process
  <2>1. Tower!TypeOK' /\ Tower!CreditsConserved'
    BY <1>inv, <1>2 DEF Tower!A_process, Tower!TypeOK, Tower!CreditsConserved
  <2>2. CASE m_credits > 0
    BY <1>inv, <1>2, <2>2 DEF Tower!A_process, Tower!TypeOK, WaitInv, TowerInv,
                              Tower!CreditsConserved
  <2>3. CASE m_credits = 0
    <3>1. /\ "A" \notin ran /\ ran' = ran \cup {"A"}
          /\ idle' = idle + 1 /\ m_credits' = 0 /\ m_delay_cnt' = m_delay_cnt
      BY <1>inv, <1>2, <2>3 DEF Tower!A_process, Tower!TypeOK, WaitInv
    <3>2. idle \in {0, 1} /\ m_delay_cnt \in {0, 1}
      BY <1>inv, <2>3, <3>1 DEF WaitInv, Tower!TypeOK
    <3>3. idle = 1 => m_delay_cnt = 1 /\ "B" \notin ran
      BY <1>inv, <2>3, <3>1 DEF WaitInv
    <3>4. WaitInv'
      BY <1>inv, <2>3, <3>1, <3>2, <3>3 DEF WaitInv
    <3> QED
      BY <2>1, <3>4 DEF TowerInv
  <2> QED
    BY <1>inv, <2>2, <2>3 DEF Tower!TypeOK
<1>3. CASE Tower!B_process
  <2>1. Tower!TypeOK' /\ Tower!CreditsConserved'
    BY <1>inv, <1>3 DEF Tower!B_process, Tower!Pops, Tower!TypeOK, Tower!CreditsConserved
  <2>2. WaitInv'
    \* While A has no credit the queue is not empty, and B works.
    BY <1>inv, <1>3 DEF Tower!B_process, Tower!Pops, Tower!TypeOK, Tower!CreditsConserved, WaitInv
  <2> QED
    BY <2>1, <2>2 DEF TowerInv
<1>4. QED
  BY <1>1, <1>2, <1>3 DEF Tower!Next

-----------------------------------------------------------------------------

\* The invariants of the nodes and of the tower.
THEOREM CreditInvariant ==
  Spec => []((unit = "node" => NodeInv) /\ (unit = "ni_tower" => TowerInv))
<1> DEFINE Inv == (unit = "node" => NodeInv) /\ (unit = "ni_tower" => TowerInv)
<1>1. Init => Inv
  BY NodesStart, TowerStarts DEF Init
<1>2. Inv /\ [Next]_vars => Inv'
  <2> SUFFICES ASSUME Inv, [Next]_vars PROVE Inv'
    OBVIOUS
  <2>1. ASSUME unit' = "node" PROVE NodeInv'
    <3>1. unit = "node" /\ (Nodes!Next \/ UNCHANGED <<nodeVars, cycleVars>>)
      BY <2>1 DEF Next, vars, OnlyArb, OnlyScan, OnlyQos, OnlyTower, OnlyNodes, OnlyBank
    <3>2. CASE Nodes!Next
      BY <3>1, <3>2, NodesStepKeepsInv
    <3>3. CASE UNCHANGED <<nodeVars, cycleVars>>
      BY <3>1, <3>3 DEF nodeVars, cycleVars, NodeInv, Nodes!TypeOK, Nodes!CreditsConserved,
                        OwedInv, IdleInv
    <3> QED
      BY <3>1, <3>2, <3>3
  <2>2. ASSUME unit' = "ni_tower" PROVE TowerInv'
    <3>1. unit = "ni_tower" /\ (Tower!Next \/ UNCHANGED <<towerVars, cycleVars>>)
      BY <2>2 DEF Next, vars, OnlyArb, OnlyScan, OnlyQos, OnlyTower, OnlyNodes, OnlyBank
    <3>2. CASE Tower!Next
      BY <3>1, <3>2, TowerStepKeepsInv
    <3>3. CASE UNCHANGED <<towerVars, cycleVars>>
      BY <3>1, <3>3 DEF towerVars, cycleVars, TowerInv, Tower!TypeOK, Tower!CreditsConserved,
                        WaitInv
    <3> QED
      BY <3>1, <3>2, <3>3
  <2> QED
    BY <2>1, <2>2
<1> QED
  BY <1>1, <1>2, PTL DEF Spec

\* node.cpp, ni-tower_test.cpp: whatever credits the modules start with and in
\* whatever order they run, no credit is lost and none is invented.
THEOREM CreditSafe == Spec => []CreditsConserved
<1>1. (unit = "node" => NodeInv) /\ (unit = "ni_tower" => TowerInv) => CreditsConserved
  BY DEF CreditsConserved, NodeInv, TowerInv
<1> QED
  BY CreditInvariant, <1>1, PTL

\* node.cpp, ni-tower_test.cpp: with any credits but none, a node is never without
\* one for two cycles and its peer never owes it more than two, and A of the tower
\* never waits three cycles.
THEOREM CreditSteady == Spec => []NeverStalls
<1>1. (unit = "node" => NodeInv) /\ (unit = "ni_tower" => TowerInv) => NeverStalls
  <2>1. ASSUME TowerInv PROVE Tower!NeverStalls
    BY <2>1 DEF TowerInv, WaitInv, Tower!NeverStalls
  <2> QED
    BY <2>1, NodesSteady DEF NeverStalls
<1> QED
  BY CreditInvariant, <1>1, PTL

-----------------------------------------------------------------------------
(* The switch arbiter.                                                     *)

\* The waiting packets of a port and a channel: in its ingress buffer, and in the
\* queues of the egress ports.
Waiting(b, p, v) == {k \in 1 .. Len(b[p]) : Arb!IsOf(b[p][k], p, v)}
Queued(q, p, v) ==
  {w \in Egress \X Nat : w[2] \in 1 .. Len(q[w[1]]) /\ Arb!IsOf(q[w[1]][w[2]], p, v)}

Accounted(c, b, q) ==
  \A p \in Ingress, v \in VC :
    c[p][v] + Cardinality(Waiting(b, p, v)) + Cardinality(Queued(q, p, v)) = Credits

\* The packets of p wait in its own buffer.
Homed(b) == \A p \in Ingress : \A k \in 1 .. Len(b[p]) : b[p][k].port = p

ArbInv ==
  /\ vc_credits \in [Ingress -> [VC -> Nat]]
  /\ ingress_buffers \in [Ingress -> Seq(Arb!Packet)]
  /\ arbitration_queues \in [Egress -> Seq(Arb!Packet)]
  /\ Homed(ingress_buffers)
  /\ Accounted(vc_credits, ingress_buffers, arbitration_queues)

\* The operators of the libraries as PcieArb sees them.
LEMMA ArbLibrary ==
  /\ \A S : Arb!Cardinality(S) = Cardinality(S)
  /\ \A q, k : Arb!RemoveAt(q, k) = RemoveAt(q, k)
<1>1. \A S : Arb!Cardinality(S) = Cardinality(S)
  BY DEF Arb!Cardinality, Cardinality
<1>2. \A q, k : Arb!RemoveAt(q, k) = RemoveAt(q, k)
  BY DEF Arb!RemoveAt, RemoveAt
<1> QED
  BY <1>1, <1>2

\* The packets that wait are finitely many.
LEMMA WaitingFinite ==
  ASSUME IsFiniteSet(Egress), NEW E, NEW b \in [Ingress -> Seq(E)], NEW q \in [Egress -> Seq(E)],
         NEW p \in Ingress, NEW v
  PROVE  IsFiniteSet(Waiting(b, p, v)) /\ IsFiniteSet(Queued(q, p, v))
<1>1. IsFiniteSet(Waiting(b, p, v))
  <2>1. IsFiniteSet(1 .. Len(b[p]))
    BY FS_Interval
  <2>2. Waiting(b, p, v) \in SUBSET (1 .. Len(b[p]))
    BY DEF Waiting
  <2> QED
    BY <2>1, <2>2, FS_Subset
<1>2. IsFiniteSet(Queued(q, p, v))
  <2> DEFINE f == [e \in Egress |-> {e} \X (1 .. Len(q[e]))]
             S == {f[e] : e \in Egress}
  <2>1. IsFiniteSet(S)
    <3>1. f \in Surjection(Egress, S)
      BY DEF Surjection
    <3> QED
      BY <3>1, FS_Surjection
  <2>2. \A T \in S : IsFiniteSet(T)
    <3> SUFFICES ASSUME NEW e \in Egress PROVE IsFiniteSet({e} \X (1 .. Len(q[e])))
      OBVIOUS
    <3>1. Len(q[e]) \in Nat
      OBVIOUS
    <3>2. IsFiniteSet(1 .. Len(q[e]))
      <4>1. PICK n \in Nat : n = Len(q[e])
        BY <3>1
      <4> QED
        BY <4>1, FS_Interval
    <3>3. IsFiniteSet({e})
      BY FS_Singleton
    <3> QED
      BY <3>2, <3>3, FS_Product
  <2>3. IsFiniteSet(UNION S)
    BY <2>1, <2>2, FS_UNION
  <2>4. Queued(q, p, v) \in SUBSET (UNION S)
    <3> SUFFICES ASSUME NEW w \in Queued(q, p, v) PROVE w \in UNION S
      OBVIOUS
    <3>1. w \in {w[1]} \X (1 .. Len(q[w[1]])) /\ w[1] \in Egress
      BY DEF Queued
    <3> QED
      BY <3>1
  <2> QED
    BY <2>3, <2>4, FS_Subset
<1> QED
  BY <1>1, <1>2

\* The loop over a set of ports visits each of them once.
LEMMA PortOrderIs ==
  ASSUME NEW ports \in SUBSET Nat, IsFiniteSet(ports), NEW n, n = Cardinality(ports)
  PROVE  /\ n \in Nat /\ Arb!PortOrder(ports) \in [1 .. n -> ports]
         /\ \A j, k \in 1 .. n : Arb!PortOrder(ports)[j] = Arb!PortOrder(ports)[k] => j = k
         /\ \A p \in ports : \E k \in 1 .. n : Arb!PortOrder(ports)[k] = p
<1> DEFINE below(p) == {q \in ports : q < p}
           rank == [p \in ports |-> Cardinality(below(p))]
<1>1. n \in Nat
  BY FS_CardinalityType
<1>2. ASSUME NEW p \in ports
      PROVE  IsFiniteSet(below(p)) /\ Cardinality(below(p)) \in 0 .. n - 1
  <2>1. IsFiniteSet(ports \ {p}) /\ Cardinality(ports \ {p}) = n - 1
    BY FS_RemoveElement
  <2>2. below(p) \in SUBSET (ports \ {p})
    OBVIOUS
  <2>3. IsFiniteSet(below(p)) /\ Cardinality(below(p)) <= n - 1
    BY <2>1, <2>2, FS_Subset
  <2>4. Cardinality(below(p)) \in Nat
    BY <2>3, FS_CardinalityType
  <2> QED
    BY <1>1, <2>3, <2>4
<1>3. ASSUME NEW p \in ports, NEW q \in ports, p < q
      PROVE  Cardinality(below(p)) < Cardinality(below(q))
  <2>1. /\ IsFiniteSet(below(p) \cup {p})
        /\ Cardinality(below(p) \cup {p}) = Cardinality(below(p)) + 1
    <3>1. p \notin below(p)
      OBVIOUS
    <3> HIDE DEF below
    <3> QED
      BY <3>1, <1>2, FS_AddElement
  <2>2. below(p) \cup {p} \in SUBSET below(q)
    <3> SUFFICES ASSUME NEW r \in ports, r < p \/ r = p PROVE r < q
      OBVIOUS
    <3>1. r \in Nat /\ p \in Nat /\ q \in Nat
      OBVIOUS
    <3> QED
      BY <1>3, <3>1
  <2> HIDE DEF below
  <2>3. Cardinality(below(p) \cup {p}) <= Cardinality(below(q))
    BY <1>2, <2>2, FS_Subset
  <2>4. Cardinality(below(p)) \in Nat /\ Cardinality(below(q)) \in Nat
    BY <1>2, FS_CardinalityType
  <2> QED
    BY <2>1, <2>3, <2>4
<1>4. /\ rank \in [ports -> 0 .. n - 1]
      /\ \A p, q \in ports : rank[p] = rank[q] => p = q
      /\ \A p \in ports : rank[p] = Cardinality(below(p))
  <2>1. \A p, q \in ports : p = q \/ p < q \/ q < p
    OBVIOUS
  <2> HIDE DEF below
  <2> QED
    BY <1>2, <1>3, <2>1
<1> HIDE DEF rank
<1>5. \A k \in 0 .. n - 1 : \E p \in ports : rank[p] = k
  <2>1. IsFiniteSet(0 .. n - 1) /\ Cardinality(0 .. n - 1) = n
    <3>1. PICK d \in Int : d = n - 1
      BY <1>1
    <3>2. /\ IsFiniteSet(0 .. d)
          /\ Cardinality(0 .. d) = IF 0 > d THEN 0 ELSE d - 0 + 1
      BY FS_Interval
    <3>3. Cardinality(0 .. d) = n
      BY <1>1, <3>1, <3>2
    <3> QED
      BY <3>1, <3>2, <3>3
  <2>2. rank \in Injection(ports, 0 .. n - 1)
    <3>1. \A p, q \in ports : rank[p] = rank[q] => p = q
      BY <1>4
    <3> QED
      BY <1>4, <3>1, Zenon DEF Injection, IsInjective
  <2>3. rank \in Surjection(ports, 0 .. n - 1)
    BY <2>1, <2>2, FS_Injection
  <2> QED
    BY <2>3 DEF Surjection
<1>6. Arb!PortOrder(ports) = [k \in 1 .. n |-> CHOOSE p \in ports : Cardinality(below(p)) = k - 1]
  BY DEF Arb!PortOrder, Arb!Cardinality, Cardinality
<1> HIDE DEF below
<1>7. ASSUME NEW k \in 1 .. n
      PROVE  Arb!PortOrder(ports)[k] \in ports /\ rank[Arb!PortOrder(ports)[k]] = k - 1
  <2>1. \E p \in ports : Cardinality(below(p)) = k - 1
    <3>1. k - 1 \in 0 .. n - 1
      BY <1>1
    <3> QED
      BY <1>4, <1>5, <3>1
  <2>2. Arb!PortOrder(ports)[k] = CHOOSE p \in ports : Cardinality(below(p)) = k - 1
    BY <1>6
  <2>3. /\ Arb!PortOrder(ports)[k] \in ports
        /\ Cardinality(below(Arb!PortOrder(ports)[k])) = k - 1
    BY <2>1, <2>2, Zenon
  <2> QED
    BY <1>4, <2>3
<1>8. Arb!PortOrder(ports) \in [1 .. n -> ports]
  BY <1>6, <1>7
<1>9. \A j, k \in 1 .. n : Arb!PortOrder(ports)[j] = Arb!PortOrder(ports)[k] => j = k
  <2> SUFFICES ASSUME NEW j \in 1 .. n, NEW k \in 1 .. n,
                      Arb!PortOrder(ports)[j] = Arb!PortOrder(ports)[k]
               PROVE  j = k
    OBVIOUS
  <2>1. j - 1 = k - 1
    BY <1>7
  <2> QED
    BY <1>1, <2>1
<1>10. ASSUME NEW p \in ports PROVE \E k \in 1 .. n : Arb!PortOrder(ports)[k] = p
  <2>1. PICK r \in 0 .. n - 1 : r = rank[p]
    BY <1>4
  <2>2. r + 1 \in 1 .. n /\ r + 1 - 1 = r
    BY <1>1
  <2>3. Arb!PortOrder(ports)[r + 1] \in ports /\ rank[Arb!PortOrder(ports)[r + 1]] = r
    BY <1>7, <2>2
  <2> QED
    BY <1>4, <2>1, <2>2, <2>3
<1> QED
  BY <1>1, <1>8, <1>9, <1>10

\* A place in the loop over ports: the least of a set is one of it.
LEMMA ArbMin ==
  ASSUME NEW S \in SUBSET Nat, S # {}
  PROVE  Arb!Min(S) \in S
<1>1. \E x \in S : \A y \in S : x <= y
  BY LeastNat
<1> QED
  BY <1>1 DEF Arb!Min

\* Every egress port with requests sends one of them.
LEMMA WinnerIs ==
  ASSUME ArbAssumption, NEW e \in Egress, NEW q \in Seq(Arb!Packet),
         q = arbitration_queues[e], q # <<>>
  PROVE  Arb!Winner(e) \in 1 .. Len(q)
<1> DEFINE high == Arb!Highest(q)
           ports == {q[k].port : k \in high}
           turn == {k \in high : q[k].port = Arb!NextPort(e, ports)}
<1>1. /\ Len(q) \in Nat \ {0} /\ DOMAIN q = 1 .. Len(q)
      /\ \A k \in 1 .. Len(q) : /\ q[k] \in Arb!Packet /\ q[k].priority \in 0 .. MaxPriority
                                /\ q[k].port \in Nat
  <2>1. Len(q) \in Nat \ {0} /\ DOMAIN q = 1 .. Len(q) /\ \A k \in 1 .. Len(q) : q[k] \in Arb!Packet
    OBVIOUS
  <2> QED
    BY <2>1, ArbAssumption DEF Arb!Packet
<1>2. high \in SUBSET (1 .. Len(q)) /\ high # {}
  <2> DEFINE gap == {MaxPriority - q[k].priority : k \in 1 .. Len(q)}
  <2>1. gap \in SUBSET Nat /\ gap # {}
    <3>1. 1 \in 1 .. Len(q)
      BY <1>1
    <3>2. \A k \in 1 .. Len(q) : MaxPriority - q[k].priority \in Nat
      BY <1>1, ArbAssumption
    <3> QED
      BY <3>1, <3>2
  <2> HIDE DEF gap
  <2>2. PICK x \in gap : \A y \in gap : x <= y
    BY <2>1, LeastNat
  <2>3. PICK k \in 1 .. Len(q) : x = MaxPriority - q[k].priority
    BY DEF gap
  <2>4. ASSUME NEW l \in 1 .. Len(q) PROVE q[l].priority <= q[k].priority
    <3>1. x <= MaxPriority - q[l].priority
      BY <2>2 DEF gap
    <3> QED
      BY <1>1, <2>3, <3>1, ArbAssumption
  <2> QED
    BY <1>1, <2>4 DEF Arb!Highest
<1> HIDE DEF high
<1>3. ports \in SUBSET Nat /\ ports # {}
  BY <1>1, <1>2
<1> HIDE DEF ports
<1>4. Arb!NextPort(e, ports) \in ports
  <2> DEFINE after == {p \in ports : p > last_served_ingress_port[e]}
  <2>1. Arb!NextPort(e, ports) = IF after = {} THEN Arb!Min(ports) ELSE Arb!Min(after)
    BY DEF Arb!NextPort
  <2>2. after \in SUBSET ports
    OBVIOUS
  <2> HIDE DEF after
  <2>3. CASE after = {}
    BY <1>3, <2>1, <2>3, ArbMin
  <2>4. CASE after # {}
    <3>1. after \in SUBSET Nat
      BY <1>3, <2>2
    <3>2. Arb!Min(after) \in after
      BY <2>4, <3>1, ArbMin
    <3> QED
      BY <2>1, <2>2, <2>4, <3>2
  <2> QED
    BY <2>3, <2>4
<1>5. turn \in SUBSET high /\ turn # {}
  BY <1>4 DEF ports
<1>6. Arb!Winner(e) = IF Arb!Cardinality(high) = 1 THEN Arb!Min(high) ELSE Arb!Min(turn)
  BY Zenon DEF Arb!Winner, high, ports
<1> HIDE DEF turn
<1>7. high \in SUBSET Nat /\ turn \in SUBSET Nat
  BY <1>2, <1>5
<1>8. Arb!Min(high) \in high /\ Arb!Min(turn) \in turn
  BY <1>2, <1>5, <1>7, ArbMin
<1> QED
  BY <1>2, <1>5, <1>6, <1>8

\* r is the queue q of egress port e, with the heads of the n buffers that o lists.
Joined(b, e, q, r, o, n) ==
  LET P == {p \in Ingress : b[p] # <<>> /\ Head(b[p]).egress = e} IN
  /\ n \in Nat /\ o \in [1 .. n -> P]
  /\ \A j, k \in 1 .. n : o[j] = o[k] => j = k
  /\ \A p \in P : \E k \in 1 .. n : o[k] = p
  /\ Len(r) = Len(q) + n
  /\ \A k \in 1 .. Len(q) : r[k] = q[k]
  /\ \A j \in 1 .. n : r[Len(q) + j] = Head(b[o[j]])

AllJoin(b, q, q2, order, n) ==
  \A e \in Egress : Joined(b, e, q[e], q2[e], order[e], n[e])

\* Every buffer has lost its head.
Drained(b, b2) == b2 = [p \in Ingress |-> IF b[p] = <<>> THEN <<>> ELSE Tail(b[p])]

LEMMA DrainedIs ==
  ASSUME NEW b \in [Ingress -> Seq(Arb!Packet)], NEW b2 \in [Ingress -> Seq(Arb!Packet)],
         Drained(b, b2), NEW p \in Ingress
  PROVE  /\ Len(b[p]) \in Nat /\ Len(b2[p]) = IF b[p] = <<>> THEN 0 ELSE Len(b[p]) - 1
         /\ b[p] # <<>> <=> Len(b[p]) # 0
         /\ \A k \in 1 .. Len(b2[p]) : k + 1 \in 1 .. Len(b[p]) /\ b2[p][k] = b[p][k + 1]
<1>1. PICK s \in Seq(Arb!Packet) : s = b[p]
  OBVIOUS
<1>2. b2[p] = IF s = <<>> THEN <<>> ELSE Tail(s)
  BY <1>1 DEF Drained
<1>3. PICK t \in Seq(Arb!Packet) : t = b2[p]
  OBVIOUS
<1>4. /\ Len(s) \in Nat /\ Len(t) = IF s = <<>> THEN 0 ELSE Len(s) - 1
      /\ s # <<>> <=> Len(s) # 0
  BY <1>2, <1>3
<1>5. ASSUME NEW k \in 1 .. Len(t) PROVE k + 1 \in 1 .. Len(s) /\ t[k] = s[k + 1]
  <2>1. s # <<>> /\ k \in 1 .. Len(s) - 1
    BY <1>4
  <2>2. t = Tail(s)
    BY <1>2, <1>3, <2>1
  <2> QED
    BY <1>4, <2>1, <2>2
<1> QED
  BY <1>1, <1>3, <1>4, <1>5, Zenon

\* The heads of the ingress buffers join the queues: a packet that waits goes on
\* waiting.
Joining(b, q, b2, q2, order, n) ==
  /\ IsFiniteSet(Egress)
  /\ b \in [Ingress -> Seq(Arb!Packet)] /\ q \in [Egress -> Seq(Arb!Packet)]
  /\ b2 \in [Ingress -> Seq(Arb!Packet)] /\ q2 \in [Egress -> Seq(Arb!Packet)]
  /\ Homed(b) /\ Drained(b, b2) /\ AllJoin(b, q, q2, order, n)

AsMany(b, q, b2, q2) ==
  \A p \in Ingress, v \in VC :
    Cardinality(Waiting(b2, p, v)) + Cardinality(Queued(q2, p, v))
      = Cardinality(Waiting(b, p, v)) + Cardinality(Queued(q, p, v))

LEMMA JoinKeeps ==
  ASSUME NEW b, NEW q, NEW b2, NEW q2, NEW order, NEW n,
         Joining(b, q, b2, q2, order, n)
  PROVE  AsMany(b, q, b2, q2)
<1> SUFFICES ASSUME NEW p \in Ingress, NEW v \in VC
             PROVE  Cardinality(Waiting(b2, p, v)) + Cardinality(Queued(q2, p, v))
                      = Cardinality(Waiting(b, p, v)) + Cardinality(Queued(q, p, v))
  BY DEF AsMany
<1> USE DEF Joining
<1> DEFINE W == Waiting(b, p, v)
           W2 == Waiting(b2, p, v)
           Q == Queued(q, p, v)
           Q2 == Queued(q2, p, v)
<1>1. /\ IsFiniteSet(W) /\ IsFiniteSet(W2) /\ IsFiniteSet(Q) /\ IsFiniteSet(Q2)
      /\ Cardinality(W) \in Nat /\ Cardinality(Q) \in Nat
  BY WaitingFinite, FS_CardinalityType
<1>2. /\ Len(b[p]) \in Nat /\ Len(b2[p]) = IF b[p] = <<>> THEN 0 ELSE Len(b[p]) - 1
      /\ b[p] # <<>> <=> Len(b[p]) # 0
      /\ \A k \in 1 .. Len(b2[p]) : k + 1 \in 1 .. Len(b[p]) /\ b2[p][k] = b[p][k + 1]
  BY DrainedIs
<1>4. Cardinality(W2) = Cardinality(W \ {1})
  <2> DEFINE f == [k \in W2 |-> k + 1]
  <2>1. \A k \in W2 : k \in Nat /\ k + 1 \in W \ {1}
    <3> SUFFICES ASSUME NEW k \in W2 PROVE k \in Nat /\ k + 1 \in W \ {1}
      OBVIOUS
    <3>1. k \in 1 .. Len(b2[p]) /\ Arb!IsOf(b2[p][k], p, v)
      BY DEF Waiting
    <3>2. k + 1 \in 1 .. Len(b[p]) /\ Arb!IsOf(b[p][k + 1], p, v) /\ k + 1 # 1
      BY <1>2, <3>1
    <3> QED
      BY <3>1, <3>2 DEF Waiting
  <2>2. \A j, k \in W2 : f[j] = f[k] => j = k
    <3> HIDE DEF W2
    <3> QED
      BY <2>1
  <2>3. ASSUME NEW k \in W \ {1} PROVE \E j \in W2 : f[j] = k
    <3>1. k \in 1 .. Len(b[p]) /\ Arb!IsOf(b[p][k], p, v) /\ k # 1
      BY DEF Waiting
    <3>2. k - 1 \in 1 .. Len(b2[p]) /\ (k - 1) + 1 = k
      BY <1>2, <3>1
    <3>3. b2[p][k - 1] = b[p][k]
      BY <1>2, <3>2
    <3>4. k - 1 \in W2
      BY <3>1, <3>2, <3>3 DEF Waiting
    <3> QED
      BY <3>2, <3>4
  <2>4. f \in [W2 -> W \ {1}]
    BY <2>1
  <2> HIDE DEF f, W2, W
  <2>5. PICK T : T = W \ {1}
    OBVIOUS
  <2>6. f \in [W2 -> T]
    BY <2>4, <2>5, Zenon
  <2>7. \A k \in T : \E j \in W2 : f[j] = k
    BY <2>3, <2>5
  <2>8. PICK S : S = W2
    OBVIOUS
  <2>9. IsFiniteSet(S) /\ Corresponds(f, S, T)
    BY <1>1, <2>2, <2>6, <2>7, <2>8, Zenon DEF Corresponds
  <2>10. Cardinality(T) = Cardinality(S)
    BY <2>9, SameSize, Zenon
  <2> QED
    BY <2>5, <2>8, <2>10, Zenon
<1>5. \A e \in Egress : /\ Len(q[e]) \in Nat /\ n[e] \in Nat
                        /\ Len(q2[e]) = Len(q[e]) + n[e]
                        /\ \A k \in 1 .. Len(q[e]) : q2[e][k] = q[e][k]
  BY DEF AllJoin, Joined
<1>6. Q \in SUBSET Q2
  <2> SUFFICES ASSUME NEW w \in Q PROVE w \in Q2
    OBVIOUS
  <2>1. /\ w \in Egress \X Nat /\ w[1] \in Egress /\ w[2] \in 1 .. Len(q[w[1]])
        /\ Arb!IsOf(q[w[1]][w[2]], p, v)
    BY DEF Queued
  <2>2. q2[w[1]][w[2]] = q[w[1]][w[2]] /\ w[2] \in 1 .. Len(q2[w[1]])
    <3>0. PICK e \in Egress : e = w[1]
      BY <2>1
    <3>1. PICK k \in 1 .. Len(q[e]) : k = w[2]
      BY <2>1, <3>0
    <3>2. /\ Len(q[e]) \in Nat /\ n[e] \in Nat /\ Len(q2[e]) = Len(q[e]) + n[e]
          /\ q2[e][k] = q[e][k]
      BY <1>5
    <3>3. k \in 1 .. Len(q2[e])
      BY <3>2
    <3> QED
      BY <3>0, <3>1, <3>2, <3>3
  <2> QED
    BY <2>1, <2>2 DEF Queued
\* A packet of p that is new in a queue is the head of the buffer of p.
<1>7. ASSUME NEW w \in Q2, w \notin Q
      PROVE  /\ b[p] # <<>> /\ Arb!IsOf(b[p][1], p, v) /\ w[1] = b[p][1].egress
             /\ \E j \in 1 .. n[w[1]] : order[w[1]][j] = p /\ w = <<w[1], Len(q[w[1]]) + j>>
  <2>1. /\ w \in Egress \X Nat /\ w[1] \in Egress /\ w = <<w[1], w[2]>>
        /\ w[2] \in 1 .. Len(q2[w[1]]) /\ Arb!IsOf(q2[w[1]][w[2]], p, v)
    BY DEF Queued
  <2>2. PICK e \in Egress : e = w[1]
    BY <2>1
  <2>3. ~ (w[2] \in 1 .. Len(q[e]))
    <3>1. w[2] \in 1 .. Len(q[e]) => q2[e][w[2]] = q[e][w[2]]
      BY <1>5
    <3> QED
      BY <1>7, <2>1, <2>2, <3>1 DEF Queued
  <2>4. PICK j \in 1 .. n[e] : w[2] = Len(q[e]) + j
    <3>1. w[2] - Len(q[e]) \in 1 .. n[e] /\ w[2] = Len(q[e]) + (w[2] - Len(q[e]))
      BY <1>5, <2>1, <2>2, <2>3
    <3> QED
      BY <3>1
  <2>5. PICK o : o = order[e][j]
    OBVIOUS
  <2>6. /\ o \in Ingress /\ b[o] # <<>> /\ Head(b[o]).egress = e
        /\ q2[e][w[2]] = Head(b[o])
    <3>1. Joined(b, e, q[e], q2[e], order[e], n[e])
      BY DEF AllJoin
    <3>2. o \in {r \in Ingress : b[r] # <<>> /\ Head(b[r]).egress = e}
      BY <2>5, <3>1 DEF Joined
    <3>3. q2[e][Len(q[e]) + j] = Head(b[order[e][j]])
      BY <3>1 DEF Joined
    <3> QED
      BY <2>4, <2>5, <3>2, <3>3
  <2>7. Head(b[o]) = b[o][1] /\ 1 \in 1 .. Len(b[o])
    BY <2>6
  <2>8. b[o][1].port = o
    BY <2>6, <2>7 DEF Homed
  <2>9. o = p
    BY <2>1, <2>2, <2>6, <2>7, <2>8 DEF Arb!IsOf
  <2> QED
    <3>1. b[p] # <<>> /\ Arb!IsOf(b[p][1], p, v) /\ w[1] = b[p][1].egress
      BY <2>1, <2>2, <2>6, <2>7, <2>9
    <3>2. order[w[1]][j] = p /\ w = <<w[1], Len(q[w[1]]) + j>> /\ j \in 1 .. n[w[1]]
      BY <2>1, <2>2, <2>4, <2>5, <2>9
    <3> QED
      BY <3>1, <3>2
<1>8. CASE b[p] # <<>> /\ Arb!IsOf(b[p][1], p, v)
  <2>1. /\ 1 \in 1 .. Len(b[p]) /\ Head(b[p]) = b[p][1] /\ b[p][1] \in Arb!Packet
    BY <1>8
  <2>2. PICK e \in Egress : e = b[p][1].egress
    BY <2>1 DEF Arb!Packet
  <2>3. PICK j \in 1 .. n[e] : order[e][j] = p
    BY <1>8, <2>1, <2>2 DEF AllJoin, Joined
  <2> DEFINE w == <<e, Len(q[e]) + j>>
  <2>4. w \in Q2 /\ w \notin Q
    <3>1. /\ Len(q[e]) + j \in Nat /\ Len(q[e]) + j \in 1 .. Len(q2[e])
          /\ ~ (Len(q[e]) + j \in 1 .. Len(q[e]))
      BY <1>5
    <3>2. q2[e][Len(q[e]) + j] = b[p][1]
      BY <2>1, <2>3 DEF AllJoin, Joined
    <3>3. w \in Egress \X Nat /\ w[1] = e /\ w[2] = Len(q[e]) + j
      BY <3>1
    <3> HIDE DEF w
    <3> QED
      BY <1>8, <3>1, <3>2, <3>3 DEF Queued
  <2>5. Q2 = Q \cup {w}
    <3>1. ASSUME NEW u \in Q2, u \notin Q PROVE u = w
      <4>1. u[1] = e
        BY <1>7, <2>2, <3>1
      <4>2. PICK i \in 1 .. n[e] : order[e][i] = p /\ u = <<e, Len(q[e]) + i>>
        BY <1>7, <3>1, <4>1
      <4>3. i = j
        <5>1. \A a, k \in 1 .. n[e] : order[e][a] = order[e][k] => a = k
          BY DEF AllJoin, Joined
        <5> QED
          BY <2>3, <4>2, <5>1, Zenon
      <4> QED
        BY <4>2, <4>3
    <3> QED
      BY <1>6, <2>4, <3>1
  <2>6. Cardinality(Q2) = Cardinality(Q) + 1
    <3> HIDE DEF Q, Q2, w
    <3> QED
      BY <1>1, <2>4, <2>5, FS_AddElement
  <2>7. 1 \in W
    BY <1>8, <2>1 DEF Waiting
  <2>8. Cardinality(W \ {1}) = Cardinality(W) - 1
    <3> HIDE DEF W
    <3> QED
      BY <1>1, <2>7, FS_RemoveElement
  <2> HIDE DEF W, W2, Q, Q2
  <2>9. Cardinality(W2) + Cardinality(Q2) = Cardinality(W) + Cardinality(Q)
    BY <1>1, <1>4, <2>6, <2>8
  <2> QED
    BY <2>9 DEF W, W2, Q, Q2
<1>9. CASE ~ (b[p] # <<>> /\ Arb!IsOf(b[p][1], p, v))
  <2>1. Q2 = Q
    BY <1>6, <1>7, <1>9
  <2>2. 1 \notin W
    <3>1. 1 \in 1 .. Len(b[p]) => b[p] # <<>>
      BY <1>2
    <3> QED
      BY <1>9, <3>1 DEF Waiting
  <2>3. W \ {1} = W
    BY <2>2
  <2> QED
    BY <1>4, <2>1, <2>3
<1> QED
  BY <1>8, <1>9

\* Every queue that has requests has lost the one that wins.
Sends(q, wins, q2) ==
  /\ \A e \in Egress : q[e] # <<>> => wins[e] \in 1 .. Len(q[e])
  /\ q2 = [e \in Egress |-> IF q[e] # <<>> THEN RemoveAt(q[e], wins[e]) ELSE <<>>]

\* The egress ports that send a packet of p.
Leaving(q, wins, p, v) == {e \in Egress : q[e] # <<>> /\ Arb!IsOf(q[e][wins[e]], p, v)}

\* Every egress port with requests sends the one that wins: the packets of p that
\* leave are those that no longer wait.
LEMMA SendKeeps ==
  ASSUME IsFiniteSet(Egress), NEW q \in [Egress -> Seq(Arb!Packet)],
         NEW q2 \in [Egress -> Seq(Arb!Packet)], NEW wins,
         Sends(q, wins, q2),
         NEW p \in Ingress, NEW v \in VC
  PROVE  /\ Cardinality(Leaving(q, wins, p, v)) \in Nat
         /\ Cardinality(Queued(q2, p, v)) + Cardinality(Leaving(q, wins, p, v))
              = Cardinality(Queued(q, p, v))
<1> PICK D : D = Leaving(q, wins, p, v)
  OBVIOUS
<1>0. D = {e \in Egress : q[e] # <<>> /\ Arb!IsOf(q[e][wins[e]], p, v)}
  BY DEF Leaving
<1> DEFINE Q == Queued(q, p, v)
           Q2 == Queued(q2, p, v)
           w(e) == <<e, wins[e]>>
           Wins == {w(e) : e \in D}
<1> USE DEF Sends
<1>1. /\ IsFiniteSet(Q) /\ IsFiniteSet(Q2) /\ IsFiniteSet(D)
      /\ Cardinality(Q) \in Nat /\ Cardinality(Q2) \in Nat /\ Cardinality(D) \in Nat
  <2>1. IsFiniteSet(Q) /\ IsFiniteSet(Q2)
    <3>1. PICK b : b = [r \in Ingress |-> <<>>]
      OBVIOUS
    <3>2. b \in [Ingress -> Seq(Arb!Packet)]
      BY <3>1
    <3> QED
      BY <3>2, WaitingFinite
  <2>2. D \in SUBSET Egress
    BY <1>0
  <2> QED
    BY <2>1, <2>2, FS_Subset, FS_CardinalityType
<1>2. Cardinality(Wins) = Cardinality(D)
  <2> DEFINE f == [e \in D |-> w(e)]
  <2>1. f \in [D -> Wins]
    OBVIOUS
  <2>2. \A x, y \in D : f[x] = f[y] => x = y
    OBVIOUS
  <2>3. \A z \in Wins : \E x \in D : f[x] = z
    OBVIOUS
  <2> HIDE DEF f, Wins
  <2>4. PICK S, T : S = D /\ T = Wins
    OBVIOUS
  <2>5. IsFiniteSet(S) /\ Corresponds(f, S, T)
    BY <1>1, <2>1, <2>2, <2>3, <2>4, Zenon DEF Corresponds
  <2>6. Cardinality(T) = Cardinality(S)
    BY <2>5, SameSize, Zenon
  <2> QED
    BY <2>4, <2>6, Zenon
<1>3. Wins \in SUBSET Q
  <2> SUFFICES ASSUME NEW e \in D PROVE w(e) \in Q
    OBVIOUS
  <2>1. /\ e \in Egress /\ wins[e] \in 1 .. Len(q[e]) /\ Arb!IsOf(q[e][wins[e]], p, v)
    BY <1>0
  <2>2. w(e) \in Egress \X Nat /\ w(e)[1] = e /\ w(e)[2] = wins[e]
    BY <2>1
  <2> HIDE DEF w
  <2> QED
    BY <2>1, <2>2 DEF Queued
<1>4. Cardinality(Q \ Wins) = Cardinality(Q) - Cardinality(D)
  <2>1. Q \cap Wins = Wins
    BY <1>3
  <2> HIDE DEF Q, Wins
  <2>2. Cardinality(Q \ Wins) = Cardinality(Q) - Cardinality(Q \cap Wins)
    BY <1>1, FS_Difference, Zenon
  <2>3. Cardinality(Q \cap Wins) = Cardinality(D)
    BY <1>2, <2>1, Zenon
  <2> QED
    BY <2>2, <2>3
\* Where a packet that stays has been.
<1> DEFINE old(e, k) == IF k < wins[e] THEN k ELSE k + 1
<1>5. ASSUME NEW e \in Egress, q[e] # <<>>
      PROVE  /\ Len(q[e]) \in Nat /\ Len(q2[e]) = Len(q[e]) - 1 /\ wins[e] \in 1 .. Len(q[e])
             /\ \A k \in 1 .. Len(q2[e]) :
                  q2[e][k] = q[e][old(e, k)] /\ old(e, k) \in 1 .. Len(q[e]) \ {wins[e]}
  <2>1. PICK s \in Seq(Arb!Packet) : s = q[e]
    OBVIOUS
  <2>2. PICK m \in DOMAIN s : m = wins[e]
    BY <1>5, <2>1
  <2>3. q2[e] = RemoveAt(s, m)
    BY <1>5, <2>1, <2>2
  <2>4. /\ Len(RemoveAt(s, m)) = Len(s) - 1
        /\ \A j \in 1 .. Len(s) - 1 : RemoveAt(s, m)[j] = IF j < m THEN s[j] ELSE s[j + 1]
    BY RemoveAtIs
  <2>5. Len(s) \in Nat /\ m \in 1 .. Len(s)
    OBVIOUS
  <2>6. \A k \in 1 .. Len(s) - 1 :
          (IF k < m THEN k ELSE k + 1) \in 1 .. Len(s) \ {m}
    BY <2>5
  <2>7. \A k \in 1 .. Len(s) - 1 : RemoveAt(s, m)[k] = s[IF k < m THEN k ELSE k + 1]
    BY <2>4
  <2> QED
    BY <2>1, <2>2, <2>3, <2>4, <2>5, <2>6, <2>7, Zenon
<1>6. \A e \in Egress : q[e] = <<>> => q2[e] = <<>>
  OBVIOUS
<1>7. Cardinality(Q \ Wins) = Cardinality(Q2)
  <2> DEFINE f == [u \in Q2 |-> <<u[1], old(u[1], u[2])>>]
  <2>1. ASSUME NEW u \in Q2
        PROVE  /\ u = <<u[1], u[2]>> /\ u[1] \in Egress /\ u[2] \in Nat
               /\ wins[u[1]] \in Nat /\ f[u] \in Q \ Wins
    <3>1. /\ u \in Egress \X Nat /\ u[1] \in Egress /\ u[2] \in Nat /\ u = <<u[1], u[2]>>
          /\ u[2] \in 1 .. Len(q2[u[1]]) /\ Arb!IsOf(q2[u[1]][u[2]], p, v)
      BY DEF Queued
    <3>2. PICK e \in Egress : e = u[1]
      BY <3>1
    <3>3. PICK k \in 1 .. Len(q2[e]) : k = u[2]
      BY <3>1, <3>2
    <3>4. q[e] # <<>>
      <4>1. q[e] = <<>> => Len(q2[e]) = 0
        BY <1>6
      <4> QED
        BY <4>1
    <3>5. PICK i \in 1 .. Len(q[e]) \ {wins[e]} : i = old(e, k) /\ q2[e][k] = q[e][i]
      BY <1>5, <3>4
    <3>6. f[u] = <<e, i>>
      BY <3>2, <3>3, <3>5
    <3>7. <<e, i>> \in Q
      <4>1. i \in Nat /\ Arb!IsOf(q[e][i], p, v)
        BY <1>5, <3>1, <3>2, <3>3, <3>4, <3>5
      <4> QED
        BY <4>1, <3>5 DEF Queued
    <3>8. <<e, i>> \notin Wins
      BY <3>5
    <3>9. wins[e] \in Nat
      BY <1>5, <3>4
    <3> QED
      BY <3>1, <3>2, <3>6, <3>7, <3>8, <3>9
  <2>2. ASSUME NEW x \in Q2, NEW y \in Q2, f[x] = f[y]
        PROVE  x = y
    <3>1. x[1] = y[1] /\ old(x[1], x[2]) = old(y[1], y[2])
      BY <2>2
    <3>2. x[2] \in Nat /\ y[2] \in Nat /\ wins[x[1]] \in Nat
      BY <2>1
    <3>3. x[2] = y[2]
      BY <3>1, <3>2
    <3> QED
      BY <2>1, <3>1, <3>3
  <2>3. ASSUME NEW z \in Q \ Wins PROVE \E u \in Q2 : f[u] = z
    <3>1. /\ z \in Egress \X Nat /\ z[1] \in Egress /\ z = <<z[1], z[2]>>
          /\ z[2] \in 1 .. Len(q[z[1]]) /\ Arb!IsOf(q[z[1]][z[2]], p, v)
      BY DEF Queued
    <3>2. PICK e \in Egress : e = z[1]
      BY <3>1
    <3>3. PICK i \in 1 .. Len(q[e]) : i = z[2]
      BY <3>1, <3>2
    <3>4. q[e] # <<>>
      <4>1. q[e] = <<>> => Len(q[e]) = 0
        OBVIOUS
      <4> QED
        BY <4>1
    <3>5. i # wins[e]
      BY <1>0, <3>1, <3>2, <3>3, <3>4
    <3>6. PICK k \in 1 .. Len(q2[e]) : old(e, k) = i
      <4>1. PICK m \in Nat : m = wins[e]
        BY <1>5, <3>4
      <4>2. /\ Len(q[e]) \in Nat /\ Len(q2[e]) = Len(q[e]) - 1 /\ m \in 1 .. Len(q[e])
        BY <1>5, <3>4, <4>1
      <4>3. CASE i < m
        <5>1. i \in 1 .. Len(q2[e]) /\ old(e, i) = i
          BY <4>1, <4>2, <4>3
        <5> QED
          BY <5>1
      <4>4. CASE ~ (i < m)
        <5>1. i - 1 \in 1 .. Len(q2[e]) /\ old(e, i - 1) = i
          BY <3>5, <4>1, <4>2, <4>4
        <5> QED
          BY <5>1
      <4> QED
        BY <4>3, <4>4
    <3>7. <<e, k>> \in Q2
      <4>1. k \in Nat /\ q2[e][k] = q[e][i]
        BY <1>5, <3>4, <3>6
      <4> QED
        BY <3>1, <3>2, <3>3, <3>6, <4>1 DEF Queued
    <3>8. f[<<e, k>>] = z
      BY <3>1, <3>2, <3>3, <3>6, <3>7
    <3> QED
      BY <3>7, <3>8
  <2>4. f \in [Q2 -> Q \ Wins]
    BY <2>1
  <2> HIDE DEF f, Q, Q2, Wins
  <2>5. PICK T : T = Q \ Wins
    OBVIOUS
  <2>6. f \in [Q2 -> T]
    BY <2>4, <2>5, Zenon
  <2>7. \A z \in T : \E u \in Q2 : f[u] = z
    BY <2>3, <2>5
  <2>8. Corresponds(f, Q2, T)
    BY <2>2, <2>6, <2>7, Zenon DEF Corresponds
  <2>9. Cardinality(T) = Cardinality(Q2)
    BY <1>1, <2>8, SameSize, Zenon
  <2> QED
    BY <2>5, <2>9
<1> HIDE DEF Q, Q2, Wins
<1>8. Cardinality(Q2) + Cardinality(D) = Cardinality(Q)
  BY <1>1, <1>4, <1>7
<1> QED
  BY <1>1, <1>8 DEF Q, Q2

Received(b, packet, b2) == b2 = [b EXCEPT ![packet.port] = Append(@, packet)]

\* A packet that is received waits in its buffer.
LEMMA ReceiveKeeps ==
  ASSUME IsFiniteSet(Egress), NEW b \in [Ingress -> Seq(Arb!Packet)], NEW packet \in Arb!Packet,
         NEW b2, Received(b, packet, b2),
         NEW p \in Ingress, NEW v \in VC
  PROVE  Cardinality(Waiting(b2, p, v))
           = Cardinality(Waiting(b, p, v)) + IF Arb!IsOf(packet, p, v) THEN 1 ELSE 0
<1> DEFINE W == Waiting(b, p, v)
           W2 == Waiting(b2, p, v)
<1>1. IsFiniteSet(W)
  <2>1. PICK q : q = [e \in Egress |-> <<>>]
    OBVIOUS
  <2>2. q \in [Egress -> Seq(Arb!Packet)]
    BY <2>1
  <2> QED
    BY <2>2, WaitingFinite
<1>2. packet.port \in Ingress
  BY DEF Arb!Packet
<1>3. CASE packet.port # p
  <2>1. b2[p] = b[p] /\ ~ Arb!IsOf(packet, p, v)
    BY <1>3 DEF Arb!IsOf, Received
  <2>2. W2 = W
    BY <2>1 DEF Waiting
  <2>3. Cardinality(W) \in Nat
    BY <1>1, FS_CardinalityType
  <2> HIDE DEF W, W2
  <2>4. Cardinality(W2) = Cardinality(W) + IF Arb!IsOf(packet, p, v) THEN 1 ELSE 0
    BY <2>1, <2>2, <2>3
  <2> QED
    BY <2>4 DEF W, W2
<1>4. CASE packet.port = p
  <2>1. PICK s \in Seq(Arb!Packet) : s = b[p]
    OBVIOUS
  <2>2. PICK t : t = b2[p]
    OBVIOUS
  <2>3. t = Append(s, packet)
    BY <1>2, <1>4, <2>1, <2>2 DEF Received
  <2>4. /\ Len(s) \in Nat /\ Len(t) = Len(s) + 1 /\ t[Len(s) + 1] = packet
        /\ \A k \in 1 .. Len(s) : t[k] = s[k]
    BY <2>3
  <2>5. W = {k \in 1 .. Len(s) : Arb!IsOf(s[k], p, v)} /\ W2 = {k \in 1 .. Len(t) : Arb!IsOf(t[k], p, v)}
    BY <2>1, <2>2, Zenon DEF Waiting
  <2> HIDE DEF W, W2
  <2>6. Len(s) + 1 \notin W
    BY <2>4, <2>5
  <2>7. W2 = IF Arb!IsOf(packet, p, v) THEN W \cup {Len(s) + 1} ELSE W
    <3>1. \A k : k \in 1 .. Len(t) <=> k \in 1 .. Len(s) \/ k = Len(s) + 1
      BY <2>4
    <3>2. Len(s) + 1 \notin 1 .. Len(s)
      BY <2>4
    <3>3. ASSUME NEW k PROVE k \in W2 <=> k \in W \/ (k = Len(s) + 1 /\ Arb!IsOf(packet, p, v))
      BY <2>4, <2>5, <3>1, <3>2, Zenon
    <3> QED
      BY <3>3
  <2>8. Cardinality(W) \in Nat /\ Cardinality(W \cup {Len(s) + 1}) = Cardinality(W) + 1
    BY <1>1, <2>6, FS_AddElement, FS_CardinalityType
  <2>9. Cardinality(W2) = Cardinality(W) + IF Arb!IsOf(packet, p, v) THEN 1 ELSE 0
    BY <2>7, <2>8
  <2> QED
    BY <2>9 DEF W, W2
<1> QED
  BY <1>3, <1>4

LEMMA ArbReceive ==
  ASSUME ArbAssumption, ArbInv, NEW packet \in Arb!Packet, Arb!receivePacket(packet)
  PROVE  ArbInv'
<1>inv. /\ vc_credits \in [Ingress -> [VC -> Nat]]
        /\ ingress_buffers \in [Ingress -> Seq(Arb!Packet)]
        /\ arbitration_queues \in [Egress -> Seq(Arb!Packet)]
        /\ Homed(ingress_buffers)
        /\ Accounted(vc_credits, ingress_buffers, arbitration_queues)
  BY DEF ArbInv
<1>1. /\ vc_credits[packet.port][packet.vc] # 0
      /\ vc_credits' = [vc_credits EXCEPT ![packet.port][packet.vc] = @ - 1]
      /\ ingress_buffers' = [ingress_buffers EXCEPT ![packet.port] = Append(@, packet)]
      /\ UNCHANGED arbitration_queues
  BY DEF Arb!receivePacket
<1>2. packet.port \in Ingress /\ packet.vc \in VC
  BY DEF Arb!Packet
<1>3. PICK c \in [Ingress -> [VC -> Nat]], b \in [Ingress -> Seq(Arb!Packet)] :
        c = vc_credits /\ b = ingress_buffers
  BY <1>inv
<1>4. vc_credits' \in [Ingress -> [VC -> Nat]]
  <2>1. PICK d \in [VC -> Nat] : d = c[packet.port]
    BY <1>2
  <2>2. PICK m \in Nat : m = d[packet.vc] - 1
    <3>1. d[packet.vc] \in Nat /\ d[packet.vc] # 0
      BY <1>1, <1>2, <1>3, <2>1
    <3>2. d[packet.vc] - 1 \in Nat
      BY <3>1
    <3> QED
      BY <3>2
  <2>3. [d EXCEPT ![packet.vc] = m] \in [VC -> Nat]
    OBVIOUS
  <2>4. vc_credits' = [c EXCEPT ![packet.port] = [d EXCEPT ![packet.vc] = m]]
    BY <1>1, <1>2, <1>3, <2>1, <2>2
  <2> QED
    BY <2>3, <2>4
<1>5. \A p \in Ingress, v \in VC :
        vc_credits'[p][v] = c[p][v] - IF Arb!IsOf(packet, p, v) THEN 1 ELSE 0
  BY <1>1, <1>2, <1>3 DEF Arb!IsOf
<1>6. /\ ingress_buffers' \in [Ingress -> Seq(Arb!Packet)]
      /\ Homed(ingress_buffers')
  <2>1. PICK b2 : b2 = ingress_buffers'
    OBVIOUS
  <2>2. b2 = [b EXCEPT ![packet.port] = Append(@, packet)]
    BY <1>1, <1>3, <2>1
  <2>3. b2 \in [Ingress -> Seq(Arb!Packet)]
    <3>1. PICK s \in Seq(Arb!Packet) : s = b[packet.port]
      BY <1>2
    <3>2. Append(s, packet) \in Seq(Arb!Packet)
      OBVIOUS
    <3>3. b2 = [b EXCEPT ![packet.port] = Append(s, packet)]
      BY <2>2, <3>1
    <3> QED
      BY <3>2, <3>3
  <2>4. ASSUME NEW p \in Ingress, NEW k \in 1 .. Len(b2[p]) PROVE b2[p][k].port = p
    <3>1. \A l \in 1 .. Len(b[p]) : b[p][l].port = p
      BY <1>inv, <1>3 DEF Homed
    <3>2. CASE p = packet.port
      <4>1. PICK s \in Seq(Arb!Packet) : s = b[p]
        OBVIOUS
      <4>2. b2[p] = Append(s, packet)
        BY <1>2, <2>2, <3>2, <4>1
      <4>3. k \in 1 .. Len(s) \/ k = Len(s) + 1
        BY <4>2
      <4>4. CASE k \in 1 .. Len(s)
        BY <3>1, <4>1, <4>2, <4>4
      <4>5. CASE k = Len(s) + 1
        BY <3>2, <4>2, <4>5
      <4> QED
        BY <4>3, <4>4, <4>5
    <3>3. CASE p # packet.port
      BY <2>2, <3>1, <3>3
    <3> QED
      BY <3>2, <3>3
  <2> QED
    BY <2>1, <2>3, <2>4 DEF Homed
<1>7. Accounted(vc_credits', ingress_buffers', arbitration_queues')
  <2> SUFFICES ASSUME NEW p \in Ingress, NEW v \in VC
               PROVE  vc_credits'[p][v] + Cardinality(Waiting(ingress_buffers', p, v))
                        + Cardinality(Queued(arbitration_queues', p, v)) = Credits
    BY DEF Accounted
  <2>1. PICK b2 : b2 = ingress_buffers'
    OBVIOUS
  <2>2. Cardinality(Waiting(b2, p, v))
          = Cardinality(Waiting(b, p, v)) + IF Arb!IsOf(packet, p, v) THEN 1 ELSE 0
    <3>1. Received(b, packet, b2)
      BY <1>1, <1>3, <2>1 DEF Received
    <3>2. IsFiniteSet(Egress)
      BY ArbAssumption
    <3> QED
      BY <3>1, <3>2, ReceiveKeeps, SMTT(30)
  <2>3. PICK q \in [Egress -> Seq(Arb!Packet)] : q = arbitration_queues /\ q = arbitration_queues'
    BY <1>inv, <1>1
  <2>4. c[p][v] + Cardinality(Waiting(b, p, v)) + Cardinality(Queued(q, p, v)) = Credits
    BY <1>inv, <1>3, <2>3 DEF Accounted
  <2>5. /\ Cardinality(Waiting(b, p, v)) \in Nat /\ Cardinality(Queued(q, p, v)) \in Nat
        /\ c[p][v] \in Nat
    BY WaitingFinite, FS_CardinalityType, ArbAssumption
  <2>6. vc_credits'[p][v] = c[p][v] - IF Arb!IsOf(packet, p, v) THEN 1 ELSE 0
    BY <1>5
  <2>7. vc_credits'[p][v] + Cardinality(Waiting(b2, p, v)) + Cardinality(Queued(q, p, v)) = Credits
    BY <2>2, <2>4, <2>5, <2>6, ArbAssumption
  <2> QED
    BY <2>1, <2>3, <2>7
<1> QED
  BY <1>inv, <1>1, <1>4, <1>6, <1>7 DEF ArbInv

LEMMA ArbJoin ==
  ASSUME ArbAssumption, ArbInv, Arb!processIngressBuffers
  PROVE  ArbInv'
<1>inv. /\ vc_credits \in [Ingress -> [VC -> Nat]]
        /\ ingress_buffers \in [Ingress -> Seq(Arb!Packet)]
        /\ arbitration_queues \in [Egress -> Seq(Arb!Packet)]
        /\ Homed(ingress_buffers)
        /\ Accounted(vc_credits, ingress_buffers, arbitration_queues)
  BY DEF ArbInv
<1>1. PICK b \in [Ingress -> Seq(Arb!Packet)], q \in [Egress -> Seq(Arb!Packet)] :
        b = ingress_buffers /\ q = arbitration_queues
  BY <1>inv
<1>2. PICK b2, q2 : b2 = ingress_buffers' /\ q2 = arbitration_queues'
  BY Zenon
<1> DEFINE P(e) == {p \in Ingress : b[p] # <<>> /\ Head(b[p]).egress = e}
           order == [e \in Egress |-> Arb!PortOrder(P(e))]
           n == [e \in Egress |-> Cardinality(P(e))]
           heads(o) == [k \in DOMAIN o |-> Head(b[o[k]])]
<1>3. /\ b2 = [p \in Ingress |-> IF b[p] = <<>> THEN <<>> ELSE Tail(b[p])]
      /\ q2 = [e \in Egress |-> q[e] \o heads(order[e])]
      /\ UNCHANGED vc_credits
  BY <1>1, <1>2 DEF Arb!processIngressBuffers, Arb!Heading
<1>4. b2 \in [Ingress -> Seq(Arb!Packet)]
  <2>1. \A p \in Ingress : (IF b[p] = <<>> THEN <<>> ELSE Tail(b[p])) \in Seq(Arb!Packet)
    OBVIOUS
  <2> QED
    BY <1>3, <2>1
<1>5. ASSUME NEW e \in Egress
      PROVE  q2[e] \in Seq(Arb!Packet) /\ Joined(b, e, q[e], q2[e], order[e], n[e])
  <2>1. PICK m : m = Cardinality(P(e))
    OBVIOUS
  <2>2. PICK o : o = Arb!PortOrder(P(e))
    OBVIOUS
  <2>3. P(e) \in SUBSET Nat /\ IsFiniteSet(P(e))
    BY ArbAssumption, FS_Subset
  <2>4. /\ m \in Nat /\ o \in [1 .. m -> P(e)]
        /\ \A j, k \in 1 .. m : o[j] = o[k] => j = k
        /\ \A p \in P(e) : \E k \in 1 .. m : o[k] = p
    <3> HIDE DEF P
    <3> QED
      BY <2>1, <2>2, <2>3, PortOrderIs
  <2>5. \A k \in 1 .. m : Head(b[o[k]]) \in Arb!Packet
    <3> SUFFICES ASSUME NEW k \in 1 .. m PROVE Head(b[o[k]]) \in Arb!Packet
      OBVIOUS
    <3>1. o[k] \in Ingress /\ b[o[k]] # <<>>
      BY <2>4
    <3>2. PICK s \in Seq(Arb!Packet) : s = b[o[k]]
      BY <3>1
    <3> QED
      BY <3>1, <3>2
  <2>6. heads(o) = [k \in 1 .. m |-> Head(b[o[k]])]
    BY <2>4
  <2>7. heads(o) \in Seq(Arb!Packet) /\ Len(heads(o)) = m
    BY <2>4, <2>5, <2>6
  <2>8. PICK h \in Seq(Arb!Packet) : h = heads(o) /\ Len(h) = m
    BY <2>7
  <2>9. PICK s \in Seq(Arb!Packet) : s = q[e]
    OBVIOUS
  <2>10. /\ (s \o h) \in Seq(Arb!Packet) /\ Len(s \o h) = Len(s) + m
         /\ \A i \in 1 .. Len(s) + m : (s \o h)[i] = IF i <= Len(s) THEN s[i] ELSE h[i - Len(s)]
    BY <2>8, ConcatProperties, SMTT(30)
  <2>11. q2[e] = s \o h
    BY <1>3, <2>2, <2>8, <2>9
  <2>12. Len(s) \in Nat
    OBVIOUS
  <2>13. \A k \in 1 .. Len(s) : (s \o h)[k] = s[k]
    BY <2>4, <2>10, <2>12
  <2>14. \A j \in 1 .. m : (s \o h)[Len(s) + j] = Head(b[o[j]])
    <3> SUFFICES ASSUME NEW j \in 1 .. m PROVE (s \o h)[Len(s) + j] = Head(b[o[j]])
      OBVIOUS
    <3>1. Len(s) + j \in 1 .. Len(s) + m /\ ~ (Len(s) + j <= Len(s)) /\ (Len(s) + j) - Len(s) = j
      BY <2>4, <2>12
    <3>2. (s \o h)[Len(s) + j] = h[j]
      BY <2>10, <3>1
    <3> QED
      BY <2>6, <2>8, <3>2
  <2>15. order[e] = o /\ n[e] = m
    BY <2>1, <2>2
  <2> HIDE DEF order, n, heads
  <2>16. Joined(b, e, s, s \o h, o, m)
    BY <2>4, <2>10, <2>13, <2>14, Zenon DEF Joined
  <2> QED
    BY <2>9, <2>10, <2>11, <2>15, <2>16
<1>6. q2 \in [Egress -> Seq(Arb!Packet)]
  BY <1>3, <1>5
<1> HIDE DEF order, n, heads
<1>7. ASSUME NEW p \in Ingress, NEW v \in VC
      PROVE  Cardinality(Waiting(b2, p, v)) + Cardinality(Queued(q2, p, v))
               = Cardinality(Waiting(b, p, v)) + Cardinality(Queued(q, p, v))
  <2>1. Homed(b)
    BY <1>inv, <1>1
  <2> QED
    <3>1. /\ Drained(b, b2) /\ IsFiniteSet(Egress)
          /\ AllJoin(b, q, q2, order, n)
      BY <1>3, <1>5, ArbAssumption DEF Drained, AllJoin
    <3>2. PICK o, m : o = order /\ m = n
      OBVIOUS
    <3>3. Joining(b, q, b2, q2, o, m)
      BY <1>4, <1>6, <2>1, <3>1, <3>2, Zenon DEF Joining
    <3>4. AsMany(b, q, b2, q2)
      BY <3>3, JoinKeeps, Zenon
    <3> QED
      BY <3>4 DEF AsMany
<1>8. Accounted(vc_credits', b2, q2)
  <2> SUFFICES ASSUME NEW p \in Ingress, NEW v \in VC
               PROVE  vc_credits'[p][v] + Cardinality(Waiting(b2, p, v))
                        + Cardinality(Queued(q2, p, v)) = Credits
    BY DEF Accounted
  <2>1. PICK c \in [Ingress -> [VC -> Nat]] : c = vc_credits /\ c = vc_credits'
    BY <1>inv, <1>3
  <2>2. c[p][v] + Cardinality(Waiting(b, p, v)) + Cardinality(Queued(q, p, v)) = Credits
    BY <1>inv, <1>1, <2>1 DEF Accounted
  <2>3. /\ Cardinality(Waiting(b, p, v)) \in Nat /\ Cardinality(Queued(q, p, v)) \in Nat
        /\ Cardinality(Waiting(b2, p, v)) \in Nat /\ Cardinality(Queued(q2, p, v)) \in Nat
        /\ c[p][v] \in Nat
    BY <1>4, <1>6, WaitingFinite, FS_CardinalityType, ArbAssumption
  <2>4. Cardinality(Waiting(b2, p, v)) + Cardinality(Queued(q2, p, v))
          = Cardinality(Waiting(b, p, v)) + Cardinality(Queued(q, p, v))
    BY <1>7
  <2>5. c[p][v] + Cardinality(Waiting(b2, p, v)) + Cardinality(Queued(q2, p, v)) = Credits
    <3>1. PICK i, j, k, l, m \in Nat :
            /\ i = c[p][v]
            /\ j = Cardinality(Waiting(b, p, v)) /\ k = Cardinality(Queued(q, p, v))
            /\ l = Cardinality(Waiting(b2, p, v)) /\ m = Cardinality(Queued(q2, p, v))
      BY <2>3, Zenon
    <3>2. i + j + k = Credits /\ l + m = j + k
      BY <2>2, <2>4, <3>1, Zenon
    <3>3. i + l + m = Credits
      BY <3>2, ArbAssumption
    <3> QED
      BY <3>1, <3>3, Zenon
  <2> QED
    BY <2>1, <2>5
<1>9. Homed(b2)
  <2>1. Drained(b, b2) /\ Homed(b)
    BY <1>inv, <1>1, <1>3 DEF Drained
  <2> SUFFICES ASSUME NEW p \in Ingress, NEW k \in 1 .. Len(b2[p]) PROVE b2[p][k].port = p
    BY DEF Homed
  <2>2. k + 1 \in 1 .. Len(b[p]) /\ b2[p][k] = b[p][k + 1]
    BY <1>4, <2>1, DrainedIs
  <2> QED
    BY <2>1, <2>2 DEF Homed
<1>10. vc_credits' \in [Ingress -> [VC -> Nat]]
  BY <1>inv, <1>3
<1> QED
  BY <1>2, <1>4, <1>6, <1>8, <1>9, <1>10, Zenon DEF ArbInv

LEMMA ArbSend ==
  ASSUME ArbAssumption, ArbInv, Arb!arbitrateEgressPorts
  PROVE  ArbInv'
<1>inv. /\ vc_credits \in [Ingress -> [VC -> Nat]]
        /\ ingress_buffers \in [Ingress -> Seq(Arb!Packet)]
        /\ arbitration_queues \in [Egress -> Seq(Arb!Packet)]
        /\ Homed(ingress_buffers)
        /\ Accounted(vc_credits, ingress_buffers, arbitration_queues)
  BY DEF ArbInv
<1>1. PICK b \in [Ingress -> Seq(Arb!Packet)], q \in [Egress -> Seq(Arb!Packet)],
           c \in [Ingress -> [VC -> Nat]] :
        b = ingress_buffers /\ q = arbitration_queues /\ c = vc_credits
  BY <1>inv
<1>2. PICK wins : wins = [e \in Egress |-> Arb!Winner(e)]
  OBVIOUS
<1> DEFINE winners == [e \in Arb!Served |-> arbitration_queues[e][Arb!Winner(e)]]
           D(p, v) == Leaving(q, wins, p, v)
<1>3. \A e \in Egress : q[e] # <<>> => wins[e] \in 1 .. Len(q[e])
  BY <1>1, <1>2, WinnerIs, ArbAssumption
<1>4. arbitration_queues' = [e \in Egress |-> IF q[e] # <<>> THEN RemoveAt(q[e], wins[e]) ELSE <<>>]
  BY <1>1, <1>2, ArbLibrary DEF Arb!arbitrateEgressPorts, Arb!Served
<1>5. PICK q2 : q2 = arbitration_queues'
  OBVIOUS
<1>6. Sends(q, wins, q2)
  BY <1>3, <1>4, <1>5 DEF Sends
<1>7. q2 \in [Egress -> Seq(Arb!Packet)]
  <2>1. ASSUME NEW e \in Egress
        PROVE  (IF q[e] # <<>> THEN RemoveAt(q[e], wins[e]) ELSE <<>>) \in Seq(Arb!Packet)
    <3>1. CASE q[e] # <<>>
      <4>1. wins[e] \in DOMAIN q[e] /\ q[e] \in Seq(Arb!Packet)
        BY <1>3, <3>1
      <4>2. RemoveAt(q[e], wins[e]) \in Seq(Arb!Packet)
        BY <4>1, RemoveAtIs
      <4> QED
        BY <3>1, <4>2
    <3>2. CASE q[e] = <<>>
      BY <3>2
    <3> QED
      BY <3>1, <3>2
  <2> QED
    BY <1>4, <1>5, <2>1
<1>8. \A p \in Ingress, v \in VC : D(p, v) = {e \in DOMAIN winners : Arb!IsOf(winners[e], p, v)}
  BY <1>1, <1>2 DEF Arb!Served, Leaving
<1>9. \A p \in Ingress, v \in VC :
        vc_credits'[p][v] = Arb!Min({Credits, c[p][v] + Cardinality(D(p, v))})
  <2>1. vc_credits' = Arb!Restored(winners)
    BY DEF Arb!arbitrateEgressPorts
  <2> HIDE DEF winners, D
  <2> QED
    BY <1>1, <1>8, <2>1, ArbLibrary DEF Arb!Restored
<1>10. vc_credits' = [p \in Ingress |-> [v \in VC |-> vc_credits'[p][v]]]
  BY DEF Arb!arbitrateEgressPorts, Arb!Restored
<1> HIDE DEF winners
\* The credits that come back are credits that were taken.
<1>11. ASSUME NEW p \in Ingress, NEW v \in VC
       PROVE  /\ vc_credits'[p][v] \in Nat
              /\ vc_credits'[p][v] + Cardinality(Waiting(b, p, v)) + Cardinality(Queued(q2, p, v))
                   = Credits
  <2>1. PICK d : d = D(p, v)
    OBVIOUS
  <2>3. /\ Cardinality(d) \in Nat
        /\ Cardinality(Queued(q2, p, v)) + Cardinality(d) = Cardinality(Queued(q, p, v))
    <3>1. IsFiniteSet(Egress)
      BY ArbAssumption
    <3> HIDE DEF D
    <3>2. /\ Cardinality(Leaving(q, wins, p, v)) \in Nat
          /\ Cardinality(Queued(q2, p, v)) + Cardinality(Leaving(q, wins, p, v))
               = Cardinality(Queued(q, p, v))
      BY <1>6, <1>7, <3>1, SendKeeps, Zenon
    <3>3. d = Leaving(q, wins, p, v)
      BY <2>1 DEF D
    <3> QED
      BY <3>2, <3>3, Zenon
  <2>4. c[p][v] + Cardinality(Waiting(b, p, v)) + Cardinality(Queued(q, p, v)) = Credits
    BY <1>inv, <1>1 DEF Accounted
  <2>5. /\ Cardinality(Waiting(b, p, v)) \in Nat /\ Cardinality(Queued(q, p, v)) \in Nat
        /\ Cardinality(Queued(q2, p, v)) \in Nat /\ c[p][v] \in Nat /\ Credits \in Nat
    BY <1>7, WaitingFinite, FS_CardinalityType, ArbAssumption
  <2>6. PICK i, j, k, l, m \in Nat :
          /\ i = c[p][v]
          /\ j = Cardinality(Waiting(b, p, v)) /\ k = Cardinality(Queued(q, p, v))
          /\ l = Cardinality(d) /\ m = Cardinality(Queued(q2, p, v))
    BY <2>3, <2>5, Zenon
  <2>7. i + j + k = Credits /\ m + l = k
    BY <2>3, <2>4, <2>6, Zenon
  <2>8. i + l \in Nat /\ i + l <= Credits /\ (i + l) + j + m = Credits
    BY <2>5, <2>7
  <2>9. Arb!Min({Credits, i + l}) = i + l
    <3>1. \A x \in {Credits, i + l} : (\A y \in {Credits, i + l} : x <= y) <=> x = i + l
      BY <2>5, <2>8
    <3> QED
      BY <3>1 DEF Arb!Min
  <2>10. vc_credits'[p][v] = i + l
    BY <1>9, <2>1, <2>6, <2>9
  <2> QED
    BY <2>6, <2>8, <2>10
<1>12. vc_credits' \in [Ingress -> [VC -> Nat]]
  <2>1. \A p \in Ingress : [v \in VC |-> vc_credits'[p][v]] \in [VC -> Nat]
    BY <1>11
  <2> QED
    BY <1>10, <2>1
<1>13. ingress_buffers' = b
  BY <1>1 DEF Arb!arbitrateEgressPorts
<1>14. Accounted(vc_credits', ingress_buffers', arbitration_queues')
  BY <1>5, <1>11, <1>13 DEF Accounted
<1> QED
  BY <1>inv, <1>1, <1>5, <1>7, <1>12, <1>13, <1>14 DEF ArbInv

\* What the invariant says, in the words of the module.
LEMMA ArbAccounts ==
  ASSUME ArbInv
  PROVE  Arb!CreditsAccounted
<1>inv. /\ ingress_buffers \in [Ingress -> Seq(Arb!Packet)]
        /\ arbitration_queues \in [Egress -> Seq(Arb!Packet)]
        /\ Accounted(vc_credits, ingress_buffers, arbitration_queues)
  BY DEF ArbInv
<1> SUFFICES ASSUME NEW p \in Ingress, NEW v \in VC
             PROVE  vc_credits[p][v]
                      + Arb!Cardinality({k \in DOMAIN ingress_buffers[p] :
                                           Arb!IsOf(ingress_buffers[p][k], p, v)})
                      + Arb!Cardinality({w \in Arb!Places :
                                           Arb!IsOf(arbitration_queues[w[1]][w[2]], p, v)})
                    = Credits
  BY DEF Arb!CreditsAccounted
<1>1. {k \in DOMAIN ingress_buffers[p] : Arb!IsOf(ingress_buffers[p][k], p, v)}
        = Waiting(ingress_buffers, p, v)
  <2>1. DOMAIN ingress_buffers[p] = 1 .. Len(ingress_buffers[p])
    BY <1>inv
  <2> QED
    BY <2>1 DEF Waiting
<1>2. {w \in Arb!Places : Arb!IsOf(arbitration_queues[w[1]][w[2]], p, v)}
        = Queued(arbitration_queues, p, v)
  <2>1. \A e \in Egress : DOMAIN arbitration_queues[e] = 1 .. Len(arbitration_queues[e])
    BY <1>inv
  <2>2. ASSUME NEW w
        PROVE  w \in Arb!Places <=> w \in Egress \X Nat /\ w[2] \in 1 .. Len(arbitration_queues[w[1]])
    <3>1. w \in Arb!Places <=> \E e \in Egress : w \in {e} \X (1 .. Len(arbitration_queues[e]))
      BY <2>1 DEF Arb!Places
    <3>2. \A e \in Egress : w \in {e} \X (1 .. Len(arbitration_queues[e])) =>
            w \in Egress \X Nat /\ w[1] = e /\ w[2] \in 1 .. Len(arbitration_queues[w[1]])
      OBVIOUS
    <3>3. w \in Egress \X Nat /\ w[2] \in 1 .. Len(arbitration_queues[w[1]]) =>
            w[1] \in Egress /\ w \in {w[1]} \X (1 .. Len(arbitration_queues[w[1]]))
      OBVIOUS
    <3> QED
      BY <3>1, <3>2, <3>3
  <2> QED
    BY <2>2 DEF Queued
<1> QED
  BY <1>inv, <1>1, <1>2, ArbLibrary DEF Accounted

LEMMA ArbStarts ==
  ASSUME ArbAssumption, Arb!Init
  PROVE  ArbInv
<1>1. /\ vc_credits = [p \in Ingress |-> [v \in VC |-> Credits]]
      /\ ingress_buffers = [p \in Ingress |-> <<>>]
      /\ arbitration_queues = [e \in Egress |-> <<>>]
  BY DEF Arb!Init
<1>2. /\ vc_credits \in [Ingress -> [VC -> Nat]]
      /\ ingress_buffers \in [Ingress -> Seq(Arb!Packet)]
      /\ arbitration_queues \in [Egress -> Seq(Arb!Packet)]
  BY <1>1, ArbAssumption
<1>3. \A p \in Ingress, v \in VC :
        Waiting(ingress_buffers, p, v) = {} /\ Queued(arbitration_queues, p, v) = {}
  BY <1>1 DEF Waiting, Queued
<1>4. Homed(ingress_buffers)
  BY <1>1 DEF Homed
<1>5. Accounted(vc_credits, ingress_buffers, arbitration_queues)
  <2>1. Cardinality({}) = 0
    BY FS_EmptySet
  <2> SUFFICES ASSUME NEW p \in Ingress, NEW v \in VC
               PROVE  vc_credits[p][v] + Cardinality(Waiting(ingress_buffers, p, v))
                        + Cardinality(Queued(arbitration_queues, p, v)) = Credits
    BY DEF Accounted
  <2>2. vc_credits[p][v] = Credits
    BY <1>1
  <2> QED
    BY <1>3, <2>1, <2>2, ArbAssumption
<1> QED
  BY <1>2, <1>4, <1>5 DEF ArbInv

\* pcie_arb.cpp: for every number of ports, channels and credits, and whatever the
\* priorities and routes, every credit that is not free belongs to one waiting
\* packet: none leaks and none is invented.
THEOREM ArbKeepsCredits == Spec => []CreditsAccounted
<1> DEFINE Inv == unit = "pcie_arb" => ArbInv
<1>1. Init => Inv
  BY ArbStarts, ArbAssumption DEF Init
<1>2. Inv /\ [Next]_vars => Inv'
  <2> SUFFICES ASSUME Inv, [Next]_vars, unit' = "pcie_arb" PROVE ArbInv'
    OBVIOUS
  <2>1. CASE Next
    <3>1. unit = "pcie_arb" /\ Arb!Next
      BY <2>1 DEF Next, OnlyArb, OnlyScan, OnlyQos, OnlyTower, OnlyNodes, OnlyBank
    <3>2. CASE Arb!processIngressBuffers
      BY <3>1, <3>2, ArbJoin, ArbAssumption
    <3>3. CASE Arb!arbitrateEgressPorts
      BY <3>1, <3>3, ArbSend, ArbAssumption
    <3>4. CASE \E packet \in Arb!Packet : Arb!receivePacket(packet)
      BY <3>1, <3>4, ArbReceive, ArbAssumption
    <3> QED
      BY <3>1, <3>2, <3>3, <3>4 DEF Arb!Next, Arb!arbitrationCycle
  <2>2. CASE UNCHANGED vars
    <3>1. UNCHANGED <<vc_credits, ingress_buffers, arbitration_queues, unit>>
      BY <2>2 DEF vars, arbVars
    <3> QED
      BY <3>1 DEF ArbInv
  <2> QED
    BY <2>1, <2>2
<1>3. Inv => CreditsAccounted
  BY ArbAccounts DEF CreditsAccounted
<1> QED
  BY <1>1, <1>2, <1>3, PTL DEF Spec

-----------------------------------------------------------------------------
(* The two banks.  cells names, for each list, the places of its cells     *)
(* that have not been read, in their order: the chain that the code keeps  *)
(* in the slices.  One place is never named twice, so every link leads on  *)
(* in its own list, and a slice is free exactly when no list names it.     *)
(* A cycle reads, and may cut off the first cell of some lists, and then   *)
(* writes, and may add a cell to one list: each half keeps this.           *)

\* The operators that the module of the banks uses are those that the lemmas speak of.
LEMMA BankLibrary ==
  /\ \A S : Banks!Cardinality(S) = Cardinality(S)
  /\ \A s : Banks!ToSet(s) = ToSet(s)
<1>1. \A S : Banks!Cardinality(S) = Cardinality(S)
  BY DEF Banks!Cardinality, Cardinality
<1>2. \A s : Banks!ToSet(s) = ToSet(s)
  BY DEF Banks!ToSet, ToSet
<1> QED
  BY <1>1, <1>2

\* Kept by its recursion.
LEMMA KeptUnfolds ==
  ASSUME NEW E, NEW s \in Seq(E), NEW S
  PROVE  \E f \in [0 .. Len(s) -> Seq(E)] :
           /\ Banks!Kept(s, S) = f[Len(s)]
           /\ f[0] = << >>
           /\ \A k \in 1 .. Len(s) :
                f[k] = IF s[k] \in S THEN Append(f[k - 1], s[k]) ELSE f[k - 1]
<1> DEFINE n == Len(s)
           step == [x \in (1 .. n) \X Seq(E) |-> IF s[x[1]] \in S THEN Append(x[2], s[x[1]]) ELSE x[2]]
           Kf(f) == f = [k \in 0 .. Len(s) |->
                           IF k = 0 THEN << >>
                           ELSE IF s[k] \in S THEN Append(f[k - 1], s[k]) ELSE f[k - 1]]
<1>1. n \in Nat /\ \A k \in 1 .. n : s[k] \in E
  OBVIOUS
<1>2. step \in [(1 .. n) \X Seq(E) -> Seq(E)]
  <2> SUFFICES ASSUME NEW x \in (1 .. n) \X Seq(E)
               PROVE  (IF s[x[1]] \in S THEN Append(x[2], s[x[1]]) ELSE x[2]) \in Seq(E)
    OBVIOUS
  <2>1. x[1] \in 1 .. n /\ x[2] \in Seq(E) /\ s[x[1]] \in E
    BY <1>1
  <2>2. Append(x[2], s[x[1]]) \in Seq(E)
    BY <2>1
  <2> QED
    BY <2>1, <2>2
<1>3. \A k \in 1 .. n, r \in Seq(E) : step[<<k, r>>] = IF s[k] \in S THEN Append(r, s[k]) ELSE r
  <2> HIDE DEF n
  <2> QED
    OBVIOUS
<1>4. PICK f \in [0 .. n -> Seq(E)] : f[0] = << >> /\ \A k \in 1 .. n : f[k] = step[<<k, f[k - 1]>>]
  <2> HIDE DEF step, n
  <2>1. << >> \in Seq(E)
    OBVIOUS
  <2> QED
    <3>1. PICK f : Steps(f, n, Seq(E), << >>, step)
      BY <1>1, <1>2, <2>1, RecursionExists
    <3> QED
      BY <3>1 DEF Steps
<1>5. \A k \in 1 .. n : f[k] = IF s[k] \in S THEN Append(f[k - 1], s[k]) ELSE f[k - 1]
  <2> SUFFICES ASSUME NEW k \in 1 .. n
               PROVE  f[k] = IF s[k] \in S THEN Append(f[k - 1], s[k]) ELSE f[k - 1]
    OBVIOUS
  <2> HIDE DEF step, n
  <2>1. f[k - 1] \in Seq(E)
    BY <1>1
  <2> QED
    BY <1>3, <1>4, <2>1
<1>6. Kf(f)
  <2>1. f = [k \in 0 .. n |-> f[k]]
    <3> HIDE DEF n, step
    <3> QED
      OBVIOUS
  <2>2. \A k \in 0 .. n : f[k] = IF k = 0 THEN << >>
                                 ELSE IF s[k] \in S THEN Append(f[k - 1], s[k]) ELSE f[k - 1]
    <3> SUFFICES ASSUME NEW k \in 0 .. n
                 PROVE f[k] = IF k = 0 THEN << >>
                                 ELSE IF s[k] \in S THEN Append(f[k - 1], s[k]) ELSE f[k - 1]
      OBVIOUS
    <3>1. k # 0 => k \in 1 .. n
      BY <1>1
    <3> HIDE DEF n, step
    <3> QED
      BY <1>4, <1>5, <3>1
  <2> HIDE DEF step
  <2> QED
    BY <2>1, <2>2
<1> DEFINE g == CHOOSE ff : Kf(ff)
<1>7. Kf(g)
  <2> HIDE DEF Kf
  <2> QED
    BY <1>6
<1>8. Banks!Kept(s, S) = g[n]
  BY DEF Banks!Kept
<1> HIDE DEF g, step
<1>9. g[0] = << >> /\ \A k \in 1 .. n :
        g[k] = IF s[k] \in S THEN Append(g[k - 1], s[k]) ELSE g[k - 1]
  <2> SUFFICES ASSUME NEW h, Kf(h)
               PROVE  h[0] = << >> /\ \A k \in 1 .. n :
                        h[k] = IF s[k] \in S THEN Append(h[k - 1], s[k]) ELSE h[k - 1]
    BY <1>7
  <2>1. \A k \in 0 .. n : h[k] = IF k = 0 THEN << >>
                                 ELSE IF s[k] \in S THEN Append(h[k - 1], s[k]) ELSE h[k - 1]
    OBVIOUS
  <2>2. 0 \in 0 .. n /\ \A k \in 1 .. n : k \in 0 .. n /\ k # 0
    BY <1>1
  <2> HIDE DEF Kf, n
  <2> QED
    BY <2>1, <2>2
<1> HIDE DEF Kf, n
<1>10. \A k \in 0 .. n : f[k] = g[k]
  <2>1. Alike(f, g, n)
    BY <1>4, <1>5, <1>9 DEF Alike
  <2> QED
    BY <1>1, <2>1, RecursionUnique
<1>11. Banks!Kept(s, S) = f[n]
  BY <1>1, <1>8, <1>10
<1> USE DEF n
<1> QED
  BY <1>4, <1>5, <1>11

\* What Kept returns: the members of S that are in s.
LEMMA KeptIs ==
  ASSUME NEW E, NEW s \in Seq(E), NEW S
  PROVE  /\ Banks!Kept(s, S) \in Seq(E)
         /\ ToSet(Banks!Kept(s, S)) = ToSet(s) \cap S
         /\ Len(Banks!Kept(s, S)) <= Len(s)
<1> DEFINE n == Len(s)
           Seen(k) == {s[j] : j \in 1 .. k}
<1>1. n \in Nat /\ DOMAIN s = 1 .. n /\ \A k \in 1 .. n : s[k] \in E
  OBVIOUS
<1>2. PICK f \in [0 .. n -> Seq(E)] :
         /\ Banks!Kept(s, S) = f[n]
         /\ f[0] = << >>
         /\ \A k \in 1 .. n : f[k] = IF s[k] \in S THEN Append(f[k - 1], s[k]) ELSE f[k - 1]
  BY KeptUnfolds
<1> DEFINE Right(k) == ToSet(f[k]) = Seen(k) \cap S /\ Len(f[k]) <= k
           Bad == {k \in 0 .. n : ~ Right(k)}
<1>3. Bad = {}
  <2> SUFFICES ASSUME Bad # {}  PROVE FALSE
    OBVIOUS
  <2>1. PICK k \in Bad : \A j \in Bad : k <= j
    <3>1. Bad \in SUBSET Nat
      <4> HIDE DEF n, Right
      <4> QED
        BY <1>1
    <3> HIDE DEF Bad
    <3> QED
      BY <3>1, LeastNat
  <2>2. k \in 0 .. n /\ ~ Right(k)
    BY <2>1
  <2>3. CASE k = 0
    <3>1. ToSet(<< >>) = {} /\ Len(<< >>) = 0
      BY DEF ToSet
    <3>2. Seen(0) = {}
      OBVIOUS
    <3>3. Right(0)
      <4> HIDE DEF Seen
      <4> QED
        BY <1>2, <3>1, <3>2
    <3> HIDE DEF Right
    <3> QED
      BY <2>2, <2>3, <3>3
  <2>4. CASE k # 0
    <3>1. k \in 1 .. n /\ k - 1 \in 0 .. n /\ k \in Nat /\ ~ (k <= k - 1)
      BY <1>1, <2>2, <2>4
    <3>2. Right(k - 1)
      <4>1. k - 1 \notin Bad
        <5> HIDE DEF Bad
        <5> QED
          BY <2>1, <3>1
      <4> HIDE DEF Right
      <4> QED
        BY <3>1, <4>1
    <3>3. Seen(k) = Seen(k - 1) \cup {s[k]}
      BY <3>1
    <3>4. s[k] \in E /\ f[k - 1] \in Seq(E) /\ Len(f[k - 1]) \in Nat
      <4>1. f[k - 1] \in Seq(E)
        <5> HIDE DEF n
        <5> QED
          BY <3>1
      <4> QED
        BY <1>1, <3>1, <4>1
    <3> HIDE DEF Seen
    <3>6. CASE s[k] \in S
      <4>1. f[k] = Append(f[k - 1], s[k])
        BY <1>2, <3>1, <3>6
      <4>2. ToSet(f[k]) = ToSet(f[k - 1]) \cup {s[k]} /\ Len(f[k]) = Len(f[k - 1]) + 1
        <5> HIDE DEF n
        <5> QED
          BY <3>4, <4>1, ToSetAppend
      <4>3. ToSet(f[k]) = Seen(k) \cap S
        BY <3>2, <3>3, <3>6, <4>2
      <4>4. Len(f[k]) <= k
        BY <3>1, <3>2, <3>4, <4>2
      <4> HIDE DEF n
      <4> QED
        BY <2>2, <4>3, <4>4
    <3>7. CASE s[k] \notin S
      <4>1. f[k] = f[k - 1]
        BY <1>2, <3>1, <3>7
      <4>2. ToSet(f[k]) = Seen(k) \cap S
        BY <3>2, <3>3, <3>7, <4>1
      <4>3. Len(f[k]) <= k
        BY <3>1, <3>2, <3>4, <4>1
      <4> HIDE DEF n
      <4> QED
        BY <2>2, <4>2, <4>3
    <3> QED
      BY <3>6, <3>7
  <2> QED
    BY <2>3, <2>4
<1>4. Right(n)
  <2> HIDE DEF Right, n
  <2> QED
    BY <1>1, <1>3
<1>5. Seen(n) = ToSet(s)
  BY <1>1 DEF ToSet
<1>6. Banks!Kept(s, S) \in Seq(E)
  <2> HIDE DEF n
  <2> QED
    BY <1>1, <1>2
<1> HIDE DEF Seen
<1> QED
  BY <1>2, <1>4, <1>5, <1>6

InfoRecord == [place : Banks!Places \cup {Banks!NoPlace}, counter : 0 .. Delay, delay : 0 .. LinkNum]
SliceRecord == [queue_id : Lists \cup {Banks!NoList}, next : Banks!Places \cup {Banks!NoPlace}]

\* The place of the first cell of a list.
First(s) == IF s = << >> THEN Banks!NoPlace ELSE s[1]

\* cells[q] are the places of the cells of list q that are left, in their order:
\* no place is in two of them, the slices are chained in this order, name their
\* list, and are all the slices that are not free.
Chains(cells, map, vec) ==
  /\ cells \in [Lists -> Seq(Banks!Places)] /\ map \in [Lists -> InfoRecord]
  /\ vec \in [Banks!Places -> SliceRecord]
  /\ \A q \in Lists : Len(cells[q]) <= WriteSlices /\ map[q].place = First(cells[q])
  /\ \A q, r \in Lists : \A i \in 1 .. Len(cells[q]), j \in 1 .. Len(cells[r]) :
       cells[q][i] = cells[r][j] => q = r /\ i = j
  /\ \A q \in Lists : \A i \in 1 .. Len(cells[q]) :
       /\ vec[cells[q][i]].queue_id = q
       /\ vec[cells[q][i]].next = IF i = Len(cells[q]) THEN Banks!NoPlace ELSE cells[q][i + 1]
  /\ \A p \in Banks!Places :
       vec[p] = Banks!Free \/ \E q \in Lists : \E i \in 1 .. Len(cells[q]) : cells[q][i] = p

\* Each bank knows its free slices.
FreeIn(b, vec) == {j \in Banks!Slices : vec[<<b, j>>] = Banks!Free}
Counted(vec, deep) ==
  /\ deep \in [Banks!Banks -> 0 .. SliceNum]
  /\ \A b \in Banks!Banks : deep[b] = Cardinality(FreeIn(b, vec))

\* A list is written, waiting or read.
Queues(heads, que) ==
  /\ heads \in Seq(Lists) /\ que \in Seq(Lists) /\ encode_que \in Seq(Lists)
  /\ IsInjective(que) /\ IsInjective(encode_que) /\ Len(heads) <= LinkNum
  /\ ToSet(heads) \cap ToSet(que) = {}
  /\ ToSet(encode_que) \cap (ToSet(heads) \cup ToSet(que)) = {}

\* Lists that wait are complete, lists that are read have cells left, and other
\* lists than the one that is written have none.
Filled(cells, heads, que) ==
  /\ \A q \in ToSet(que) : Len(cells[q]) = WriteSlices
  /\ \A q \in ToSet(heads) : cells[q] # << >>
  /\ \A i \in 2 .. Len(encode_que) : cells[encode_que[i]] = << >>
  /\ \A q \in Lists : q \notin ToSet(encode_que) \cup ToSet(que) \cup ToSet(heads) => cells[q] = << >>

\* The cells written so far, and the last of them.
Writing(cells) ==
  /\ written \in 0 .. WriteSlices - 1
  /\ IF encode_que = << >> THEN written = 0 /\ last = Banks!NoPlace
     ELSE /\ Len(cells[Head(encode_que)]) = written
          /\ last = IF written = 0 THEN Banks!NoPlace ELSE cells[Head(encode_que)][written]

Sound(cells, heads, que, map, vec, deep) ==
  /\ Chains(cells, map, vec) /\ Counted(vec, deep)
  /\ Queues(heads, que) /\ Filled(cells, heads, que) /\ Writing(cells)

BankInv == \E cells : Sound(cells, decode_que_head, decode_que, queue_map, encode_vec, bank_deep_vec)

\* A bank with a free slice.
LEMMA SliceFree ==
  ASSUME BankAssumption, NEW vec, NEW deep, Counted(vec, deep), NEW b \in Banks!Banks
  PROVE  deep[b] > 0 <=> FreeIn(b, vec) # {}
<1>1. IsFiniteSet(Banks!Slices) /\ Cardinality(Banks!Slices) = SliceNum
  <2>1. 0 \in Int /\ SliceNum - 1 \in Int
    BY DEF BankAssumption
  <2>2. IsFiniteSet(0 .. SliceNum - 1) /\ Cardinality(0 .. SliceNum - 1) = SliceNum
    BY <2>1, FS_Interval DEF BankAssumption
  <2> QED
    BY <2>2 DEF Banks!Slices
<1>2. IsFiniteSet(FreeIn(b, vec))
  BY <1>1, FS_Subset DEF FreeIn
<1>3. Cardinality(FreeIn(b, vec)) = 0 <=> FreeIn(b, vec) = {}
  BY <1>2, FS_EmptySet
<1>4. deep[b] = Cardinality(FreeIn(b, vec)) /\ deep[b] \in Nat
  BY DEF Counted, BankAssumption
<1> QED
  BY <1>3, <1>4

\* NoPlace is no place, NoList no list.
LEMMA NotThere ==
  ASSUME BankAssumption
  PROVE  /\ Banks!NoPlace \notin Banks!Places /\ Banks!NoList \notin Lists
         /\ \A p \in Banks!Places :
              p[1] \in Banks!Banks /\ p[2] \in Banks!Slices /\ p = <<p[1], p[2]>>
<1>1. Banks!NoPlace \notin Banks!Places
  BY DEF Banks!NoPlace, Banks!Places, Banks!Banks, Banks!Slices
<1>2. Banks!NoList \notin Lists
  BY DEF Banks!NoList, BankAssumption
<1>3. \A p \in Banks!Places : p[1] \in Banks!Banks /\ p[2] \in Banks!Slices /\ p = <<p[1], p[2]>>
  BY DEF Banks!Places
<1> QED
  BY <1>1, <1>2, <1>3

\* The lists that begin to be read leave the queue and join the others.
LEMMA BeginReading ==
  ASSUME BankAssumption, NEW cells, Queues(decode_que_head, decode_que),
         Filled(cells, decode_que_head, decode_que)
  PROVE  /\ Queues(Banks!Heads, Banks!Waiting) /\ Filled(cells, Banks!Heads, Banks!Waiting)
         /\ Banks!Starting \in 0 .. LinkNum
         /\ \A d \in 1 .. Banks!Starting : decode_que[d] \in ToSet(decode_que)
<1> DEFINE a == SubSeq(decode_que, 1, Banks!Starting)
<1>1. /\ Len(decode_que) \in Nat /\ Len(decode_que_head) \in Nat /\ LinkNum \in Nat
      /\ Len(decode_que_head) <= LinkNum
  BY DEF BankAssumption, Queues
<1>2. Banks!Starting \in 0 .. LinkNum /\ Banks!Starting \in 0 .. Len(decode_que)
      /\ Len(decode_que_head) + Banks!Starting <= LinkNum
  BY <1>1 DEF Banks!Starting
<1>3. /\ a \in Seq(Lists) /\ Len(a) = Banks!Starting /\ Banks!Waiting \in Seq(Lists)
      /\ ToSet(decode_que) = ToSet(a) \cup ToSet(Banks!Waiting)
      /\ ToSet(a) \cap ToSet(Banks!Waiting) = {} /\ IsInjective(Banks!Waiting)
      /\ ToSet(a) = {decode_que[k] : k \in 1 .. Banks!Starting}
  <2>1. decode_que \in Seq(Lists) /\ IsInjective(decode_que)
    BY DEF Queues
  <2> QED
    BY <1>2, <2>1, Cut DEF Banks!Waiting
<1>4. Banks!Heads \in Seq(Lists) /\ ToSet(Banks!Heads) = ToSet(decode_que_head) \cup ToSet(a)
      /\ Len(Banks!Heads) = Len(decode_que_head) + Banks!Starting
  <2>1. decode_que_head \in Seq(Lists)
    BY DEF Queues
  <2>2. Banks!Heads = decode_que_head \o a
    BY DEF Banks!Heads
  <2> HIDE DEF a
  <2>3. Len(decode_que_head \o a) = Len(decode_que_head) + Len(a)
    <3>1. a \in Seq(Lists)
      BY <1>3
    <3> QED
      BY <2>1, <3>1
  <2> QED
    BY <2>1, <2>2, <2>3, <1>3, ToSetConcat
<1> HIDE DEF a
<1>5. Queues(Banks!Heads, Banks!Waiting)
  BY <1>2, <1>3, <1>4 DEF Queues
<1>6. \A q \in ToSet(decode_que) : q \in Lists /\ Len(cells[q]) = WriteSlices
  BY ToSetRange DEF Filled, Queues
<1>7. \A q \in ToSet(a) : cells[q] # << >>
  <2>1. Len(<< >>) = 0 /\ WriteSlices # 0
    BY DEF BankAssumption
  <2> QED
    BY <1>3, <1>6, <2>1
<1>8. Filled(cells, Banks!Heads, Banks!Waiting)
  BY <1>3, <1>4, <1>6, <1>7 DEF Filled
<1> QED
  BY <1>2, <1>3, <1>5, <1>8

\* A list that has cells has an entry, which stays where it is when only its
\* counters change.
LEMMA DelayedIs ==
  ASSUME BankAssumption, NEW q \in Lists, NEW d \in 0 .. LinkNum,
         queue_map \in [Lists -> InfoRecord], queue_map[q].place # Banks!NoPlace
  PROVE  Banks!DelayedBy(q, d) \in InfoRecord /\ Banks!DelayedBy(q, d).place = queue_map[q].place
<1>1. queue_map[q] # Banks!Absent
  BY DEF Banks!Absent
<1>2. Banks!DelayedBy(q, d) = [queue_map[q] EXCEPT !.delay = d]
  BY <1>1 DEF Banks!DelayedBy
<1>3. queue_map[q] \in InfoRecord
  OBVIOUS
<1> QED
  BY <1>2, <1>3 DEF InfoRecord

\* A list with cells has a first one.
LEMMA FirstIs ==
  ASSUME BankAssumption, NEW s \in Seq(Banks!Places)
  PROVE  /\ First(s) \in Banks!Places \cup {Banks!NoPlace} /\ (First(s) = Banks!NoPlace <=> s = << >>)
         /\ s # << >> => First(s) = s[1] /\ 1 \in 1 .. Len(s)
<1>1. s # << >> => Len(s) > 0 /\ s[1] \in Banks!Places /\ 1 \in 1 .. Len(s)
  OBVIOUS
<1> QED
  BY <1>1, NotThere DEF First

\* What the readers of this cycle know is where their cells are.
LEMMA InfoIs ==
  ASSUME BankAssumption, NEW cells, Chains(cells, queue_map, encode_vec),
         Queues(decode_que_head, decode_que), Filled(cells, decode_que_head, decode_que)
  PROVE  /\ Banks!Info \in [Lists -> InfoRecord]
         /\ \A q \in Lists : Banks!Info[q].place = First(cells[q])
<1> DEFINE begins(q) == \E d \in 1 .. Banks!Starting : decode_que[d] = q
           day(q) == CHOOSE d \in 1 .. Banks!Starting : decode_que[d] = q
<1>1. /\ Banks!Starting \in 0 .. LinkNum /\ LinkNum \in Nat
      /\ \A d \in 1 .. Banks!Starting : decode_que[d] \in ToSet(decode_que)
  BY BeginReading DEF BankAssumption
<1>2. /\ cells \in [Lists -> Seq(Banks!Places)] /\ queue_map \in [Lists -> InfoRecord]
      /\ \A q \in Lists : queue_map[q].place = First(cells[q])
  BY DEF Chains
<1>3. ASSUME NEW q \in Lists, begins(q)
      PROVE  /\ Banks!DelayedBy(q, day(q)) \in InfoRecord
             /\ Banks!DelayedBy(q, day(q)).place = First(cells[q])
  <2>1. day(q) \in 1 .. Banks!Starting /\ decode_que[day(q)] = q
    BY <1>3
  <2> HIDE DEF day
  <2>2. day(q) \in 0 .. LinkNum
    BY <1>1, <2>1
  <2>3. Len(cells[q]) = WriteSlices
    BY <1>1, <2>1 DEF Filled
  <2>4. cells[q] # << >>
    BY <2>3 DEF BankAssumption
  <2>5. queue_map[q].place # Banks!NoPlace
    BY <1>2, <2>4, FirstIs
  <2> QED
    BY <1>2, <2>2, <2>5, DelayedIs
<1> HIDE DEF begins, day
<1>4. \A q \in Lists :
        (IF begins(q) THEN Banks!DelayedBy(q, day(q)) ELSE queue_map[q]) \in InfoRecord
  BY <1>2, <1>3
<1>5. Banks!Info = [q \in Lists |-> IF begins(q) THEN Banks!DelayedBy(q, day(q)) ELSE queue_map[q]]
  BY DEF Banks!Info, begins, day
<1> QED
  BY <1>2, <1>3, <1>4, <1>5

\* Who reads is one of the lists that are being read.
LEMMA ReadersAreHeads ==
  ASSUME NEW info, Banks!Heads \in Seq(Lists)
  PROVE  Banks!FirstOfBanks(info) \subseteq ToSet(Banks!Heads) /\ ToSet(Banks!Heads) \subseteq Lists
<1>1. DOMAIN Banks!Heads = 1 .. Len(Banks!Heads)
  OBVIOUS
<1> QED
  BY <1>1, ToSetRange DEF Banks!FirstOfBanks

\* The tail of a sequence.
LEMMA TailIs ==
  ASSUME NEW E, NEW s \in Seq(E), s # << >>
  PROVE  /\ Tail(s) \in Seq(E) /\ Len(s) \in Nat \ {0} /\ Len(Tail(s)) = Len(s) - 1
         /\ \A i \in 1 .. Len(s) - 1 : Tail(s)[i] = s[i + 1]
         /\ First(Tail(s)) = IF Len(s) = 1 THEN Banks!NoPlace ELSE s[2]
<1>1. /\ Tail(s) \in Seq(E) /\ Len(s) \in Nat \ {0} /\ Len(Tail(s)) = Len(s) - 1
      /\ \A i \in 1 .. Len(s) - 1 : Tail(s)[i] = s[i + 1]
  OBVIOUS
<1>2. \A t \in Seq(E) : t = << >> <=> Len(t) = 0
  OBVIOUS
<1>3. CASE Len(s) = 1
  <2>1. Len(Tail(s)) = 0
    BY <1>1, <1>3
  <2> QED
    BY <1>1, <1>2, <1>3, <2>1 DEF First
<1>4. CASE Len(s) # 1
  <2>1. Len(Tail(s)) # 0 /\ 1 \in 1 .. Len(s) - 1 /\ 1 + 1 = 2
    <3>1. \A n \in Nat \ {0} : n # 1 => n - 1 # 0 /\ 1 \in 1 .. n - 1
      OBVIOUS
    <3> QED
      BY <1>1, <1>4, <3>1
  <2>2. Tail(s)[1] = s[2]
    BY <1>1, <2>1
  <2>3. Tail(s) # << >>
    BY <1>1, <1>2, <2>1
  <2> QED
    BY <1>1, <1>4, <2>2, <2>3 DEF First
<1> QED
  BY <1>1, <1>3, <1>4

-----------------------------------------------------------------------------
(* What the readers leave.                                                 *)

\* The cells that are left when one has been read of each list of readers.
ReadOff(cells, readers) == [q \in Lists |-> IF q \in readers THEN Tail(cells[q]) ELSE cells[q]]

HaveCells(cells, readers) == \A q \in readers : cells[q] # << >>

\* Of a list that is read the first cell is missing; its entry names that one, and its
\* slice the next.
LeftOver(rest, cells, readers, map, vec) ==
  /\ rest \in [Lists -> Seq(Banks!Places)]
  /\ \A q \in Lists : q \notin readers => rest[q] = cells[q]
  /\ \A q \in Lists \cap readers :
       /\ Len(cells[q]) \in Nat \ {0} /\ Len(rest[q]) = Len(cells[q]) - 1
       /\ \A i \in 1 .. Len(cells[q]) - 1 : rest[q][i] = cells[q][i + 1]
       /\ map[q].place = cells[q][1] /\ cells[q][1] \in Banks!Places
       /\ vec[cells[q][1]].next = First(rest[q])

LEMMA ReadOffIs ==
  ASSUME BankAssumption, NEW cells, NEW readers, NEW map, NEW vec, Chains(cells, map, vec),
         HaveCells(cells, readers)
  PROVE  LeftOver(ReadOff(cells, readers), cells, readers, map, vec)
<1> USE DEF HaveCells
<1>1. cells \in [Lists -> Seq(Banks!Places)] /\ \A q \in Lists : map[q].place = First(cells[q])
  BY DEF Chains
<1>2. ASSUME NEW q \in Lists \cap readers
      PROVE  /\ Tail(cells[q]) \in Seq(Banks!Places)
             /\ Len(cells[q]) \in Nat \ {0} /\ Len(Tail(cells[q])) = Len(cells[q]) - 1
             /\ \A i \in 1 .. Len(cells[q]) - 1 : Tail(cells[q])[i] = cells[q][i + 1]
  BY <1>1, TailIs
<1>3. ReadOff(cells, readers) \in [Lists -> Seq(Banks!Places)]
  BY <1>1, <1>2 DEF ReadOff
<1>4. ASSUME NEW q \in Lists \cap readers
      PROVE  /\ map[q].place = cells[q][1] /\ cells[q][1] \in Banks!Places
             /\ vec[cells[q][1]].next = First(Tail(cells[q]))
  <2>1. cells[q] # << >> /\ cells[q] \in Seq(Banks!Places) /\ 1 \in 1 .. Len(cells[q])
    BY <1>1, FirstIs
  <2>2. map[q].place = cells[q][1] /\ cells[q][1] \in Banks!Places
    BY <1>1, <2>1, FirstIs
  <2>3. \A i \in 1 .. Len(cells[q]) :
          vec[cells[q][i]].next = IF i = Len(cells[q]) THEN Banks!NoPlace ELSE cells[q][i + 1]
    BY DEF Chains
  <2>4. vec[cells[q][1]].next = IF Len(cells[q]) = 1 THEN Banks!NoPlace ELSE cells[q][2]
    <3>1. vec[cells[q][1]].next = IF 1 = Len(cells[q]) THEN Banks!NoPlace ELSE cells[q][1 + 1]
      BY <2>1, <2>3
    <3>2. 1 + 1 = 2
      OBVIOUS
    <3> QED
      BY <3>1, <3>2
  <2> QED
    BY <2>1, <2>2, <2>4, TailIs
<1> QED
  BY <1>1, <1>2, <1>3, <1>4 DEF ReadOff, LeftOver

LEMMA ChainsRead ==
  ASSUME BankAssumption, NEW cells, NEW readers \in SUBSET Lists, NEW map, NEW vec, NEW map2, NEW vec2,
         Chains(cells, map, vec), \A q \in readers : cells[q] # << >>,
         map2 \in [Lists -> InfoRecord],
         \A q \in Lists : map2[q].place = First(ReadOff(cells, readers)[q]),
         vec2 = [p \in Banks!Places |-> IF p \in {cells[q][1] : q \in readers} THEN Banks!Free ELSE vec[p]]
  PROVE  Chains(ReadOff(cells, readers), map2, vec2)
<1> DEFINE rest == ReadOff(cells, readers)
           read == {cells[q][1] : q \in readers}
           off(q) == IF q \in readers THEN 1 ELSE 0
<1>1. /\ cells \in [Lists -> Seq(Banks!Places)] /\ vec \in [Banks!Places -> SliceRecord]
      /\ \A q \in Lists : Len(cells[q]) <= WriteSlices
  BY DEF Chains
<1>once. \A q, r \in Lists : \A i \in 1 .. Len(cells[q]), j \in 1 .. Len(cells[r]) :
           cells[q][i] = cells[r][j] => q = r /\ i = j
  BY DEF Chains
<1>links. \A q \in Lists : \A i \in 1 .. Len(cells[q]) :
            /\ vec[cells[q][i]].queue_id = q
            /\ vec[cells[q][i]].next = IF i = Len(cells[q]) THEN Banks!NoPlace ELSE cells[q][i + 1]
  BY DEF Chains
<1>all. \A p \in Banks!Places :
          vec[p] = Banks!Free \/ \E q \in Lists : \E i \in 1 .. Len(cells[q]) : cells[q][i] = p
  BY DEF Chains
<1>2. /\ rest \in [Lists -> Seq(Banks!Places)]
      /\ \A q \in Lists : q \notin readers => rest[q] = cells[q]
      /\ \A q \in Lists \cap readers :
           /\ Len(cells[q]) \in Nat \ {0} /\ Len(rest[q]) = Len(cells[q]) - 1
           /\ \A i \in 1 .. Len(cells[q]) - 1 : rest[q][i] = cells[q][i + 1]
  <2>1. LeftOver(rest, cells, readers, map, vec)
    BY ReadOffIs DEF HaveCells
  <2> HIDE DEF rest
  <2> QED
    BY <2>1 DEF LeftOver
<1>3. ASSUME NEW q \in Lists
      PROVE  /\ Len(cells[q]) \in Nat /\ off(q) \in {0, 1} /\ Len(cells[q]) - off(q) \in Nat
             /\ Len(rest[q]) = Len(cells[q]) - off(q)
             /\ \A i \in 1 .. Len(rest[q]) :
                  rest[q][i] = cells[q][i + off(q)] /\ i + off(q) \in 1 .. Len(cells[q])
  <2>1. Len(cells[q]) \in Nat
    BY <1>1
  <2> HIDE DEF rest
  <2>2. CASE q \in readers
    <3>1. /\ Len(cells[q]) \in Nat \ {0} /\ Len(rest[q]) = Len(cells[q]) - 1
          /\ \A i \in 1 .. Len(cells[q]) - 1 : rest[q][i] = cells[q][i + 1]
      BY <1>2, <2>2
    <3>2. off(q) = 1
      BY <2>2
    <3> HIDE DEF off
    <3>3. \A i \in 1 .. Len(cells[q]) - 1 : i + 1 \in 1 .. Len(cells[q])
      BY <3>1
    <3> QED
      BY <3>1, <3>2, <3>3
  <2>3. CASE q \notin readers
    <3>1. rest[q] = cells[q] /\ off(q) = 0
      BY <1>2, <2>3
    <3> HIDE DEF off
    <3> QED
      BY <2>1, <3>1
  <2> QED
    BY <2>2, <2>3
<1> HIDE DEF rest, off
<1>4. \A q \in Lists : Len(rest[q]) <= WriteSlices
  <2> SUFFICES ASSUME NEW q \in Lists  PROVE Len(rest[q]) <= WriteSlices
    OBVIOUS
  <2>1. WriteSlices \in Nat /\ Len(cells[q]) <= WriteSlices
    BY <1>1 DEF BankAssumption
  <2> QED
    BY <1>3, <2>1
<1>5. ASSUME NEW q \in Lists, NEW r \in Lists, NEW i \in 1 .. Len(rest[q]), NEW j \in 1 .. Len(rest[r]),
             rest[q][i] = rest[r][j]
      PROVE  q = r /\ i = j
  <2>1. /\ cells[q][i + off(q)] = cells[r][j + off(r)]
        /\ i + off(q) \in 1 .. Len(cells[q]) /\ j + off(r) \in 1 .. Len(cells[r])
    BY <1>3, <1>5
  <2>2. q = r /\ i + off(q) = j + off(r)
    BY <1>once, <2>1
  <2>3. i \in Int /\ j \in Int /\ off(q) \in Int
    BY <1>3
  <2> QED
    BY <2>2, <2>3
<1>6. ASSUME NEW q \in Lists, NEW i \in 1 .. Len(rest[q])
      PROVE  /\ vec2[rest[q][i]].queue_id = q
             /\ vec2[rest[q][i]].next = IF i = Len(rest[q]) THEN Banks!NoPlace ELSE rest[q][i + 1]
  <2> DEFINE k == i + off(q)
  <2>1. /\ rest[q][i] = cells[q][k] /\ k \in 1 .. Len(cells[q]) /\ k \in Nat
        /\ Len(rest[q]) = Len(cells[q]) - off(q) /\ Len(cells[q]) \in Nat /\ off(q) \in {0, 1}
        /\ q \in readers => k # 1
    <3>1. q \in readers => off(q) = 1
      BY DEF off
    <3>2. i \in Int /\ i > 0
      BY <1>3
    <3> QED
      BY <1>3, <3>1, <3>2
  <2>2. cells[q][k] \notin read
    <3> SUFFICES ASSUME NEW r \in readers, cells[q][k] = cells[r][1]  PROVE FALSE
      BY DEF read
    <3>1. 1 \in 1 .. Len(cells[r]) /\ r \in Lists
      BY <1>1, FirstIs
    <3>2. q = r /\ k = 1
      BY <1>once, <2>1, <3>1
    <3> QED
      BY <2>1, <3>2
  <2>3. cells[q][k] \in Banks!Places
    <3>1. cells[q] \in Seq(Banks!Places)
      BY <1>1
    <3> HIDE DEF k
    <3> QED
      BY <2>1, <3>1
  <2>4. vec2[rest[q][i]] = vec[cells[q][k]]
    BY <2>1, <2>2, <2>3
  <2>5. i = Len(rest[q]) <=> k = Len(cells[q])
    BY <2>1
  <2>6. i # Len(rest[q]) => rest[q][i + 1] = cells[q][k + 1]
    <3> SUFFICES ASSUME i # Len(rest[q])  PROVE rest[q][i + 1] = cells[q][k + 1]
      OBVIOUS
    <3>1. i + 1 \in 1 .. Len(rest[q]) /\ i + 1 + off(q) = k + 1
      BY <2>1
    <3> HIDE DEF k
    <3> QED
      BY <1>3, <3>1
  <2> HIDE DEF k
  <2>7. /\ vec[cells[q][k]].queue_id = q
        /\ vec[cells[q][k]].next = IF k = Len(cells[q]) THEN Banks!NoPlace ELSE cells[q][k + 1]
    BY <1>links, <2>1
  <2> QED
    BY <2>4, <2>5, <2>6, <2>7
<1>7. ASSUME NEW p \in Banks!Places, vec2[p] # Banks!Free
      PROVE  \E q \in Lists : \E i \in 1 .. Len(rest[q]) : rest[q][i] = p
  <2>1. p \notin read /\ vec2[p] = vec[p]
    BY <1>7
  <2> PICK q \in Lists : \E k \in 1 .. Len(cells[q]) : cells[q][k] = p
    BY <1>all, <1>7, <2>1
  <2>2. PICK k \in 1 .. Len(cells[q]) : cells[q][k] = p
    OBVIOUS
  <2>3. k \in Int /\ Len(cells[q]) \in Nat /\ off(q) \in {0, 1} /\ k - off(q) >= 1
    <3>1. k \in Int /\ k >= 1 /\ Len(cells[q]) \in Nat /\ off(q) \in {0, 1}
      BY <1>3
    <3>2. q \in readers => k # 1
      BY <2>1, <2>2
    <3>3. q \notin readers => off(q) = 0
      BY DEF off
    <3> QED
      BY <3>1, <3>2, <3>3
  <2> DEFINE i == k - off(q)
  <2>4. i \in 1 .. Len(rest[q]) /\ i + off(q) = k
    BY <1>3, <2>3
  <2> HIDE DEF i
  <2>5. rest[q][i] = p
    BY <1>3, <2>2, <2>4
  <2> QED
    BY <2>4, <2>5
<1>8. vec2 \in [Banks!Places -> SliceRecord]
  <2>1. Banks!Free \in SliceRecord
    BY DEF Banks!Free, SliceRecord
  <2> QED
    BY <1>1, <2>1
<1> USE DEF rest
<1> HIDE DEF read
<1> QED
  BY <1>2, <1>4, <1>5, <1>6, <1>7, <1>8 DEF Chains

\* A slice that is read is a free slice of its bank.
LEMMA CountedRead ==
  ASSUME BankAssumption, NEW vec, NEW deep, NEW read \in SUBSET Banks!Places, NEW vec2, NEW deep2,
         Counted(vec, deep), \A p \in read : vec[p] # Banks!Free,
         vec2 = [p \in Banks!Places |-> IF p \in read THEN Banks!Free ELSE vec[p]],
         deep2 = [b \in Banks!Banks |-> deep[b] + Cardinality({p \in read : p[1] = b})]
  PROVE  Counted(vec2, deep2)
<1>1. IsFiniteSet(Banks!Slices) /\ Cardinality(Banks!Slices) = SliceNum
  <2>1. 0 \in Int /\ SliceNum - 1 \in Int
    BY DEF BankAssumption
  <2>2. IsFiniteSet(0 .. SliceNum - 1) /\ Cardinality(0 .. SliceNum - 1) = SliceNum
    BY <2>1, FS_Interval DEF BankAssumption
  <2> QED
    BY <2>2 DEF Banks!Slices
<1>2. ASSUME NEW b \in Banks!Banks
      PROVE  deep2[b] \in 0 .. SliceNum /\ deep2[b] = Cardinality(FreeIn(b, vec2))
  <2> DEFINE Y == {j \in Banks!Slices : <<b, j>> \in read}
             X == {p \in read : p[1] = b}
             f == [j \in Y |-> <<b, j>>]
  <2>1. FreeIn(b, vec2) = FreeIn(b, vec) \cup Y
    BY DEF FreeIn, Banks!Places
  <2>2. FreeIn(b, vec) \cap Y = {}
    BY DEF FreeIn
  <2>3. IsFiniteSet(Y) /\ IsFiniteSet(FreeIn(b, vec)) /\ IsFiniteSet(FreeIn(b, vec2))
        /\ Cardinality(FreeIn(b, vec2)) \in Nat /\ Cardinality(FreeIn(b, vec2)) <= SliceNum
    <3>1. /\ Y \subseteq Banks!Slices
          /\ FreeIn(b, vec) \subseteq Banks!Slices /\ FreeIn(b, vec2) \subseteq Banks!Slices
      BY DEF FreeIn
    <3> HIDE DEF Y
    <3> QED
      BY <1>1, <3>1, FS_Subset, FS_CardinalityType
  <2>4. Corresponds(f, Y, X)
    <3>1. \A j \in Y : f[j] = <<b, j>> /\ <<b, j>> \in X
      OBVIOUS
    <3>2. \A p \in X : p = <<b, p[2]>> /\ p[2] \in Y
      BY NotThere
    <3>3. \A j \in Y : f[j] \in X
      BY <3>1
    <3>4. \A j, k \in Y : f[j] = f[k] => j = k
      BY <3>1
    <3>5. \A p \in X : \E j \in Y : f[j] = p
      BY <3>1, <3>2
    <3>6. f \in [Y -> X]
      BY <3>1
    <3> HIDE DEF X, Y, f
    <3> QED
      BY <3>4, <3>5, <3>6, Zenon DEF Corresponds
  <2>5. Cardinality(X) = Cardinality(Y)
    <3> HIDE DEF X, Y, f
    <3> QED
      BY <2>3, <2>4, SameSize
  <2>6. deep[b] = Cardinality(FreeIn(b, vec)) /\ deep2[b] = deep[b] + Cardinality(X)
    BY DEF Counted
  <2>7. Cardinality(FreeIn(b, vec2)) = Cardinality(FreeIn(b, vec)) + Cardinality(Y)
    <3> HIDE DEF Y, X
    <3>1. /\ Cardinality(FreeIn(b, vec) \cup Y)
               = Cardinality(FreeIn(b, vec)) + Cardinality(Y) - Cardinality(FreeIn(b, vec) \cap Y)
      BY <2>3, FS_Union
    <3>2. Cardinality({}) = 0 /\ Cardinality(FreeIn(b, vec)) \in Nat /\ Cardinality(Y) \in Nat
      BY <2>3, FS_EmptySet, FS_CardinalityType
    <3>3. Cardinality(FreeIn(b, vec2))
             = Cardinality(FreeIn(b, vec)) + Cardinality(Y) - 0
      BY <2>1, <2>2, <3>1, <3>2
    <3> QED
      BY <3>2, <3>3
  <2> HIDE DEF X, Y
  <2>8. deep2[b] = Cardinality(FreeIn(b, vec2))
    BY <2>5, <2>6, <2>7
  <2>9. SliceNum \in Nat
    BY DEF BankAssumption
  <2> QED
    BY <2>3, <2>8, <2>9
<1>3. deep2 \in [Banks!Banks -> 0 .. SliceNum]
  BY <1>2
<1> HIDE DEF Counted
<1> QED
  BY <1>2, <1>3 DEF Counted

\* Counting down does not move a list.
LEMMA CountedDownIs ==
  ASSUME BankAssumption, NEW info \in InfoRecord
  PROVE  /\ Banks!CountedDown(info) \in InfoRecord /\ Banks!CountedDown(info).place = info.place
         /\ [Banks!CountedDown(info) EXCEPT !.counter = 1] \in InfoRecord
         /\ [Banks!CountedDown(info) EXCEPT !.counter = 1].place = info.place
<1>1. /\ Delay \in Nat \ {0} /\ LinkNum \in Nat /\ info.counter \in 0 .. Delay
      /\ info.delay \in 0 .. LinkNum /\ info.place \in Banks!Places \cup {Banks!NoPlace}
      /\ info = [place |-> info.place, counter |-> info.counter, delay |-> info.delay]
  BY DEF InfoRecord, BankAssumption
<1>2. CASE info.delay > 1
  <2>1. Banks!CountedDown(info) = [place |-> info.place, counter |-> info.counter, delay |-> info.delay - 1]
    BY <1>1, <1>2 DEF Banks!CountedDown
  <2>2. info.delay - 1 \in 0 .. LinkNum /\ 1 \in 0 .. Delay
    BY <1>1, <1>2
  <2> QED
    BY <1>1, <2>1, <2>2 DEF InfoRecord
<1>3. CASE ~ (info.delay > 1)
  <2> DEFINE c == IF info.counter > 0 THEN info.counter - 1 ELSE 0
  <2>1. Banks!CountedDown(info) = [place |-> info.place, counter |-> c, delay |-> 0]
    BY <1>1, <1>3 DEF Banks!CountedDown
  <2>2. c \in 0 .. Delay /\ 0 \in 0 .. LinkNum /\ 1 \in 0 .. Delay
    BY <1>1
  <2> HIDE DEF c
  <2> QED
    BY <1>1, <2>1, <2>2 DEF InfoRecord
<1> QED
  BY <1>2, <1>3

\* A list that was read moves to its next cell, and no other list moves.
LEMMA InfoAfterIs ==
  ASSUME BankAssumption, NEW info \in [Lists -> InfoRecord], NEW readers, NEW q \in Lists,
         encode_vec \in [Banks!Places -> SliceRecord], q \in readers => info[q].place \in Banks!Places
  PROVE  /\ Banks!InfoAfter(info, readers, q) \in InfoRecord
         /\ Banks!InfoAfter(info, readers, q).place =
              IF q \in readers THEN Banks!NextOf(info, q) ELSE info[q].place
<1>1. CASE q \in readers
  <2>1. Banks!NextOf(info, q) \in Banks!Places \cup {Banks!NoPlace}
    BY <1>1 DEF Banks!NextOf, SliceRecord
  <2>2. 0 \in 0 .. Delay /\ 0 \in 0 .. LinkNum /\ Delay \in 0 .. Delay
    BY DEF BankAssumption
  <2>3. Banks!Absent \in InfoRecord /\ Banks!Absent.place = Banks!NoPlace
    BY <2>2 DEF Banks!Absent, InfoRecord
  <2>4. \A p \in Banks!Places \cup {Banks!NoPlace} :
          /\ [place |-> p, counter |-> Delay, delay |-> 0] \in InfoRecord
          /\ [place |-> p, counter |-> Delay, delay |-> 0].place = p
    BY <2>2 DEF InfoRecord
  <2> QED
    BY <1>1, <2>1, <2>3, <2>4 DEF Banks!InfoAfter
<1>2. CASE q \notin readers
  BY <1>2, CountedDownIs DEF Banks!InfoAfter
<1> QED
  BY <1>1, <1>2

\* The places that are read, and what becomes of the lists: the rows of AfterReads.
LEMMA AfterReadsSound ==
  ASSUME BankAssumption, NEW cells, NEW readers \in SUBSET ToSet(Banks!Heads),
         Sound(cells, decode_que_head, decode_que, queue_map, encode_vec, bank_deep_vec)
  PROVE  LET st == Banks!AfterReads(Banks!Info, readers)
         IN Sound(ReadOff(cells, readers), st.heads, st.que, st.map, st.vec, st.deep)
<1> DEFINE rest == ReadOff(cells, readers)
           left == Banks!Kept(Banks!Heads,
                               {q \in Lists : q \in readers => Banks!NextOf(Banks!Info, q) # Banks!NoPlace})
           read == {Banks!Info[q].place : q \in readers}
           room == Banks!Replacing(Banks!Heads, left)
           st == Banks!AfterReads(Banks!Info, readers)
<1>1. /\ Chains(cells, queue_map, encode_vec) /\ Counted(encode_vec, bank_deep_vec)
      /\ Queues(decode_que_head, decode_que) /\ Filled(cells, decode_que_head, decode_que)
      /\ Writing(cells)
  BY DEF Sound
<1>2. Queues(Banks!Heads, Banks!Waiting) /\ Filled(cells, Banks!Heads, Banks!Waiting)
  BY <1>1, BeginReading
<1>3. Banks!Info \in [Lists -> InfoRecord] /\ \A q \in Lists : Banks!Info[q].place = First(cells[q])
  BY <1>1, InfoIs
<1>4. /\ readers \subseteq Lists /\ ToSet(Banks!Heads) \subseteq Lists /\ ToSet(Banks!Waiting) \subseteq Lists
      /\ ToSet(encode_que) \subseteq Lists /\ Banks!Heads \in Seq(Lists) /\ Banks!Waiting \in Seq(Lists)
      /\ \A q \in readers : cells[q] # << >>
      /\ \A q \in readers : q \notin ToSet(Banks!Waiting) /\ q \notin ToSet(encode_que)
  BY <1>2, ToSetRange DEF Queues, Filled
<1>5. /\ rest \in [Lists -> Seq(Banks!Places)]
      /\ \A q \in Lists : q \notin readers => rest[q] = cells[q]
      /\ \A q \in readers : /\ Banks!Info[q].place = cells[q][1] /\ cells[q][1] \in Banks!Places
                            /\ Banks!NextOf(Banks!Info, q) = First(rest[q])
  <2>1. \A q \in readers : Banks!Info[q].place = queue_map[q].place
    BY <1>1, <1>3, <1>4 DEF Chains
  <2>2. /\ rest \in [Lists -> Seq(Banks!Places)]
        /\ \A q \in Lists : q \notin readers => rest[q] = cells[q]
        /\ \A q \in Lists \cap readers :
             /\ queue_map[q].place = cells[q][1] /\ cells[q][1] \in Banks!Places
             /\ encode_vec[cells[q][1]].next = First(rest[q])
    <3>1. HaveCells(cells, readers)
      BY <1>4 DEF HaveCells
    <3>2. LeftOver(rest, cells, readers, queue_map, encode_vec)
      BY <1>1, <3>1, ReadOffIs
    <3> HIDE DEF rest
    <3> QED
      BY <3>2 DEF LeftOver
  <2>3. \A q \in readers : q \in Lists
    BY <1>4
  <2> HIDE DEF rest
  <2> QED
    BY <2>1, <2>2, <2>3 DEF Banks!NextOf
<1>6. /\ cells \in [Lists -> Seq(Banks!Places)] /\ encode_vec \in [Banks!Places -> SliceRecord]
      /\ queue_map \in [Lists -> InfoRecord]
      /\ \A q \in Lists : queue_map[q].place = First(cells[q])
  BY <1>1 DEF Chains
<1> HIDE DEF rest
<1>7. /\ left \in Seq(Lists) /\ Len(left) \in Nat /\ Len(left) <= Len(Banks!Heads)
      /\ ToSet(left) = {q \in ToSet(Banks!Heads) : rest[q] # << >>}
  <2> DEFINE S == {q \in Lists : q \in readers => Banks!NextOf(Banks!Info, q) # Banks!NoPlace}
  <2>1. \A q \in ToSet(Banks!Heads) : q \in S <=> rest[q] # << >>
    <3> SUFFICES ASSUME NEW q \in ToSet(Banks!Heads)  PROVE q \in S <=> rest[q] # << >>
      OBVIOUS
    <3>1. q \in Lists
      BY <1>4
    <3>2. CASE q \in readers
      BY <1>5, <3>1, <3>2, FirstIs
    <3>3. CASE q \notin readers
      BY <1>2, <1>5, <3>1, <3>3 DEF Filled
    <3> QED
      BY <3>2, <3>3
  <2> HIDE DEF S
  <2>2. /\ Banks!Kept(Banks!Heads, S) \in Seq(Lists)
        /\ ToSet(Banks!Kept(Banks!Heads, S)) = ToSet(Banks!Heads) \cap S
        /\ Len(Banks!Kept(Banks!Heads, S)) <= Len(Banks!Heads)
    BY <1>4, KeptIs
  <2>3. left = Banks!Kept(Banks!Heads, S)
    BY DEF S
  <2> HIDE DEF left
  <2>4. Len(left) \in Nat
    BY <2>2, <2>3
  <2> QED
    BY <2>1, <2>2, <2>3, <2>4
<1>8. /\ st.heads = left \o (IF room THEN <<Head(Banks!Waiting)>> ELSE << >>)
      /\ st.que = IF room THEN Tail(Banks!Waiting) ELSE Banks!Waiting
      /\ st.map = [q \in Lists |-> IF room /\ q = Head(Banks!Waiting)
                                   THEN Banks!DelayedBy(q, LinkNum - Len(left) - 1)
                                   ELSE IF q \in ToSet(Banks!Heads) THEN
                                        Banks!InfoAfter(Banks!Info, readers, q)
                                   ELSE queue_map[q]]
      /\ st.vec = [p \in Banks!Places |-> IF p \in read THEN Banks!Free ELSE encode_vec[p]]
      /\ st.deep = [b \in Banks!Banks |-> bank_deep_vec[b] + Cardinality({p \in read : p[1] = b})]
  BY BankLibrary DEF Banks!AfterReads
<1> HIDE DEF left, st
<1>9. Queues(st.heads, st.que) /\ Filled(rest, st.heads, st.que)
  <2>1. /\ \A q \in ToSet(Banks!Waiting) : q \in Lists /\ rest[q] = cells[q] /\ Len(rest[q]) = WriteSlices
                                     /\ rest[q] # << >>
    <3>1. WriteSlices # 0 /\ Len(<< >>) = 0
      BY DEF BankAssumption
    <3> QED
      BY <1>2, <1>4, <1>5, <3>1 DEF Filled
  <2>2. \A i \in 2 .. Len(encode_que) : rest[encode_que[i]] = << >>
    <3> SUFFICES ASSUME NEW i \in 2 .. Len(encode_que)  PROVE rest[encode_que[i]] = << >>
      OBVIOUS
    <3>1. cells[encode_que[i]] = << >>
      BY <1>2 DEF Filled
    <3>2. encode_que \in Seq(Lists)
      BY <1>2 DEF Queues
    <3>3. encode_que[i] \in ToSet(encode_que)
      <4>1. i \in 1 .. Len(encode_que)
        BY <3>2
      <4> QED
        BY <3>2, <4>1, ToSetRange
    <3> QED
      BY <1>4, <1>5, <3>1, <3>3
  <2>3. ASSUME NEW q \in Lists, q \notin ToSet(encode_que), q \notin ToSet(Banks!Waiting), q \notin ToSet(left)
        PROVE  rest[q] = << >>
    <3>1. CASE q \in ToSet(Banks!Heads)
      BY <1>7, <2>3, <3>1
    <3>2. CASE q \notin ToSet(Banks!Heads)
      <4>1. cells[q] = << >>
        BY <1>2, <2>3, <3>2 DEF Filled
      <4> QED
        BY <1>5, <3>2, <4>1
    <3> QED
      BY <3>1, <3>2
  <2>4. CASE ~ room
    <3>1. st.heads = left /\ st.que = Banks!Waiting
      BY <1>7, <1>8, <2>4, ToSetAppend
    <3>2. Queues(left, Banks!Waiting)
      <4>1. Len(left) <= LinkNum
        BY <1>2, <1>4, <1>7 DEF Queues, BankAssumption
      <4>2. /\ encode_que \in Seq(Lists) /\ IsInjective(Banks!Waiting) /\ IsInjective(encode_que)
            /\ ToSet(Banks!Heads) \cap ToSet(Banks!Waiting) = {}
            /\ ToSet(encode_que) \cap (ToSet(Banks!Heads) \cup ToSet(Banks!Waiting)) = {}
        BY <1>2 DEF Queues
      <4>3. ToSet(left) \subseteq ToSet(Banks!Heads)
        BY <1>7
      <4> QED
        BY <1>4, <1>7, <4>1, <4>2, <4>3 DEF Queues
    <3>3. Filled(rest, left, Banks!Waiting)
      BY <1>7, <2>1, <2>2, <2>3 DEF Filled
    <3> QED
      BY <3>1, <3>2, <3>3
  <2>5. CASE room
    <3> DEFINE h == Head(Banks!Waiting)
               t == Tail(Banks!Waiting)
               s == Append(left, h)
    <3>1. Banks!Waiting # << >> /\ Len(left) < Len(Banks!Heads)
      BY <2>5 DEF Banks!Replacing
    <3>2. /\ h \in ToSet(Banks!Waiting) /\ h \in Lists /\ t \in Seq(Lists) /\ IsInjective(t)
          /\ ToSet(t) = ToSet(Banks!Waiting) \ {h}
      BY <1>2, <1>4, <3>1, ToSetTail DEF Queues
    <3> HIDE DEF h, t
    <3>3. /\ s \in Seq(Lists) /\ ToSet(s) = ToSet(left) \cup {h} /\ Len(s) = Len(left) + 1
          /\ left \o <<h>> = s
      BY <1>7, <3>2, ToSetAppend
    <3>4. st.heads = s /\ st.que = t
      BY <1>8, <2>5, <3>3 DEF h, t
    <3> HIDE DEF s
    <3>5. Queues(s, t)
      <4>1. Len(s) <= LinkNum
        BY <1>2, <1>4, <1>7, <3>1, <3>3 DEF Queues, BankAssumption
      <4>2. /\ encode_que \in Seq(Lists) /\ IsInjective(encode_que)
            /\ ToSet(Banks!Heads) \cap ToSet(Banks!Waiting) = {}
            /\ ToSet(encode_que) \cap (ToSet(Banks!Heads) \cup ToSet(Banks!Waiting)) = {}
        BY <1>2 DEF Queues
      <4>3. ToSet(left) \subseteq ToSet(Banks!Heads)
        BY <1>7
      <4> QED
        BY <3>2, <3>3, <4>1, <4>2, <4>3 DEF Queues
    <3>6. Filled(rest, s, t)
      <4>1. \A q \in ToSet(t) : Len(rest[q]) = WriteSlices
        BY <2>1, <3>2
      <4>2. \A q \in ToSet(s) : rest[q] # << >>
        BY <1>7, <2>1, <3>2, <3>3
      <4>3. \A q \in Lists : q \notin ToSet(encode_que) \cup ToSet(t) \cup ToSet(s) => rest[q] = << >>
        BY <2>3, <3>2, <3>3
      <4> QED
        BY <2>2, <4>1, <4>2, <4>3 DEF Filled
    <3> QED
      BY <3>4, <3>5, <3>6
  <2> QED
    BY <2>4, <2>5
<1>10. Writing(rest)
  <2>1. encode_que # << >> => rest[Head(encode_que)] = cells[Head(encode_que)]
    <3> SUFFICES ASSUME encode_que # << >>  PROVE rest[Head(encode_que)] = cells[Head(encode_que)]
      OBVIOUS
    <3>1. Head(encode_que) \in ToSet(encode_que)
      BY <1>2, ToSetRange DEF Queues
    <3> QED
      BY <1>4, <1>5, <3>1
  <2> QED
    BY <1>1, <2>1 DEF Writing
<1>11. st.map \in [Lists -> InfoRecord] /\ \A q \in Lists : st.map[q].place = First(rest[q])
  <2>1. ASSUME NEW q \in Lists, q \in ToSet(Banks!Heads)
        PROVE  /\ Banks!InfoAfter(Banks!Info, readers, q) \in InfoRecord
               /\ Banks!InfoAfter(Banks!Info, readers, q).place = First(rest[q])
    <3>1. q \in readers => Banks!Info[q].place \in Banks!Places
      BY <1>5
    <3>2. /\ Banks!InfoAfter(Banks!Info, readers, q) \in InfoRecord
          /\ Banks!InfoAfter(Banks!Info, readers, q).place =
               IF q \in readers THEN Banks!NextOf(Banks!Info, q) ELSE Banks!Info[q].place
      BY <1>3, <1>6, <3>1, InfoAfterIs
    <3> QED
      BY <1>3, <1>5, <3>2
  <2>2. ASSUME NEW q \in Lists, room, q = Head(Banks!Waiting)
        PROVE  /\ Banks!DelayedBy(q, LinkNum - Len(left) - 1) \in InfoRecord
               /\ Banks!DelayedBy(q, LinkNum - Len(left) - 1).place = First(rest[q])
    <3>1. Banks!Waiting # << >> /\ Len(left) < Len(Banks!Heads)
      BY <2>2 DEF Banks!Replacing
    <3>2. q \in ToSet(Banks!Waiting)
      BY <1>4, <2>2, <3>1, ToSetRange
    <3>3. q \notin readers /\ Len(cells[q]) = WriteSlices
      BY <1>2, <1>4, <3>2 DEF Filled
    <3>4. cells[q] # << >>
      BY <3>3 DEF BankAssumption
    <3>5. queue_map[q].place # Banks!NoPlace
      BY <1>6, <3>4, FirstIs
    <3>6. LinkNum - Len(left) - 1 \in 0 .. LinkNum
      <4>1. Len(Banks!Heads) \in Nat /\ Len(Banks!Heads) <= LinkNum /\ LinkNum \in Nat
        BY <1>2, <1>4 DEF Queues, BankAssumption
      <4> QED
        BY <1>7, <3>1, <4>1
    <3> HIDE DEF room
    <3> QED
      BY <1>5, <1>6, <3>3, <3>5, <3>6, DelayedIs
  <2>3. ASSUME NEW q \in Lists, q \notin ToSet(Banks!Heads)
        PROVE  queue_map[q] \in InfoRecord /\ queue_map[q].place = First(rest[q])
    BY <1>5, <1>6, <2>3
  <2> HIDE DEF room
  <2>4. st.map \in [Lists -> InfoRecord]
    BY <1>8, <2>1, <2>2, <2>3
  <2>5. ASSUME NEW q \in Lists  PROVE st.map[q].place = First(rest[q])
    <3>1. st.map[q] = IF room /\ q = Head(Banks!Waiting)
                      THEN Banks!DelayedBy(q, LinkNum - Len(left) - 1)
                      ELSE IF q \in ToSet(Banks!Heads) THEN Banks!InfoAfter(Banks!Info, readers, q)
                      ELSE queue_map[q]
      BY <1>8
    <3> QED
      BY <2>1, <2>2, <2>3, <3>1
  <2> QED
    BY <2>4, <2>5
<1>12. Chains(rest, st.map, st.vec)
  <2>1. read = {cells[q][1] : q \in readers}
    BY <1>5
  <2>2. st.vec = [p \in Banks!Places |->
              IF p \in {cells[q][1] : q \in readers} THEN Banks!Free ELSE encode_vec[p]]
    BY <1>8, <2>1
  <2> HIDE DEF read, room
  <2> QED
    BY <1>1, <1>4, <1>11, <2>2, ChainsRead DEF rest
<1>13. Counted(st.vec, st.deep)
  <2>1. read \in SUBSET Banks!Places
    BY <1>5
  <2>2. \A p \in read : encode_vec[p] # Banks!Free
    <3> SUFFICES ASSUME NEW q \in readers  PROVE encode_vec[cells[q][1]] # Banks!Free
      BY <1>5
    <3>1. q \in Lists /\ 1 \in 1 .. Len(cells[q])
      BY <1>4, <1>6, FirstIs
    <3>2. encode_vec[cells[q][1]].queue_id = q
      BY <1>1, <3>1 DEF Chains
    <3> QED
      BY <3>1, <3>2, NotThere DEF Banks!Free
  <2> HIDE DEF read, room
  <2> QED
    BY <1>1, <1>8, <2>1, <2>2, CountedRead
<1> QED
  BY <1>9, <1>10, <1>12, <1>13 DEF Sound, rest, st

-----------------------------------------------------------------------------
(* What the writer does.                                                   *)

\* A cell of list q at place, the chain of slices, and the free slices of its bank.
Longer(cells, q, place) == [cells EXCEPT ![q] = Append(@, place)]
Linked(vec, prev, q, place) ==
  [p \in Banks!Places |-> IF p = place THEN [queue_id |-> q, next |-> Banks!NoPlace]
                    ELSE IF p = prev THEN [vec[p] EXCEPT !.next = place]
                    ELSE vec[p]]
Taken(deep, b) == [deep EXCEPT ![b] = @ - 1]

\* The place of the last cell, and the entries of the lists when q is longer.
LastOf(s) == IF Len(s) = 0 THEN Banks!NoPlace ELSE s[Len(s)]
Entered(map2, map, prev, q, place) ==
  /\ map2 \in [Lists -> InfoRecord] /\ \A r \in Lists \ {q} : map2[r] = map[r]
  /\ map2[q].place = IF prev = Banks!NoPlace THEN place ELSE map[q].place

\* What is free when place has been taken.
OneLess(vec2, vec, place) == \A p \in Banks!Places :
  vec2[p] = Banks!Free <=> p # place /\ vec[p] = Banks!Free

\* A cell is chained behind the last one of its list.
LEMMA ChainsWrite ==
  ASSUME BankAssumption, NEW cells, NEW map, NEW vec, NEW map2, NEW vec2, NEW prev,
         NEW q \in Lists, NEW place \in Banks!Places,
         Chains(cells, map, vec), vec[place] = Banks!Free, Len(cells[q]) < WriteSlices,
         prev = LastOf(cells[q]), Entered(map2, map, prev, q, place), vec2 = Linked(vec, prev, q, place)
  PROVE  Chains(Longer(cells, q, place), map2, vec2) /\ OneLess(vec2, vec, place)
<1> USE DEF Linked, Longer, LastOf, Entered
<1> DEFINE more == Longer(cells, q, place)
           n == Len(cells[q])
<1>1. /\ cells \in [Lists -> Seq(Banks!Places)] /\ vec \in [Banks!Places -> SliceRecord]
      /\ \A r \in Lists : Len(cells[r]) <= WriteSlices /\ map[r].place = First(cells[r])
  BY DEF Chains
<1>once. \A r, s \in Lists : \A i \in 1 .. Len(cells[r]), j \in 1 .. Len(cells[s]) :
           cells[r][i] = cells[s][j] => r = s /\ i = j
  BY DEF Chains
<1>links. \A r \in Lists : \A i \in 1 .. Len(cells[r]) :
            /\ vec[cells[r][i]].queue_id = r
            /\ vec[cells[r][i]].next = IF i = Len(cells[r]) THEN Banks!NoPlace ELSE cells[r][i + 1]
  BY DEF Chains
<1>all. \A p \in Banks!Places :
          vec[p] = Banks!Free \/ \E r \in Lists : \E i \in 1 .. Len(cells[r]) : cells[r][i] = p
  BY DEF Chains
<1>2. n \in Nat /\ WriteSlices \in Nat /\ \A r \in Lists : Len(cells[r]) \in Nat
  BY <1>1 DEF BankAssumption
<1>3. /\ more \in [Lists -> Seq(Banks!Places)] /\ more[q] = Append(cells[q], place)
      /\ \A r \in Lists \ {q} : more[r] = cells[r]
  BY <1>1
<1>4. /\ Len(more[q]) = n + 1 /\ more[q][n + 1] = place
      /\ \A i \in 1 .. n : more[q][i] = cells[q][i]
  <2>1. cells[q] \in Seq(Banks!Places)
    BY <1>1
  <2> HIDE DEF more
  <2> QED
    BY <1>3, <2>1
<1>5. \A r \in Lists : \A i \in 1 .. Len(cells[r]) :
        cells[r][i] # place /\ cells[r][i] \in Banks!Places /\ vec[cells[r][i]] # Banks!Free
  <2> SUFFICES ASSUME NEW r \in Lists, NEW i \in 1 .. Len(cells[r])
               PROVE  cells[r][i] # place /\ cells[r][i] \in Banks!Places /\ vec[cells[r][i]] # Banks!Free
    OBVIOUS
  <2>1. vec[cells[r][i]].queue_id = r /\ cells[r] \in Seq(Banks!Places)
    BY <1>1, <1>links
  <2>2. cells[r][i] \in Banks!Places
    BY <2>1
  <2>3. Banks!Free.queue_id = Banks!NoList /\ r # Banks!NoList
    BY NotThere DEF Banks!Free
  <2> QED
    BY <2>1, <2>2, <2>3
<1>6. n # 0 => prev = cells[q][n] /\ n \in 1 .. n /\ prev \in Banks!Places /\ prev # Banks!NoPlace
  <2> SUFFICES ASSUME n # 0
               PROVE  /\ prev = cells[q][n] /\ n \in 1 .. n
                      /\ prev \in Banks!Places /\ prev # Banks!NoPlace
    OBVIOUS
  <2>1. n \in 1 .. n
    BY <1>2
  <2> HIDE DEF n
  <2> QED
    BY <1>5, <2>1, NotThere DEF n
<1>7. n = 0 => prev = Banks!NoPlace
  OBVIOUS
<1>8. \A r \in Lists : \A i \in 1 .. Len(cells[r]) : cells[r][i] = prev <=> r = q /\ i = n
  <2> SUFFICES ASSUME NEW r \in Lists, NEW i \in 1 .. Len(cells[r])
               PROVE  cells[r][i] = prev <=> r = q /\ i = n
    OBVIOUS
  <2>1. CASE n = 0
    <3>1. cells[r][i] # prev
      BY <1>5, <1>7, <2>1, NotThere
    <3>2. ~ (r = q /\ i = n)
      BY <1>2, <2>1
    <3> QED
      BY <3>1, <3>2
  <2>2. CASE n # 0
    <3>1. prev = cells[q][n] /\ n \in 1 .. Len(cells[q])
      BY <1>6, <2>2
    <3> HIDE DEF n, more
    <3> QED
      BY <1>once, <3>1
  <2> QED
    BY <2>1, <2>2
<1> HIDE DEF more, n
<1>9. \A p \in Banks!Places :
        vec2[p] = IF p = place THEN [queue_id |-> q, next |-> Banks!NoPlace]
                  ELSE IF p = prev THEN [vec[p] EXCEPT !.next = place] ELSE vec[p]
  OBVIOUS
<1>10. \A p \in Banks!Places : vec[p] \in SliceRecord /\ vec[p].queue_id \in Lists \cup {Banks!NoList}
  BY <1>1 DEF SliceRecord
<1>11. \A p \in Banks!Places : /\ [vec[p] EXCEPT !.next = place] \in SliceRecord
                               /\ [vec[p] EXCEPT !.next = place].queue_id = vec[p].queue_id
                               /\ [vec[p] EXCEPT !.next = place].next = place
  BY <1>10 DEF SliceRecord
<1>12. vec2 \in [Banks!Places -> SliceRecord]
  <2>1. [queue_id |-> q, next |-> Banks!NoPlace] \in SliceRecord
    BY DEF SliceRecord
  <2> QED
    BY <1>10, <1>11, <2>1
<1>13. ASSUME NEW r \in Lists
       PROVE Len(more[r]) <= WriteSlices /\ map2[r].place = First(more[r])
  <2>1. CASE r # q
    BY <1>1, <1>3, <2>1
  <2>2. CASE r = q
    <3>1. n + 1 <= WriteSlices
      BY <1>2 DEF n
    <3>2. more[q] # << >>
      BY <1>2, <1>4
    <3>3. map2[q].place = more[q][1]
      <4>1. CASE n = 0
        BY <1>4, <1>7, <4>1
      <4>2. CASE n # 0
        <5>1. 1 \in 1 .. n /\ cells[q] # << >>
          BY <1>2, <4>2 DEF n
        <5> QED
          BY <1>1, <1>4, <1>6, <4>2, <5>1 DEF First
      <4> QED
        BY <4>1, <4>2
    <3> QED
      BY <1>4, <2>2, <3>1, <3>2, <3>3 DEF First
  <2> QED
    BY <2>1, <2>2
<1>14. ASSUME NEW r \in Lists, NEW i \in 1 .. Len(more[r])
       PROVE  \/ i \in 1 .. Len(cells[r]) /\ more[r][i] = cells[r][i]
              \/ r = q /\ i = n + 1 /\ more[r][i] = place
  <2>1. CASE r # q
    BY <1>3, <2>1
  <2>2. CASE r = q
    <3>1. i \in 1 .. n + 1
      BY <1>4, <2>2
    <3>2. i \in 1 .. n \/ i = n + 1
      BY <1>2, <3>1
    <3> QED
      BY <1>4, <2>2, <3>2 DEF n
  <2> QED
    BY <2>1, <2>2
<1>15. ASSUME NEW r \in Lists, NEW s \in Lists, NEW i \in 1 .. Len(more[r]), NEW j \in 1 .. Len(more[s]),
              more[r][i] = more[s][j]
       PROVE  r = s /\ i = j
  <2>1. \/ i \in 1 .. Len(cells[r]) /\ more[r][i] = cells[r][i]
        \/ r = q /\ i = n + 1 /\ more[r][i] = place
    BY <1>14
  <2>2. \/ j \in 1 .. Len(cells[s]) /\ more[s][j] = cells[s][j]
        \/ s = q /\ j = n + 1 /\ more[s][j] = place
    BY <1>14
  <2>3. CASE r = q /\ i = n + 1 /\ more[r][i] = place
    BY <1>5, <1>15, <2>2, <2>3
  <2>4. CASE s = q /\ j = n + 1 /\ more[s][j] = place
    BY <1>5, <1>15, <2>1, <2>4
  <2>5. CASE /\ i \in 1 .. Len(cells[r]) /\ more[r][i] = cells[r][i]
             /\ j \in 1 .. Len(cells[s]) /\ more[s][j] = cells[s][j]
    <3>1. cells[r][i] = cells[s][j]
      BY <1>15, <2>5
    <3> QED
      BY <1>once, <2>5, <3>1
  <2> QED
    BY <2>1, <2>2, <2>3, <2>4, <2>5
<1>16. ASSUME NEW r \in Lists, NEW i \in 1 .. Len(more[r])
       PROVE  /\ vec2[more[r][i]].queue_id = r
              /\ vec2[more[r][i]].next = IF i = Len(more[r]) THEN Banks!NoPlace ELSE more[r][i + 1]
  <2>1. CASE r = q /\ i = n + 1 /\ more[r][i] = place
    BY <1>4, <1>9, <2>1
  <2>2. CASE i \in 1 .. Len(cells[r]) /\ more[r][i] = cells[r][i]
    <3>1. /\ vec[cells[r][i]].queue_id = r /\ cells[r][i] \in Banks!Places /\ cells[r][i] # place
          /\ vec[cells[r][i]].next = IF i = Len(cells[r]) THEN Banks!NoPlace ELSE cells[r][i + 1]
      BY <1>links, <1>5, <2>2
    <3>2. CASE r = q /\ i = n
      <4>1. vec2[cells[r][i]] = [vec[cells[r][i]] EXCEPT !.next = place]
        BY <1>8, <1>9, <2>2, <3>1, <3>2
      <4>2. i # Len(more[r]) /\ more[r][i + 1] = place
        BY <1>2, <1>4, <3>2
      <4> QED
        BY <1>11, <2>2, <3>1, <4>1, <4>2
    <3>3. CASE ~ (r = q /\ i = n)
      <4>1. vec2[cells[r][i]] = vec[cells[r][i]]
        BY <1>8, <1>9, <2>2, <3>1, <3>3
      <4>2. CASE r # q
        BY <1>3, <2>2, <3>1, <4>1, <4>2
      <4>3. CASE r = q
        <5>1. i # n /\ i \in 1 .. n /\ Len(more[r]) = n + 1
          BY <1>4, <2>2, <3>3, <4>3 DEF n
        <5>2. i # Len(more[r]) /\ i + 1 \in 1 .. n
          BY <1>2, <5>1
        <5>3. more[r][i + 1] = cells[r][i + 1]
          BY <1>4, <4>3, <5>2
        <5> QED
          BY <2>2, <3>1, <4>1, <4>3, <5>1, <5>2, <5>3 DEF n
      <4> QED
        BY <4>2, <4>3
    <3> QED
      BY <3>2, <3>3
  <2> QED
    BY <1>14, <2>1, <2>2
<1>17. ASSUME NEW p \in Banks!Places, vec2[p] # Banks!Free
       PROVE  \E r \in Lists : \E i \in 1 .. Len(more[r]) : more[r][i] = p
  <2>1. CASE p = place
    <3>1. n + 1 \in 1 .. Len(more[q])
      BY <1>2, <1>4
    <3> QED
      BY <1>4, <2>1, <3>1
  <2>2. CASE p # place
    <3>1. \E r \in Lists : \E i \in 1 .. Len(cells[r]) : cells[r][i] = p
      <4>1. CASE p = prev
        <5>1. n # 0
          BY <1>7, <4>1, NotThere
        <5> QED
          BY <1>6, <4>1, <5>1 DEF n
      <4>2. CASE p # prev
        BY <1>all, <1>9, <1>17, <2>2, <4>2
      <4> QED
        BY <4>1, <4>2
    <3> PICK r \in Lists : \E i \in 1 .. Len(cells[r]) : cells[r][i] = p
      BY <3>1
    <3>2. PICK i \in 1 .. Len(cells[r]) : cells[r][i] = p
      OBVIOUS
    <3>3. i \in 1 .. Len(more[r]) /\ more[r][i] = p
      <4>1. CASE r # q
        BY <1>3, <3>2, <4>1
      <4>2. CASE r = q
        <5>1. i \in 1 .. n /\ i \in 1 .. n + 1
          BY <1>2, <4>2 DEF n
        <5> QED
          BY <1>4, <3>2, <4>2, <5>1
      <4> QED
        BY <4>1, <4>2
    <3> QED
      BY <3>3
  <2> QED
    BY <2>1, <2>2
<1>18. Chains(more, map2, vec2)
  BY <1>3, <1>12, <1>13, <1>15, <1>16, <1>17 DEF Chains
<1>19. ASSUME NEW p \in Banks!Places  PROVE vec2[p] = Banks!Free <=> p # place /\ vec[p] = Banks!Free
  <2>1. Banks!Free.queue_id = Banks!NoList /\ q # Banks!NoList
    BY NotThere DEF Banks!Free
  <2>2. CASE p = place
    BY <1>9, <2>1, <2>2
  <2>3. CASE p # place /\ p # prev
    BY <1>9, <2>3
  <2>4. CASE p # place /\ p = prev
    <3>1. n # 0
      BY <1>7, <2>4, NotThere
    <3>2. vec[p].queue_id = q
      BY <1>links, <1>6, <2>4, <3>1 DEF n
    <3>3. vec2[p].queue_id = q
      BY <1>9, <1>11, <2>4, <3>2
    <3> QED
      BY <2>1, <3>2, <3>3
  <2> QED
    BY <2>2, <2>3, <2>4
<1> QED
  BY <1>18, <1>19 DEF more, OneLess

\* The bank of a cell that is written has one free slice less.
LEMMA CountedWrite ==
  ASSUME BankAssumption, NEW vec, NEW deep, NEW vec2, NEW deep2, NEW place \in Banks!Places,
         Counted(vec, deep), vec[place] = Banks!Free,
         OneLess(vec2, vec, place), deep2 = Taken(deep, place[1])
  PROVE  Counted(vec2, deep2)
<1> USE DEF OneLess, Taken
<1>1. IsFiniteSet(Banks!Slices)
  <2>1. 0 \in Int /\ SliceNum - 1 \in Int
    BY DEF BankAssumption
  <2> QED
    BY <2>1, FS_Interval DEF Banks!Slices
<1>2. ASSUME NEW b \in Banks!Banks
      PROVE  deep2[b] \in 0 .. SliceNum /\ deep2[b] = Cardinality(FreeIn(b, vec2))
  <2>1. /\ deep[b] \in 0 .. SliceNum /\ deep[b] = Cardinality(FreeIn(b, vec))
        /\ deep \in [Banks!Banks -> 0 .. SliceNum] /\ SliceNum \in Nat
    BY DEF Counted, BankAssumption
  <2>2. /\ place[1] \in Banks!Banks /\ place[2] \in Banks!Slices /\ place = <<place[1], place[2]>>
    BY NotThere
  <2>3. \A j \in Banks!Slices : <<b, j>> \in Banks!Places
    BY DEF Banks!Places
  <2>4. CASE b = place[1]
    <3>1. FreeIn(b, vec2) = FreeIn(b, vec) \ {place[2]}
      BY <2>2, <2>3, <2>4 DEF FreeIn
    <3>2. place[2] \in FreeIn(b, vec)
      BY <2>2, <2>4 DEF FreeIn
    <3>3. IsFiniteSet(FreeIn(b, vec))
      BY <1>1, FS_Subset DEF FreeIn
    <3>4. Cardinality(FreeIn(b, vec2)) = Cardinality(FreeIn(b, vec)) - 1
      <4>1. Cardinality(FreeIn(b, vec) \ {place[2]}) = Cardinality(FreeIn(b, vec)) - 1
        BY <3>2, <3>3, FS_RemoveElement
      <4> QED
        BY <3>1, <4>1
    <3>5. deep2[b] = deep[b] - 1
      BY <2>1, <2>4
    <3>6. deep[b] # 0
      BY <2>1, <3>2, <3>3, FS_EmptySet
    <3> QED
      BY <2>1, <3>4, <3>5, <3>6
  <2>5. CASE b # place[1]
    <3>1. FreeIn(b, vec2) = FreeIn(b, vec)
      BY <2>2, <2>3, <2>5 DEF FreeIn
    <3>2. deep2[b] = deep[b]
      BY <2>1, <2>5
    <3> QED
      BY <2>1, <3>1, <3>2
  <2> QED
    BY <2>4, <2>5
<1>3. deep2 \in [Banks!Banks -> 0 .. SliceNum]
  <2>1. \A b \in Banks!Banks : deep2[b] \in 0 .. SliceNum
    BY <1>2
  <2>2. deep \in [Banks!Banks -> 0 .. SliceNum]
    BY DEF Counted
  <2>3. DOMAIN deep2 = Banks!Banks /\ deep2 = [b \in Banks!Banks |-> deep2[b]]
    BY <2>2
  <2> QED
    BY <2>1, <2>3
<1> HIDE DEF Counted
<1> QED
  BY <1>2, <1>3 DEF Counted

\* The bank that is chosen has a free slice, when bank 0 has one.
LEMMA ChosenHasRoom ==
  ASSUME BankAssumption, NEW st, Counted(st.vec, st.deep)
  PROVE  Banks!WriteBank(st) \in Banks!Banks /\ (st.deep[0] > 0 => Banks!FreeSlices(st) # {})
<1> DEFINE open == {b \in Banks!Banks \ st.reading : st.deep[b] > 0}
           deepest == {b \in open : \A c \in open : st.deep[b] >= st.deep[c]}
<1>1. Banks!WriteBank(st) = IF deepest = {} THEN 0 ELSE Banks!Min(deepest)
  BY DEF Banks!WriteBank
<1>2. 0 \in Banks!Banks /\ deepest \subseteq Banks!Banks /\ Banks!Banks \subseteq Nat
      /\ \A b \in deepest : st.deep[b] > 0
  BY DEF Banks!Banks
<1> HIDE DEF deepest
<1>3. deepest # {} => Banks!Min(deepest) \in deepest
  <2> SUFFICES ASSUME deepest # {}  PROVE Banks!Min(deepest) \in deepest
    OBVIOUS
  <2>1. \E x \in deepest : \A y \in deepest : x <= y
    BY <1>2, LeastNat
  <2> QED
    BY <2>1 DEF Banks!Min
<1>4. Banks!WriteBank(st) \in Banks!Banks /\ (st.deep[0] > 0 => st.deep[Banks!WriteBank(st)] > 0)
  BY <1>1, <1>2, <1>3
<1>5. Banks!FreeSlices(st) = FreeIn(Banks!WriteBank(st), st.vec)
  BY DEF Banks!FreeSlices, FreeIn
<1> HIDE DEF Counted
<1> QED
  BY <1>4, <1>5, SliceFree

\* The least free slice is one of them.
LEMMA LeastFree ==
  ASSUME BankAssumption, NEW st, Banks!FreeSlices(st) # {}
  PROVE  /\ Banks!Min(Banks!FreeSlices(st)) \in Banks!FreeSlices(st)
         /\ Banks!Min(Banks!FreeSlices(st)) \in Banks!Slices
<1>1. Banks!FreeSlices(st) \subseteq Banks!Slices /\ Banks!Slices \subseteq Nat
  BY DEF Banks!FreeSlices, Banks!Slices, BankAssumption
<1>2. \E x \in Banks!FreeSlices(st) : \A y \in Banks!FreeSlices(st) : x <= y
  BY <1>1, LeastNat
<1>3. Banks!Min(Banks!FreeSlices(st)) \in Banks!FreeSlices(st)
  BY <1>2 DEF Banks!Min
<1> QED
  BY <1>1, <1>3

\* The writer, when its bank has room.
LEMMA WriteSound ==
  ASSUME BankAssumption, NEW st, NEW cells,
         Sound(cells, st.heads, st.que, st.map, st.vec, st.deep),
         encode_que # << >> => Banks!FreeSlices(st) # {},
         decode_que_head' = st.heads, Banks!Write(st)
  PROVE  BankInv'
<1>1. /\ Chains(cells, st.map, st.vec) /\ Counted(st.vec, st.deep)
      /\ Queues(st.heads, st.que) /\ Filled(cells, st.heads, st.que) /\ Writing(cells)
  BY DEF Sound
<1>2. CASE encode_que = << >>
  <2>1. /\ encode_vec' = st.vec /\ bank_deep_vec' = st.deep /\ queue_map' = st.map
        /\ decode_que' = st.que /\ decode_que_head' = st.heads
        /\ encode_que' = encode_que /\ written' = written /\ last' = last
    BY <1>2 DEF Banks!Write
  <2>2. Chains(cells, queue_map', encode_vec') /\ Counted(encode_vec', bank_deep_vec')
    BY <1>1, <2>1
  <2>3. Queues(decode_que_head, decode_que)'
    BY <1>1, <2>1 DEF Queues
  <2>4. Filled(cells, decode_que_head, decode_que)'
    BY <1>1, <2>1 DEF Filled
  <2>5. Writing(cells)'
    BY <1>1, <2>1 DEF Writing
  <2> QED
    BY <2>2, <2>3, <2>4, <2>5 DEF BankInv, Sound
<1>3. CASE encode_que # << >>
  <2>q. PICK q : q = Head(encode_que)
    OBVIOUS
  <2>n. PICK n : n = Len(cells[q])
    OBVIOUS
  <2>p. PICK place : place = <<Banks!WriteBank(st), Banks!Min(Banks!FreeSlices(st))>>
    OBVIOUS
  <2>m. PICK more : more = Longer(cells, q, place)
    OBVIOUS
  <2>1. /\ encode_que \in Seq(Lists) /\ q \in ToSet(encode_que) /\ q \in Lists /\ q = encode_que[1]
        /\ Tail(encode_que) \in Seq(Lists) /\ IsInjective(Tail(encode_que))
        /\ ToSet(Tail(encode_que)) = ToSet(encode_que) \ {q}
        /\ \A i \in 1 .. Len(encode_que) - 1 : Tail(encode_que)[i] = encode_que[i + 1]
        /\ Len(Tail(encode_que)) = Len(encode_que) - 1 /\ Len(encode_que) \in Nat \ {0}
    <3>1. encode_que \in Seq(Lists) /\ IsInjective(encode_que)
      BY <1>1 DEF Queues
    <3> QED
      BY <1>3, <2>q, <3>1, ToSetTail, ToSetRange, TailIs
  <2>2. /\ cells \in [Lists -> Seq(Banks!Places)] /\ n = written /\ n \in Nat /\ n < WriteSlices
        /\ last = IF n = 0 THEN Banks!NoPlace ELSE cells[q][n]
        /\ WriteSlices \in Nat \ {0} /\ written \in Nat
    BY <1>1, <1>3, <2>q, <2>n DEF Writing, BankAssumption, Chains
  <2>3. Banks!WriteBank(st) \in Banks!Banks /\ Banks!FreeSlices(st) # {}
    BY <1>1, <1>3, ChosenHasRoom
  <2>4. /\ place \in Banks!Places /\ st.vec[place] = Banks!Free
        /\ place[1] = Banks!WriteBank(st)
    BY <2>3, <2>p, LeastFree DEF Banks!Places, Banks!FreeSlices
  <2>5. Banks!WriteCell(st, q)
    BY <1>3, <2>q, <2>3 DEF Banks!Write
  <2>6. /\ \/ written + 1 = WriteSlices /\ written' = 0 /\ encode_que' = Tail(encode_que)
              /\ decode_que' = Append(st.que, q)
           \/ written + 1 # WriteSlices /\ written' = written + 1 /\ encode_que' = encode_que
              /\ decode_que' = st.que
        /\ last' = IF written + 1 = WriteSlices THEN Banks!NoPlace ELSE place
    BY <1>3, <2>q, <2>p, <2>3 DEF Banks!Write, Banks!WriteCell, Banks!LastAfter
  <2>7. /\ encode_vec' = Banks!Chain(st, q, place) /\ bank_deep_vec' = [st.deep EXCEPT ![place[1]] = @ - 1]
        /\ queue_map' = IF last = Banks!NoPlace
                        THEN [st.map EXCEPT ![q] = [place |-> place, counter |-> Delay, delay |-> 0]]
                        ELSE st.map
    BY <2>5, <2>p DEF Banks!WriteCell
  <2>8. Chains(more, queue_map', encode_vec') /\ Counted(encode_vec', bank_deep_vec')
    <3>1. /\ st.vec \in [Banks!Places -> SliceRecord] /\ st.map \in [Lists -> InfoRecord]
      BY <1>1 DEF Chains
    <3>2. last # Banks!NoPlace => last \in Banks!Places
      <4>1. CASE n = 0
        BY <2>2, <4>1
      <4>2. CASE n # 0
        <5>1. cells[q] \in Seq(Banks!Places) /\ n \in 1 .. Len(cells[q])
          BY <2>1, <2>n, <2>2, <4>2
        <5> QED
          BY <2>2, <4>2, <5>1
      <4> QED
        BY <4>1, <4>2
    <3>3. encode_vec' = Linked(st.vec, last, q, place)
      <4>1. CASE last # Banks!NoPlace
        BY <2>4, <2>7, <3>1, <3>2, <4>1 DEF Banks!Chain, Linked
      <4>2. CASE last = Banks!NoPlace
        <5>1. last \notin Banks!Places
          BY <4>2, NotThere
        <5> QED
          BY <2>4, <2>7, <3>1, <4>2, <5>1 DEF Banks!Chain, Linked
      <4> QED
        BY <4>1, <4>2
    <3>4. [place |-> place, counter |-> Delay, delay |-> 0] \in InfoRecord
      BY <2>4 DEF InfoRecord, BankAssumption
    <3>5. /\ queue_map' \in [Lists -> InfoRecord] /\ \A r \in Lists \ {q} : queue_map'[r] = st.map[r]
          /\ queue_map'[q].place = IF last = Banks!NoPlace THEN place ELSE st.map[q].place
      BY <2>1, <2>7, <3>1, <3>4
    <3>6. Chains(more, queue_map', encode_vec') /\ OneLess(encode_vec', st.vec, place)
      <4>1. Len(cells[q]) < WriteSlices /\ last = LastOf(cells[q])
        BY <2>n, <2>2 DEF LastOf
      <4>2. Entered(queue_map', st.map, last, q, place)
        BY <3>5 DEF Entered
      <4> QED
        BY <1>1, <2>1, <2>m, <2>4, <3>3, <4>1, <4>2, ChainsWrite
    <3>7. Counted(encode_vec', bank_deep_vec')
      <4>1. bank_deep_vec' = Taken(st.deep, place[1])
        BY <2>7 DEF Taken
      <4> QED
        BY <1>1, <2>4, <3>6, <4>1, CountedWrite
    <3> QED
      BY <3>6, <3>7
  <2>9. /\ more \in [Lists -> Seq(Banks!Places)] /\ Len(more[q]) = n + 1 /\ more[q][n + 1] = place
        /\ more[q] # << >>
        /\ \A r \in Lists \ {q} : more[r] = cells[r]
    <3>1. cells[q] \in Seq(Banks!Places) /\ more[q] = Append(cells[q], place)
          /\ more \in [Lists -> Seq(Banks!Places)] /\ \A r \in Lists \ {q} : more[r] = cells[r]
      <4>1. cells \in [Lists -> Seq(Banks!Places)]
        BY <2>1, <2>2
      <4>2. Append(cells[q], place) \in Seq(Banks!Places)
        BY <2>1, <2>4, <4>1
      <4> QED
        BY <2>1, <2>m, <4>1, <4>2 DEF Longer
    <3>2. Len(Append(cells[q], place)) = n + 1 /\ Append(cells[q], place)[n + 1] = place
      BY <2>n, <2>4, <3>1
    <3>3. more[q] # << >>
      <4>1. Len(<< >>) = 0 /\ n + 1 # 0
        BY <2>2
      <4> QED
        BY <3>1, <3>2, <4>1
    <3> QED
      BY <3>1, <3>2, <3>3
  <2>10. q \notin ToSet(st.que) /\ q \notin ToSet(st.heads)
         /\ ToSet(st.que) \subseteq Lists /\ ToSet(st.heads) \subseteq Lists
         /\ ToSet(encode_que) \subseteq Lists /\ st.que \in Seq(Lists)
    BY <1>1, <2>1, ToSetRange DEF Queues
  <2>11. /\ \A r \in ToSet(st.que) : Len(more[r]) = WriteSlices
         /\ \A r \in ToSet(st.heads) : more[r] # << >>
         /\ \A i \in 2 .. Len(encode_que) : more[encode_que[i]] = << >> /\ encode_que[i] \in Lists
         /\ \A r \in Lists : r \notin ToSet(encode_que) \cup ToSet(st.que) \cup ToSet(st.heads)
                               => more[r] = << >>
    <3>1. \A i \in 2 .. Len(encode_que) : encode_que[i] \in Lists /\ encode_que[i] # q
      <4> SUFFICES ASSUME NEW i \in 2 .. Len(encode_que)
                   PROVE  encode_que[i] \in Lists /\ encode_que[i] # q
        OBVIOUS
      <4>1. i - 1 \in 1 .. Len(encode_que) - 1 /\ (i - 1) + 1 = i
        BY <2>1
      <4>2. Tail(encode_que)[i - 1] = encode_que[i] /\ i - 1 \in 1 .. Len(Tail(encode_que))
        <5>1. Tail(encode_que)[i - 1] = encode_que[(i - 1) + 1]
          BY <2>1, <4>1
        <5> QED
          BY <2>1, <4>1, <5>1
      <4>3. encode_que[i] \in ToSet(Tail(encode_que))
        <5>1. ToSet(Tail(encode_que)) = {Tail(encode_que)[k] : k \in 1 .. Len(Tail(encode_que))}
          BY <2>1, ToSetRange
        <5> QED
          BY <4>2, <5>1
      <4> QED
        BY <2>1, <2>10, <4>3
    <3>2. /\ \A r \in ToSet(st.que) : Len(cells[r]) = WriteSlices
          /\ \A r \in ToSet(st.heads) : cells[r] # << >>
          /\ \A i \in 2 .. Len(encode_que) : cells[encode_que[i]] = << >>
          /\ \A r \in Lists : r \notin ToSet(encode_que) \cup ToSet(st.que) \cup ToSet(st.heads)
                               => cells[r] = << >>
      BY <1>1 DEF Filled
    <3> QED
      BY <2>1, <2>9, <2>10, <3>1, <3>2
  <2>12. /\ st.heads \in Seq(Lists) /\ IsInjective(st.que) /\ IsInjective(encode_que)
         /\ Len(st.heads) <= LinkNum
         /\ ToSet(st.heads) \cap ToSet(st.que) = {}
         /\ ToSet(encode_que) \cap (ToSet(st.heads) \cup ToSet(st.que)) = {}
    BY <1>1 DEF Queues
  <2>13. CASE written + 1 = WriteSlices
    <3>t. PICK t : t = Tail(encode_que)
      OBVIOUS
    <3>d. PICK d : d = Append(st.que, q)
      OBVIOUS
    <3>1. /\ d \in Seq(Lists) /\ ToSet(d) = ToSet(st.que) \cup {q} /\ IsInjective(d)
      BY <2>1, <2>10, <2>12, <3>d, ToSetAppend, InjectiveAppend
    <3>2. /\ encode_que' = t /\ decode_que' = d /\ decode_que_head' = st.heads
          /\ written' = 0 /\ last' = Banks!NoPlace
      BY <2>6, <2>13, <3>t, <3>d
    <3>3. /\ t \in Seq(Lists) /\ IsInjective(t) /\ ToSet(t) = ToSet(encode_que) \ {q}
          /\ \A i \in 1 .. Len(encode_que) - 1 : t[i] = encode_que[i + 1]
          /\ Len(t) = Len(encode_que) - 1 /\ Len(encode_que) \in Nat \ {0}
      BY <2>1, <3>t
    <3>4. Queues(decode_que_head, decode_que)'
      <4>1. /\ ToSet(st.heads) \cap ToSet(d) = {}
            /\ ToSet(t) \cap (ToSet(st.heads) \cup ToSet(d)) = {}
        BY <2>10, <2>12, <3>1, <3>3
      <4> QED
        BY <2>12, <3>1, <3>2, <3>3, <4>1 DEF Queues
    <3>5. Filled(more, decode_que_head, decode_que)'
      <4>1. \A r \in ToSet(d) : Len(more[r]) = WriteSlices
        BY <2>2, <2>9, <2>11, <2>13, <3>1
      <4>2. \A i \in 2 .. Len(t) : more[t[i]] = << >>
        <5> SUFFICES ASSUME NEW i \in 2 .. Len(t)  PROVE more[t[i]] = << >>
          OBVIOUS
        <5>1. i \in 1 .. Len(encode_que) - 1 /\ i + 1 \in 2 .. Len(encode_que)
          BY <3>3
        <5>2. t[i] = encode_que[i + 1]
          BY <3>3, <5>1
        <5> QED
          BY <2>11, <5>1, <5>2
      <4>3. \A r \in Lists : r \notin ToSet(t) \cup ToSet(d) \cup ToSet(st.heads) => more[r] = << >>
        BY <2>11, <3>1, <3>3
      <4> QED
        BY <2>11, <3>2, <4>1, <4>2, <4>3 DEF Filled
    <3>6. Writing(more)'
      <4>1. t # << >> => Len(more[Head(t)]) = 0
        <5> SUFFICES ASSUME t # << >>  PROVE Len(more[Head(t)]) = 0
          OBVIOUS
        <5>1. Head(t) = t[1] /\ Len(t) > 0
          BY <3>3, ToSetRange
        <5>2. 1 \in 1 .. Len(encode_que) - 1 /\ 1 + 1 \in 2 .. Len(encode_que)
          BY <3>3, <5>1
        <5>3. t[1] = encode_que[1 + 1]
          BY <3>3, <5>2
        <5>4. more[Head(t)] = << >>
          BY <2>11, <5>1, <5>2, <5>3
        <5> QED
          BY <5>4
      <4>2. 0 \in 0 .. WriteSlices - 1
        BY <2>2
      <4> QED
        BY <3>2, <4>1, <4>2 DEF Writing
    <3> QED
      BY <2>8, <3>4, <3>5, <3>6 DEF BankInv, Sound
  <2>14. CASE written + 1 # WriteSlices
    <3>1. /\ encode_que' = encode_que /\ decode_que' = st.que /\ decode_que_head' = st.heads
          /\ written' = written + 1 /\ last' = place
      BY <2>6, <2>14
    <3>2. Queues(decode_que_head, decode_que)'
      BY <2>1, <2>10, <2>12, <3>1 DEF Queues
    <3>3. Filled(more, decode_que_head, decode_que)'
      BY <2>11, <3>1 DEF Filled
    <3>4. Writing(more)'
      <4>1. /\ written + 1 \in 0 .. WriteSlices - 1 /\ written + 1 # 0
        BY <2>2, <2>14
      <4>2. Len(more[q]) = written + 1 /\ more[q][written + 1] = place
        BY <2>2, <2>9
      <4> QED
        BY <1>3, <2>q, <3>1, <4>1, <4>2 DEF Writing
    <3> QED
      BY <2>8, <3>2, <3>3, <3>4 DEF BankInv, Sound
  <2> QED
    BY <2>13, <2>14
<1> QED
  BY <1>2, <1>3

-----------------------------------------------------------------------------
(* The invariant holds, and says what ListsIntact says.                    *)

\* The slices of a list are its cells.
LEMMA OwnedIs ==
  ASSUME BankAssumption, NEW cells, Chains(cells, queue_map, encode_vec), NEW q \in Lists
  PROVE  /\ Banks!OwnedBy(q) = {cells[q][i] : i \in 1 .. Len(cells[q])}
         /\ Len(cells[q]) \in Nat /\ Banks!CellsLeft(q) = Len(cells[q])
<1> DEFINE c == cells[q]
           n == Len(c)
<1>1. /\ cells \in [Lists -> Seq(Banks!Places)]
      /\ \A r \in Lists : \A i \in 1 .. Len(cells[r]) : encode_vec[cells[r][i]].queue_id = r
      /\ \A p \in Banks!Places :
           encode_vec[p] = Banks!Free \/ \E r \in Lists : \E i \in 1 .. Len(cells[r]) : cells[r][i] = p
  BY DEF Chains
<1>once. \A i, j \in 1 .. n : c[i] = c[j] => i = j
  BY DEF Chains
<1>2. c \in Seq(Banks!Places) /\ n \in Nat /\ \A i \in 1 .. n : c[i] \in Banks!Places
  BY <1>1
<1>3. Banks!OwnedBy(q) = {c[i] : i \in 1 .. n}
  <2>1. ASSUME NEW p \in Banks!OwnedBy(q)  PROVE \E i \in 1 .. n : c[i] = p
    <3>1. p \in Banks!Places /\ encode_vec[p].queue_id = q
      BY DEF Banks!OwnedBy
    <3>2. encode_vec[p] # Banks!Free
      BY <3>1, NotThere DEF Banks!Free
    <3> PICK r \in Lists : \E i \in 1 .. Len(cells[r]) : cells[r][i] = p
      BY <1>1, <3>1, <3>2
    <3>3. PICK i \in 1 .. Len(cells[r]) : cells[r][i] = p
      OBVIOUS
    <3>4. r = q
      BY <1>1, <3>1, <3>3
    <3> QED
      BY <3>3, <3>4
  <2>2. \A i \in 1 .. n : c[i] \in Banks!OwnedBy(q)
    BY <1>1, <1>2 DEF Banks!OwnedBy
  <2> HIDE DEF c, n
  <2> QED
    BY <2>1, <2>2
<1>4. Banks!CellsLeft(q) = n
  <2> DEFINE f == [i \in 1 .. n |-> c[i]]
  <2>1. \A i, j \in 1 .. n : c[i] = c[j] => i = j
    BY <1>once
  <2> HIDE DEF c, n
  <2>2. f \in [1 .. n -> Banks!OwnedBy(q)]
    BY <1>3
  <2>3. \A i, j \in 1 .. n : f[i] = f[j] => i = j
    BY <2>1
  <2>4. \A p \in Banks!OwnedBy(q) : \E i \in 1 .. n : f[i] = p
    BY <1>3
  <2>5. Corresponds(f, 1 .. n, Banks!OwnedBy(q))
    <3> HIDE DEF f
    <3> QED
      BY <2>2, <2>3, <2>4, Zenon DEF Corresponds
  <2>6. IsFiniteSet(1 .. n) /\ Cardinality(1 .. n) = n
    <3>1. 1 \in Int /\ n \in Int
      BY <1>2
    <3>2. IsFiniteSet(1 .. n) /\ Cardinality(1 .. n) = IF 1 > n THEN 0 ELSE n - 1 + 1
      BY <3>1, FS_Interval
    <3>3. (IF 1 > n THEN 0 ELSE n - 1 + 1) = n
      BY <1>2
    <3> QED
      BY <3>2, <3>3
  <2> HIDE DEF f
  <2> QED
    BY <2>5, <2>6, SameSize, BankLibrary DEF Banks!CellsLeft
<1> QED
  BY <1>2, <1>3, <1>4

\* From its first cell on, a list is its cells.
LEMMA ChainedIs ==
  ASSUME BankAssumption, NEW cells, Chains(cells, queue_map, encode_vec), NEW q \in Lists,
         cells[q] # << >>
  PROVE  Banks!Chained(queue_map[q].place) =
           {cells[q][i] : i \in 1 .. Len(cells[q])} \cup {Banks!NoPlace}
<1> DEFINE c == cells[q]
           n == Len(c)
           W == WriteSlices
           p0 == queue_map[q].place
           At(f) == f = [k \in 0 .. WriteSlices |->
                           IF k = 0 THEN queue_map[q].place
                           ELSE LET before == f[k - 1]
                                IN IF before = Banks!NoPlace THEN Banks!NoPlace ELSE encode_vec[before].next]
           h == [k \in 0 .. W |-> IF k < n THEN c[k + 1] ELSE Banks!NoPlace]
<1>1. /\ c \in Seq(Banks!Places) /\ n \in Nat /\ n # 0 /\ n <= W /\ W \in Nat /\ p0 = c[1]
      /\ \A i \in 1 .. n : c[i] \in Banks!Places /\ c[i] # Banks!NoPlace
      /\ \A i \in 1 .. n : encode_vec[c[i]].next = IF i = n THEN Banks!NoPlace ELSE c[i + 1]
  <2>1. c \in Seq(Banks!Places) /\ p0 = First(c) /\ n <= W
    BY DEF Chains
  <2>2. \A i \in 1 .. n : encode_vec[c[i]].next = IF i = n THEN Banks!NoPlace ELSE c[i + 1]
    BY DEF Chains
  <2>3. n \in Nat /\ n # 0 /\ W \in Nat /\ p0 = c[1] /\ \A i \in 1 .. n : c[i] \in Banks!Places
    BY <2>1, FirstIs DEF BankAssumption
  <2> HIDE DEF c, n, p0, W
  <2> QED
    BY <2>1, <2>2, <2>3, NotThere
<1>2. \A k \in 0 .. W : h[k] = IF k < n THEN c[k + 1] ELSE Banks!NoPlace
  OBVIOUS
<1> HIDE DEF h
<1>3. ASSUME NEW k \in 1 .. W
      PROVE  h[k] = IF h[k - 1] = Banks!NoPlace THEN Banks!NoPlace ELSE encode_vec[h[k - 1]].next
  <2>1. k \in 0 .. W /\ k - 1 \in 0 .. W /\ (k - 1) + 1 = k /\ k \in Int
    BY <1>1
  <2> HIDE DEF c, n, W
  <2>2. CASE k - 1 < n
    <3>1. k \in 1 .. n
      BY <1>1, <2>1, <2>2
    <3>2. h[k - 1] = c[k]
      BY <1>2, <2>1, <2>2
    <3>3. k = n <=> ~ (k < n)
      BY <1>1, <3>1
    <3> QED
      BY <1>1, <1>2, <2>1, <3>1, <3>2, <3>3
  <2>3. CASE ~ (k - 1 < n)
    <3>1. ~ (k < n)
      BY <1>1, <2>1, <2>3
    <3> QED
      BY <1>2, <2>1, <2>3, <3>1
  <2> QED
    BY <2>2, <2>3
<1>4. h[0] = p0
  <2>1. 0 \in 0 .. W /\ 0 < n /\ 0 + 1 = 1
    BY <1>1
  <2> HIDE DEF c, n, p0, W
  <2> QED
    BY <1>1, <1>2, <2>1
<1>5. At(h)
  <2>1. h = [k \in 0 .. W |-> h[k]]
    BY DEF h
  <2>2. \A k \in 0 .. W : h[k] = IF k = 0 THEN p0
                                 ELSE IF h[k - 1] = Banks!NoPlace THEN Banks!NoPlace
                                      ELSE encode_vec[h[k - 1]].next
    <3> SUFFICES ASSUME NEW k \in 0 .. W
                 PROVE  h[k] = IF k = 0 THEN p0
                               ELSE IF h[k - 1] = Banks!NoPlace THEN Banks!NoPlace
                                    ELSE encode_vec[h[k - 1]].next
      OBVIOUS
    <3>1. k # 0 => k \in 1 .. W
      BY <1>1
    <3> HIDE DEF c, n, p0, W
    <3> QED
      BY <1>3, <1>4, <3>1
  <2> HIDE DEF c, n
  <2> QED
    BY <2>1, <2>2
<1> DEFINE g == CHOOSE f : At(f)
<1>6. At(g)
  <2> HIDE DEF At
  <2> QED
    BY <1>5
<1>7. Banks!Chained(queue_map[q].place) = {g[k] : k \in 0 .. W}
  BY DEF Banks!Chained
<1> HIDE DEF g
<1>8. Alike(g, h, W)
  <2> SUFFICES ASSUME NEW f, At(f)  PROVE Alike(f, h, W)
    BY <1>6
  <2>1. \A k \in 0 .. W : f[k] = IF k = 0 THEN p0
                                 ELSE IF f[k - 1] = Banks!NoPlace THEN Banks!NoPlace
                                      ELSE encode_vec[f[k - 1]].next
    OBVIOUS
  <2>2. 0 \in 0 .. W /\ \A k \in 1 .. W : k \in 0 .. W /\ k # 0
    BY <1>1
  <2> HIDE DEF At, c, n, p0, W
  <2>3. f[0] = h[0]
    BY <1>4, <2>1, <2>2
  <2>4. \A k \in 1 .. W : f[k - 1] = h[k - 1] => f[k] = h[k]
    BY <1>3, <2>1, <2>2
  <2> QED
    BY <2>3, <2>4 DEF Alike
<1> HIDE DEF At
<1>9. \A k \in 0 .. W : g[k] = h[k]
  <2> HIDE DEF W
  <2> QED
    BY <1>1, <1>8, RecursionUnique
<1>10. {g[k] : k \in 0 .. W} = {c[i] : i \in 1 .. n} \cup {Banks!NoPlace}
  <2>1. \A k \in 0 .. W : g[k] = IF k < n THEN c[k + 1] ELSE Banks!NoPlace
    BY <1>2, <1>9
  <2>2. ASSUME NEW k \in 0 .. W  PROVE g[k] \in {c[i] : i \in 1 .. n} \cup {Banks!NoPlace}
    <3>1. k < n => k + 1 \in 1 .. n
      BY <1>1
    <3> HIDE DEF c, n, W
    <3> QED
      BY <2>1, <3>1
  <2>3. ASSUME NEW i \in 1 .. n  PROVE \E k \in 0 .. W : g[k] = c[i]
    <3>1. i - 1 \in 0 .. W /\ i - 1 < n /\ (i - 1) + 1 = i
      BY <1>1
    <3> HIDE DEF c, n, W
    <3> QED
      BY <2>1, <3>1
  <2>4. \E k \in 0 .. W : g[k] = Banks!NoPlace
    <3>1. n \in 0 .. W /\ ~ (n < n)
      BY <1>1
    <3> HIDE DEF c, n, W
    <3> QED
      BY <2>1, <3>1
  <2> HIDE DEF c, n, W
  <2> QED
    BY <2>2, <2>3, <2>4
<1> QED
  BY <1>7, <1>10

LEMMA BankInvMeans ==
  ASSUME BankAssumption, BankInv
  PROVE  Banks!TypeOK /\ Banks!ListsIntact
<1>1. PICK cells : Sound(cells, decode_que_head, decode_que, queue_map, encode_vec, bank_deep_vec)
  BY DEF BankInv
<1>2. /\ Chains(cells, queue_map, encode_vec) /\ Counted(encode_vec, bank_deep_vec)
      /\ Queues(decode_que_head, decode_que) /\ Filled(cells, decode_que_head, decode_que)
      /\ Writing(cells)
  BY <1>1 DEF Sound
<1>3. /\ cells \in [Lists -> Seq(Banks!Places)]
      /\ encode_que \in Seq(Lists) /\ decode_que \in Seq(Lists) /\ decode_que_head \in Seq(Lists)
      /\ WriteSlices \in Nat \ {0}
  BY <1>2 DEF Chains, Queues, BankAssumption
<1>4. /\ ToSet(encode_que) \subseteq Lists /\ ToSet(decode_que) \subseteq Lists
      /\ ToSet(decode_que_head) \subseteq Lists
      /\ encode_que # << >> => Head(encode_que) \in Lists
  BY <1>3, ToSetRange
<1>5. \A q \in Lists :
        /\ Banks!OwnedBy(q) = {cells[q][i] : i \in 1 .. Len(cells[q])}
        /\ Len(cells[q]) \in Nat /\ Banks!CellsLeft(q) = Len(cells[q])
        /\ cells[q] = << >> <=> Len(cells[q]) = 0
        /\ cells[q] # << >> =>
             Banks!Chained(queue_map[q].place) =
              {cells[q][i] : i \in 1 .. Len(cells[q])} \cup {Banks!NoPlace}
  <2>1. \A q \in Lists : cells[q] = << >> <=> Len(cells[q]) = 0
    BY <1>3
  <2>2. \A q \in Lists : /\ Banks!OwnedBy(q) = {cells[q][i] : i \in 1 .. Len(cells[q])}
                         /\ Len(cells[q]) \in Nat /\ Banks!CellsLeft(q) = Len(cells[q])
    BY <1>2, OwnedIs
  <2>3. ASSUME NEW q \in Lists, cells[q] # << >>
        PROVE  Banks!Chained(queue_map[q].place) =
                 {cells[q][i] : i \in 1 .. Len(cells[q])} \cup {Banks!NoPlace}
    BY <1>2, <2>3, ChainedIs
  <2> QED
    BY <2>1, <2>2, <2>3
<1>6. last \in Banks!Places \cup {Banks!NoPlace}
  <2>1. CASE encode_que = << >> \/ written = 0
    BY <1>2, <2>1 DEF Writing
  <2>2. CASE encode_que # << >> /\ written # 0
    <3>1. /\ Len(cells[Head(encode_que)]) = written /\ last = cells[Head(encode_que)][written]
          /\ written \in 0 .. WriteSlices - 1
      BY <1>2, <2>2 DEF Writing
    <3>2. cells[Head(encode_que)] \in Seq(Banks!Places) /\ written \in 1 .. Len(cells[Head(encode_que)])
      <4>1. cells[Head(encode_que)] \in Seq(Banks!Places)
        BY <1>3, <1>4, <2>2
      <4>2. written \in 1 .. written
        BY <1>3, <2>2, <3>1
      <4> QED
        BY <3>1, <4>1, <4>2
    <3> QED
      BY <3>1, <3>2
  <2> QED
    BY <2>1, <2>2
<1>7. Banks!TypeOK
  <2>1. /\ queue_map \in [Lists -> InfoRecord] /\ encode_vec \in [Banks!Places -> SliceRecord]
        /\ bank_deep_vec \in [Banks!Banks -> 0 .. SliceNum] /\ written \in 0 .. WriteSlices - 1
    BY <1>2 DEF Chains, Counted, Writing
  <2> QED
    BY <1>3, <1>6, <2>1 DEF Banks!TypeOK, InfoRecord, SliceRecord
<1>8. Banks!ListsIntact
  <2>1. /\ \A q \in ToSet(decode_que) : Len(cells[q]) = WriteSlices
        /\ \A q \in ToSet(decode_que_head) : cells[q] # << >>
        /\ \A q \in Lists : q \notin ToSet(encode_que) \cup ToSet(decode_que) \cup ToSet(decode_que_head)
                              => cells[q] = << >>
    BY <1>2 DEF Filled
  <2>2. ASSUME NEW q \in Lists
        PROVE  IF Banks!CellsLeft(q) > 0
               THEN Banks!Chained(queue_map[q].place) = Banks!OwnedBy(q) \cup {Banks!NoPlace}
               ELSE q \notin ToSet(decode_que) \cup ToSet(decode_que_head)
    <3>1. Banks!CellsLeft(q) > 0 <=> cells[q] # << >>
      BY <1>5
    <3>2. q \in ToSet(decode_que) => cells[q] # << >>
      BY <1>3, <1>5, <2>1
    <3> QED
      BY <1>5, <2>1, <3>1, <3>2
  <2>3. \A q \in ToSet(decode_que) : Banks!CellsLeft(q) = WriteSlices
    BY <1>4, <1>5, <2>1
  <2>4. \A q \in Lists : Banks!CellsLeft(q) > 0 => q \in Banks!InUse
    BY <1>5, <2>1, BankLibrary DEF Banks!InUse
  <2>5. encode_que # << >> => Banks!CellsLeft(Head(encode_que)) = written
    BY <1>2, <1>4, <1>5 DEF Writing
  <2>6. \A b \in Banks!Banks :
          bank_deep_vec[b] = Cardinality({j \in Banks!Slices : encode_vec[<<b, j>>] = Banks!Free})
    BY <1>2 DEF Counted, FreeIn
  <2> QED
    BY <2>2, <2>3, <2>4, <2>5, <2>6, BankLibrary DEF Banks!ListsIntact
<1> QED
  BY <1>7, <1>8

LEMMA BankInit ==
  ASSUME BankAssumption, Banks!Init
  PROVE  BankInv
<1> DEFINE cells == [q \in Lists |-> << >>]
<1>1. /\ encode_que = << >> /\ decode_que = << >> /\ decode_que_head = << >>
      /\ queue_map = [q \in Lists |-> Banks!Absent] /\ encode_vec = [p \in Banks!Places |-> Banks!Free]
      /\ bank_deep_vec = [b \in Banks!Banks |-> SliceNum] /\ written = 0 /\ last = Banks!NoPlace
  BY DEF Banks!Init
<1>2. /\ 0 \in 0 .. Delay /\ 0 \in 0 .. LinkNum /\ 0 \in 0 .. WriteSlices - 1 /\ 0 <= WriteSlices
      /\ 0 <= LinkNum /\ SliceNum \in 0 .. SliceNum
  BY DEF BankAssumption
<1>3. Chains(cells, queue_map, encode_vec)
  <2>1. Banks!Absent \in InfoRecord /\ Banks!Absent.place = Banks!NoPlace
    BY <1>2 DEF Banks!Absent, InfoRecord
  <2>2. Banks!Free \in SliceRecord
    BY DEF Banks!Free, SliceRecord
  <2>3. cells \in [Lists -> Seq(Banks!Places)] /\ \A q \in Lists : cells[q] = << >>
    OBVIOUS
  <2>4. queue_map \in [Lists -> InfoRecord] /\ encode_vec \in [Banks!Places -> SliceRecord]
    BY <1>1, <2>1, <2>2
  <2>5. Len(<< >>) = 0 /\ First(<< >>) = Banks!NoPlace /\ 1 .. 0 = {}
    BY DEF First
  <2> HIDE DEF cells
  <2>6. \A q \in Lists : Len(cells[q]) <= WriteSlices /\ queue_map[q].place = First(cells[q])
                         /\ 1 .. Len(cells[q]) = {}
    BY <1>1, <1>2, <2>1, <2>3, <2>5
  <2>7. \A p \in Banks!Places : encode_vec[p] = Banks!Free
    BY <1>1
  <2> QED
    BY <2>3, <2>4, <2>6, <2>7 DEF Chains
<1>4. Counted(encode_vec, bank_deep_vec)
  <2>1. 0 \in Int /\ SliceNum - 1 \in Int
    BY DEF BankAssumption
  <2>2. Cardinality(0 .. SliceNum - 1) = SliceNum
    BY <2>1, FS_Interval DEF BankAssumption
  <2>3. \A b \in Banks!Banks : FreeIn(b, encode_vec) = Banks!Slices
    BY <1>1 DEF FreeIn, Banks!Places
  <2>4. bank_deep_vec \in [Banks!Banks -> 0 .. SliceNum] /\ \A b \in Banks!Banks : bank_deep_vec[b] = SliceNum
    BY <1>1, <1>2
  <2> QED
    BY <2>2, <2>3, <2>4 DEF Counted, Banks!Slices
<1>5. ToSet(<< >>) = {} /\ IsInjective(<< >>) /\ Len(<< >>) = 0
  BY DEF ToSet, IsInjective
<1>6. Queues(decode_que_head, decode_que)
  <2>1. << >> \in Seq(Lists)
    OBVIOUS
  <2> QED
    BY <1>1, <1>2, <1>5, <2>1 DEF Queues
<1>7. Filled(cells, decode_que_head, decode_que)
  <2>1. 2 .. 0 = {}
    OBVIOUS
  <2> QED
    BY <1>1, <1>5, <2>1 DEF Filled
<1>8. Writing(cells)
  BY <1>1, <1>2 DEF Writing
<1> HIDE DEF cells
<1> QED
  BY <1>3, <1>4, <1>6, <1>7, <1>8 DEF BankInv, Sound

\* A names a list that is not in use.
LEMMA BankNames ==
  ASSUME BankAssumption, BankInv, Banks!rcv_from
  PROVE  BankInv'
<1>1. PICK cells : Sound(cells, decode_que_head, decode_que, queue_map, encode_vec, bank_deep_vec)
  BY DEF BankInv
<1>2. /\ Chains(cells, queue_map, encode_vec) /\ Counted(encode_vec, bank_deep_vec)
      /\ Queues(decode_que_head, decode_que) /\ Filled(cells, decode_que_head, decode_que)
      /\ Writing(cells)
  BY <1>1 DEF Sound
<1>3. PICK q : q = Banks!Min(Lists \ Banks!InUse)
  OBVIOUS
<1>4. /\ encode_que \in Seq(Lists) /\ decode_que \in Seq(Lists) /\ decode_que_head \in Seq(Lists)
      /\ IsInjective(encode_que) /\ Len(encode_que) \in Nat
  BY <1>2 DEF Queues
<1>5. q \in Lists /\ q \notin Banks!InUse
  <2>1. Banks!InUse \subseteq Lists /\ Banks!InUse # Lists
    BY <1>4, ToSetRange, BankLibrary DEF Banks!InUse, Banks!rcv_from
  <2>2. Lists \ Banks!InUse \in SUBSET Nat /\ Lists \ Banks!InUse # {}
    BY <2>1 DEF BankAssumption
  <2>3. \E x \in Lists \ Banks!InUse : \A y \in Lists \ Banks!InUse : x <= y
    <3> DEFINE T == Lists \ Banks!InUse
    <3> HIDE DEF T
    <3>1. T \in SUBSET Nat /\ T # {}
      BY <2>2 DEF T
    <3>2. \E x \in T : \A y \in T : x <= y
      BY <3>1, LeastNat
    <3> QED
      BY <3>2 DEF T
  <2>4. Banks!Min(Lists \ Banks!InUse) \in Lists \ Banks!InUse
    BY <2>3 DEF Banks!Min
  <2> QED
    BY <1>3, <2>4
<1>6. PICK e : e = Append(encode_que, q)
  OBVIOUS
<1>7. /\ e \in Seq(Lists) /\ ToSet(e) = ToSet(encode_que) \cup {q} /\ IsInjective(e)
      /\ Len(e) = Len(encode_que) + 1 /\ e[Len(encode_que) + 1] = q
      /\ \A i \in 1 .. Len(encode_que) : e[i] = encode_que[i]
  <2>1. /\ Len(e) = Len(encode_que) + 1 /\ e[Len(encode_que) + 1] = q
        /\ \A i \in 1 .. Len(encode_que) : e[i] = encode_que[i]
    BY <1>4, <1>5, <1>6
  <2>2. q \notin ToSet(encode_que)
    BY <1>5, BankLibrary DEF Banks!InUse
  <2> QED
    BY <1>4, <1>5, <1>6, <2>1, <2>2, ToSetAppend, InjectiveAppend
<1>8. /\ encode_que' = e /\ decode_que' = decode_que /\ decode_que_head' = decode_que_head
      /\ queue_map' = queue_map /\ encode_vec' = encode_vec /\ bank_deep_vec' = bank_deep_vec
      /\ written' = written /\ last' = last
  BY <1>3, <1>6 DEF Banks!rcv_from
<1>9. cells[q] = << >>
  BY <1>2, <1>5, BankLibrary DEF Filled, Banks!InUse
<1>10. (Chains(cells, queue_map, encode_vec) /\ Counted(encode_vec, bank_deep_vec))'
  BY <1>2, <1>8 DEF Chains, Counted, FreeIn
<1>11. Queues(decode_que_head, decode_que)'
  <2>1. /\ IsInjective(decode_que) /\ Len(decode_que_head) <= LinkNum
        /\ ToSet(decode_que_head) \cap ToSet(decode_que) = {}
        /\ ToSet(encode_que) \cap (ToSet(decode_que_head) \cup ToSet(decode_que)) = {}
    BY <1>2 DEF Queues
  <2>2. ToSet(e) \cap (ToSet(decode_que_head) \cup ToSet(decode_que)) = {}
    BY <1>5, <1>7, <2>1, BankLibrary DEF Banks!InUse
  <2> QED
    BY <1>4, <1>7, <1>8, <2>1, <2>2 DEF Queues
<1>12. Filled(cells, decode_que_head, decode_que)'
  <2>1. \A i \in 2 .. Len(e) : cells[e[i]] = << >>
    <3> SUFFICES ASSUME NEW i \in 2 .. Len(e)  PROVE cells[e[i]] = << >>
      OBVIOUS
    <3>1. CASE i = Len(encode_que) + 1
      BY <1>7, <1>9, <3>1
    <3>2. CASE i # Len(encode_que) + 1
      <4>1. i \in 2 .. Len(encode_que) /\ i \in 1 .. Len(encode_que)
        BY <1>4, <1>7, <3>2
      <4>2. cells[encode_que[i]] = << >>
        BY <1>2, <4>1 DEF Filled
      <4> QED
        BY <1>7, <4>1, <4>2
    <3> QED
      BY <3>1, <3>2
  <2>2. /\ \A r \in ToSet(decode_que) : Len(cells[r]) = WriteSlices
        /\ \A r \in ToSet(decode_que_head) : cells[r] # << >>
        /\ \A r \in Lists : r \notin ToSet(e) \cup ToSet(decode_que) \cup ToSet(decode_que_head)
                              => cells[r] = << >>
    BY <1>2, <1>7 DEF Filled
  <2> QED
    BY <1>8, <2>1, <2>2 DEF Filled
<1>13. Writing(cells)'
  <2>1. e # << >> /\ Head(e) = e[1]
    <3>1. Len(e) # 0
      BY <1>4, <1>7
    <3>2. e # << >>
      BY <3>1
    <3> QED
      BY <1>7, <3>2, ToSetRange
  <2>2. CASE encode_que = << >>
    <3>1. Len(encode_que) = 0
      BY <2>2
    <3>2. Head(e) = q
      <4>1. 0 + 1 = 1
        OBVIOUS
      <4> QED
        BY <1>7, <2>1, <3>1, <4>1
    <3>3. Len(cells[q]) = 0
      BY <1>9
    <3>4. written = 0 /\ last = Banks!NoPlace /\ written \in 0 .. WriteSlices - 1
      BY <1>2, <2>2 DEF Writing
    <3> QED
      BY <1>8, <2>1, <3>2, <3>3, <3>4 DEF Writing
  <2>3. CASE encode_que # << >>
    <3>1. Head(e) = Head(encode_que)
      <4>1. Head(encode_que) = encode_que[1] /\ Len(encode_que) > 0
        BY <1>4, <2>3, ToSetRange
      <4>2. 1 \in 1 .. Len(encode_que)
        BY <1>4, <4>1
      <4> QED
        BY <1>7, <2>1, <4>1, <4>2
    <3> QED
      BY <1>2, <1>8, <2>1, <2>3, <3>1 DEF Writing
  <2> QED
    BY <2>2, <2>3
<1> QED
  BY <1>10, <1>11, <1>12, <1>13 DEF BankInv, Sound

\* What the cycles of B leave behind is sound again after the reads.
LEMMA ReadsSound ==
  ASSUME BankAssumption, NEW cells,
         Sound(cells, decode_que_head, decode_que, queue_map, encode_vec, bank_deep_vec),
         NEW st, st = Banks!AfterReads(Banks!Info, Banks!FirstOfBanks(Banks!Info))
  PROVE  \E rest : Sound(rest, st.heads, st.que, st.map, st.vec, st.deep)
<1>1. PICK readers : readers = Banks!FirstOfBanks(Banks!Info)
  OBVIOUS
<1>2. readers \in SUBSET ToSet(Banks!Heads)
  <2>1. Banks!Heads \in Seq(Lists)
    BY BeginReading DEF Sound, Queues
  <2> QED
    BY <1>1, <2>1, ReadersAreHeads
<1>3. PICK rest : rest = ReadOff(cells, readers)
  OBVIOUS
<1>4. Sound(rest, st.heads, st.que, st.map, st.vec, st.deep)
  BY <1>1, <1>2, <1>3, AfterReadsSound
<1> QED
  BY <1>4

\* A slice is found for the cell that is to be written in this cycle.
BankHasRoom ==
  encode_que # << >> =>
    Banks!FreeSlices(Banks!AfterReads(Banks!Info, Banks!FirstOfBanks(Banks!Info))) # {}

LEMMA BankCycle ==
  ASSUME BankAssumption, BankInv, BankHasRoom, Banks!process
  PROVE  BankInv'
<1>1. PICK cells : Sound(cells, decode_que_head, decode_que, queue_map, encode_vec, bank_deep_vec)
  BY DEF BankInv
<1>2. PICK st : /\ st = Banks!AfterReads(Banks!Info, Banks!FirstOfBanks(Banks!Info))
                /\ decode_que_head' = st.heads /\ Banks!Write(st)
  BY DEF Banks!process
<1>3. PICK rest : Sound(rest, st.heads, st.que, st.map, st.vec, st.deep)
  BY <1>1, <1>2, ReadsSound
<1> QED
  BY <1>2, <1>3, WriteSound DEF BankHasRoom

\* One bank can hold all cells of all lists.
Roomy == SliceNum >= WriteSlices * Cardinality(Lists)

\* Then a bank with no free slice would hold the cell that is yet to be written.
LEMMA RoomyIsOpen ==
  ASSUME BankAssumption, BankInv, Roomy, encode_que # << >>
  PROVE  bank_deep_vec[0] > 0
<1> SUFFICES ASSUME ~ (bank_deep_vec[0] > 0)  PROVE FALSE
  OBVIOUS
<1>1. PICK cells : Sound(cells, decode_que_head, decode_que, queue_map, encode_vec, bank_deep_vec)
  BY DEF BankInv
<1>2. /\ Chains(cells, queue_map, encode_vec) /\ Counted(encode_vec, bank_deep_vec)
      /\ Queues(decode_que_head, decode_que) /\ Writing(cells)
  BY <1>1 DEF Sound
<1> DEFINE q == Head(encode_que)
           Cells == Lists \X (1 .. WriteSlices)
           Used == Cells \ {<<q, WriteSlices>>}
<1>3. /\ SliceNum \in Nat \ {0} /\ WriteSlices \in Nat \ {0} /\ IsFiniteSet(Lists) /\ 0 \in Banks!Banks
  BY DEF BankAssumption, Banks!Banks
<1>4. /\ cells \in [Lists -> Seq(Banks!Places)] /\ \A r \in Lists : Len(cells[r]) <= WriteSlices
      /\ \A p \in Banks!Places :
           encode_vec[p] = Banks!Free \/ \E r \in Lists : \E i \in 1 .. Len(cells[r]) : cells[r][i] = p
  BY <1>2 DEF Chains
<1>5. q \in Lists /\ Len(cells[q]) < WriteSlices /\ <<q, WriteSlices>> \in Cells
  <2>1. q \in Lists
    BY <1>2, ToSetRange DEF Queues
  <2>2. Len(cells[q]) = written /\ written \in 0 .. WriteSlices - 1
    BY <1>2 DEF Writing
  <2> HIDE DEF q
  <2> QED
    BY <1>3, <2>1, <2>2
<1>6. FreeIn(0, encode_vec) = {}
  BY <1>2, <1>3, SliceFree
<1> HIDE DEF q
<1>7. ASSUME NEW j \in Banks!Slices
      PROVE  \E x \in Used : cells[x[1]][x[2]] = <<0, j>>
  <2>1. <<0, j>> \in Banks!Places /\ encode_vec[<<0, j>>] # Banks!Free
    BY <1>3, <1>6 DEF FreeIn, Banks!Places
  <2>2. PICK r \in Lists : \E i \in 1 .. Len(cells[r]) : cells[r][i] = <<0, j>>
    BY <1>4, <2>1
  <2>3. PICK i \in 1 .. Len(cells[r]) : cells[r][i] = <<0, j>>
    BY <2>2
  <2>4. i \in 1 .. WriteSlices /\ (r = q => i # WriteSlices)
    <3>1. Len(cells[r]) \in Nat /\ Len(cells[r]) <= WriteSlices
      BY <1>4
    <3> QED
      BY <1>3, <1>5, <3>1
  <2>5. <<r, i>> \in Used
    BY <2>4
  <2> QED
    BY <2>3, <2>5
<1> DEFINE f == [j \in Banks!Slices |-> CHOOSE x \in Used : cells[x[1]][x[2]] = <<0, j>>]
<1>8. \A j \in Banks!Slices : f[j] = CHOOSE x \in Used : cells[x[1]][x[2]] = <<0, j>>
  <2> HIDE DEF Used
  <2> QED
    OBVIOUS
<1> HIDE DEF f
<1>9. \A j \in Banks!Slices : f[j] \in Used /\ cells[f[j][1]][f[j][2]] = <<0, j>>
  <2> HIDE DEF Used
  <2> SUFFICES ASSUME NEW j \in Banks!Slices  PROVE f[j] \in Used /\ cells[f[j][1]][f[j][2]] = <<0, j>>
    OBVIOUS
  <2>1. f[j] = CHOOSE x \in Used : cells[x[1]][x[2]] = <<0, j>>
    BY <1>8
  <2> QED
    BY <1>7, <2>1
<1>10. IsFiniteSet(Banks!Slices) /\ Cardinality(Banks!Slices) = SliceNum
  <2>1. 0 \in Int /\ SliceNum - 1 \in Int
    BY <1>3
  <2> QED
    BY <1>3, <2>1, FS_Interval DEF Banks!Slices
<1>11. IsFiniteSet(Used) /\ Cardinality(Used) < SliceNum
  <2>1. IsFiniteSet(1 .. WriteSlices) /\ Cardinality(1 .. WriteSlices) = WriteSlices
    <3>1. 1 \in Int /\ WriteSlices \in Int /\ ~ (1 > WriteSlices) /\ WriteSlices - 1 + 1 = WriteSlices
      BY <1>3
    <3> QED
      BY <3>1, FS_Interval
  <2>2. IsFiniteSet(Cells) /\ Cardinality(Cells) = Cardinality(Lists) * WriteSlices
    BY <1>3, <2>1, FS_Product
  <2> HIDE DEF Cells
  <2>3. IsFiniteSet(Used) /\ Cardinality(Used) = Cardinality(Cells) - 1
    BY <1>5, <2>2, FS_RemoveElement
  <2>4. Cardinality(Lists) \in Nat /\ Cardinality(Cells) \in Nat
    BY <1>3, <2>2, FS_CardinalityType
  <2>5. Cardinality(Lists) * WriteSlices = WriteSlices * Cardinality(Lists)
    BY <1>3, <2>4
  <2>6. Cardinality(Cells) <= SliceNum
    BY <2>2, <2>5 DEF Roomy
  <2> QED
    BY <1>3, <2>3, <2>4, <2>6
<1>12. PICK j \in Banks!Slices, k \in Banks!Slices : j # k /\ f[j] = f[k]
  <2>1. f \in [Banks!Slices -> Used]
    <3>1. \A j \in Banks!Slices :
            (CHOOSE x \in Used : cells[x[1]][x[2]] = <<0, j>>) \in Used
      BY <1>8, <1>9
    <3> HIDE DEF Used
    <3> QED
      BY <3>1 DEF f
  <2> HIDE DEF Used
  <2> QED
    BY <1>10, <1>11, <2>1, FS_PigeonHole, SMTT(30)
<1>13. <<0, j>> = <<0, k>>
  BY <1>9, <1>12
<1> QED
  BY <1>12, <1>13

\* Bank 0 has one free slice more after it was read, never less.
LEMMA RoomyHasRoom ==
  ASSUME BankAssumption, BankInv, Roomy
  PROVE  BankHasRoom
<1> SUFFICES ASSUME encode_que # << >>
             PROVE  Banks!FreeSlices(Banks!AfterReads(Banks!Info, Banks!FirstOfBanks(Banks!Info)))
                      # {}
  BY DEF BankHasRoom
<1>1. PICK cells : Sound(cells, decode_que_head, decode_que, queue_map, encode_vec, bank_deep_vec)
  BY DEF BankInv
<1>2. PICK st : st = Banks!AfterReads(Banks!Info, Banks!FirstOfBanks(Banks!Info))
  OBVIOUS
<1>3. PICK rest : Sound(rest, st.heads, st.que, st.map, st.vec, st.deep)
  BY <1>1, <1>2, ReadsSound
<1>4. Counted(encode_vec, bank_deep_vec) /\ Counted(st.vec, st.deep) /\ 0 \in Banks!Banks
  BY <1>1, <1>3 DEF Sound, Banks!Banks
<1>5. FreeIn(0, encode_vec) \subseteq FreeIn(0, st.vec)
  <2>1. \A p \in Banks!Places : encode_vec[p] = Banks!Free => st.vec[p] = Banks!Free
    BY <1>2 DEF Banks!AfterReads
  <2> QED
    BY <1>4, <2>1 DEF FreeIn, Banks!Places
<1>6. FreeIn(0, encode_vec) # {}
  BY <1>4, RoomyIsOpen, SliceFree
<1>7. st.deep[0] > 0
  <2>1. FreeIn(0, st.vec) # {}
    BY <1>5, <1>6
  <2> QED
    BY <1>4, <2>1, SliceFree
<1> QED
  BY <1>2, <1>4, <1>7, ChosenHasRoom

LEMMA BankStays ==
  ASSUME BankInv,
         encode_que' = encode_que, decode_que' = decode_que, decode_que_head' = decode_que_head,
         queue_map' = queue_map, encode_vec' = encode_vec, bank_deep_vec' = bank_deep_vec,
         written' = written, last' = last
  PROVE  BankInv'
<1>1. PICK cells : Sound(cells, decode_que_head, decode_que, queue_map, encode_vec, bank_deep_vec)
  BY DEF BankInv
<1>2. (Chains(cells, queue_map, encode_vec) /\ Counted(encode_vec, bank_deep_vec))'
  BY <1>1 DEF Sound
<1>3. (Queues(decode_que_head, decode_que) /\ Filled(cells, decode_que_head, decode_que))'
  BY <1>1 DEF Sound, Queues, Filled
<1>4. Writing(cells)'
  BY <1>1 DEF Sound, Writing
<1> QED
  BY <1>2, <1>3, <1>4 DEF BankInv, Sound

\* Every step of the program bank, as long as B finds a slice.
LEMMA BankStep ==
  ASSUME unit = "bank" => BankInv /\ BankHasRoom, [Next]_vars, unit' = "bank"
  PROVE  BankInv'
<1>1. CASE Next
  <2>1. unit = "bank" /\ Banks!Next
    BY <1>1 DEF Next, OnlyArb, OnlyScan, OnlyQos, OnlyTower, OnlyNodes, OnlyBank
  <2>2. CASE Banks!process
    BY <2>1, <2>2, BankCycle, BankAssumption
  <2>3. CASE Banks!rcv_from
    BY <2>1, <2>3, BankNames, BankAssumption
  <2> QED
    BY <2>1, <2>2, <2>3 DEF Banks!Next
<1>2. CASE UNCHANGED vars
  <2>1. /\ encode_que' = encode_que /\ decode_que' = decode_que /\ decode_que_head' = decode_que_head
        /\ queue_map' = queue_map /\ encode_vec' = encode_vec /\ bank_deep_vec' = bank_deep_vec
        /\ written' = written /\ last' = last /\ unit' = unit
    BY <1>2 DEF vars, bankVars
  <2> QED
    BY <2>1, BankStays
<1> QED
  BY <1>1, <1>2

\* bank.cpp: for any number of slices, lists and readers and any delay, and however
\* the names of the lists come, no cell is lost, mixed up or freed twice, as long as
\* B finds a free slice for every cell: it looks in one bank only.
THEOREM BankKeepsCells == Spec /\ [](unit = "bank" => BankHasRoom) => []ListsIntact
<1> DEFINE Inv == unit = "bank" => BankInv
           Room == unit = "bank" => BankHasRoom
<1>1. Init => Inv
  BY BankInit, BankAssumption DEF Init
<1>2. Inv /\ Room /\ [Next]_vars => Inv'
  BY BankStep
<1>3. Inv => ListsIntact
  BY BankInvMeans, BankAssumption DEF ListsIntact
<1> QED
  BY <1>1, <1>2, <1>3, PTL DEF Spec

\* bank.cpp: with slices enough in one bank for all cells of all lists, as the 128
\* slices are for eight lists of 16 cells, every cell is kept whatever happens.
THEOREM RoomyBanksKeepCells ==
  ASSUME Roomy
  PROVE  Spec => []ListsIntact
<1> DEFINE Inv == unit = "bank" => BankInv
<1>1. Init => Inv
  BY BankInit, BankAssumption DEF Init
<1>2. Inv /\ [Next]_vars => Inv'
  BY BankStep, RoomyHasRoom, BankAssumption
<1>3. Inv => ListsIntact
  BY BankInvMeans, BankAssumption DEF ListsIntact
<1> QED
  BY <1>1, <1>2, <1>3, PTL DEF Spec
=============================================================================
