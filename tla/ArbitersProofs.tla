---------------------------- MODULE ArbitersProofs --------------------------
(***************************************************************************)
(* The diagonal arbiter finds a maximal matching, for any number of ports  *)
(* and any requests; the virtual channels account for every credit, for    *)
(* any number of channels, credits and weights.                            *)
(***************************************************************************)
EXTENDS Arbiters, Lemmas

-----------------------------------------------------------------------------
(* The diagonal arbiter.                                                   *)

\* The cells of the diagonals visited so far, and the grants among them: the
\* other grants are left from the arbitration before.
Seen == {c \in D!Cells : \E k \in 0 .. row - 1 : (c[1] + c[2]) % N = (m_ptr + k) % N}
Fresh == m_grants \cap Seen

\* The fresh grants are a matching of requests.
FreshInv == Fresh \subseteq m_requests /\ D!IsMatching(Fresh)

\* The masked rows and columns are those of the fresh grants.
MaskInv ==
  \A i \in D!Ports :
    /\ i \notin m_row_mask <=> \E g \in Fresh : g[1] = i
    /\ i \notin m_col_mask <=> \E g \in Fresh : g[2] = i

\* A request that has been visited has lost its row or its column.
CoverInv == \A c \in m_requests \cap Seen : c[1] \notin m_row_mask \/ c[2] \notin m_col_mask

DpaInv ==
  /\ D!TypeOK
  /\ pc = "visit" => FreshInv /\ MaskInv /\ CoverInv
  /\ D!GrantsMatch

-----------------------------------------------------------------------------
(* The diagonals.                                                          *)

\* Counting on around the ports once.
LEMMA AroundPorts ==
  ASSUME NEW x \in Nat, x < N + N
  PROVE  x % N = IF x < N THEN x ELSE x - N
<1>1. N \in Nat \ {0}
  BY ArbitersAssumption
<1> QED
  BY <1>1, Around

\* N diagonals in turn, from any of them, are all diagonals, each once.
LEMMA EachOnce ==
  ASSUME NEW p \in D!Ports
  PROVE  /\ \A k, l \in D!Ports : (p + k) % N = (p + l) % N => k = l
         /\ \A d \in D!Ports : \E k \in D!Ports : (p + k) % N = d
<1>1. N \in Nat \ {0} /\ p \in 0 .. N - 1
  BY ArbitersAssumption DEF D!Ports
<1>2. \A k \in D!Ports : (p + k) % N = IF p + k < N THEN p + k ELSE p + k - N
  BY <1>1, AroundPorts DEF D!Ports
<1>3. ASSUME NEW d \in D!Ports PROVE \E k \in D!Ports : (p + k) % N = d
  <2>1. CASE d >= p
    <3>1. d - p \in D!Ports /\ p + (d - p) = d
      BY <1>1, <2>1 DEF D!Ports
    <3>2. d % N = d
      BY <1>1, AroundPorts DEF D!Ports
    <3>3. QED
      BY <3>1, <3>2
  <2>2. CASE d < p
    <3>1. d - p + N \in D!Ports /\ p + (d - p + N) = d + N
      BY <1>1, <2>2 DEF D!Ports
    <3>2. (d + N) % N = d
      BY <1>1, AroundPorts DEF D!Ports
    <3>3. QED
      BY <3>1, <3>2
  <2>3. QED
    BY <1>1, <2>1, <2>2 DEF D!Ports
<1>4. \A k, l \in D!Ports : (p + k) % N = (p + l) % N => k = l
  BY <1>1, <1>2 DEF D!Ports
<1>5. QED
  BY <1>3, <1>4

\* A diagonal has one cell in every row and one in every column.
LEMMA OneCell ==
  ASSUME NEW a \in D!Cells, NEW b \in D!Cells,
         (a[1] + a[2]) % N = (b[1] + b[2]) % N, a[1] = b[1] \/ a[2] = b[2]
  PROVE  a = b
<1>1. N \in Nat \ {0} /\ a[1] \in D!Ports /\ a[2] \in D!Ports /\ b[1] \in D!Ports /\ b[2] \in D!Ports
  BY ArbitersAssumption DEF D!Cells
<1>2. a = <<a[1], a[2]>> /\ b = <<b[1], b[2]>>
  BY DEF D!Cells
<1>3. CASE a[1] = b[1]
  <2>1. (a[1] + a[2]) % N = (a[1] + b[2]) % N
    BY <1>3
  <2>2. a[2] = b[2]
    BY <1>1, <2>1, EachOnce
  <2>3. QED
    BY <1>2, <1>3, <2>2
<1>4. CASE a[2] = b[2]
  <2>1. a[1] + a[2] = a[2] + a[1] /\ b[1] + b[2] = a[2] + b[1]
    BY <1>1, <1>4 DEF D!Ports
  <2>2. (a[2] + a[1]) % N = (a[2] + b[1]) % N
    BY <2>1
  <2>3. a[1] = b[1]
    BY <1>1, <2>2, EachOnce
  <2>4. QED
    BY <1>2, <1>4, <2>3
<1>5. QED
  BY <1>3, <1>4

\* A visit adds a diagonal that has not been visited.
LEMMA VisitSeen ==
  ASSUME D!TypeOK, D!Visit
  PROVE  Seen' = Seen \cup D!Current /\ Seen \cap D!Current = {}
<1>1. N \in Nat \ {0} /\ row \in 0 .. N - 1 /\ m_ptr \in D!Ports /\ row' = row + 1 /\ m_ptr' = m_ptr
  BY ArbitersAssumption DEF D!TypeOK, D!Visit
<1>2. 0 .. row' - 1 = (0 .. row - 1) \cup {row}
  BY <1>1
<1>3. Seen' = Seen \cup D!Current
  BY <1>1, <1>2 DEF Seen, D!Current, D!Diagonal
<1>4. ASSUME NEW k \in 0 .. row - 1 PROVE (m_ptr + k) % N # (m_ptr + row) % N
  <2>1. k \in D!Ports /\ row \in D!Ports /\ k # row
    BY <1>1 DEF D!Ports
  <2>2. QED
    BY <1>1, <2>1, EachOnce
<1>5. QED
  BY <1>3, <1>4 DEF Seen, D!Current, D!Diagonal

\* After N visits every cell has been visited.
LEMMA AllSeen ==
  ASSUME D!TypeOK, row = N
  PROVE  Seen = D!Cells
<1>1. N \in Nat \ {0} /\ m_ptr \in D!Ports /\ 0 .. row - 1 = D!Ports
  BY ArbitersAssumption DEF D!TypeOK, D!Ports
<1>2. ASSUME NEW c \in D!Cells PROVE (c[1] + c[2]) % N \in D!Ports
  <2>1. c[1] \in 0 .. N - 1 /\ c[2] \in 0 .. N - 1
    BY DEF D!Cells, D!Ports
  <2>2. QED
    BY <1>1, <2>1, AroundPorts DEF D!Ports
<1>3. QED
  BY <1>1, <1>2, EachOnce DEF Seen

-----------------------------------------------------------------------------

LEMMA TypeStep == D!TypeOK /\ [D!Next]_(D!vars) => D!TypeOK'
<1> SUFFICES ASSUME D!TypeOK, [D!Next]_(D!vars) PROVE D!TypeOK'
  OBVIOUS
<1> N \in Nat \ {0}
  BY ArbitersAssumption
<1>1. CASE D!Visit
  BY <1>1 DEF D!TypeOK, D!Visit, D!Granted, D!Current, D!Diagonal
<1>2. CASE D!Return
  <2>1. (m_ptr + 1) % N \in D!Ports
    BY AroundPorts DEF D!TypeOK, D!Ports
  <2>2. QED
    BY <1>2, <2>1 DEF D!TypeOK, D!Return, D!NextPtr
<1>3. CASE D!arbitration
  BY <1>3 DEF D!TypeOK, D!arbitration
<1>4. CASE \E i, j \in -1 .. N : D!request(i, j)
  BY <1>4 DEF D!TypeOK, D!request
<1>5. CASE UNCHANGED D!vars
  BY <1>5 DEF D!TypeOK, D!vars
<1>6. QED
  BY <1>1, <1>2, <1>3, <1>4, <1>5 DEF D!Next, D!Arbitrate

LEMMA VisitStep ==
  ASSUME DpaInv, D!Visit
  PROVE  (FreshInv /\ MaskInv /\ CoverInv)'
<1>1. D!TypeOK /\ FreshInv /\ MaskInv /\ CoverInv
  BY DEF DpaInv, D!Visit
<1>2. Seen' = Seen \cup D!Current /\ Seen \cap D!Current = {}
  BY <1>1, VisitSeen
<1>3. D!Granted \subseteq D!Current \cap m_requests /\ D!Granted \subseteq D!Cells
  BY DEF D!Granted, D!Current, D!Diagonal
<1>4. Fresh' = Fresh \cup D!Granted
  BY <1>2, <1>3 DEF Fresh, D!Visit
<1>5. /\ m_row_mask' = m_row_mask \ {c[1] : c \in D!Granted}
      /\ m_col_mask' = m_col_mask \ {c[2] : c \in D!Granted}
      /\ m_requests' = m_requests
  BY DEF D!Visit
<1>6. FreshInv'
  <2>1. ASSUME NEW a \in Fresh', NEW b \in Fresh', a # b
        PROVE  a[1] # b[1] /\ a[2] # b[2]
    <3>1. \A g \in Fresh, h \in D!Granted : g[1] # h[1] /\ g[2] # h[2]
      \* The row and the column of a new grant were not masked.
      <4>1. \A g \in Fresh : g[1] \in D!Ports /\ g[2] \in D!Ports
        BY <1>1 DEF Fresh, Seen, D!Cells
      <4>2. \A h \in D!Granted : h[1] \in m_row_mask /\ h[2] \in m_col_mask
        BY DEF D!Granted
      <4>3. QED
        BY <1>1, <4>1, <4>2 DEF MaskInv
    <3>2. CASE a \in Fresh /\ b \in Fresh
      BY <1>1, <2>1, <3>2 DEF FreshInv, D!IsMatching
    <3>3. CASE a \in D!Granted /\ b \in D!Granted
      BY <1>3, <2>1, <3>3, OneCell DEF D!Current, D!Diagonal
    <3>4. QED
      BY <1>4, <3>1, <3>2, <3>3
  <2>2. QED
    BY <1>1, <1>3, <1>4, <1>5, <2>1 DEF FreshInv, D!IsMatching
<1>7. MaskInv'
  <2>1. ASSUME NEW i \in D!Ports
        PROVE  /\ i \notin m_row_mask' <=> \E g \in Fresh' : g[1] = i
               /\ i \notin m_col_mask' <=> \E g \in Fresh' : g[2] = i
    BY <1>1, <1>4, <1>5 DEF MaskInv
  <2>2. QED
    BY <2>1 DEF MaskInv
<1>8. CoverInv'
  <2>1. ASSUME NEW c \in m_requests, c \in Seen \cup D!Current
        PROVE  c[1] \notin m_row_mask' \/ c[2] \notin m_col_mask'
    <3>1. CASE c \in Seen
      BY <1>1, <1>5, <3>1 DEF CoverInv
    <3>2. CASE c \in D!Granted
      BY <1>5, <3>2
    <3>3. CASE c \in D!Current \ D!Granted
      BY <1>5, <3>3 DEF D!Granted
    <3>4. QED
      BY <2>1, <3>1, <3>2, <3>3
  <2>2. QED
    BY <1>2, <1>5, <2>1 DEF CoverInv
<1>9. QED
  BY <1>6, <1>7, <1>8

LEMMA StepDpaInv == DpaInv /\ [D!Next]_(D!vars) => DpaInv'
<1> SUFFICES ASSUME DpaInv, [D!Next]_(D!vars) PROVE DpaInv'
  OBVIOUS
<1>1. D!TypeOK /\ D!TypeOK'
  BY TypeStep DEF DpaInv
<1>2. CASE D!Visit
  <2>1. pc' = "visit"
    BY <1>2 DEF D!Visit
  <2>2. QED
    BY <1>1, <1>2, <2>1, VisitStep DEF DpaInv, D!GrantsMatch
<1>3. CASE D!Return
  <2>1. Seen = D!Cells
    BY <1>1, <1>3, AllSeen DEF D!Return
  <2>2. Fresh = m_grants
    BY <1>1, <2>1 DEF Fresh, D!TypeOK
  <2>3. pc' = "idle" /\ m_grants' = m_grants /\ m_requests' = m_requests
    BY <1>3 DEF D!Return
  <2>4. m_grants \subseteq m_requests /\ D!IsMatching(m_grants)
    BY <1>3, <2>2 DEF DpaInv, FreshInv, D!Return
  <2>5. QED
    BY <1>1, <2>3, <2>4 DEF DpaInv, D!GrantsMatch, D!IsMatching
<1>4. CASE D!arbitration
  <2>1. /\ row' = 0 /\ pc' = "visit"
        /\ m_row_mask' = D!Ports /\ m_col_mask' = D!Ports
    BY <1>4 DEF D!arbitration
  <2>2. Seen' = {}
    BY <2>1 DEF Seen
  <2>3. FreshInv' /\ MaskInv' /\ CoverInv'
    BY <2>1, <2>2 DEF FreshInv, MaskInv, CoverInv, Fresh, D!IsMatching
  <2>4. QED
    BY <1>1, <2>1, <2>3 DEF DpaInv, D!GrantsMatch
<1>5. CASE \E i, j \in -1 .. N : D!request(i, j)
  BY <1>1, <1>5 DEF DpaInv, D!GrantsMatch, D!IsMatching, D!request
<1>6. CASE UNCHANGED D!vars
  BY <1>1, <1>6 DEF DpaInv, D!GrantsMatch, D!IsMatching, FreshInv, MaskInv, CoverInv, Fresh, Seen, D!vars
<1>7. QED
  BY <1>2, <1>3, <1>4, <1>5, <1>6 DEF D!Next, D!Arbitrate

LEMMA InitDpaInv == D!Init => DpaInv
BY ArbitersAssumption DEF D!Init, DpaInv, D!TypeOK, D!GrantsMatch, D!IsMatching, D!Ports

-----------------------------------------------------------------------------
(* The virtual channels.                                                   *)

\* What the counters of a channel may be.
CountersOK ==
  /\ current_credits \in [V!VC -> Nat]
  /\ vc_queues \in [V!VC -> Nat]
  /\ owed \in [V!VC -> Nat]
  /\ priority \in [V!VC -> 0 .. NumVC - 1]

VcInv == CountersOK /\ V!CreditsAccounted

-----------------------------------------------------------------------------
(* The searches find a channel.                                            *)

\* The minimum of a nonempty set of channels is one of them.
LEMMA MinIsMember ==
  ASSUME NEW S \in SUBSET V!VC, S # {}
  PROVE  V!Min(S) \in S
<1>1. S \in SUBSET Nat
  BY ArbitersAssumption DEF V!VC
<1>2. PICK x \in S : \A y \in S : x <= y
  BY <1>1, LeastNat
<1>3. QED
  BY <1>2 DEF V!Min

\* Among ready channels one has the highest priority.
LEMMA HighestExists ==
  ASSUME CountersOK, V!Ready # {}
  PROVE  \E v \in V!Ready : \A u \in V!Ready : priority[u] <= priority[v]
<1> DEFINE Gap(v) == NumVC - 1 - priority[v]
           Gaps == {Gap(v) : v \in V!Ready}
<1>1. \A v \in V!Ready : v \in V!VC /\ priority[v] \in 0 .. NumVC - 1
  BY DEF CountersOK, V!Ready
<1>2. \A v \in V!Ready : Gap(v) \in Nat
  BY <1>1, ArbitersAssumption
<1>3. Gaps \in SUBSET Nat /\ Gaps # {}
  BY <1>2
<1>4. PICK g \in Gaps : \A h \in Gaps : g <= h
  BY <1>3, LeastNat
<1>5. PICK v \in V!Ready : g = Gap(v)
  BY <1>4
<1>6. ASSUME NEW u \in V!Ready  PROVE priority[u] <= priority[v]
  <2>1. Gap(v) <= Gap(u)
    BY <1>4, <1>5
  <2>2. QED
    BY <2>1, <1>1, ArbitersAssumption
<1>7. QED
  BY <1>6

-----------------------------------------------------------------------------
(* The steps.                                                              *)

LEMMA InitVcInv == V!Init => VcInv
<1> SUFFICES ASSUME V!Init PROVE VcInv
  OBVIOUS
<1>1. priority \in [V!VC -> 0 .. NumVC - 1]
  BY ArbitersAssumption DEF V!Init, V!VC
<1>2. CountersOK
  BY <1>1, ArbitersAssumption DEF V!Init, CountersOK
<1>3. V!CreditsAccounted
  BY ArbitersAssumption DEF V!Init, V!CreditsAccounted
<1>4. QED
  BY <1>2, <1>3 DEF VcInv

\* A packet that is handed out moves from the queue to what the caller owes.
LEMMA DequeueVcInv ==
  ASSUME VcInv, NEW v \in V!Ready, V!Dequeue(v)
  PROVE  VcInv'
<1>1. v \in V!VC /\ vc_queues[v] > 0
  BY DEF V!Ready
<1>2. CountersOK'
  BY <1>1 DEF VcInv, CountersOK, V!Dequeue, V!config
<1>3. V!CreditsAccounted'
  BY <1>1 DEF VcInv, CountersOK, V!CreditsAccounted, V!Dequeue
<1>4. QED
  BY <1>2, <1>3 DEF VcInv

\* Each of the three schemes hands out a packet of a channel that has one.
LEMMA ArbitrateVcInv ==
  ASSUME VcInv, V!arbitrate
  PROVE  VcInv'
<1>1. V!Ready # {} /\ V!Ready \in SUBSET V!VC
  BY DEF V!arbitrate, V!Ready
<1>2. CASE V!arbitrateStrictPriority
  <2> DEFINE best == {v \in V!Ready : \A u \in V!Ready : priority[u] <= priority[v]}
  <2>1. best # {}
    BY <1>1, HighestExists DEF VcInv
  <2>2. best \in SUBSET V!VC
    BY <1>1
  <2>3. V!Min(best) \in best
    BY <2>1, <2>2, MinIsMember
  <2>4. V!Dequeue(V!Min(best))
    BY <1>2 DEF V!arbitrateStrictPriority
  <2>5. QED
    BY <2>3, <2>4, DequeueVcInv
<1>3. CASE V!arbitrateRoundRobin
  <2> DEFINE after == {v \in V!Ready : v > last_served_vc}
  <2>1. V!Min(V!Ready) \in V!Ready
    BY <1>1, MinIsMember
  <2>2. after # {} => V!Min(after) \in after
    BY <1>1, MinIsMember
  <2>3. V!NextVC \in V!Ready
    BY <2>1, <2>2 DEF V!NextVC
  <2>4. QED
    BY <1>3, <2>3, DequeueVcInv DEF V!arbitrateRoundRobin
<1>4. CASE V!arbitrateWeightedRoundRobin
  <2> DEFINE left == {v \in V!Ready : rr_counters[v] < V!weight[v]}
             v == IF left = {} THEN V!Min(V!Ready) ELSE V!Min(left)
  <2>1. V!Min(V!Ready) \in V!Ready
    BY <1>1, MinIsMember
  <2>2. left # {} => V!Min(left) \in left
    BY <1>1, MinIsMember
  <2>3. v \in V!Ready
    BY <2>1, <2>2
  <2>4. V!Dequeue(v)
    BY <1>4 DEF V!arbitrateWeightedRoundRobin
  <2>5. QED
    BY <2>3, <2>4, DequeueVcInv
<1>5. QED
  BY <1>2, <1>3, <1>4 DEF V!arbitrate

\* A packet that is accepted takes a credit of the channel it waits in.
LEMMA EnqueueVcInv ==
  ASSUME VcInv, NEW v \in V!VC, V!enqueuePacket(v)
  PROVE  VcInv'
<1> DEFINE t == V!Target(v)
<1>1. t \in V!VC
  BY ArbitersAssumption DEF V!Target, V!VC
<1>2. /\ current_credits[t] # 0
      /\ vc_queues' = [vc_queues EXCEPT ![t] = @ + 1]
      /\ current_credits' = [current_credits EXCEPT ![t] = @ - 1]
      /\ UNCHANGED <<priority, owed>>
  BY DEF V!enqueuePacket, V!Charged, V!config
<1> HIDE DEF t
<1>3. CountersOK'
  BY <1>1, <1>2 DEF VcInv, CountersOK
<1>4. V!CreditsAccounted'
  BY <1>1, <1>2 DEF VcInv, CountersOK, V!CreditsAccounted
<1>5. QED
  BY <1>3, <1>4 DEF VcInv

\* The cap on the credits is never reached: the credit that comes back was taken.
LEMMA RestoreVcInv ==
  ASSUME VcInv, NEW v \in V!VC, V!restoreCredits(v)
  PROVE  VcInv'
<1>1. /\ current_credits[v] \in Nat /\ vc_queues[v] \in Nat /\ owed[v] \in Nat
      /\ current_credits[v] + vc_queues[v] + owed[v] = MaxCredits
      /\ owed[v] > 0
  BY DEF VcInv, CountersOK, V!CreditsAccounted, V!restoreCredits
<1>2. current_credits[v] + 1 <= MaxCredits
  BY <1>1, ArbitersAssumption
<1>3. V!Min({current_credits[v] + 1, MaxCredits}) = current_credits[v] + 1
  BY <1>1, <1>2, ArbitersAssumption DEF V!Min
<1>4. /\ owed' = [owed EXCEPT ![v] = @ - 1]
      /\ current_credits' = [current_credits EXCEPT ![v] = current_credits[v] + 1]
      /\ UNCHANGED <<priority, vc_queues>>
  BY <1>3 DEF V!restoreCredits, V!config
<1>5. CountersOK'
  BY <1>1, <1>4 DEF VcInv, CountersOK
<1>6. V!CreditsAccounted'
  BY <1>1, <1>4 DEF VcInv, CountersOK, V!CreditsAccounted
<1>7. QED
  BY <1>5, <1>6 DEF VcInv

LEMMA NextVcInv == VcInv /\ [V!Next]_(V!vars) => VcInv'
<1> SUFFICES ASSUME VcInv, [V!Next]_(V!vars) PROVE VcInv'
  OBVIOUS
<1>1. ASSUME NEW v \in V!VC, NEW enable \in BOOLEAN, V!configureVC(v, enable)
      PROVE  VcInv'
  BY <1>1 DEF V!configureVC, V!config, VcInv, CountersOK, V!CreditsAccounted
<1>2. ASSUME NEW v \in V!VC, V!enqueuePacket(v)  PROVE VcInv'
  BY <1>2, EnqueueVcInv
<1>3. CASE V!arbitrate
  BY <1>3, ArbitrateVcInv
<1>4. ASSUME NEW v \in V!VC, V!restoreCredits(v)  PROVE VcInv'
  BY <1>4, RestoreVcInv
<1>5. CASE UNCHANGED V!vars
  BY <1>5 DEF V!vars, V!config, VcInv, CountersOK, V!CreditsAccounted
<1>6. QED
  BY <1>1, <1>2, <1>3, <1>4, <1>5 DEF V!Next

-----------------------------------------------------------------------------

\* The invariants hold of the unit that was created.
THEOREM ArbitersInvariant == Spec => []((unit = "dpa" => DpaInv) /\ (unit = "pcie_vc" => VcInv))
<1> DEFINE Inv == (unit = "dpa" => DpaInv) /\ (unit = "pcie_vc" => VcInv)
<1>1. Init => Inv
  BY InitDpaInv, InitVcInv DEF Init
<1>2. Inv /\ [Next]_vars => Inv'
  <2> SUFFICES ASSUME Inv, [Next]_vars  PROVE Inv'
    OBVIOUS
  <2>1. ASSUME unit = "dpa", D!Next, UNCHANGED unit  PROVE Inv'
    BY <2>1, StepDpaInv
  <2>2. ASSUME unit = "pcie_vc", V!Next, UNCHANGED unit  PROVE Inv'
    BY <2>2, NextVcInv
  <2>3. CASE UNCHANGED vars
    <3>1. UNCHANGED D!vars /\ UNCHANGED V!vars /\ UNCHANGED unit
      BY <2>3 DEF vars, dpaVars, vcVars, D!vars, V!vars, V!config
    <3> QED
      BY <3>1, StepDpaInv, NextVcInv
  <2> QED
    BY <2>1, <2>2, <2>3 DEF Next
<1> HIDE DEF Inv
<1>3. Spec => []Inv
  BY <1>1, <1>2, PTL DEF Spec
<1> QED
  BY <1>3 DEF Inv

\* dpa.cpp: between two arbitrations the grants are a matching of requests.
THEOREM DpaGrantsMatch == Spec => []GrantsMatch
<1>1. (unit = "dpa" => DpaInv) => GrantsMatch
  BY DEF DpaInv, GrantsMatch
<1> QED
  BY ArbitersInvariant, <1>1, PTL

\* dpa.cpp: an arbitration leaves no request whose row and column are unused.
THEOREM DpaMaximal == Spec => []Maximal
<1>1. (unit = "dpa" => DpaInv) => Maximal
  <2> SUFFICES ASSUME DpaInv, pc = "visit", row = N, NEW c \in m_requests
               PROVE  \E g \in m_grants : g[1] = c[1] \/ g[2] = c[2]
    BY DEF Maximal, D!Maximal
  <2>1. Seen = D!Cells /\ m_requests \subseteq D!Cells
    BY AllSeen DEF DpaInv, D!TypeOK
  <2>2. c[1] \notin m_row_mask \/ c[2] \notin m_col_mask
    BY <2>1 DEF DpaInv, CoverInv
  <2>3. c[1] \in D!Ports /\ c[2] \in D!Ports
    BY <2>1 DEF D!Cells
  <2> QED
    BY <2>2, <2>3 DEF DpaInv, MaskInv, Fresh
<1> QED
  BY ArbitersInvariant, <1>1, PTL

\* Every credit that is not free belongs to a packet that waits in its channel or
\* that the caller got from it, however channels are enabled and disabled.
THEOREM VcCreditsAccounted == Spec => []CreditsAccounted
<1>1. (unit = "pcie_vc" => VcInv) => CreditsAccounted
  BY DEF VcInv, CreditsAccounted
<1> QED
  BY ArbitersInvariant, <1>1, PTL
=============================================================================
