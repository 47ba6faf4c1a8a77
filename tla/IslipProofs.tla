----------------------------- MODULE IslipProofs ----------------------------
(***************************************************************************)
(* What islip.cpp matches is what its counters count and its result says,  *)
(* and no iteration is wasted, for any number of ports and priorities, any *)
(* iterations and speedup, and both modes.                                 *)
(***************************************************************************)
EXTENDS Islip, Lemmas

-----------------------------------------------------------------------------
(* The invariant.                                                          *)

\* The range of the variables, and how far the loops are.
RangeInv ==
  /\ TypeOK
  /\ sch_result \in [Pairs -> Nat]
  /\ call \in [iterations : Nat, speedup : Nat, islip : BOOLEAN]
  /\ pc # "idle" => m_current_iter < call.iterations
  /\ pc \in {"do_grant", "do_accept", "update_priority_ptr"} => prio \in Prios

\* The pairs that can be matched at the current priority.
Requestable == {q \in FreeInputs \X FreeOutputs : m_shadow_ql[q[1]][q[2]][prio] > 0}

\* Each output with a request grants one; nothing is accepted before do_accept().
PhaseInv ==
  /\ pc \in {"do_grant", "do_accept"} => m_request = Requestable /\ m_accept = {}
  /\ pc = "do_grant" => m_grant = {}
  /\ pc = "do_accept" =>
       /\ \A q, r \in m_grant : q[2] = r[2] => q = r
       /\ m_request # {} => m_grant # {}

\* What sch_result is about to report of pair q.
Reported(q) ==
  sch_result[q] + (IF pc = "update_priority_ptr" /\ q \in m_accept THEN 1 ELSE 0)

\* The matched cells are counted at their pair, their input and their output.
CellInv ==
  pc # "idle" =>
    /\ \A i, j \in Ports, p \in Prios : m_shadow_ql[i][j][p] <= m_ql[i][j][p]
    /\ IsFiniteSet(Matched(Ports, Ports, Prios))
    /\ \A i, j \in Ports : Reported(<<i, j>>) = Served({i}, {j}, Prios)
    /\ \A i \in Ports : m_input_match_count[i] = Served({i}, Ports, Prios)
    /\ \A j \in Ports : m_output_match_count[j] = Served(Ports, {j}, Prios)
    /\ \A k \in Ports : /\ m_input_match_count[k] <= call.speedup
                        /\ m_output_match_count[k] <= call.speedup

\* The iterations of priority p that have made their match.
Done(p) ==
  IF p = prio THEN m_current_iter + (IF pc = "update_priority_ptr" THEN 1 ELSE 0)
              ELSE call.iterations

ProgressInv ==
  pc # "idle" =>
    \A p \in Prios : p > prio \/ ~ OpenAt(p) \/ Served(Ports, Ports, {p}) >= Done(p)

IInv == RangeInv /\ PhaseInv /\ CellInv /\ ProgressInv

-----------------------------------------------------------------------------
(* Counting cells.                                                         *)

LEMMA CellsAre ==
  ASSUME NEW low, NEW high, NEW I, NEW J, NEW P
  PROVE  \A c : c \in Cells(low, high, I, J, P) <=>
           \E i \in I, j \in J, p \in P :
             \E n \in low[i][j][p] + 1 .. high[i][j][p] : c = <<<<i, j, p>>, n>>
<1>1. \A c : c \in Cells(low, high, I, J, P) <=>
        \E t \in I \X J \X P :
          c \in {t} \X (low[t[1]][t[2]][t[3]] + 1 .. high[t[1]][t[2]][t[3]])
  BY Zenon DEF Cells
<1>2. ASSUME NEW c,
             NEW t \in I \X J \X P,
             c \in {t} \X (low[t[1]][t[2]][t[3]] + 1 .. high[t[1]][t[2]][t[3]])
      PROVE  \E i \in I, j \in J, p \in P :
               \E n \in low[i][j][p] + 1 .. high[i][j][p] : c = <<<<i, j, p>>, n>>
  <2>1. PICK i \in I, j \in J, p \in P : t = <<i, j, p>>
    OBVIOUS
  <2>2. PICK n \in low[i][j][p] + 1 .. high[i][j][p] : c = <<t, n>>
    BY <1>2, <2>1
  <2> QED
    BY <2>1, <2>2
<1>3. ASSUME NEW i \in I, NEW j \in J, NEW p \in P,
             NEW n \in low[i][j][p] + 1 .. high[i][j][p]
      PROVE  <<<<i, j, p>>, n>> \in Cells(low, high, I, J, P)
  <2> DEFINE t == <<i, j, p>>
  <2>1. t \in I \X J \X P /\ t[1] = i /\ t[2] = j /\ t[3] = p
    OBVIOUS
  <2>2. <<t, n>> \in {t} \X (low[t[1]][t[2]][t[3]] + 1 .. high[t[1]][t[2]][t[3]])
    BY <2>1
  <2> QED
    BY <1>1, <2>1, <2>2
<1> QED
  BY <1>1, <1>2, <1>3

LEMMA MatchedAre ==
  ASSUME NEW I, NEW J, NEW P
  PROVE  /\ \A c : c \in Matched(I, J, P) <=>
              \E i \in I, j \in J, p \in P :
                \E n \in m_shadow_ql[i][j][p] + 1 .. m_ql[i][j][p] : c = <<<<i, j, p>>, n>>
         /\ \A c : c \in Matched(I, J, P)' <=>
              \E i \in I, j \in J, p \in P :
                \E n \in m_shadow_ql'[i][j][p] + 1 .. m_ql'[i][j][p] : c = <<<<i, j, p>>, n>>
<1>1. /\ Matched(I, J, P) = Cells(m_shadow_ql, m_ql, I, J, P)
      /\ Matched(I, J, P)' = Cells(m_shadow_ql', m_ql', I, J, P)
  BY DEF Matched
<1> QED
  BY <1>1, CellsAre

LEMMA MatchedSubset ==
  ASSUME NEW I \in SUBSET Ports, NEW J \in SUBSET Ports, NEW P \in SUBSET Prios,
         IsFiniteSet(Matched(Ports, Ports, Prios))
  PROVE  IsFiniteSet(Matched(I, J, P)) /\ Served(I, J, P) \in Nat
<1>1. Matched(I, J, P) \subseteq Matched(Ports, Ports, Prios)
  BY MatchedAre
<1> QED
  BY <1>1, FS_Subset, FS_CardinalityType DEF Served

LEMMA MatchedUnchanged ==
  ASSUME UNCHANGED <<m_ql, m_shadow_ql>>
  PROVE  /\ \A I, J, P : Matched(I, J, P)' = Matched(I, J, P)
         /\ \A I, J, P : Served(I, J, P)' = Served(I, J, P)
BY DEF Matched, Served, Cells

\* At the beginning of a call.
LEMMA NoneMatched ==
  ASSUME NEW ql \in [Ports -> [Ports -> [Prios -> Nat]]],
         NEW I \in SUBSET Ports, NEW J \in SUBSET Ports, NEW P \in SUBSET Prios
  PROVE  Cells(ql, ql, I, J, P) = {}
<1>1. \A c : c \notin Cells(ql, ql, I, J, P)
  BY CellsAre
<1> QED
  BY <1>1

\* What do_accept() does to the cells: each pair of acc takes the last one of the
\* current priority that is left in its queue.
Takes(acc) ==
  /\ m_ql \in [Ports -> [Ports -> [Prios -> Nat]]]
  /\ m_shadow_ql \in [Ports -> [Ports -> [Prios -> Nat]]]
  /\ prio \in Prios
  /\ UNCHANGED m_ql
  /\ TakeFromShadow(acc)
  /\ acc \subseteq Pairs
  /\ \A q \in acc : /\ m_shadow_ql[q[1]][q[2]][prio] > 0
                    /\ m_shadow_ql[q[1]][q[2]][prio] <= m_ql[q[1]][q[2]][prio]

Taken(acc) ==
  /\ m_shadow_ql' \in [Ports -> [Ports -> [Prios -> Nat]]]
  /\ \A i, j \in Ports, p \in Prios :
       m_shadow_ql'[i][j][p] = IF <<i, j>> \in acc /\ p = prio
                               THEN m_shadow_ql[i][j][p] - 1 ELSE m_shadow_ql[i][j][p]

LEMMA ShadowAfter ==
  ASSUME NEW acc, Takes(acc)
  PROVE  Taken(acc)
<1> DEFINE row(i, j) == IF <<i, j>> \in acc THEN [m_shadow_ql[i][j] EXCEPT ![prio] = @ - 1]
                                            ELSE m_shadow_ql[i][j]
<1>1. m_shadow_ql' = [i \in Ports |-> [j \in Ports |-> row(i, j)]]
  BY DEF Takes, TakeFromShadow
<1>2. ASSUME NEW i \in Ports, NEW j \in Ports
      PROVE  /\ row(i, j) \in [Prios -> Nat]
             /\ \A p \in Prios : row(i, j)[p] = IF <<i, j>> \in acc /\ p = prio
                                                THEN m_shadow_ql[i][j][p] - 1
                                                ELSE m_shadow_ql[i][j][p]
  <2>1. m_shadow_ql[i][j] \in [Prios -> Nat] /\ prio \in Prios
    BY DEF Takes
  <2>2. <<i, j>> \in acc => m_shadow_ql[i][j][prio] > 0
    BY DEF Takes
  <2> QED
    BY <2>1, <2>2
<1> HIDE DEF row
<1> QED
  BY <1>1, <1>2 DEF Taken

LEMMA MatchedGrows ==
  ASSUME NEW acc, Takes(acc), IsFiniteSet(acc),
         NEW I \in SUBSET Ports, NEW J \in SUBSET Ports, NEW P \in SUBSET Prios,
         prio \in P, IsFiniteSet(Matched(I, J, P))
  PROVE  /\ IsFiniteSet(Cells(m_shadow_ql', m_ql', I, J, P))
         /\ Cardinality(Cells(m_shadow_ql', m_ql', I, J, P)) =
              Served(I, J, P) + Cardinality(acc \cap (I \X J))
<1>0. Taken(acc)
  BY ShadowAfter
<1> DEFINE A == acc \cap (I \X J)
           cell(q) == <<<<q[1], q[2], prio>>, m_shadow_ql[q[1]][q[2]][prio]>>
           New == {cell(q) : q \in A}
           f == [q \in A |-> cell(q)]
<1>1. \A i \in I, j \in J, p \in P :
        m_shadow_ql[i][j][p] \in Nat /\ m_ql'[i][j][p] = m_ql[i][j][p] /\ m_ql[i][j][p] \in Nat
  BY DEF Takes
<1>2. \A i \in I, j \in J, p \in P :
        m_shadow_ql'[i][j][p] = IF <<i, j>> \in acc /\ p = prio THEN m_shadow_ql[i][j][p] - 1
                                                               ELSE m_shadow_ql[i][j][p]
  <2> TAKE i \in I, j \in J, p \in P
  <2>1. i \in Ports /\ j \in Ports /\ p \in Prios /\ m_shadow_ql[i][j][p] \in Nat
    BY <1>1
  <2> QED
    BY <1>0, <2>1 DEF Taken
<1>3. \A i \in I, j \in J : <<i, j>> \in acc =>
        m_shadow_ql[i][j][prio] > 0 /\ m_shadow_ql[i][j][prio] <= m_ql[i][j][prio]
  BY DEF Takes
<1>4. \A c : c \in Matched(I, J, P)' <=>
           \E i \in I, j \in J, p \in P :
             \E n \in m_shadow_ql'[i][j][p] + 1 .. m_ql'[i][j][p] : c = <<<<i, j, p>>, n>>
  BY MatchedAre
<1>5. \A c : c \in New <=>
        \E i \in I, j \in J : <<i, j>> \in acc /\ c = <<<<i, j, prio>>, m_shadow_ql[i][j][prio]>>
  <2>1. ASSUME NEW i \in I, NEW j \in J, <<i, j>> \in acc
        PROVE  <<<<i, j, prio>>, m_shadow_ql[i][j][prio]>> \in New
    <3>1. <<i, j>> \in A /\ cell(<<i, j>>) = <<<<i, j, prio>>, m_shadow_ql[i][j][prio]>>
      BY <2>1
    <3> QED
      BY <3>1
  <2>2. ASSUME NEW q \in A
        PROVE  \E i \in I, j \in J :
                 <<i, j>> \in acc /\ cell(q) = <<<<i, j, prio>>, m_shadow_ql[i][j][prio]>>
    <3>1. PICK i \in I, j \in J : q = <<i, j>>
      OBVIOUS
    <3> QED
      BY <3>1
  <2> QED
    BY <2>1, <2>2
<1>6. Matched(I, J, P)' = Matched(I, J, P) \cup New
  <2>1. ASSUME NEW i \in I, NEW j \in J, NEW p \in P, NEW n
        PROVE  n \in m_shadow_ql'[i][j][p] + 1 .. m_ql'[i][j][p]
               <=> \/ n \in m_shadow_ql[i][j][p] + 1 .. m_ql[i][j][p]
                   \/ <<i, j>> \in acc /\ p = prio /\ n = m_shadow_ql[i][j][p]
    BY <1>1, <1>2, <1>3
  <2> HIDE DEF New
  <2>2. ASSUME NEW c \in Matched(I, J, P)'  PROVE c \in Matched(I, J, P) \cup New
    <3>1. PICK i \in I, j \in J, p \in P :
                 \E n \in m_shadow_ql'[i][j][p] + 1 .. m_ql'[i][j][p] : c = <<<<i, j, p>>, n>>
      BY <1>4
    <3>2. PICK n \in m_shadow_ql'[i][j][p] + 1 .. m_ql'[i][j][p] : c = <<<<i, j, p>>, n>>
      BY <3>1
    <3> QED
      BY <2>1, <3>2, <1>5, MatchedAre
  <2>3. ASSUME NEW c \in Matched(I, J, P)  PROVE c \in Matched(I, J, P)'
    <3>1. PICK i \in I, j \in J, p \in P :
                 \E n \in m_shadow_ql[i][j][p] + 1 .. m_ql[i][j][p] : c = <<<<i, j, p>>, n>>
      BY MatchedAre
    <3>2. PICK n \in m_shadow_ql[i][j][p] + 1 .. m_ql[i][j][p] : c = <<<<i, j, p>>, n>>
      BY <3>1
    <3>3. n \in m_shadow_ql'[i][j][p] + 1 .. m_ql'[i][j][p]
      BY <2>1, <3>2
    <3> QED
      BY <3>2, <3>3, <1>4
  <2>4. ASSUME NEW c \in New  PROVE c \in Matched(I, J, P)'
    <3>1. PICK i \in I, j \in J :
                 <<i, j>> \in acc /\ c = <<<<i, j, prio>>, m_shadow_ql[i][j][prio]>>
      BY <1>5
    <3>2. m_shadow_ql[i][j][prio] \in m_shadow_ql'[i][j][prio] + 1 .. m_ql'[i][j][prio]
      BY <3>1, <2>1
    <3> QED
      BY <3>1, <3>2, <1>4
  <2> QED
    BY <2>2, <2>3, <2>4
<1>7. Matched(I, J, P) \cap New = {}
  <2> SUFFICES ASSUME NEW c \in Matched(I, J, P), c \in New  PROVE FALSE
    OBVIOUS
  <2>1. PICK i \in I, j \in J : c = <<<<i, j, prio>>, m_shadow_ql[i][j][prio]>>
    BY <1>5
  <2>2. PICK k \in I, l \in J, p \in P :
               \E n \in m_shadow_ql[k][l][p] + 1 .. m_ql[k][l][p] : c = <<<<k, l, p>>, n>>
    BY MatchedAre
  <2>3. PICK n \in m_shadow_ql[k][l][p] + 1 .. m_ql[k][l][p] : c = <<<<k, l, p>>, n>>
    BY <2>2
  <2>4. k = i /\ l = j /\ p = prio /\ n = m_shadow_ql[i][j][prio]
    BY <2>1, <2>3
  <2> QED
    BY <2>3, <2>4, <1>1
<1>8. IsFiniteSet(A)
  BY FS_Subset
<1>9. Corresponds(f, A, New)
  <2>1. f \in [A -> New] /\ \A z \in New : \E q \in A : f[q] = z
    OBVIOUS
  <2>2. ASSUME NEW q \in A, NEW r \in A, f[q] = f[r]  PROVE q = r
    <3>1. q \in I \X J /\ r \in I \X J /\ q[1] = r[1] /\ q[2] = r[2]
      BY <2>2
    <3> QED
      BY <3>1
  <2> HIDE DEF f, A, New
  <2> QED
    BY <2>1, <2>2 DEF Corresponds
<1>10. IsFiniteSet(New) /\ Cardinality(New) = Cardinality(A)
  <2> HIDE DEF f, A, New
  <2> QED
    BY <1>8, <1>9, SameSize
<1> HIDE DEF A, New
<1>11. /\ IsFiniteSet(Matched(I, J, P) \cup New)
       /\ Cardinality(Matched(I, J, P) \cup New) = Cardinality(Matched(I, J, P)) + Cardinality(New)
  <2>1. Cardinality(Matched(I, J, P) \cap New) = 0
    BY <1>7, FS_EmptySet
  <2>2. /\ Cardinality(Matched(I, J, P)) \in Nat /\ Cardinality(New) \in Nat
        /\ IsFiniteSet(New) /\ IsFiniteSet(Matched(I, J, P))
    BY <1>8, <1>10, FS_CardinalityType
  <2>3. /\ IsFiniteSet(Matched(I, J, P) \cup New)
        /\ Cardinality(Matched(I, J, P) \cup New) = Cardinality(Matched(I, J, P))
             + Cardinality(New) - Cardinality(Matched(I, J, P) \cap New)
    BY <2>2, FS_Union
  <2> QED
    BY <2>1, <2>2, <2>3
<1>12. /\ Matched(I, J, P)' = Cells(m_shadow_ql', m_ql', I, J, P)
       /\ Served(I, J, P) = Cardinality(Matched(I, J, P))
  BY DEF Served, Matched
<1> QED
  BY <1>6, <1>10, <1>11, <1>12 DEF A

\* No cell of another priority is matched.
LEMMA MatchedSame ==
  ASSUME NEW acc, Takes(acc), NEW p \in Prios, p # prio
  PROVE  Served(Ports, Ports, {p})' = Served(Ports, Ports, {p})
<1>0. Taken(acc)
  BY ShadowAfter
<1>1. \A i, j \in Ports : m_shadow_ql'[i][j][p] = m_shadow_ql[i][j][p] /\ m_ql'[i][j][p] = m_ql[i][j][p]
  <2>1. m_ql' = m_ql
    BY DEF Takes
  <2> QED
    BY <1>0, <2>1 DEF Taken
<1>2. \A i, j \in Ports : m_shadow_ql'[i][j][p] + 1 .. m_ql'[i][j][p] =
                         m_shadow_ql[i][j][p] + 1 .. m_ql[i][j][p]
  BY <1>1
<1>3. \A c : c \in Matched(Ports, Ports, {p}) <=>
        \E i \in Ports, j \in Ports :
          \E n \in m_shadow_ql[i][j][p] + 1 .. m_ql[i][j][p] : c = <<<<i, j, p>>, n>>
  BY MatchedAre
<1>4. \A c : c \in Matched(Ports, Ports, {p})' <=>
        \E i \in Ports, j \in Ports :
          \E n \in m_shadow_ql'[i][j][p] + 1 .. m_ql'[i][j][p] : c = <<<<i, j, p>>, n>>
  BY MatchedAre
<1>5. ASSUME NEW c  PROVE c \in Matched(Ports, Ports, {p})' <=> c \in Matched(Ports, Ports, {p})
  <2>1. ASSUME c \in Matched(Ports, Ports, {p})  PROVE c \in Matched(Ports, Ports, {p})'
    <3>1. PICK i \in Ports, j \in Ports :
                 \E n \in m_shadow_ql[i][j][p] + 1 .. m_ql[i][j][p] : c = <<<<i, j, p>>, n>>
      BY <2>1, <1>3
    <3>2. \E n \in m_shadow_ql'[i][j][p] + 1 .. m_ql'[i][j][p] : c = <<<<i, j, p>>, n>>
      BY <3>1, <1>2
    <3> QED
      BY <3>2, <1>4
  <2>2. ASSUME c \in Matched(Ports, Ports, {p})'  PROVE c \in Matched(Ports, Ports, {p})
    <3>1. PICK i \in Ports, j \in Ports :
                 \E n \in m_shadow_ql'[i][j][p] + 1 .. m_ql'[i][j][p] : c = <<<<i, j, p>>, n>>
      BY <2>2, <1>4
    <3>2. \E n \in m_shadow_ql[i][j][p] + 1 .. m_ql[i][j][p] : c = <<<<i, j, p>>, n>>
      BY <3>1, <1>2
    <3> QED
      BY <3>2, <1>3
  <2> QED
    BY <2>1, <2>2
<1>6. Matched(Ports, Ports, {p})' = Matched(Ports, Ports, {p})
  BY <1>5
<1> QED
  BY <1>6 DEF Served

-----------------------------------------------------------------------------
(* What do_accept() accepts.                                               *)

\* The accepts of all inputs.
AcceptedNow ==
  {<<i, FirstFrom(m_ai[prio][i], NumPort, Grants(i))>> :
     i \in {in \in FreeInputs : Grants(in) # {}}}

\* A matching of grants; if there is a grant, there is an accept.
Matches(acc) ==
  /\ acc \subseteq m_grant /\ acc \subseteq Pairs /\ IsFiniteSet(acc)
  /\ \A q, r \in acc : q[1] = r[1] => q = r
  /\ \A q, r \in acc : q[2] = r[2] => q = r
  /\ m_grant # {} => acc # {}

LEMMA PortsFinite ==
  /\ IsFiniteSet(Ports) /\ NumPort \in Nat \ {0} /\ Ports = 0 .. NumPort - 1
  /\ \A S : S \subseteq Pairs => IsFiniteSet(S)
<1>1. IsFiniteSet(Ports) /\ NumPort \in Nat \ {0} /\ Ports = 0 .. NumPort - 1
  BY IslipAssumption, FS_Interval DEF Ports
<1>2. IsFiniteSet(Pairs)
  BY <1>1, FS_Product DEF Pairs
<1> QED
  BY <1>1, <1>2, FS_Subset

LEMMA AcceptedMatches ==
  ASSUME RangeInv, PhaseInv, pc = "do_accept"
  PROVE  Matches(AcceptedNow)
<1> DEFINE to(i) == FirstFrom(m_ai[prio][i], NumPort, Grants(i))
           In == {in \in FreeInputs : Grants(in) # {}}
<1>1. /\ m_grant \subseteq Pairs /\ m_grant \subseteq Requestable
      /\ prio \in Prios /\ m_ai \in [Prios -> [Ports -> Ports]]
      /\ \A q, r \in m_grant : q[2] = r[2] => q = r
  BY DEF RangeInv, PhaseInv, TypeOK
<1>2. ASSUME NEW i \in In  PROVE to(i) \in Grants(i) /\ i \in Ports
  <2>1. i \in Ports /\ Grants(i) # {} /\ Grants(i) \in SUBSET (0 .. NumPort - 1)
    BY DEF FreeInputs, Grants, Ports
  <2>2. m_ai[prio][i] \in 0 .. NumPort - 1
    BY <1>1, <2>1 DEF Ports
  <2> QED
    BY <2>1, <2>2, PortsFinite, FirstFromMember
<1>3. AcceptedNow = {<<i, to(i)>> : i \in In}
  BY DEF AcceptedNow
<1>4. \A i \in In : <<i, to(i)>> \in m_grant
  BY <1>2 DEF Grants
<1> HIDE DEF to, In
<1>5. AcceptedNow \subseteq m_grant
  BY <1>3, <1>4
<1>6. \A q, r \in AcceptedNow : q[1] = r[1] => q = r
  BY <1>3
<1>7. m_grant # {} => AcceptedNow # {}
  <2> SUFFICES ASSUME NEW q \in m_grant  PROVE AcceptedNow # {}
    OBVIOUS
  <2>1. q \in FreeInputs \X FreeOutputs /\ q \in Ports \X Ports
    BY <1>1 DEF Requestable, Pairs
  <2>2. q[1] \in FreeInputs /\ q[2] \in Ports /\ <<q[1], q[2]>> \in m_grant
    BY <2>1
  <2>3. q[1] \in In
    BY <2>2 DEF In, Grants
  <2> QED
    BY <2>3, <1>3
<1> QED
  BY <1>1, <1>5, <1>6, <1>7, PortsFinite DEF Matches

\* A port is matched at most once in an iteration.
LEMMA RowCount ==
  ASSUME NEW acc, Matches(acc), NEW i \in Ports
  PROVE  /\ Cardinality({j \in Ports : <<i, j>> \in acc}) \in {0, 1}
         /\ Cardinality(acc \cap ({i} \X Ports)) = Cardinality({j \in Ports : <<i, j>> \in acc})
         /\ Cardinality({j \in Ports : <<i, j>> \in acc}) = 1 => \E q \in acc : q[1] = i
<1>1. CASE \E k \in Ports : <<i, k>> \in acc
  <2>1. PICK k \in Ports : <<i, k>> \in acc
    BY <1>1
  <2>2. \A j \in Ports : <<i, j>> \in acc => j = k
    BY <2>1 DEF Matches
  <2>3. {j \in Ports : <<i, j>> \in acc} = {k}
    BY <2>1, <2>2
  <2>4. acc \cap ({i} \X Ports) = {<<i, k>>}
    BY <2>1, <2>2
  <2>5. /\ Cardinality({j \in Ports : <<i, j>> \in acc}) = 1
        /\ Cardinality(acc \cap ({i} \X Ports)) = 1
    BY <2>3, <2>4, FS_Singleton
  <2>6. \E q \in acc : q[1] = i
    BY <2>1
  <2> QED
    BY <2>5, <2>6
<1>2. CASE ~ \E k \in Ports : <<i, k>> \in acc
  <2>1. {j \in Ports : <<i, j>> \in acc} = {} /\ acc \cap ({i} \X Ports) = {}
    BY <1>2
  <2>2. Cardinality({j \in Ports : <<i, j>> \in acc}) = 0 /\ Cardinality(acc \cap ({i} \X Ports)) = 0
    BY <2>1, FS_EmptySet
  <2> QED
    BY <2>2
<1> QED
  BY <1>1, <1>2

LEMMA ColumnCount ==
  ASSUME NEW acc, Matches(acc), NEW j \in Ports
  PROVE  /\ Cardinality({i \in Ports : <<i, j>> \in acc}) \in {0, 1}
         /\ Cardinality(acc \cap (Ports \X {j})) = Cardinality({i \in Ports : <<i, j>> \in acc})
         /\ Cardinality({i \in Ports : <<i, j>> \in acc}) = 1 => \E q \in acc : q[2] = j
<1>1. CASE \E k \in Ports : <<k, j>> \in acc
  <2>1. PICK k \in Ports : <<k, j>> \in acc
    BY <1>1
  <2>2. \A i \in Ports : <<i, j>> \in acc => i = k
    BY <2>1 DEF Matches
  <2>3. {i \in Ports : <<i, j>> \in acc} = {k}
    BY <2>1, <2>2
  <2>4. acc \cap (Ports \X {j}) = {<<k, j>>}
    BY <2>1, <2>2
  <2>5. /\ Cardinality({i \in Ports : <<i, j>> \in acc}) = 1
        /\ Cardinality(acc \cap (Ports \X {j})) = 1
    BY <2>3, <2>4, FS_Singleton
  <2>6. \E q \in acc : q[2] = j
    BY <2>1
  <2> QED
    BY <2>5, <2>6
<1>2. CASE ~ \E k \in Ports : <<k, j>> \in acc
  <2>1. {i \in Ports : <<i, j>> \in acc} = {} /\ acc \cap (Ports \X {j}) = {}
    BY <1>2
  <2>2. Cardinality({i \in Ports : <<i, j>> \in acc}) = 0 /\ Cardinality(acc \cap (Ports \X {j})) = 0
    BY <2>1, FS_EmptySet
  <2> QED
    BY <2>2
<1> QED
  BY <1>1, <1>2

LEMMA PairCount ==
  ASSUME NEW acc, NEW i, NEW j
  PROVE  Cardinality(acc \cap ({i} \X {j})) = IF <<i, j>> \in acc THEN 1 ELSE 0
<1>1. <<i, j>> \in acc => acc \cap ({i} \X {j}) = {<<i, j>>}
  OBVIOUS
<1>2. <<i, j>> \notin acc => acc \cap ({i} \X {j}) = {}
  OBVIOUS
<1> QED
  BY <1>1, <1>2, FS_Singleton, FS_EmptySet

-----------------------------------------------------------------------------
(* Accepting keeps the invariant.                                          *)

LEMMA AcceptTakes ==
  ASSUME IInv, do_accept
  PROVE  /\ Matches(AcceptedNow) /\ Takes(AcceptedNow)
         /\ \A q \in AcceptedNow : q \in Requestable
         /\ m_accept' = AcceptedNow
         /\ m_input_match_count' = [i \in Ports |-> m_input_match_count[i] +
              Cardinality({j \in Ports : <<i, j>> \in AcceptedNow})]
         /\ m_output_match_count' = [j \in Ports |-> m_output_match_count[j] +
              Cardinality({i \in Ports : <<i, j>> \in AcceptedNow})]
         /\ pc = "do_accept" /\ pc' = "update_priority_ptr"
         /\ UNCHANGED <<m_ql, pointers, m_request, m_grant, sch_result, loop>>
<1>1. /\ m_accept' = m_accept \cup AcceptedNow
      /\ m_input_match_count' = [i \in Ports |-> m_input_match_count[i] +
           Cardinality({j \in Ports : <<i, j>> \in AcceptedNow})]
      /\ m_output_match_count' = [j \in Ports |-> m_output_match_count[j] +
           Cardinality({i \in Ports : <<i, j>> \in AcceptedNow})]
      /\ pc = "do_accept" /\ pc' = "update_priority_ptr"
      /\ TakeFromShadow(AcceptedNow)
      /\ UNCHANGED <<m_ql, pointers, m_request, m_grant, sch_result, loop>>
  BY DEF do_accept, AcceptedNow
<1>2. Matches(AcceptedNow) /\ m_accept = {}
  BY <1>1, AcceptedMatches DEF IInv, PhaseInv
<1>3. /\ m_ql \in [Ports -> [Ports -> [Prios -> Nat]]]
      /\ m_shadow_ql \in [Ports -> [Ports -> [Prios -> Nat]]]
      /\ prio \in Prios
      /\ m_grant \subseteq Requestable
      /\ \A i, j \in Ports, p \in Prios : m_shadow_ql[i][j][p] <= m_ql[i][j][p]
  BY <1>1 DEF IInv, RangeInv, TypeOK, PhaseInv, CellInv
<1>4. \A q \in AcceptedNow : q \in Requestable
  BY <1>2, <1>3 DEF Matches
<1>5. ASSUME NEW q \in AcceptedNow
      PROVE  /\ m_shadow_ql[q[1]][q[2]][prio] > 0
             /\ m_shadow_ql[q[1]][q[2]][prio] <= m_ql[q[1]][q[2]][prio]
  <2>1. m_shadow_ql[q[1]][q[2]][prio] > 0
    BY <1>4 DEF Requestable
  <2>2. q[1] \in Ports /\ q[2] \in Ports
    BY <1>2 DEF Matches, Pairs
  <2> QED
    BY <2>1, <2>2, <1>3
<1>6. UNCHANGED m_ql /\ AcceptedNow \subseteq Pairs /\ TakeFromShadow(AcceptedNow)
  BY <1>1, <1>2 DEF Matches
<1>7. Takes(AcceptedNow)
  BY <1>3, <1>5, <1>6 DEF Takes
<1> QED
  BY <1>1, <1>2, <1>4, <1>7

LEMMA RangeAccept == IInv /\ do_accept => RangeInv'
<1> SUFFICES ASSUME IInv, do_accept  PROVE RangeInv'
  OBVIOUS
<1>1. /\ Matches(AcceptedNow)
      /\ m_accept' = AcceptedNow
      /\ m_input_match_count' = [i \in Ports |-> m_input_match_count[i] +
           Cardinality({j \in Ports : <<i, j>> \in AcceptedNow})]
      /\ m_output_match_count' = [j \in Ports |-> m_output_match_count[j] +
           Cardinality({i \in Ports : <<i, j>> \in AcceptedNow})]
      /\ pc = "do_accept" /\ pc' = "update_priority_ptr"
      /\ UNCHANGED <<m_ql, pointers, m_request, m_grant, sch_result, loop>>
  BY AcceptTakes
<1>2. m_shadow_ql' \in [Ports -> [Ports -> [Prios -> Nat]]]
  BY AcceptTakes, ShadowAfter DEF Taken
<1>3. \A k \in Ports : /\ Cardinality({j \in Ports : <<k, j>> \in AcceptedNow}) \in Nat
                       /\ Cardinality({i \in Ports : <<i, k>> \in AcceptedNow}) \in Nat
  <2> TAKE k \in Ports
  <2>1. Cardinality({j \in Ports : <<k, j>> \in AcceptedNow}) \in {0, 1}
    BY <1>1, RowCount
  <2>2. Cardinality({i \in Ports : <<i, k>> \in AcceptedNow}) \in {0, 1}
    BY <1>1, ColumnCount
  <2> QED
    BY <2>1, <2>2
<1>4. m_input_match_count' \in [Ports -> Nat] /\ m_output_match_count' \in [Ports -> Nat]
  <2> DEFINE row(i) == Cardinality({j \in Ports : <<i, j>> \in AcceptedNow})
             column(j) == Cardinality({i \in Ports : <<i, j>> \in AcceptedNow})
  <2>1. /\ m_input_match_count' = [i \in Ports |-> m_input_match_count[i] + row(i)]
        /\ m_output_match_count' = [j \in Ports |-> m_output_match_count[j] + column(j)]
    BY <1>1
  <2>2. \A k \in Ports : row(k) \in Nat /\ column(k) \in Nat
    BY <1>3
  <2> HIDE DEF row, column
  <2>3. m_input_match_count \in [Ports -> Nat] /\ m_output_match_count \in [Ports -> Nat]
    BY DEF IInv, RangeInv, TypeOK
  <2> QED
    BY <2>1, <2>2, <2>3
<1>5. m_accept' \subseteq m_grant'
  BY <1>1 DEF Matches
<1> QED
  BY <1>1, <1>2, <1>4, <1>5 DEF IInv, RangeInv, TypeOK, pointers, loop, Pairs, Ports

LEMMA CellAccept == IInv /\ do_accept => CellInv'
<1> SUFFICES ASSUME IInv, do_accept  PROVE CellInv'
  OBVIOUS
<1>0. PICK acc : acc = AcceptedNow
  OBVIOUS
<1>1. /\ Matches(acc) /\ Takes(acc)
      /\ \A q \in acc : q \in Requestable
      /\ m_accept' = acc
      /\ m_input_match_count' = [i \in Ports |-> m_input_match_count[i] +
           Cardinality({j \in Ports : <<i, j>> \in acc})]
      /\ m_output_match_count' = [j \in Ports |-> m_output_match_count[j] +
           Cardinality({i \in Ports : <<i, j>> \in acc})]
      /\ pc = "do_accept" /\ pc' = "update_priority_ptr"
      /\ UNCHANGED <<m_ql, pointers, m_request, m_grant, sch_result, loop>>
  BY <1>0, AcceptTakes
<1>2. /\ \A i, j \in Ports, p \in Prios : m_shadow_ql[i][j][p] <= m_ql[i][j][p]
      /\ IsFiniteSet(Matched(Ports, Ports, Prios))
      /\ \A i, j \in Ports : sch_result[<<i, j>>] = Served({i}, {j}, Prios)
      /\ \A i \in Ports : m_input_match_count[i] = Served({i}, Ports, Prios)
      /\ \A j \in Ports : m_output_match_count[j] = Served(Ports, {j}, Prios)
      /\ \A k \in Ports : /\ m_input_match_count[k] <= call.speedup
                          /\ m_output_match_count[k] <= call.speedup
      /\ sch_result \in [Pairs -> Nat]
  <2>1. \A i, j \in Ports : Reported(<<i, j>>) = sch_result[<<i, j>>]
    BY <1>1 DEF Reported, IInv, RangeInv, Pairs
  <2> QED
    BY <1>1, <2>1 DEF IInv, CellInv, RangeInv
<1>3. /\ m_input_match_count \in [Ports -> Nat] /\ m_output_match_count \in [Ports -> Nat]
      /\ m_shadow_ql \in [Ports -> [Ports -> [Prios -> Nat]]]
      /\ m_ql \in [Ports -> [Ports -> [Prios -> Nat]]]
      /\ call \in [iterations : Nat, speedup : Nat, islip : BOOLEAN]
      /\ call' = call /\ m_ql' = m_ql /\ sch_result' = sch_result /\ prio \in Prios
  BY <1>1 DEF IInv, RangeInv, TypeOK, loop
<1>4. IsFiniteSet(acc)
  BY <1>1 DEF Matches
<1>5. \A i, j \in Ports, p \in Prios : m_shadow_ql'[i][j][p] <= m_ql'[i][j][p]
  <2>1. Taken(acc)
    BY <1>1, ShadowAfter
  <2> TAKE i \in Ports, j \in Ports, p \in Prios
  <2>2. m_shadow_ql[i][j][p] \in Nat /\ m_ql[i][j][p] \in Nat
    BY <1>3
  <2>3. m_shadow_ql'[i][j][p] = m_shadow_ql[i][j][p] - 1 \/ m_shadow_ql'[i][j][p] = m_shadow_ql[i][j][p]
    BY <2>1, <2>2 DEF Taken
  <2>4. m_shadow_ql[i][j][p] <= m_ql[i][j][p] /\ m_ql'[i][j][p] = m_ql[i][j][p]
    BY <1>2, <1>3
  <2> QED
    BY <2>2, <2>3, <2>4
<1>6. \A I \in SUBSET Ports, J \in SUBSET Ports :
        /\ IsFiniteSet(Matched(I, J, Prios)')
        /\ Served(I, J, Prios)' = Served(I, J, Prios) + Cardinality(acc \cap (I \X J))
  <2> TAKE I \in SUBSET Ports, J \in SUBSET Ports
  <2>1. IsFiniteSet(Matched(I, J, Prios))
    BY <1>2, MatchedSubset
  <2>2. Prios \in SUBSET Prios
    OBVIOUS
  <2>3. /\ IsFiniteSet(Cells(m_shadow_ql', m_ql', I, J, Prios))
        /\ Cardinality(Cells(m_shadow_ql', m_ql', I, J, Prios)) =
             Served(I, J, Prios) + Cardinality(acc \cap (I \X J))
    <3>1. Takes(acc) /\ IsFiniteSet(acc) /\ prio \in Prios
      BY <1>1, <1>3, <1>4
    <3> QED
      BY <3>1, <2>1, <2>2, MatchedGrows
  <2>4. /\ Matched(I, J, Prios)' = Cells(m_shadow_ql', m_ql', I, J, Prios)
        /\ Served(I, J, Prios)' = Cardinality(Cells(m_shadow_ql', m_ql', I, J, Prios))
    BY DEF Matched, Served
  <2> QED
    BY <2>3, <2>4
<1>7. ASSUME NEW i \in Ports, NEW j \in Ports
      PROVE  Reported(<<i, j>>)' = Served({i}, {j}, Prios)'
  <2>1. Served({i}, {j}, Prios)' = Served({i}, {j}, Prios) + Cardinality(acc \cap ({i} \X {j}))
    BY <1>6
  <2>2. Reported(<<i, j>>)' = sch_result[<<i, j>>] + (IF <<i, j>> \in acc THEN 1 ELSE 0)
    BY <1>1, <1>3 DEF Reported
  <2> QED
    BY <2>1, <2>2, <1>2, PairCount
<1>8. ASSUME NEW i \in Ports
      PROVE  /\ m_input_match_count'[i] = Served({i}, Ports, Prios)'
             /\ m_input_match_count'[i] <= call.speedup
  <2> DEFINE n == Cardinality({j \in Ports : <<i, j>> \in acc})
  <2>1. Served({i}, Ports, Prios)' = Served({i}, Ports, Prios) + Cardinality(acc \cap ({i} \X Ports))
    BY <1>6
  <2>2. m_input_match_count'[i] = m_input_match_count[i] + n
    BY <1>1
  <2>3. /\ n \in {0, 1}
        /\ Cardinality(acc \cap ({i} \X Ports)) = n
        /\ n = 1 => \E q \in acc : q[1] = i
    BY <1>1, RowCount
  <2>4. (\E q \in acc : q[1] = i) => m_input_match_count[i] < call.speedup
    BY <1>1 DEF Requestable, FreeInputs
  <2>5. m_input_match_count[i] \in Nat /\ call.speedup \in Nat
    BY <1>3
  <2> HIDE DEF n
  <2>6. m_input_match_count[i] + n <= call.speedup
    BY <2>3, <2>4, <2>5, <1>2
  <2> QED
    BY <2>1, <2>2, <2>3, <2>6, <1>2
<1>9. ASSUME NEW j \in Ports
      PROVE  /\ m_output_match_count'[j] = Served(Ports, {j}, Prios)'
             /\ m_output_match_count'[j] <= call.speedup
  <2> DEFINE n == Cardinality({i \in Ports : <<i, j>> \in acc})
  <2>1. Served(Ports, {j}, Prios)' = Served(Ports, {j}, Prios) + Cardinality(acc \cap (Ports \X {j}))
    BY <1>6
  <2>2. m_output_match_count'[j] = m_output_match_count[j] + n
    BY <1>1
  <2>3. /\ n \in {0, 1}
        /\ Cardinality(acc \cap (Ports \X {j})) = n
        /\ n = 1 => \E q \in acc : q[2] = j
    BY <1>1, ColumnCount
  <2>4. (\E q \in acc : q[2] = j) => m_output_match_count[j] < call.speedup
    BY <1>1 DEF Requestable, FreeOutputs
  <2>5. m_output_match_count[j] \in Nat /\ call.speedup \in Nat
    BY <1>3
  <2> HIDE DEF n
  <2>6. m_output_match_count[j] + n <= call.speedup
    BY <2>3, <2>4, <2>5, <1>2
  <2> QED
    BY <2>1, <2>2, <2>3, <2>6, <1>2
<1>10. IsFiniteSet(Matched(Ports, Ports, Prios)')
  BY <1>6
<1> QED
  BY <1>3, <1>5, <1>7, <1>8, <1>9, <1>10 DEF CellInv

\* Ports and cells only become fewer, so what is open was open before.
LEMMA OpenShrinks ==
  ASSUME IInv, do_accept, NEW p \in Prios, OpenAt(p)'
  PROVE  OpenAt(p)
<1>1. /\ Matches(AcceptedNow) /\ Takes(AcceptedNow)
      /\ m_input_match_count' = [i \in Ports |-> m_input_match_count[i] +
           Cardinality({j \in Ports : <<i, j>> \in AcceptedNow})]
      /\ m_output_match_count' = [j \in Ports |-> m_output_match_count[j] +
           Cardinality({i \in Ports : <<i, j>> \in AcceptedNow})]
      /\ call' = call
  BY AcceptTakes DEF loop
<1>2. /\ m_input_match_count \in [Ports -> Nat] /\ m_output_match_count \in [Ports -> Nat]
      /\ m_shadow_ql \in [Ports -> [Ports -> [Prios -> Nat]]]
      /\ call.speedup \in Nat
  BY DEF IInv, RangeInv, TypeOK
<1>3. PICK i \in Ports, j \in Ports :
             /\ m_input_match_count'[i] < call.speedup
             /\ m_output_match_count'[j] < call.speedup
             /\ m_shadow_ql'[i][j][p] > 0
  BY <1>1 DEF OpenAt, FreeInputs, FreeOutputs
<1>4. m_input_match_count[i] < call.speedup
  <2> DEFINE n == Cardinality({l \in Ports : <<i, l>> \in AcceptedNow})
  <2>1. n \in {0, 1}
    BY <1>1, RowCount
  <2>2. m_input_match_count'[i] = m_input_match_count[i] + n
    BY <1>1
  <2> HIDE DEF n
  <2> QED
    BY <2>1, <2>2, <1>2, <1>3
<1>5. m_output_match_count[j] < call.speedup
  <2> DEFINE n == Cardinality({k \in Ports : <<k, j>> \in AcceptedNow})
  <2>1. n \in {0, 1}
    BY <1>1, ColumnCount
  <2>2. m_output_match_count'[j] = m_output_match_count[j] + n
    BY <1>1
  <2> HIDE DEF n
  <2> QED
    BY <2>1, <2>2, <1>2, <1>3
<1>6. m_shadow_ql[i][j][p] > 0
  <2>1. Taken(AcceptedNow)
    BY <1>1, ShadowAfter
  <2>2. m_shadow_ql[i][j][p] \in Nat
    BY <1>2
  <2>3. m_shadow_ql'[i][j][p] = m_shadow_ql[i][j][p] - 1 \/ m_shadow_ql'[i][j][p] = m_shadow_ql[i][j][p]
    BY <2>1, <2>2 DEF Taken
  <2> QED
    BY <2>2, <2>3, <1>3
<1> QED
  BY <1>4, <1>5, <1>6 DEF OpenAt, FreeInputs, FreeOutputs

\* If a pair was open at the current priority it was requested, so one was granted
\* and one accepted.
LEMMA ProgressAccept == IInv /\ do_accept => ProgressInv'
<1> SUFFICES ASSUME IInv, do_accept  PROVE ProgressInv'
  OBVIOUS
<1>0. PICK acc : acc = AcceptedNow
  OBVIOUS
<1>1. /\ Matches(acc) /\ Takes(acc)
      /\ pc = "do_accept" /\ pc' = "update_priority_ptr"
      /\ prio' = prio /\ m_current_iter' = m_current_iter /\ call' = call
  BY <1>0, AcceptTakes DEF loop
<1>2. /\ prio \in Prios /\ m_current_iter \in Nat /\ call.iterations \in Nat
      /\ m_request = Requestable /\ (m_request # {} => m_grant # {})
      /\ IsFiniteSet(Matched(Ports, Ports, Prios)) /\ IsFiniteSet(acc)
  BY <1>1 DEF IInv, RangeInv, TypeOK, PhaseInv, CellInv, Matches
<1>3. SUFFICES ASSUME NEW p \in Prios, ~ (p > prio), OpenAt(p)'
               PROVE  Served(Ports, Ports, {p})' >= Done(p)'
  BY <1>1 DEF ProgressInv
<1>4. OpenAt(p)
  BY <1>3, OpenShrinks
<1>5. Served(Ports, Ports, {p}) >= Done(p)
  BY <1>1, <1>3, <1>4 DEF IInv, ProgressInv
<1>6. CASE p # prio
  <2>1. Served(Ports, Ports, {p})' = Served(Ports, Ports, {p})
    BY <1>1, <1>6, MatchedSame
  <2>2. Done(p)' = Done(p)
    BY <1>1, <1>6 DEF Done
  <2> QED
    BY <2>1, <2>2, <1>5
<1>7. CASE p = prio
  <2>1. acc # {}
    <3>1. Requestable # {}
      <4>1. PICK i \in FreeInputs, j \in FreeOutputs : m_shadow_ql[i][j][p] > 0
        BY <1>4 DEF OpenAt
      <4>2. <<i, j>> \in Requestable
        BY <4>1, <1>7 DEF Requestable
      <4> QED
        BY <4>2
    <3> QED
      BY <3>1, <1>1, <1>2 DEF Matches
  <2>2. Cardinality(acc) \in Nat \ {0}
    BY <2>1, <1>2, FS_EmptySet, FS_CardinalityType
  <2>3. /\ IsFiniteSet(Matched(Ports, Ports, {p})) /\ Served(Ports, Ports, {p}) \in Nat
        /\ Ports \in SUBSET Ports /\ {p} \in SUBSET Prios /\ prio \in {p}
    BY <1>2, <1>7, MatchedSubset
  <2>4. Cardinality(Cells(m_shadow_ql', m_ql', Ports, Ports, {p})) =
          Served(Ports, Ports, {p}) + Cardinality(acc \cap (Ports \X Ports))
    <3>1. Takes(acc) /\ IsFiniteSet(acc)
      BY <1>1, <1>2
    <3> QED
      BY <3>1, <2>3, MatchedGrows
  <2>5. acc \cap (Ports \X Ports) = acc
    BY <1>1 DEF Matches, Pairs
  <2>6. Served(Ports, Ports, {p})' = Cardinality(Cells(m_shadow_ql', m_ql', Ports, Ports, {p}))
    BY DEF Served, Matched
  <2>7. Done(p)' = Done(p) + 1 /\ Done(p) \in Nat
    BY <1>1, <1>2, <1>7 DEF Done
  <2>8. Served(Ports, Ports, {p})' = Served(Ports, Ports, {p}) + Cardinality(acc)
    BY <2>4, <2>5, <2>6
  <2> QED
    BY <2>2, <2>3, <2>7, <2>8, <1>5
<1> QED
  BY <1>6, <1>7

LEMMA AcceptInv == IInv /\ do_accept => IInv'
<1> SUFFICES ASSUME IInv, do_accept  PROVE IInv'
  OBVIOUS
<1>1. PhaseInv'
  <2>1. pc' = "update_priority_ptr"
    BY DEF do_accept
  <2> QED
    BY <2>1 DEF PhaseInv
<1> QED
  BY <1>1, RangeAccept, CellAccept, ProgressAccept DEF IInv

-----------------------------------------------------------------------------
(* The other steps.                                                        *)

\* Steps that match nothing.
LEMMA CellSame ==
  ASSUME IInv, pc # "idle", UNCHANGED <<m_ql, m_shadow_ql, counts, call>>,
         \A i, j \in Ports : Reported(<<i, j>>)' = Reported(<<i, j>>)
  PROVE  CellInv'
<1>1. /\ \A I, J, P : Matched(I, J, P)' = Matched(I, J, P)
      /\ \A I, J, P : Served(I, J, P)' = Served(I, J, P)
  BY MatchedUnchanged
<1>2. /\ \A i, j \in Ports, p \in Prios : m_shadow_ql'[i][j][p] <= m_ql'[i][j][p]
      /\ IsFiniteSet(Matched(Ports, Ports, Prios)')
      /\ \A k \in Ports : /\ m_input_match_count'[k] <= call'.speedup
                          /\ m_output_match_count'[k] <= call'.speedup
  BY <1>1 DEF IInv, CellInv, counts
<1>3. ASSUME NEW i \in Ports, NEW j \in Ports
      PROVE  Reported(<<i, j>>)' = Served({i}, {j}, Prios)'
  <2>1. Served({i}, {j}, Prios)' = Served({i}, {j}, Prios)
    BY DEF Served, Matched
  <2> QED
    BY <2>1 DEF IInv, CellInv
<1>4. ASSUME NEW i \in Ports
      PROVE  /\ m_input_match_count'[i] = Served({i}, Ports, Prios)'
             /\ m_output_match_count'[i] = Served(Ports, {i}, Prios)'
  <2>1. /\ Served({i}, Ports, Prios)' = Served({i}, Ports, Prios)
        /\ Served(Ports, {i}, Prios)' = Served(Ports, {i}, Prios)
    BY DEF Served, Matched
  <2>2. m_input_match_count' = m_input_match_count /\ m_output_match_count' = m_output_match_count
    BY DEF counts
  <2> QED
    BY <2>1, <2>2 DEF IInv, CellInv
<1> QED
  BY <1>2, <1>3, <1>4 DEF CellInv

LEMMA OpenSame ==
  ASSUME UNCHANGED <<m_shadow_ql, counts, call>>, NEW p
  PROVE  OpenAt(p)' <=> OpenAt(p)
BY DEF OpenAt, FreeInputs, FreeOutputs, counts

LEMMA ProgressSame ==
  ASSUME IInv, pc # "idle", UNCHANGED <<m_ql, m_shadow_ql, counts, loop>>,
         pc # "update_priority_ptr", pc' # "update_priority_ptr"
  PROVE  ProgressInv'
<1>1. prio' = prio /\ m_current_iter' = m_current_iter /\ call' = call
  BY DEF loop
<1>2. SUFFICES ASSUME NEW p \in Prios, ~ (p > prio), OpenAt(p)'
               PROVE  Served(Ports, Ports, {p})' >= Done(p)'
  BY <1>1 DEF ProgressInv
<1>3. OpenAt(p)
  BY <1>1, <1>2, OpenSame
<1>4. Served(Ports, Ports, {p}) >= Done(p)
  BY <1>2, <1>3 DEF IInv, ProgressInv
<1>5. Served(Ports, Ports, {p})' = Served(Ports, Ports, {p}) /\ Done(p)' = Done(p)
  BY <1>1 DEF Served, Matched, Done
<1> QED
  BY <1>4, <1>5

LEMMA CallInv ==
  ASSUME IInv, NEW k \in IterArgs, NEW s \in SpeedupArgs, NEW islip \in ModeArgs,
         islip_sch(k, s, islip)
  PROVE  IInv'
<1>1. /\ k \in Nat \ {0} /\ s \in Nat /\ islip \in BOOLEAN
      /\ NumPrio \in Nat \ {0}
  BY IslipAssumption
<1>2. RangeInv'
  BY <1>1 DEF IInv, RangeInv, TypeOK, islip_sch, pointers, NoMatch, NoResult
<1>3. PhaseInv'
  BY DEF PhaseInv, islip_sch
<1>4. ASSUME NEW I \in SUBSET Ports, NEW J \in SUBSET Ports, NEW P \in SUBSET Prios
      PROVE  Matched(I, J, P)' = {} /\ Served(I, J, P)' = 0
  <2>1. m_ql \in [Ports -> [Ports -> [Prios -> Nat]]] /\ m_ql' = m_ql /\ m_shadow_ql' = m_ql
    BY DEF IInv, RangeInv, TypeOK, islip_sch
  <2>2. Cells(m_shadow_ql', m_ql', I, J, P) = {}
    BY <2>1, NoneMatched
  <2>3. /\ Matched(I, J, P)' = Cells(m_shadow_ql', m_ql', I, J, P)
        /\ Served(I, J, P)' = Cardinality(Cells(m_shadow_ql', m_ql', I, J, P))
    BY DEF Matched, Served
  <2> QED
    BY <2>2, <2>3, FS_EmptySet
<1>5. CellInv'
  <2>1. \A i, j \in Ports, p \in Prios : m_shadow_ql'[i][j][p] <= m_ql'[i][j][p]
    BY DEF IInv, RangeInv, TypeOK, islip_sch
  <2>2. IsFiniteSet(Matched(Ports, Ports, Prios)')
    BY <1>4, FS_EmptySet
  <2>3. ASSUME NEW i \in Ports, NEW j \in Ports
        PROVE  /\ Served({i}, {j}, Prios)' = 0 /\ Served({i}, Ports, Prios)' = 0
               /\ Served(Ports, {j}, Prios)' = 0
    BY <1>4
  <2>4. ASSUME NEW i \in Ports, NEW j \in Ports  PROVE Reported(<<i, j>>)' = 0
    BY DEF Reported, islip_sch, NoResult, Pairs
  <2>5. /\ \A i \in Ports : m_input_match_count'[i] = 0 /\ m_output_match_count'[i] = 0
        /\ call'.speedup = s
    BY DEF islip_sch, NoMatch
  <2>6. \A i, j \in Ports : Reported(<<i, j>>)' = Served({i}, {j}, Prios)'
    BY <2>3, <2>4
  <2>7. /\ \A i \in Ports : m_input_match_count'[i] = Served({i}, Ports, Prios)'
        /\ \A j \in Ports : m_output_match_count'[j] = Served(Ports, {j}, Prios)'
    BY <2>3, <2>5
  <2>8. \A x \in Ports : /\ m_input_match_count'[x] <= call'.speedup
                          /\ m_output_match_count'[x] <= call'.speedup
    BY <1>1, <2>5
  <2> QED
    BY <2>1, <2>2, <2>6, <2>7, <2>8 DEF CellInv
<1>6. ProgressInv'
  <2> SUFFICES ASSUME NEW p \in Prios, ~ (p > prio')  PROVE Served(Ports, Ports, {p})' >= Done(p)'
    BY DEF ProgressInv
  <2>1. prio' = 0 /\ m_current_iter' = 0 /\ pc' = "send_request"
    BY DEF islip_sch
  <2>2. p = 0
    BY <2>1, <1>1 DEF Prios
  <2>3. Done(p)' = 0
    BY <2>1, <2>2 DEF Done
  <2>4. Served(Ports, Ports, {p})' = 0
    BY <1>4
  <2> QED
    BY <2>3, <2>4
<1> QED
  BY <1>2, <1>3, <1>5, <1>6 DEF IInv

LEMMA SendInv == IInv /\ send_request => IInv'
<1> SUFFICES ASSUME IInv, send_request  PROVE IInv'
  OBVIOUS
<1>1. /\ pc = "send_request" /\ pc' = "do_grant" /\ prio < NumPrio
      /\ UNCHANGED <<m_ql, m_shadow_ql, pointers, counts, sch_result, loop>>
      /\ prio' = prio /\ call' = call
      /\ m_grant' = {} /\ m_accept' = {}
  BY DEF send_request, loop
<1>2. m_request' = Requestable' /\ m_request' \subseteq Pairs
  BY <1>1 DEF send_request, Requestable, FreeInputs, FreeOutputs, counts, Pairs
<1>3. prio \in Prios
  BY <1>1, IslipAssumption DEF IInv, RangeInv, TypeOK, Prios
<1>4. RangeInv'
  BY <1>1, <1>2, <1>3 DEF IInv, RangeInv, TypeOK, pointers, counts, loop
<1>5. PhaseInv'
  BY <1>1, <1>2 DEF PhaseInv
<1>6. CellInv'
  <2>1. \A i, j \in Ports : Reported(<<i, j>>)' = Reported(<<i, j>>)
    BY <1>1 DEF Reported
  <2> QED
    BY <1>1, <2>1, CellSame
<1>7. ProgressInv'
  BY <1>1, ProgressSame
<1> QED
  BY <1>4, <1>5, <1>6, <1>7 DEF IInv

\* The pointers.  A scan takes a port, and the port after it is a port.
LEMMA NextPort ==
  ASSUME NEW k \in Int  PROVE (k + 1) % NumPort \in Ports
BY IslipAssumption DEF Ports

LEMMA GrantInv == IInv /\ do_grant => IInv'
<1> SUFFICES ASSUME IInv, do_grant  PROVE IInv'
  OBVIOUS
<1> DEFINE granted == {j \in FreeOutputs : Requests(j) # {}}
           Choice(j) == FirstFrom(m_gi[prio][j], NumPort, Requests(j))
<1>1. /\ pc = "do_grant" /\ pc' = "do_accept"
      /\ m_grant' = m_grant \cup {<<Choice(j), j>> : j \in granted}
      /\ m_gi' = IF call.islip THEN m_gi
                 ELSE [m_gi EXCEPT ![prio] = [j \in Ports |->
                         IF j \in granted THEN (Choice(j) + 1) % NumPort ELSE @[j]]]
      /\ UNCHANGED <<m_ql, m_shadow_ql, m_ai, m_request, m_accept, counts, sch_result, loop>>
  BY DEF do_grant
<1>2. /\ m_grant = {} /\ m_accept = {} /\ m_request = Requestable /\ m_request \subseteq Pairs
      /\ prio \in Prios /\ m_gi \in [Prios -> [Ports -> Ports]]
  BY <1>1 DEF IInv, PhaseInv, RangeInv, TypeOK
<1>3. ASSUME NEW j \in granted  PROVE Choice(j) \in Requests(j) /\ j \in Ports
  <2>1. j \in Ports /\ Requests(j) # {} /\ Requests(j) \in SUBSET (0 .. NumPort - 1)
    BY DEF FreeOutputs, Requests, Ports
  <2>2. m_gi[prio][j] \in 0 .. NumPort - 1
    BY <1>2, <2>1 DEF Ports
  <2> QED
    BY <2>1, <2>2, PortsFinite, FirstFromMember
<1>4. /\ \A j \in granted : <<Choice(j), j>> \in m_request
      /\ \A j \in granted : Choice(j) \in Int
  <2> HIDE DEF granted, Choice
  <2>1. \A j \in granted : \A i \in Requests(j) : <<i, j>> \in m_request /\ i \in Int
    BY DEF Requests, Ports
  <2> QED
    BY <1>3, <2>1
<1>5. m_request # {} => granted # {}
  <2> SUFFICES ASSUME NEW q \in m_request  PROVE granted # {}
    OBVIOUS
  <2>1. q \in FreeInputs \X FreeOutputs
    BY <1>2 DEF Requestable
  <2>2. q[1] \in Ports /\ q[2] \in FreeOutputs /\ <<q[1], q[2]>> \in m_request
    BY <2>1 DEF FreeInputs
  <2>3. q[2] \in granted
    BY <2>2 DEF Requests
  <2> QED
    BY <2>3
<1>6. m_gi' \in [Prios -> [Ports -> Ports]]
  <2>1. CASE call.islip
    BY <1>1, <1>2, <2>1
  <2>2. CASE ~ call.islip
    <3> DEFINE row == [j \in Ports |-> IF j \in granted THEN (Choice(j) + 1) % NumPort
                                                        ELSE m_gi[prio][j]]
    <3> HIDE DEF granted, Choice
    <3>1. \A j \in granted : (Choice(j) + 1) % NumPort \in Ports
      BY <1>4, NextPort
    <3>2. row \in [Ports -> Ports]
      BY <1>2, <3>1
    <3>3. m_gi' = [m_gi EXCEPT ![prio] = row]
      BY <1>1, <2>2
    <3> HIDE DEF row
    <3> QED
      BY <1>2, <3>2, <3>3
  <2> QED
    BY <2>1, <2>2
<1> HIDE DEF granted, Choice
<1>7. /\ m_grant' \subseteq m_request /\ m_grant' = {<<Choice(j), j>> : j \in granted}
      /\ prio' = prio /\ call' = call /\ m_request' = m_request /\ m_accept' = m_accept
  BY <1>1, <1>2, <1>4 DEF loop
<1>8. RangeInv'
  BY <1>1, <1>2, <1>6, <1>7 DEF IInv, RangeInv, TypeOK, counts, loop, Pairs
<1>9. PhaseInv'
  <2>1. Requestable' = Requestable
    BY <1>1, <1>7 DEF Requestable, FreeInputs, FreeOutputs, counts
  <2>2. \A q, r \in m_grant' : q[2] = r[2] => q = r
    BY <1>7
  <2>3. m_request' # {} => m_grant' # {}
    BY <1>5, <1>7
  <2> QED
    BY <1>1, <1>2, <1>7, <2>1, <2>2, <2>3 DEF PhaseInv
<1>10. CellInv'
  <2>1. \A i, j \in Ports : Reported(<<i, j>>)' = Reported(<<i, j>>)
    BY <1>1 DEF Reported
  <2> QED
    BY <1>1, <1>7, <2>1, CellSame
<1>11. ProgressInv'
  BY <1>1, ProgressSame
<1> QED
  BY <1>8, <1>9, <1>10, <1>11 DEF IInv

\* The port after the matched one, or the old pointer.
LEMMA PointerPastIs ==
  ASSUME NEW S \in SUBSET Ports, NEW old \in Ports
  PROVE  PointerPast(S, old) \in Ports
<1>1. CASE S = {}
  BY <1>1 DEF PointerPast
<1>2. CASE S # {}
  <2>1. Max(S) \in S
    <3>1. NumPort \in Nat /\ S \in SUBSET (0 .. NumPort)
      BY PortsFinite
    <3> QED
      BY <1>2, <3>1, MaxIs
  <2>2. Max(S) \in Int
    <3>1. Max(S) \in Ports
      BY <2>1
    <3> QED
      BY <3>1 DEF Ports
  <2> QED
    BY <1>2, <2>2, NextPort DEF PointerPast
<1> QED
  BY <1>1, <1>2

LEMMA UpdateInv == IInv /\ update_priority_ptr => IInv'
<1> SUFFICES ASSUME IInv, update_priority_ptr  PROVE IInv'
  OBVIOUS
<1>1. /\ pc = "update_priority_ptr" /\ pc' = "send_request"
      /\ UNCHANGED <<m_ql, m_shadow_ql, m_request, m_grant, m_accept, counts, call>>
      /\ sch_result' = [q \in Pairs |-> sch_result[q] + (IF q \in m_accept THEN 1 ELSE 0)]
      /\ IF m_current_iter + 1 < call.iterations
         THEN m_current_iter' = m_current_iter + 1 /\ prio' = prio
         ELSE m_current_iter' = 0 /\ prio' = prio + 1
  BY DEF update_priority_ptr
<1>2. /\ prio \in Prios /\ m_current_iter \in Nat /\ call.iterations \in Nat
      /\ m_current_iter < call.iterations
      /\ m_gi \in [Prios -> [Ports -> Ports]] /\ m_ai \in [Prios -> [Ports -> Ports]]
      /\ sch_result \in [Pairs -> Nat]
      /\ NumPrio \in Nat \ {0}
  BY <1>1, IslipAssumption DEF IInv, RangeInv, TypeOK
<1>3. m_gi' \in [Prios -> [Ports -> Ports]]
  <2> DEFINE row == [j \in Ports |-> PointerPast(InputsOf(j), m_gi[prio][j])]
  <2>1. row \in [Ports -> Ports]
    <3>1. \A j \in Ports : InputsOf(j) \in SUBSET Ports /\ m_gi[prio][j] \in Ports
      BY <1>2 DEF InputsOf
    <3>2. \A j \in Ports : PointerPast(InputsOf(j), m_gi[prio][j]) \in Ports
      BY <3>1, PointerPastIs
    <3> QED
      BY <3>2
  <2>2. m_gi' = m_gi \/ m_gi' = [m_gi EXCEPT ![prio] = row]
    BY DEF update_priority_ptr
  <2> HIDE DEF row
  <2> QED
    BY <1>2, <2>1, <2>2
<1>4. m_ai' \in [Prios -> [Ports -> Ports]]
  <2> DEFINE row == [i \in Ports |-> PointerPast(OutputsOf(i), m_ai[prio][i])]
  <2>1. row \in [Ports -> Ports]
    <3>1. \A i \in Ports : OutputsOf(i) \in SUBSET Ports /\ m_ai[prio][i] \in Ports
      BY <1>2 DEF OutputsOf
    <3>2. \A i \in Ports : PointerPast(OutputsOf(i), m_ai[prio][i]) \in Ports
      BY <3>1, PointerPastIs
    <3> QED
      BY <3>2
  <2>2. m_ai' = m_ai \/ m_ai' = [m_ai EXCEPT ![prio] = row]
    BY DEF update_priority_ptr
  <2> HIDE DEF row
  <2> QED
    BY <1>2, <2>1, <2>2
<1>5. /\ prio' \in 0 .. NumPrio /\ m_current_iter' \in Nat /\ m_current_iter' < call.iterations
      /\ \/ prio' = prio /\ m_current_iter' = m_current_iter + 1
         \/ prio' = prio + 1 /\ m_current_iter' = 0 /\ m_current_iter + 1 = call.iterations
  BY <1>1, <1>2 DEF Prios
<1>6. sch_result' \in [Pairs -> Nat]
  BY <1>1, <1>2
<1>7. RangeInv'
  BY <1>1, <1>3, <1>4, <1>5, <1>6 DEF IInv, RangeInv, TypeOK, counts
<1>8. PhaseInv'
  BY <1>1 DEF PhaseInv
<1>9. CellInv'
  <2>1. ASSUME NEW i \in Ports, NEW j \in Ports  PROVE Reported(<<i, j>>)' = Reported(<<i, j>>)
    <3>1. <<i, j>> \in Pairs
      BY DEF Pairs
    <3>2. Reported(<<i, j>>) = sch_result[<<i, j>>] + (IF <<i, j>> \in m_accept THEN 1 ELSE 0)
      BY <1>1 DEF Reported
    <3>3. Reported(<<i, j>>)' = sch_result'[<<i, j>>] + 0
      BY <1>1 DEF Reported
    <3>4. sch_result'[<<i, j>>] \in Nat
      BY <1>6, <3>1
    <3> QED
      BY <1>1, <3>1, <3>2, <3>3, <3>4
  <2> QED
    BY <1>1, <2>1, CellSame
<1>10. ProgressInv'
  <2>1. SUFFICES ASSUME NEW p \in Prios, ~ (p > prio'), OpenAt(p)'
                 PROVE  Served(Ports, Ports, {p})' >= Done(p)'
    BY <1>1 DEF ProgressInv
  <2>2. OpenAt(p)
    BY <1>1, <2>1, OpenSame
  <2>3. Served(Ports, Ports, {p})' = Served(Ports, Ports, {p}) /\ Served(Ports, Ports, {p}) \in Nat
    <3>1. IsFiniteSet(Matched(Ports, Ports, Prios))
      BY <1>1 DEF IInv, CellInv
    <3> QED
      BY <1>1, <3>1, MatchedSubset DEF Served, Matched
  <2>4. p \in Nat /\ prio \in Nat
    BY <1>2 DEF Prios
  <2>5. p > prio \/ Served(Ports, Ports, {p}) >= Done(p)
    BY <1>1, <2>2 DEF IInv, ProgressInv
  <2>6. Done(p) = IF p = prio THEN m_current_iter + 1 ELSE call.iterations
    BY <1>1 DEF Done
  <2>7. Done(p)' = IF p = prio' THEN m_current_iter' ELSE call.iterations
    BY <1>1, <1>5 DEF Done
  <2> QED
    BY <1>2, <1>5, <2>1, <2>3, <2>4, <2>5, <2>6, <2>7
<1> QED
  BY <1>7, <1>8, <1>9, <1>10 DEF IInv

LEMMA IdleInv ==
  ASSUME RangeInv, pc = "idle"
  PROVE  IInv
BY DEF IInv, PhaseInv, CellInv, ProgressInv

LEMMA InitInv == Init => IInv
<1> SUFFICES ASSUME Init  PROVE IInv
  OBVIOUS
<1>1. /\ NumPort \in Nat \ {0} /\ NumPrio \in Nat \ {0} /\ 0 \in Ports
  BY IslipAssumption DEF Ports
<1>2. /\ NoCells \in [Ports -> [Ports -> [Prios -> Nat]]]
      /\ Zeroes \in [Prios -> [Ports -> Ports]]
      /\ NoMatch \in [Ports -> Nat] /\ NoResult \in [Pairs -> Nat]
      /\ NoCall \in [iterations : Nat, speedup : Nat, islip : BOOLEAN]
  BY <1>1 DEF NoCells, Zeroes, NoMatch, NoResult, NoCall
<1>3. RangeInv
  BY <1>1, <1>2 DEF Init, RangeInv, TypeOK
<1> QED
  BY <1>3, IdleInv DEF Init

\* What the caller does between two calls, and the return of a call.
LEMMA CallerInv ==
  ASSUME IInv, init \/ init_priority_ptr \/ Return
               \/ \E i, j \in Ports, p \in 0 .. NumPrio : set_ql(i, j, p)
  PROVE  IInv'
<1>1. /\ NumPort \in Nat \ {0} /\ NumPrio \in Nat \ {0} /\ 0 \in Ports
  BY IslipAssumption DEF Ports
<1>2. /\ NoCells \in [Ports -> [Ports -> [Prios -> Nat]]]
      /\ Zeroes \in [Prios -> [Ports -> Ports]]
      /\ NoResult \in [Pairs -> Nat]
      /\ NoCall \in [iterations : Nat, speedup : Nat, islip : BOOLEAN]
  BY <1>1 DEF NoCells, Zeroes, NoResult, NoCall
<1>3. CASE init
  <2>1. RangeInv' /\ pc' = "idle"
    BY <1>2, <1>3 DEF init, IInv, RangeInv, TypeOK, pointers, counts, loop, Pairs
  <2> QED
    BY <2>1 DEF IInv, PhaseInv, CellInv, ProgressInv
<1>4. CASE init_priority_ptr
  <2>1. RangeInv' /\ pc' = "idle"
    BY <1>2, <1>4 DEF init_priority_ptr, IInv, RangeInv, TypeOK, counts, loop, Pairs
  <2> QED
    BY <2>1 DEF IInv, PhaseInv, CellInv, ProgressInv
<1>5. CASE Return
  <2>1. RangeInv' /\ pc' = "idle"
    BY <1>1, <1>2, <1>5 DEF Return, IInv, RangeInv, TypeOK, pointers, counts, Pairs
  <2> QED
    BY <2>1 DEF IInv, PhaseInv, CellInv, ProgressInv
<1>6. ASSUME NEW i \in Ports, NEW j \in Ports, NEW p \in 0 .. NumPrio, set_ql(i, j, p)
      PROVE  IInv'
  <2>1. /\ pc = "idle" /\ pc' = "idle"
        /\ m_ql' = IF p \in Prios THEN [m_ql EXCEPT ![i][j][p] = @ + 1] ELSE m_ql
        /\ UNCHANGED <<m_shadow_ql, pointers, m_request, m_grant, m_accept, counts,
                       sch_result, loop, pc>>
    BY <1>6 DEF set_ql
  <2>2. m_ql' \in [Ports -> [Ports -> [Prios -> Nat]]]
    <3>1. m_ql \in [Ports -> [Ports -> [Prios -> Nat]]]
      BY DEF IInv, RangeInv, TypeOK
    <3> QED
      BY <2>1, <3>1
  <2>3. RangeInv'
    BY <2>1, <2>2 DEF IInv, RangeInv, TypeOK, pointers, counts, loop, Pairs
  <2> QED
    BY <2>1, <2>3 DEF IInv, PhaseInv, CellInv, ProgressInv
<1> QED
  BY <1>3, <1>4, <1>5, <1>6

LEMMA NextInv == IInv /\ [Next]_vars => IInv'
<1> SUFFICES ASSUME IInv, [Next]_vars  PROVE IInv'
  OBVIOUS
<1>1. CASE Caller
  <2>1. ASSUME NEW k \in IterArgs, NEW s \in SpeedupArgs, NEW islip \in ModeArgs,
               islip_sch(k, s, islip)
        PROVE  IInv'
    BY <2>1, CallInv
  <2> QED
    BY <1>1, <2>1, CallerInv DEF Caller
<1>2. CASE send_request \/ do_grant \/ do_accept \/ update_priority_ptr
  BY <1>2, SendInv, GrantInv, AcceptInv, UpdateInv
<1>3. CASE Return
  BY <1>3, CallerInv
<1>4. CASE UNCHANGED vars
  <2>1. UNCHANGED <<m_ql, m_shadow_ql, counts, call>>
    BY <1>4 DEF vars, loop
  <2>2. RangeInv'
    BY <1>4 DEF vars, IInv, RangeInv, TypeOK, pointers, counts, loop
  <2>3. PhaseInv'
    BY <1>4 DEF vars, IInv, PhaseInv, Requestable, FreeInputs, FreeOutputs, counts, loop
  <2>4. CASE pc = "idle"
    BY <1>4, <2>2, <2>3, <2>4 DEF vars, IInv, CellInv, ProgressInv
  <2>5. CASE pc # "idle"
    <3>1. \A i, j \in Ports : Reported(<<i, j>>)' = Reported(<<i, j>>)
      BY <1>4 DEF vars, Reported
    <3>2. CellInv'
      BY <2>1, <2>5, <3>1, CellSame
    <3>3. ProgressInv'
      <4> SUFFICES ASSUME NEW p \in Prios, ~ (p > prio'), OpenAt(p)'
                   PROVE  Served(Ports, Ports, {p})' >= Done(p)'
        BY DEF ProgressInv
      <4>1. OpenAt(p) /\ prio' = prio
        BY <1>4, <2>1, OpenSame DEF vars, loop
      <4>2. Served(Ports, Ports, {p})' = Served(Ports, Ports, {p}) /\ Done(p)' = Done(p)
        BY <1>4 DEF vars, loop, Served, Matched, Done
      <4> QED
        BY <2>5, <4>1, <4>2 DEF IInv, ProgressInv
    <3> QED
      BY <2>2, <2>3, <3>2, <3>3 DEF IInv
  <2> QED
    BY <2>4, <2>5
<1> QED
  BY <1>1, <1>2, <1>3, <1>4 DEF Next

THEOREM IslipInvariant == Spec => []IInv
BY InitInv, NextInv, PTL DEF Spec

-----------------------------------------------------------------------------
(* The properties.                                                         *)

\* islip.cpp:  what the shadow queues lost, what the match counters count and what
\* sch_result reports is the same in every iteration, and no port is matched more
\* often than the speedup allows.
THEOREM IslipBooksAgree == Spec => []BooksAgree
<1>1. IInv => BooksAgree
  <2> SUFFICES ASSUME IInv  PROVE BooksAgree
    OBVIOUS
  <2>1. ASSUME pc = "send_request", NEW i \in Ports, NEW j \in Ports
        PROVE  sch_result[<<i, j>>] = Served({i}, {j}, Prios)
    <3>1. Reported(<<i, j>>) = sch_result[<<i, j>>]
      BY <2>1 DEF Reported, IInv, RangeInv, Pairs
    <3> QED
      BY <2>1, <3>1 DEF IInv, CellInv
  <2> QED
    BY <2>1 DEF BooksAgree, IInv, RangeInv, CellInv
<1> QED
  BY <1>1, IslipInvariant, PTL

\* islip.cpp: an iteration of a priority matches a cell unless none can be
\* matched, whatever has been matched before it.
THEOREM IslipLevelProgress == Spec => []LevelProgress
<1>1. IInv => LevelProgress
  <2> SUFFICES ASSUME IInv, pc = "send_request", NEW p \in Prios, ~ (p > prio), OpenAt(p)
               PROVE  Served(Ports, Ports, {p}) >=
                        (IF p = prio THEN m_current_iter ELSE call.iterations)
    BY DEF LevelProgress
  <2>1. Served(Ports, Ports, {p}) >= Done(p)
    BY DEF IInv, ProgressInv
  <2>2. Done(p) = IF p = prio THEN m_current_iter ELSE call.iterations
    BY DEF Done, IInv, RangeInv, TypeOK
  <2> QED
    BY <2>1, <2>2
<1> QED
  BY <1>1, IslipInvariant, PTL
=============================================================================
