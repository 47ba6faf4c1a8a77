-------------------------- MODULE StandaloneProofs --------------------------
(***************************************************************************)
(* The scan loop, booksim_islip.cpp and islip_sp.cpp for every number of   *)
(* ports: the scan takes the port the other modules say it takes, the      *)
(* flags that booksim_islip.cpp never withdraws do no harm, islip_sp.cpp   *)
(* is strict about priorities and otherwise chooses as pim may, fifo.cpp   *)
(* is a crossbar, and the load/store unit keeps its memory consistent.     *)
(***************************************************************************)
EXTENDS Standalone, Lemmas

-----------------------------------------------------------------------------
(* The scan loop.                                                          *)

\* The ports the scan has passed are not eligible: no eligible port is nearer
\* to the start than the one it is at.
ScanInv ==
  /\ n \in Nat \ {0} /\ start \in 0 .. n - 1 /\ x \in 0 .. n - 1
  /\ eligible \in SUBSET (0 .. n - 1) /\ done \in BOOLEAN
  /\ ~ done => taken = {} /\ \A y \in eligible : Dist(start, x, n) <= Dist(start, y, n)
  /\ Scan!TakesFirst

\* The operators of the scan loop are those of RoundRobin.
LEMMA SameScan ==
  /\ \A a, b, c : Scan!Dist(a, b, c) = Dist(a, b, c)
  /\ \A a, b, S : Scan!FirstFrom(a, b, S) = FirstFrom(a, b, S)
<1>1. \A a, b, c : Scan!Dist(a, b, c) = Dist(a, b, c)
  BY DEF Scan!Dist, Dist
<1>2. \A a, b, S : Scan!FirstFrom(a, b, S) = FirstFrom(a, b, S)
  BY DEF Scan!Dist, Dist, Scan!FirstFrom, FirstFrom
<1> QED
  BY <1>1, <1>2

\* At the start nothing has been passed.
LEMMA ScanInit == Scan!Init => ScanInv
<1> SUFFICES ASSUME Scan!Init PROVE ScanInv
  OBVIOUS
<1>1. /\ n \in Nat \ {0} /\ start \in 0 .. n - 1 /\ x = start
      /\ eligible \in SUBSET (0 .. n - 1) /\ done = FALSE /\ taken = {}
  BY DEF Scan!Init
<1>2. ASSUME NEW y \in eligible  PROVE Dist(start, x, n) <= Dist(start, y, n)
  <2>1. Dist(start, x, n) = 0
    BY <1>1, DistIs
  <2>2. Dist(start, y, n) = IF y >= start THEN y - start ELSE y + n - start
    BY <1>1, DistIs
  <2> QED
    BY <1>1, <2>1, <2>2
<1> QED
  BY <1>1, <1>2 DEF ScanInv, Scan!TakesFirst

\* Every turn of the loop keeps it so; the loop ends without a port only when it
\* has passed them all.
LEMMA ScanStep == ScanInv /\ Scan!Next => ScanInv'
<1> SUFFICES ASSUME ScanInv, Scan!Next PROVE ScanInv'
  OBVIOUS
<1>types. /\ n \in Nat \ {0} /\ start \in 0 .. n - 1 /\ x \in 0 .. n - 1
          /\ eligible \in SUBSET (0 .. n - 1)
          /\ n' = n /\ start' = start /\ eligible' = eligible
          /\ ~ done /\ taken = {}
          /\ \A y \in eligible : Dist(start, x, n) <= Dist(start, y, n)
  BY DEF ScanInv, Scan!Next, Scan!Take, Scan!Advance
<1>dist. \A y \in 0 .. n - 1 :
           Dist(start, y, n) = IF y >= start THEN y - start ELSE y + n - start
  BY <1>types, DistIs
<1>1. CASE Scan!Take
  <2>1. x \in eligible /\ taken' = {x} /\ done' = TRUE /\ x' = x
    BY <1>1 DEF Scan!Take
  <2>2. FirstFrom(start, n, eligible) = x
    BY <1>types, <2>1, FirstFromIs
  <2>3. Scan!TakesFirst'
    BY <1>types, <2>1, <2>2, SameScan DEF Scan!TakesFirst
  <2> QED
    BY <1>types, <2>1, <2>3 DEF ScanInv
<1>2. CASE Scan!Advance
  <2>1. x \notin eligible /\ taken' = {} /\ done' = (x' = start)
    BY <1>2, <1>types DEF Scan!Advance
  <2>2. x' = IF x + 1 < n THEN x + 1 ELSE 0
    <3>1. x' = (x + 1) % n
      BY <1>2 DEF Scan!Advance, Scan!Following
    <3>2. PICK y : y = x + 1
      OBVIOUS
    <3>3. y \in Nat /\ y < n + n /\ n \in Nat \ {0}
      BY <1>types, <3>2
    <3>4. y % n = IF y < n THEN y ELSE y - n
      BY <3>3, Around
    <3> QED
      BY <1>types, <3>1, <3>2, <3>4
  <2>3. x' \in 0 .. n - 1
    BY <1>types, <2>2
  <2>4. \A y \in eligible : Dist(start, x, n) < Dist(start, y, n)
    <3> SUFFICES ASSUME NEW y \in eligible PROVE Dist(start, x, n) < Dist(start, y, n)
      OBVIOUS
    <3>1. y \in 0 .. n - 1 /\ y # x /\ Dist(start, x, n) <= Dist(start, y, n)
      BY <1>types, <2>1
    <3> QED
      BY <1>types, <1>dist, <3>1
  <2>5. CASE x' = start
    <3>1. Dist(start, x, n) = n - 1
      BY <1>types, <1>dist, <2>2, <2>5
    <3>2. \A y \in 0 .. n - 1 : Dist(start, y, n) <= n - 1
      BY <1>types, <1>dist
    <3>3. eligible = {}
      <4> SUFFICES ASSUME NEW y \in eligible PROVE FALSE
        OBVIOUS
      <4>1. Dist(start, y, n) <= n - 1 /\ n - 1 < Dist(start, y, n)
        BY <1>types, <2>4, <3>1, <3>2
      <4>2. Dist(start, y, n) \in Int
        BY <1>types, <1>dist
      <4> QED
        BY <1>types, <4>1, <4>2
    <3>4. Scan!TakesFirst'
      BY <1>types, <2>1, <3>3 DEF Scan!TakesFirst
    <3> QED
      BY <1>types, <2>1, <2>3, <2>5, <3>4 DEF ScanInv
  <2>6. CASE x' # start
    <3>1. Dist(start, x', n) = Dist(start, x, n) + 1
      BY <1>types, <1>dist, <2>2, <2>3, <2>6
    <3>2. \A y \in eligible : Dist(start, x', n) <= Dist(start, y, n)
      <4> SUFFICES ASSUME NEW y \in eligible PROVE Dist(start, x', n) <= Dist(start, y, n)
        OBVIOUS
      <4>1. Dist(start, x, n) \in Int /\ Dist(start, y, n) \in Int
        BY <1>types, <1>dist
      <4> QED
        BY <2>4, <3>1, <4>1
    <3>3. Scan!TakesFirst'
      BY <2>1, <2>6 DEF Scan!TakesFirst
    <3> QED
      BY <1>types, <2>1, <2>3, <2>6, <3>2, <3>3 DEF ScanInv
  <2> QED
    BY <2>5, <2>6
<1> QED
  BY <1>1, <1>2 DEF Scan!Next

\* islip_basic.cpp:70-87: from every start, for every number of ports and every set
\* of eligible ones, the scan takes the port FirstFrom names.  The proofs of the
\* schedulers, which know of the scan only FirstFrom, rest on it.
THEOREM ScanTakesFirst == Spec => []TakesFirst
<1> DEFINE Inv == unit = "scan" => ScanInv
<1>1. Init => Inv
  BY ScanInit DEF Init, IsLsu
<1>2. Inv /\ [Next]_vars => Inv'
  <2> SUFFICES ASSUME Inv, [Next]_vars, unit' = "scan" PROVE ScanInv'
    OBVIOUS
  <2>1. CASE Next
    <3>1. unit = "scan" /\ Scan!Next
      BY <2>1 DEF Next, SteadySlot
    <3> QED
      BY <3>1, ScanStep
  <2>2. CASE UNCHANGED vars
    <3>1. UNCHANGED <<n, start, eligible, x, taken, done, unit>>
      BY <2>2 DEF vars, scanVars
    <3> QED
      BY <3>1 DEF ScanInv, Scan!TakesFirst
  <2> QED
    BY <2>1, <2>2
<1>3. Inv => TakesFirst
  BY DEF ScanInv, TakesFirst
<1> HIDE DEF Inv
<1> QED
  BY <1>1, <1>2, <1>3, PTL DEF Spec
-----------------------------------------------------------------------------
(* booksim_islip.cpp with N ports, K iterations and m_max_match M.         *)

\* The pairs of S both ports of which are unmatched.
OpenIn(S) == {q \in S : q[1] \notin m_input_occupied /\ q[2] \notin m_output_occupied}

BooksTypes(N, K) ==
  /\ m_ql \subseteq (0 .. N-1) \X (0 .. N-1)
  /\ m_request \subseteq (0 .. N-1) \X (0 .. N-1)
  /\ m_grant \subseteq m_request /\ m_accept \subseteq m_grant
  /\ sch_result \subseteq m_accept
  /\ m_gi \in [0 .. N-1 -> 0 .. N-1] /\ m_ai \in [0 .. N-1 -> 0 .. N-1]
  /\ m_iter_cnt \in 0 .. K
  /\ pc \in {"idle", "send_request", "do_grant", "do_accept", "update_priority_ptr"}
  /\ pc \in {"do_grant", "do_accept", "update_priority_ptr"} => m_iter_cnt < K

\* The reported pairs are a matching of exactly the occupied ports.
BooksMatched ==
  /\ \A p, q \in sch_result : p # q => p[1] # q[1] /\ p[2] # q[2]
  /\ m_input_occupied = {q[1] : q \in sch_result}
  /\ m_output_occupied = {q[2] : q \in sch_result}

\* Every grant whose output and input are both unmatched was given in this
\* iteration, one by an output, and with m_max_match one in all; every accept whose
\* ports are unmatched was given in this iteration, one by an input, and no input
\* that was granted an unmatched output fails to accept one.
BooksFresh(M) ==
  /\ pc \in {"idle", "send_request", "do_grant"} => OpenIn(m_grant) = {}
  /\ pc # "update_priority_ptr" => OpenIn(m_accept) = {}
  /\ \A p, q \in OpenIn(m_grant) : M \/ p[2] = q[2] => p = q
  /\ \A p, q \in OpenIn(m_accept) : p[1] = q[1] => p = q
  /\ pc = "update_priority_ptr" =>
       \A g \in OpenIn(m_grant) : \E a \in OpenIn(m_accept) : a[1] = g[1]

\* While a nonempty queue has both ports unmatched, each phase of an iteration
\* has something to do.
BooksProgress ==
  /\ pc # "idle" /\ OpenIn(m_ql) # {} => Cardinality(sch_result) >= m_iter_cnt
  /\ pc = "do_grant" => m_ql \subseteq m_request
  /\ pc = "do_accept" /\ OpenIn(m_ql) # {} => OpenIn(m_grant) # {}
  /\ pc = "update_priority_ptr" /\ OpenIn(m_ql) # {} => OpenIn(m_accept) # {}

BooksInv(N, K, M) ==
  BooksTypes(N, K) /\ BooksMatched /\ BooksFresh(M) /\ BooksProgress

\* The scan of booksim_islip.cpp is that of RoundRobin.
LEMMA SameBooksimScan ==
  ASSUME NEW N, NEW K, NEW M
  PROVE  \A a, b, S : Booksim(N, K, M)!FirstFrom(a, b, S) = FirstFrom(a, b, S)
BY DEF Booksim!FirstFrom, Booksim!Dist, FirstFrom, Dist

\* A set of pairs of ports is finite.
LEMMA PairsFinite ==
  ASSUME NEW N \in Nat, NEW S \in SUBSET ((0 .. N-1) \X (0 .. N-1))
  PROVE  IsFiniteSet(S) /\ Cardinality(S) \in Nat
<1>1. IsFiniteSet(0 .. N-1)
  <2>1. N - 1 \in Int
    OBVIOUS
  <2> QED
    BY <2>1, FS_Interval
<1>2. IsFiniteSet((0 .. N-1) \X (0 .. N-1))
  BY <1>1, FS_Product
<1> QED
  BY <1>2, FS_Subset, FS_CardinalityType

\* Adding new pairs to a finite set makes it larger.
LEMMA MoreMatches ==
  ASSUME NEW N \in Nat, NEW S \in SUBSET ((0 .. N-1) \X (0 .. N-1)),
         NEW R \in SUBSET S, S \ R # {}
  PROVE  Cardinality(S) >= Cardinality(R) + 1
<1>1. IsFiniteSet(S) /\ Cardinality(S) \in Nat /\ IsFiniteSet(R) /\ Cardinality(R) \in Nat
  BY PairsFinite
<1>2. PICK q \in S : q \notin R
  OBVIOUS
<1>3. Cardinality(R \cup {q}) = Cardinality(R) + 1
  BY <1>1, <1>2, FS_AddElement
<1>4. R \cup {q} \subseteq S
  BY <1>2
<1>5. Cardinality(R \cup {q}) <= Cardinality(S)
  BY <1>1, <1>4, FS_Subset
<1> QED
  BY <1>1, <1>3, <1>5

\* The constructor, and the queues of TEST_starvation.
LEMMA BooksInit ==
  ASSUME NEW N \in Nat \ {0}, NEW K \in Nat, NEW M \in BOOLEAN,
         Booksim(N, K, M)!Init \/ Booksim(N, K, M)!SteadyInit
  PROVE  BooksInv(N, K, M)
<1>1. /\ m_ql \subseteq (0 .. N-1) \X (0 .. N-1)
      /\ m_request = {} /\ m_grant = {} /\ m_accept = {} /\ sch_result = {}
      /\ m_input_occupied = {} /\ m_output_occupied = {}
      /\ m_gi = [k \in 0 .. N-1 |-> 0] /\ m_ai = [k \in 0 .. N-1 |-> 0]
      /\ m_iter_cnt = 0 /\ pc = "idle"
  BY DEF Booksim!Init, Booksim!SteadyInit, Booksim!NoPointers, Booksim!Ports, Booksim!Pairs
<1>2. BooksTypes(N, K)
  BY <1>1 DEF BooksTypes
<1>3. BooksMatched /\ BooksFresh(M) /\ BooksProgress
  BY <1>1 DEF BooksMatched, BooksFresh, BooksProgress, OpenIn
<1> QED
  BY <1>2, <1>3 DEF BooksInv

\* init(), init_priority_ptr(), set_ql(), the call and the return of islip_sch().
LEMMA BooksCalls ==
  ASSUME NEW N \in Nat \ {0}, NEW K \in Nat, NEW M \in BOOLEAN, BooksInv(N, K, M),
         \/ Booksim(N, K, M)!init \/ Booksim(N, K, M)!init_priority_ptr
         \/ \E i, j \in 0 .. N-1 : Booksim(N, K, M)!set_ql(i, j)
         \/ Booksim(N, K, M)!islip_sch \/ Booksim(N, K, M)!Reannounce
         \/ Booksim(N, K, M)!Return
  PROVE  BooksInv(N, K, M)'
<1> USE DEF Booksim!Cleared, Booksim!flags, Booksim!pointers, Booksim!matched
<1>inv. BooksTypes(N, K) /\ BooksMatched /\ BooksFresh(M) /\ BooksProgress
  BY DEF BooksInv
<1>count. m_iter_cnt \in 0 .. K /\ 0 \in 0 .. K
  BY <1>inv DEF BooksTypes
<1>1. CASE Booksim(N, K, M)!init \/ Booksim(N, K, M)!Reannounce
  <2>1. /\ m_ql' \subseteq m_ql
        /\ m_request' = {} /\ m_grant' = {} /\ m_accept' = {} /\ sch_result' = {}
        /\ m_input_occupied' = {} /\ m_output_occupied' = {}
        /\ m_gi' = m_gi /\ m_ai' = m_ai
        /\ pc = "idle"
        /\ \/ pc' = "idle" /\ m_iter_cnt' = m_iter_cnt
           \/ pc' = "send_request" /\ m_iter_cnt' = 0
    BY <1>1 DEF Booksim!init, Booksim!Reannounce
  <2>2. BooksTypes(N, K)'
    <3>1. m_iter_cnt' \in 0 .. K
      BY <1>count, <2>1
    <3> QED
      BY <2>1, <3>1, <1>inv DEF BooksTypes
  <2>3. (BooksMatched /\ BooksFresh(M))'
    BY <2>1 DEF BooksMatched, BooksFresh, OpenIn
  <2>4. BooksProgress'
    BY <2>1, FS_EmptySet DEF BooksProgress
  <2> QED
    BY <2>2, <2>3, <2>4 DEF BooksInv
<1>2. CASE Booksim(N, K, M)!init_priority_ptr
           \/ \E i, j \in 0 .. N-1 : Booksim(N, K, M)!set_ql(i, j)
  <2>1. /\ m_ql' \subseteq (0 .. N-1) \X (0 .. N-1)
        /\ UNCHANGED <<m_request, m_grant, m_accept, sch_result, m_input_occupied,
                       m_output_occupied, m_iter_cnt, pc>>
        /\ pc = "idle"
        /\ m_gi' \in [0 .. N-1 -> 0 .. N-1] /\ m_ai' \in [0 .. N-1 -> 0 .. N-1]
    <3>1. CASE Booksim(N, K, M)!init_priority_ptr
      <4>1. [k \in 0 .. N-1 |-> 0] \in [0 .. N-1 -> 0 .. N-1]
        OBVIOUS
      <4> QED
        BY <3>1, <4>1, <1>inv DEF Booksim!init_priority_ptr, Booksim!NoPointers,
           Booksim!Ports, BooksTypes
    <3>2. CASE \E i, j \in 0 .. N-1 : Booksim(N, K, M)!set_ql(i, j)
      <4>1. PICK i, j \in 0 .. N-1 : Booksim(N, K, M)!set_ql(i, j)
        BY <3>2
      <4>2. m_ql' = m_ql \cup {<<i, j>>} /\ <<i, j>> \in (0 .. N-1) \X (0 .. N-1)
        BY <4>1 DEF Booksim!set_ql
      <4>3. m_ql' \subseteq (0 .. N-1) \X (0 .. N-1)
        BY <4>2, <1>inv DEF BooksTypes
      <4> QED
        BY <4>1, <4>3, <1>inv DEF Booksim!set_ql, BooksTypes
    <3> QED
      BY <1>2, <3>1, <3>2
  <2>2. BooksTypes(N, K)'
    BY <2>1, <1>inv DEF BooksTypes
  <2>3. (BooksMatched /\ BooksFresh(M))'
    BY <2>1, <1>inv DEF BooksMatched, BooksFresh, OpenIn
  <2>4. BooksProgress'
    BY <2>1 DEF BooksProgress
  <2> QED
    BY <2>2, <2>3, <2>4 DEF BooksInv
<1>3. CASE Booksim(N, K, M)!islip_sch \/ Booksim(N, K, M)!Return
  <2>1. /\ UNCHANGED <<m_ql, m_request, m_grant, m_accept, sch_result, m_input_occupied,
                       m_output_occupied, m_gi, m_ai>>
        /\ \/ pc = "send_request" /\ pc' = "idle" /\ m_iter_cnt' = m_iter_cnt
           \/ pc = "idle" /\ pc' = "send_request" /\ m_iter_cnt' = 0
    BY <1>3 DEF Booksim!islip_sch, Booksim!Return
  <2>2. BooksTypes(N, K)'
    <3>1. m_iter_cnt' \in 0 .. K /\ pc' \in {"idle", "send_request"}
      BY <1>count, <2>1
    <3> QED
      BY <2>1, <3>1, <1>inv DEF BooksTypes
  <2>3. (BooksMatched /\ BooksFresh(M))'
    BY <2>1, <1>inv DEF BooksMatched, BooksFresh, OpenIn
  <2>4. BooksProgress'
    <3>1. Cardinality(sch_result) \in Nat
      <4>1. sch_result \in SUBSET ((0 .. N-1) \X (0 .. N-1))
        BY <1>inv DEF BooksTypes
      <4> QED
        BY <4>1, PairsFinite
    <3> QED
      BY <2>1, <3>1 DEF BooksProgress
  <2> QED
    BY <2>2, <2>3, <2>4 DEF BooksInv
<1> QED
  BY <1>1, <1>2, <1>3

\* send_request(): no flag that is still set is withdrawn.
LEMMA BooksSend ==
  ASSUME NEW N \in Nat \ {0}, NEW K \in Nat, NEW M \in BOOLEAN, BooksInv(N, K, M),
         Booksim(N, K, M)!send_request
  PROVE  BooksInv(N, K, M)'
<1>inv. BooksTypes(N, K) /\ BooksMatched /\ BooksFresh(M) /\ BooksProgress
  BY DEF BooksInv
<1>1. /\ pc = "send_request" /\ pc' = "do_grant" /\ m_iter_cnt < K
      /\ m_request' = m_request \cup m_ql
      /\ UNCHANGED <<m_ql, m_grant, m_accept, m_gi, m_ai, m_input_occupied,
                     m_output_occupied, sch_result, m_iter_cnt>>
  BY DEF Booksim!send_request, Booksim!pointers, Booksim!matched
<1>2. BooksTypes(N, K)'
  BY <1>inv, <1>1 DEF BooksTypes
<1>3. (BooksMatched /\ BooksFresh(M) /\ BooksProgress)'
  BY <1>inv, <1>1 DEF BooksMatched, BooksFresh, BooksProgress, OpenIn
<1> QED
  BY <1>2, <1>3 DEF BooksInv

\* With m_max_match the search ends at the first port, otherwise at none.
LEMMA HeardIs ==
  ASSUME NEW N \in Nat \ {0}, NEW K \in Nat, NEW M \in BOOLEAN,
         NEW S \in SUBSET (0 .. N-1)
  PROVE  LET H == Booksim(N, K, M)!Heard(S) IN
         /\ H \in SUBSET S
         /\ S # {} => H # {}
         /\ M => \A k, l \in H : k = l
         /\ ~ M => H = S
<1> DEFINE H == Booksim(N, K, M)!Heard(S)
<1>1. CASE ~ M
  BY <1>1 DEF Booksim!Heard
<1>2. CASE M
  <2>1. H = {k \in S : \A l \in S : k <= l}
    BY <1>2 DEF Booksim!Heard
  <2>2. ASSUME S # {} PROVE H # {}
    <3>1. \E k \in S : \A l \in S : k <= l
      <4>1. S \in SUBSET Nat
        OBVIOUS
      <4> QED
        BY <4>1, <2>2, LeastNat
    <3> QED
      BY <2>1, <3>1
  <2>3. \A k, l \in H : k = l
    <3> HIDE DEF H
    <3>0. \A k \in H : k \in S /\ k \in Int /\ \A l \in S : k <= l
      BY <2>1
    <3> SUFFICES ASSUME NEW k \in H, NEW l \in H PROVE k = l
      OBVIOUS
    <3>1. k \in Int /\ l \in Int /\ k <= l /\ l <= k
      BY <3>0
    <3> QED
      BY <3>1
  <2> QED
    BY <1>2, <2>1, <2>2, <2>3
<1> QED
  BY <1>1, <1>2

\* do_grant(): the grants that are new are one by an unmatched output, and with
\* m_max_match one in all.
LEMMA BooksGrant ==
  ASSUME NEW N \in Nat \ {0}, NEW K \in Nat, NEW M \in BOOLEAN, BooksInv(N, K, M),
         Booksim(N, K, M)!do_grant
  PROVE  BooksInv(N, K, M)'
<1>inv. BooksTypes(N, K) /\ BooksMatched /\ BooksFresh(M) /\ BooksProgress
  BY DEF BooksInv
<1> DEFINE Ports == 0 .. N-1
           Requests(j) == {i \in Ports \ m_input_occupied : <<i, j>> \in m_request}
           Asked == {j \in Ports \ m_output_occupied : Requests(j) # {}}
           H == Booksim(N, K, M)!Heard(Asked)
           pick(j) == FirstFrom(m_gi[j], N, Requests(j))
           New == {<<pick(j), j>> : j \in H}
<1>1. /\ pc = "do_grant" /\ pc' = "do_accept"
      /\ UNCHANGED <<m_ql, m_request, m_accept, m_gi, m_ai, m_input_occupied,
                     m_output_occupied, sch_result, m_iter_cnt>>
  BY DEF Booksim!do_grant, Booksim!pointers, Booksim!matched
<1>2. m_grant' = m_grant \cup New
  <2>1. /\ \A j : Booksim(N, K, M)!Requests(j) = Requests(j)
        /\ Booksim(N, K, M)!FreeOutputs = Ports \ m_output_occupied
    BY DEF Booksim!Requests, Booksim!FreeInputs, Booksim!FreeOutputs, Booksim!Ports
  <2>2. m_grant' = m_grant \cup
          {<<Booksim(N, K, M)!FirstFrom(m_gi[j], N, Requests(j)), j>> : j \in H}
    BY <2>1, Zenon DEF Booksim!do_grant
  <2> QED
    BY <2>2, SameBooksimScan
<1>3. /\ H \in SUBSET Asked
      /\ Asked # {} => H # {}
      /\ M => \A k, l \in H : k = l
  <2>1. Asked \in SUBSET (0 .. N-1)
    OBVIOUS
  <2> HIDE DEF Asked
  <2> QED
    BY <2>1, HeardIs
<1>4. ASSUME NEW j \in H
      PROVE  /\ pick(j) \in Ports /\ pick(j) \notin m_input_occupied
             /\ <<pick(j), j>> \in m_request /\ j \in Ports /\ j \notin m_output_occupied
  <2>1. j \in Asked
    BY <1>3
  <2>2. m_gi[j] \in 0 .. N-1
    BY <2>1, <1>inv DEF BooksTypes
  <2>3. Requests(j) \in SUBSET (0 .. N-1) /\ Requests(j) # {}
    BY <2>1
  <2> HIDE DEF Requests
  <2>4. pick(j) \in Requests(j)
    BY <2>2, <2>3, FirstFromMember
  <2> QED
    BY <2>1, <2>4 DEF Requests
<1> HIDE DEF H, pick
<1>5. OpenIn(m_grant) = {}
  BY <1>inv, <1>1 DEF BooksFresh
<1>6. OpenIn(m_grant)' = New
  <2>1. OpenIn(m_grant)' = {q \in m_grant \cup New :
                              q[1] \notin m_input_occupied /\ q[2] \notin m_output_occupied}
    BY <1>1, <1>2 DEF OpenIn
  <2>2. \A q \in New : q[1] \notin m_input_occupied /\ q[2] \notin m_output_occupied
    BY <1>4
  <2> HIDE DEF New
  <2> QED
    BY <1>5, <2>1, <2>2 DEF OpenIn
<1>7. BooksTypes(N, K)'
  <2>1. New \subseteq m_request
    BY <1>4
  <2> HIDE DEF New
  <2> QED
    BY <1>inv, <1>1, <1>2, <2>1 DEF BooksTypes
<1>8. BooksMatched'
  BY <1>inv, <1>1 DEF BooksMatched
<1>9. BooksFresh(M)'
  <2>1. \A p, q \in New : M \/ p[2] = q[2] => p = q
    BY <1>3
  <2>2. OpenIn(m_accept)' = {}
    BY <1>inv, <1>1 DEF BooksFresh, OpenIn
  <2> HIDE DEF New
  <2> QED
    BY <1>1, <1>6, <2>1, <2>2 DEF BooksFresh
<1>10. BooksProgress'
  <2>1. OpenIn(m_ql)' = OpenIn(m_ql)
    BY <1>1 DEF OpenIn
  <2>2. ASSUME OpenIn(m_ql) # {} PROVE New # {}
    <3>1. PICK q \in m_ql : q[1] \notin m_input_occupied /\ q[2] \notin m_output_occupied
      BY <2>2 DEF OpenIn
    <3>2. q \in m_request /\ q[1] \in Ports /\ q[2] \in Ports /\ q = <<q[1], q[2]>>
      <4>1. m_ql \subseteq m_request
        BY <1>inv, <1>1 DEF BooksProgress
      <4>2. q \in Ports \X Ports
        BY <1>inv DEF BooksTypes
      <4> QED
        BY <4>1, <4>2
    <3>3. q[2] \in Asked
      BY <3>1, <3>2
    <3> QED
      BY <1>3, <3>3
  <2> HIDE DEF New
  <2> QED
    BY <1>inv, <1>1, <1>6, <2>1, <2>2 DEF BooksProgress
<1> QED
  BY <1>7, <1>8, <1>9, <1>10 DEF BooksInv

\* do_accept(): every input that an unmatched output grants accepts one.
LEMMA BooksAccept ==
  ASSUME NEW N \in Nat \ {0}, NEW K \in Nat, NEW M \in BOOLEAN, BooksInv(N, K, M),
         Booksim(N, K, M)!do_accept
  PROVE  BooksInv(N, K, M)'
<1>inv. BooksTypes(N, K) /\ BooksMatched /\ BooksFresh(M) /\ BooksProgress
  BY DEF BooksInv
<1> DEFINE Ports == 0 .. N-1
           Grants(i) == {j \in Ports \ m_output_occupied : <<i, j>> \in m_grant}
           Offered == {i \in Ports \ m_input_occupied : Grants(i) # {}}
           H == Booksim(N, K, M)!Heard(Offered)
           pick(i) == FirstFrom(m_ai[i], N, Grants(i))
           New == {<<i, pick(i)>> : i \in H}
<1>1. /\ pc = "do_accept" /\ pc' = "update_priority_ptr"
      /\ UNCHANGED <<m_ql, m_request, m_grant, m_gi, m_ai, m_input_occupied,
                     m_output_occupied, sch_result, m_iter_cnt>>
  BY DEF Booksim!do_accept, Booksim!pointers, Booksim!matched
<1>2. m_accept' = m_accept \cup New
  <2>1. /\ \A i : Booksim(N, K, M)!Grants(i) = Grants(i)
        /\ Booksim(N, K, M)!FreeInputs = Ports \ m_input_occupied
    BY DEF Booksim!Grants, Booksim!FreeInputs, Booksim!FreeOutputs, Booksim!Ports
  <2>2. {i \in Booksim(N, K, M)!FreeInputs : Booksim(N, K, M)!Grants(i) # {}} = Offered
    BY <2>1
  <2>3. m_accept' = m_accept \cup
          {<<i, Booksim(N, K, M)!FirstFrom(m_ai[i], N, Booksim(N, K, M)!Grants(i))>> :
             i \in H}
    BY <2>2, Zenon DEF Booksim!do_accept
  <2> HIDE DEF H, Grants
  <2> QED
    BY <2>1, <2>3, SameBooksimScan
<1>3. /\ H \in SUBSET Offered
      /\ Offered # {} => H # {}
      /\ ~ M => H = Offered
  <2>1. Offered \in SUBSET (0 .. N-1)
    OBVIOUS
  <2> HIDE DEF Offered
  <2> QED
    BY <2>1, HeardIs
<1>4. ASSUME NEW i \in H
      PROVE  /\ pick(i) \in Ports /\ pick(i) \notin m_output_occupied
             /\ <<i, pick(i)>> \in m_grant /\ i \in Ports /\ i \notin m_input_occupied
  <2>1. i \in Offered
    BY <1>3
  <2>2. m_ai[i] \in 0 .. N-1
    BY <2>1, <1>inv DEF BooksTypes
  <2>3. Grants(i) \in SUBSET (0 .. N-1) /\ Grants(i) # {}
    BY <2>1
  <2> HIDE DEF Grants
  <2>4. pick(i) \in Grants(i)
    BY <2>2, <2>3, FirstFromMember
  <2> QED
    BY <2>1, <2>4 DEF Grants
<1> HIDE DEF H, pick
<1>5. OpenIn(m_accept)' = New
  <2>1. OpenIn(m_accept) = {}
    BY <1>inv, <1>1 DEF BooksFresh
  <2>2. OpenIn(m_accept)' = {q \in m_accept \cup New :
                              q[1] \notin m_input_occupied /\ q[2] \notin m_output_occupied}
    BY <1>1, <1>2 DEF OpenIn
  <2>3. \A q \in New : q[1] \notin m_input_occupied /\ q[2] \notin m_output_occupied
    BY <1>4
  <2> HIDE DEF New
  <2> QED
    BY <2>1, <2>2, <2>3 DEF OpenIn
<1>6. OpenIn(m_grant)' = OpenIn(m_grant)
  BY <1>1 DEF OpenIn
\* An input with an open grant is offered one; with m_max_match it is the only one.
<1>7. ASSUME NEW g \in OpenIn(m_grant)  PROVE \E a \in New : a[1] = g[1]
  <2>1. /\ g \in m_grant /\ g = <<g[1], g[2]>> /\ g[1] \in Ports /\ g[2] \in Ports
        /\ g[1] \notin m_input_occupied /\ g[2] \notin m_output_occupied
    <3>1. g \in m_grant /\ g[1] \notin m_input_occupied /\ g[2] \notin m_output_occupied
      BY DEF OpenIn
    <3>2. g \in Ports \X Ports
      BY <3>1, <1>inv DEF BooksTypes
    <3> QED
      BY <3>1, <3>2
  <2>2. g[1] \in Offered
    BY <2>1
  <2>3. g[1] \in H
    <3>1. CASE ~ M
      BY <3>1, <1>3, <2>2
    <3>2. CASE M
      <4>1. \A i \in Offered : i = g[1]
        <5> SUFFICES ASSUME NEW i \in Offered PROVE i = g[1]
          OBVIOUS
        <5>1. PICK j \in Grants(i) : TRUE
          OBVIOUS
        <5>2. <<i, j>> \in OpenIn(m_grant)
          BY DEF OpenIn
        <5>3. <<i, j>> = g
          BY <5>2, <3>2, <1>inv DEF BooksFresh
        <5> QED
          BY <5>3
      <4> QED
        BY <1>3, <2>2, <4>1
    <3> QED
      BY <3>1, <3>2
  <2>4. <<g[1], pick(g[1])>> \in New
    BY <2>3
  <2> QED
    BY <2>4
<1>8. BooksTypes(N, K)'
  <2>1. New \subseteq m_grant
    BY <1>4
  <2> HIDE DEF New
  <2> QED
    BY <1>inv, <1>1, <1>2, <2>1 DEF BooksTypes
<1>9. BooksMatched'
  BY <1>inv, <1>1 DEF BooksMatched
<1>10. BooksFresh(M)'
  <2>1. \A p, q \in New : p[1] = q[1] => p = q
    OBVIOUS
  <2> HIDE DEF New
  <2> QED
    BY <1>inv, <1>1, <1>5, <1>6, <1>7, <2>1 DEF BooksFresh
<1>11. BooksProgress'
  <2>1. OpenIn(m_ql)' = OpenIn(m_ql)
    BY <1>1 DEF OpenIn
  <2> HIDE DEF New
  <2> QED
    BY <1>inv, <1>1, <1>5, <1>7, <2>1 DEF BooksProgress
<1> QED
  BY <1>8, <1>9, <1>10, <1>11 DEF BooksInv

\* update_priority_ptr(): the accepts acted on share no port with each other or with
\* the matches of earlier iterations, and there is one unless none is possible.
LEMMA BooksUpdate ==
  ASSUME NEW N \in Nat \ {0}, NEW K \in Nat, NEW M \in BOOLEAN, BooksInv(N, K, M),
         Booksim(N, K, M)!update_priority_ptr
  PROVE  BooksInv(N, K, M)'
<1>inv. BooksTypes(N, K) /\ BooksMatched /\ BooksFresh(M) /\ BooksProgress
  BY DEF BooksInv
<1> DEFINE Ports == 0 .. N-1
           F == OpenIn(m_accept)
<1>1. /\ pc = "update_priority_ptr" /\ pc' = "send_request"
      /\ m_iter_cnt' = m_iter_cnt + 1
      /\ UNCHANGED <<m_ql, m_request, m_grant, m_accept>>
  BY DEF Booksim!update_priority_ptr, Booksim!flags
<1>2. m_accept \in SUBSET (Ports \X Ports) /\ F \in SUBSET m_accept
  BY <1>inv DEF BooksTypes, OpenIn
<1>3. Booksim(N, K, M)!Fresh = F
  <2>1. \A q \in m_accept : q[1] \in Ports /\ q[2] \in Ports
    BY <1>2
  <2> QED
    BY <2>1 DEF Booksim!Fresh, Booksim!FreeInputs, Booksim!FreeOutputs, Booksim!Ports, OpenIn
<1>4. /\ m_input_occupied' = m_input_occupied \cup {q[1] : q \in F}
      /\ m_output_occupied' = m_output_occupied \cup {q[2] : q \in F}
      /\ sch_result' = sch_result \cup F
  BY <1>3, Zenon DEF Booksim!update_priority_ptr, Booksim!Occupy
<1>5. m_gi' \in [Ports -> Ports] /\ m_ai' \in [Ports -> Ports]
  <2>1. CASE m_iter_cnt = 0
    <3>1. /\ m_gi' = [j \in Ports |-> IF \E i \in Ports : <<i, j>> \in F
                        THEN ((CHOOSE i \in Ports : <<i, j>> \in F) + 1) % N ELSE m_gi[j]]
          /\ m_ai' = [i \in Ports |-> IF \E j \in Ports : <<i, j>> \in F
                        THEN ((CHOOSE j \in Ports : <<i, j>> \in F) + 1) % N ELSE m_ai[i]]
      <4>1. Booksim(N, K, M)!PointersPast
        BY <2>1 DEF Booksim!update_priority_ptr
      <4>2. Booksim(N, K, M)!Ports = Ports
        BY DEF Booksim!Ports
      <4> HIDE DEF F, Ports
      <4> QED
        BY <4>1, <4>2, <1>3 DEF Booksim!PointersPast
    <3>2. \A k \in Int : k % N \in Ports
      OBVIOUS
    <3> HIDE DEF F
    <3>3. ASSUME NEW j \in Ports, \E i \in Ports : <<i, j>> \in F
          PROVE  ((CHOOSE i \in Ports : <<i, j>> \in F) + 1) % N \in Ports
      <4>1. (CHOOSE i \in Ports : <<i, j>> \in F) \in Ports
        BY <3>3, Zenon
      <4>2. (CHOOSE i \in Ports : <<i, j>> \in F) + 1 \in Int
        BY <4>1
      <4> QED
        BY <3>2, <4>2
    <3>4. ASSUME NEW i \in Ports, \E j \in Ports : <<i, j>> \in F
          PROVE  ((CHOOSE j \in Ports : <<i, j>> \in F) + 1) % N \in Ports
      <4>1. (CHOOSE j \in Ports : <<i, j>> \in F) \in Ports
        BY <3>4, Zenon
      <4>2. (CHOOSE j \in Ports : <<i, j>> \in F) + 1 \in Int
        BY <4>1
      <4> QED
        BY <3>2, <4>2
    <3>5. /\ \A j \in Ports : m_gi[j] \in Ports
          /\ \A i \in Ports : m_ai[i] \in Ports
      BY <1>inv DEF BooksTypes
    <3>6. \A j \in Ports : (IF \E i \in Ports : <<i, j>> \in F
            THEN ((CHOOSE i \in Ports : <<i, j>> \in F) + 1) % N ELSE m_gi[j]) \in Ports
      BY <3>3, <3>5
    <3>7. \A i \in Ports : (IF \E j \in Ports : <<i, j>> \in F
            THEN ((CHOOSE j \in Ports : <<i, j>> \in F) + 1) % N ELSE m_ai[i]) \in Ports
      BY <3>4, <3>5
    <3> HIDE DEF Ports
    <3> QED
      BY <3>1, <3>6, <3>7
  <2>2. CASE m_iter_cnt # 0
    <3>1. m_gi' = m_gi /\ m_ai' = m_ai
      BY <2>2 DEF Booksim!update_priority_ptr, Booksim!pointers
    <3> QED
      BY <3>1, <1>inv DEF BooksTypes
  <2> QED
    BY <2>1, <2>2
<1>6. BooksTypes(N, K)'
  <2>1. m_iter_cnt' \in 0 .. K
    <3>1. m_iter_cnt \in 0 .. K /\ m_iter_cnt < K
      BY <1>inv, <1>1 DEF BooksTypes
    <3> QED
      BY <3>1, <1>1
  <2> HIDE DEF F
  <2> QED
    BY <1>inv, <1>1, <1>2, <1>4, <1>5, <2>1 DEF BooksTypes
\* The new matches are a matching, because the open grants are one by an output.
<1>7. \A p, q \in F : p # q => p[1] # q[1] /\ p[2] # q[2]
  <2>1. F \subseteq OpenIn(m_grant)
    BY <1>inv DEF BooksTypes, OpenIn
  <2>2. \A p, q \in F : p[2] = q[2] => p = q
    BY <2>1, <1>inv DEF BooksFresh
  <2>3. \A p, q \in F : p[1] = q[1] => p = q
    BY <1>inv DEF BooksFresh
  <2> QED
    BY <2>2, <2>3
<1>8. BooksMatched'
  <2>1. \A p \in F : p[1] \notin m_input_occupied /\ p[2] \notin m_output_occupied
    BY DEF OpenIn
  <2>2. \A p \in sch_result : p[1] \in m_input_occupied /\ p[2] \in m_output_occupied
    BY <1>inv DEF BooksMatched
  <2> HIDE DEF F
  <2>3. \A p, q \in sch_result \cup F : p # q => p[1] # q[1] /\ p[2] # q[2]
    BY <1>7, <2>1, <2>2, <1>inv DEF BooksMatched
  <2> QED
    BY <1>4, <2>3, <1>inv DEF BooksMatched
<1>9. /\ \A S : OpenIn(S)' \subseteq OpenIn(S)
      /\ \A S : \A q \in OpenIn(S)' : \A a \in F : q[1] # a[1] /\ q[2] # a[2]
  BY <1>4 DEF OpenIn
<1>10. BooksFresh(M)'
  <2>1. OpenIn(m_grant)' = {}
    <3>1. \A g \in OpenIn(m_grant) : \E a \in F : a[1] = g[1]
      BY <1>inv, <1>1 DEF BooksFresh
    <3>2. OpenIn(m_grant)' = {g \in OpenIn(m_grant) :
              g[1] \notin m_input_occupied' /\ g[2] \notin m_output_occupied'}
      BY <1>1, <1>4 DEF OpenIn
    <3> QED
      BY <3>1, <3>2, <1>4
  <2>2. OpenIn(m_accept)' = {}
    BY <1>1, <1>4 DEF OpenIn
  <2> QED
    BY <1>1, <2>1, <2>2 DEF BooksFresh
<1>11. BooksProgress'
  <2> SUFFICES ASSUME OpenIn(m_ql)' # {} PROVE Cardinality(sch_result') >= m_iter_cnt'
    BY <1>1 DEF BooksProgress
  <2>1. OpenIn(m_ql) # {}
    BY <1>1, <1>4 DEF OpenIn
  <2>2. Cardinality(sch_result) >= m_iter_cnt /\ F # {}
    BY <2>1, <1>1, <1>inv DEF BooksProgress
  <2>3. \A q \in F : q \notin sch_result
    BY <1>inv DEF BooksMatched, OpenIn
  <2>4. /\ sch_result' \in SUBSET ((0 .. N-1) \X (0 .. N-1))
        /\ sch_result \in SUBSET sch_result'
        /\ sch_result' \ sch_result # {}
    <3>1. sch_result \subseteq m_accept
      BY <1>inv DEF BooksTypes
    <3> HIDE DEF F
    <3> QED
      BY <3>1, <1>2, <1>4, <2>2, <2>3
  <2>5. Cardinality(sch_result') >= Cardinality(sch_result) + 1
    BY <2>4, MoreMatches
  <2>6. Cardinality(sch_result) \in Nat /\ Cardinality(sch_result') \in Nat
    BY <2>4, PairsFinite
  <2>7. m_iter_cnt \in Nat
    BY <1>inv DEF BooksTypes
  <2> QED
    BY <1>1, <2>2, <2>5, <2>6, <2>7
<1> QED
  BY <1>6, <1>8, <1>10, <1>11 DEF BooksInv

\* Every step of the scheduler and of its callers.
LEMMA BooksStep ==
  ASSUME NEW N \in Nat \ {0}, NEW K \in Nat, NEW M \in BOOLEAN, BooksInv(N, K, M),
         Booksim(N, K, M)!Next \/ Booksim(N, K, M)!SteadyNext
  PROVE  BooksInv(N, K, M)'
<1>1. CASE Booksim(N, K, M)!Iteration
  BY <1>1, BooksSend, BooksGrant, BooksAccept, BooksUpdate, BooksCalls DEF Booksim!Iteration
<1>2. CASE ~ Booksim(N, K, M)!Iteration
  BY <1>2, BooksCalls DEF Booksim!Next, Booksim!SteadyNext, Booksim!Ports
<1> QED
  BY <1>1, <1>2

\* What the invariant says in the terms of booksim_islip.cpp.
LEMMA BooksSound ==
  ASSUME NEW N \in Nat \ {0}, NEW K \in Nat, NEW M \in BOOLEAN, BooksInv(N, K, M)
  PROVE  /\ Booksim(N, K, M)!TypeOK
         /\ Booksim(N, K, M)!StaleGrantsHarmless
         /\ Booksim(N, K, M)!IterationProgress
<1>inv. BooksTypes(N, K) /\ BooksMatched /\ BooksFresh(M) /\ BooksProgress
  BY DEF BooksInv
<1>1. Booksim(N, K, M)!TypeOK
  BY <1>inv DEF BooksTypes, Booksim!TypeOK, Booksim!Ports, Booksim!Pairs
<1>2. /\ m_accept \subseteq m_grant /\ m_grant \subseteq (0 .. N-1) \X (0 .. N-1)
      /\ \A q \in m_grant : q[1] \in 0 .. N-1 /\ q[2] \in 0 .. N-1
  BY <1>inv DEF BooksTypes
<1>3. Booksim(N, K, M)!StaleGrantsHarmless
  <2>1. Booksim(N, K, M)!Fresh = OpenIn(m_accept)
    BY <1>2 DEF Booksim!Fresh, Booksim!FreeInputs, Booksim!FreeOutputs, Booksim!Ports, OpenIn
  <2>2. OpenIn(m_accept) \subseteq OpenIn(m_grant)
    BY <1>2 DEF OpenIn
  <2>3. \A p, q \in OpenIn(m_accept) : p # q => p[1] # q[1] /\ p[2] # q[2]
    BY <2>2, <1>inv DEF BooksFresh
  <2>4. \A p, q \in m_grant :
          p[1] \notin m_input_occupied /\ q[1] \notin m_input_occupied
          /\ p[2] = q[2] /\ p[2] \notin m_output_occupied => p = q
    BY <1>inv DEF BooksFresh, OpenIn
  <2> QED
    BY <2>1, <2>3, <2>4, <1>inv DEF Booksim!StaleGrantsHarmless, Booksim!IsMatching,
       Booksim!FreeInputs, Booksim!FreeOutputs, Booksim!Ports, BooksMatched
<1>4. Booksim(N, K, M)!IterationProgress
  <2>1. \A q \in m_ql : q[1] \in m_input_occupied \/ q[2] \in m_output_occupied
          \/ q \in OpenIn(m_ql)
    BY DEF OpenIn
  <2>2. pc = "send_request" =>
          Cardinality(sch_result) >= m_iter_cnt \/ OpenIn(m_ql) = {}
    BY <1>inv DEF BooksProgress
  <2>3. Booksim(N, K, M)!Cardinality(sch_result) = Cardinality(sch_result)
    BY DEF Booksim!Cardinality, Booksim!IsFiniteSet, Cardinality, IsFiniteSet
  <2> QED
    BY <2>1, <2>2, <2>3 DEF Booksim!IterationProgress
<1> QED
  BY <1>1, <1>3, <1>4

\* booksim_islip.cpp: flags that are never withdrawn lead to no double match, and
\* no iteration passes without a match while one is possible, with and without
\* m_max_match, for every number of ports.
THEOREM BooksimIsSound == Spec => []BooksimSound
<1> DEFINE Inv == /\ unit = "booksim" => BooksInv(NumPorts, NumPorts, FALSE)
                  /\ unit = "booksim_max" => BooksInv(NumPorts, NumPorts, TRUE)
                  /\ unit = "booksim_steady" => BooksInv(SteadyPorts, 2, FALSE)
<1>sizes. /\ NumPorts \in Nat \ {0} /\ NumPorts \in Nat
          /\ SteadyPorts \in Nat \ {0} /\ 2 \in Nat /\ TRUE \in BOOLEAN /\ FALSE \in BOOLEAN
  BY PortsAssumption
<1>1. Init => Inv
  <2> SUFFICES ASSUME Init PROVE Inv
    OBVIOUS
  <2>1. CASE unit = "booksim"
    BY <2>1, <1>sizes, BooksInit DEF Init, IsLsu
  <2>2. CASE unit = "booksim_max"
    <3>1. Booksim(NumPorts, NumPorts, FALSE)!Init
      BY <2>2 DEF Init, IsLsu
    <3>2. Booksim(NumPorts, NumPorts, TRUE)!Init
      BY <3>1 DEF Booksim!Init, Booksim!NoPointers, Booksim!Ports
    <3> QED
      BY <2>2, <3>2, <1>sizes, BooksInit
  <2>3. CASE unit = "booksim_steady"
    BY <2>3, <1>sizes, BooksInit DEF Init, IsLsu
  <2> QED
    BY <2>1, <2>2, <2>3
<1>2. Inv /\ [Next]_vars => Inv'
  <2> SUFFICES ASSUME Inv, [Next]_vars PROVE Inv'
    OBVIOUS
  <2>1. CASE Next
    <3>1. unit' = unit
      BY <2>1 DEF Next
    <3>2. CASE unit = "booksim"
      BY <3>1, <3>2, <2>1, <1>sizes, BooksStep DEF Next, SteadySlot
    <3>3. CASE unit = "booksim_max"
      BY <3>1, <3>3, <2>1, <1>sizes, BooksStep DEF Next, SteadySlot
    <3>4. CASE unit = "booksim_steady"
      BY <3>1, <3>4, <2>1, <1>sizes, BooksStep DEF Next, SteadySlot
    <3> QED
      BY <3>1, <3>2, <3>3, <3>4
  <2>2. CASE UNCHANGED vars
    <3>1. /\ UNCHANGED <<m_ql, m_request, m_grant, m_accept, m_gi, m_ai, m_input_occupied,
                       m_output_occupied, m_iter_cnt, sch_result, pc>>
          /\ UNCHANGED unit
      BY <2>2 DEF vars, booksimVars, booksimSp
    <3>2. ASSUME NEW N, NEW K, NEW M, BooksInv(N, K, M) PROVE BooksInv(N, K, M)'
      BY <3>1, <3>2 DEF BooksInv, BooksTypes, BooksMatched, BooksFresh, BooksProgress, OpenIn
    <3> QED
      BY <3>1, <3>2
  <2> QED
    BY <2>1, <2>2
<1>3. Inv => BooksimSound
  BY <1>sizes, BooksSound DEF BooksimSound
<1> HIDE DEF Inv
<1> QED
  BY <1>1, <1>2, <1>3, PTL DEF Spec

-----------------------------------------------------------------------------
(* islip_sp.cpp                                                            *)

\* No unmatched input holds a cell for output o that has a higher priority than p.
NoneHigher(o, p) ==
  \A i \in Sp!Inputs \ m_input_occupied, q \in Sp!Prios : q < p => m_voq[i][o][q] = 0

\* A grant answers a cell of the highest priority that any unmatched input holds for
\* the output, and the accepted pairs share no input.
SpPhase ==
  /\ pc \in {"accept", "update"} => m_iter_cnt < NumPorts
  /\ pc = "accept" => m_accepts = {}
  /\ pc = "grant" => m_grants = {} /\ m_accepts = {}
  /\ pc = "idle" => m_grants = {} /\ m_accepts = {}
  /\ \A g \in m_grants :
       /\ g[1] \notin m_input_occupied /\ g[2] \notin m_output_occupied
       /\ \E p \in Sp!Prios : m_voq[g[1]][g[2]][p] > 0 /\ NoneHigher(g[2], p)
  /\ \A g, h \in m_grants : g[2] = h[2] => g = h
  /\ \A a, b \in m_accepts : a[1] = b[1] => a = b

\* StrictPriority through all phases of a slot.
SpResult ==
  pc # "idle" =>
    \A t \in sch_result :
      /\ t[1] \in m_input_occupied /\ t[2] \in m_output_occupied
      /\ \A i \in Sp!Inputs, p \in Sp!Prios :
           p < t[3] /\ (i \in m_input_occupied => i = t[1]) => m_voq[i][t[2]][p] = 0

SpInv == Sp!TypeOK /\ SpPhase /\ SpResult

\* The scan of islip_sp.cpp is that of RoundRobin.
LEMMA SameSpScan == \A a, b, S : Sp!FirstFrom(a, b, S) = FirstFrom(a, b, S)
BY DEF Sp!FirstFrom, Sp!Dist, FirstFrom, Dist

\* The highest priority with some property: the least number that has it.
LEMMA SpMin ==
  ASSUME NEW S \in SUBSET Sp!Prios, S # {}
  PROVE  Sp!Min(S) \in S /\ \A p \in S : Sp!Min(S) <= p
<1>1. S \in SUBSET Nat
  BY DEF Sp!Prios
<1>2. \E p \in S : \A q \in S : p <= q
  BY <1>1, LeastNat
<1> QED
  BY <1>2 DEF Sp!Min

\* The search of an output with a waiting cell ends at the highest priority.
LEMMA GrantPrioIs ==
  ASSUME SpInv, NEW o \in Sp!GrantingOutputs
  PROVE  /\ Sp!GrantPrio(o) \in Sp!Prios /\ Sp!Waiting(o, Sp!GrantPrio(o)) # {}
         /\ NoneHigher(o, Sp!GrantPrio(o))
<1> DEFINE S == {p \in Sp!Prios : Sp!Waiting(o, p) # {}}
<1>1. Sp!GrantPrio(o) = Sp!Min(S)
  BY DEF Sp!GrantPrio
<1>2. S \in SUBSET Sp!Prios /\ S # {}
  BY DEF Sp!GrantingOutputs
<1>3. Sp!Min(S) \in S /\ \A p \in S : Sp!Min(S) <= p
  <2> HIDE DEF S
  <2> QED
    BY <1>2, SpMin
<1>4. o \in Sp!Outputs
  BY DEF Sp!GrantingOutputs
<1>5. NoneHigher(o, Sp!Min(S))
  <2> SUFFICES ASSUME NEW i \in Sp!Inputs \ m_input_occupied, NEW q \in Sp!Prios,
                      q < Sp!Min(S)
               PROVE  m_voq[i][o][q] = 0
    BY DEF NoneHigher
  <2>1. q \notin S
    <3>1. q \in Int /\ Sp!Min(S) \in Int
      BY <1>3 DEF Sp!Prios
    <3> QED
      BY <1>3, <3>1
  <2>2. ~ (m_voq[i][o][q] > 0)
    BY <2>1 DEF Sp!Waiting
  <2>3. m_voq[i][o][q] \in Nat
    <3>1. m_voq[i] \in [Sp!Outputs -> [Sp!Prios -> 0 .. 1]]
      BY DEF SpInv, Sp!TypeOK
    <3>2. m_voq[i][o] \in [Sp!Prios -> 0 .. 1]
      BY <1>4, <3>1
    <3> QED
      BY <3>2
  <2> QED
    BY <2>2, <2>3
<1> QED
  BY <1>1, <1>3, <1>5

\* The constructor.
LEMMA SpInit == Sp!Init => SpInv
<1> SUFFICES ASSUME Sp!Init PROVE SpInv
  OBVIOUS
<1>1. /\ 0 \in Sp!Inputs /\ 0 \in Sp!Outputs /\ 0 \in 0 .. NumPorts /\ 0 \in 0 .. 1
  BY PortsAssumption DEF Sp!Inputs, Sp!Outputs
<1>2. Sp!TypeOK
  BY <1>1 DEF Sp!Init, Sp!TypeOK
<1>3. SpPhase /\ SpResult
  BY DEF Sp!Init, SpPhase, SpResult
<1> QED
  BY <1>2, <1>3 DEF SpInv

\* request(), the call and the return of arbitration().
LEMMA SpCalls ==
  ASSUME SpInv,
         \/ \E i \in -1 .. NumPorts, o \in -1 .. NumPorts, p \in 0 .. 2 : Sp!request(i, o, p)
         \/ Sp!arbitration \/ Sp!SlotEnds
  PROVE  SpInv'
<1> USE DEF Sp!slotVars, Sp!pvars
<1>inv. Sp!TypeOK /\ SpPhase /\ SpResult
  BY DEF SpInv
<1>1. ASSUME NEW i \in -1 .. NumPorts, NEW o \in -1 .. NumPorts, NEW p \in 0 .. 2,
             Sp!request(i, o, p)
      PROVE  SpInv'
  <2>1. /\ pc = "idle"
        /\ UNCHANGED <<m_g_ptr, m_a_ptr, m_grants, m_accepts, m_input_occupied,
                       m_output_occupied, m_iter_cnt, sch_result, pc>>
    BY <1>1 DEF Sp!request
  <2>2. m_voq' \in [Sp!Inputs -> [Sp!Outputs -> [Sp!Prios -> 0 .. 1]]]
    <3>1. m_voq \in [Sp!Inputs -> [Sp!Outputs -> [Sp!Prios -> 0 .. 1]]]
      BY <1>inv DEF Sp!TypeOK
    <3>2. CASE m_voq' = m_voq
      BY <3>1, <3>2
    <3>3. CASE /\ i \in Sp!Inputs /\ o \in Sp!Outputs /\ p < 2 /\ m_voq[i][o][p] < 1
               /\ m_voq' = [m_voq EXCEPT ![i][o][p] = @ + 1]
      <4>1. p \in Sp!Prios
        BY <3>3 DEF Sp!Prios
      <4>2. m_voq[i][o][p] + 1 \in 0 .. 1
        BY <3>1, <3>3, <4>1
      <4> QED
        BY <3>1, <3>3, <4>1, <4>2
    <3> QED
      BY <1>1, <3>2, <3>3 DEF Sp!request, Sp!HasRoom
  <2>3. Sp!TypeOK'
    BY <2>1, <2>2, <1>inv DEF Sp!TypeOK
  <2>4. SpPhase' /\ SpResult'
    BY <2>1, <1>inv DEF SpPhase, SpResult
  <2> QED
    BY <2>3, <2>4 DEF SpInv
<1>2. CASE Sp!arbitration
  <2>1. /\ m_iter_cnt' = 0 /\ sch_result' = {}
        /\ m_input_occupied' = {} /\ m_output_occupied' = {}
        /\ m_grants' = {} /\ m_accepts' = {} /\ pc' = "grant"
        /\ UNCHANGED <<m_voq, m_g_ptr, m_a_ptr>> /\ 0 \in 0 .. NumPorts
    BY <1>2, PortsAssumption DEF Sp!arbitration
  <2>2. Sp!TypeOK'
    BY <2>1, <1>inv DEF Sp!TypeOK
  <2>3. SpPhase' /\ SpResult'
    BY <2>1 DEF SpPhase, SpResult
  <2> QED
    BY <2>2, <2>3 DEF SpInv
<1>3. CASE Sp!SlotEnds
  <2>1. /\ pc = "grant" /\ pc' = "idle"
        /\ UNCHANGED <<m_voq, m_g_ptr, m_a_ptr, m_grants, m_accepts, m_input_occupied,
                       m_output_occupied, m_iter_cnt, sch_result>>
    BY <1>3 DEF Sp!SlotEnds
  <2>2. Sp!TypeOK'
    BY <2>1, <1>inv DEF Sp!TypeOK
  <2>3. SpPhase' /\ SpResult'
    BY <2>1, <1>inv DEF SpPhase, SpResult
  <2> QED
    BY <2>2, <2>3 DEF SpInv
<1> QED
  BY <1>1, <1>2, <1>3

\* do_grant()
LEMMA SpGrant == SpInv /\ Sp!do_grant => SpInv'
<1> SUFFICES ASSUME SpInv, Sp!do_grant PROVE SpInv'
  OBVIOUS
<1>inv. Sp!TypeOK /\ SpPhase /\ SpResult
  BY DEF SpInv
<1> DEFINE pick(o) == FirstFrom(m_g_ptr[o], NumPorts, Sp!Waiting(o, Sp!GrantPrio(o)))
           New == {<<pick(o), o>> : o \in Sp!GrantingOutputs}
<1>1. /\ pc = "grant" /\ pc' = "accept" /\ m_iter_cnt < NumPorts
      /\ UNCHANGED <<m_voq, m_g_ptr, m_a_ptr, m_accepts, m_input_occupied,
                     m_output_occupied, m_iter_cnt, sch_result>>
  BY DEF Sp!do_grant, Sp!pvars, Sp!slotVars
<1>2. m_grants' = New
  <2>1. m_grants' = m_grants \cup
          {<<Sp!FirstFrom(m_g_ptr[o], NumPorts, Sp!Waiting(o, Sp!GrantPrio(o))), o>> :
             o \in Sp!GrantingOutputs}
    BY Zenon DEF Sp!do_grant
  <2>2. m_grants = {}
    BY <1>inv, <1>1 DEF SpPhase
  <2> QED
    BY <2>1, <2>2, SameSpScan
<1>3. ASSUME NEW o \in Sp!GrantingOutputs
      PROVE  /\ pick(o) \in Sp!Inputs \ m_input_occupied
             /\ o \in Sp!Outputs \ m_output_occupied
             /\ \E p \in Sp!Prios : m_voq[pick(o)][o][p] > 0 /\ NoneHigher(o, p)
  <2>1. o \in Sp!Outputs \ m_output_occupied
    BY DEF Sp!GrantingOutputs
  <2>2. /\ Sp!GrantPrio(o) \in Sp!Prios /\ Sp!Waiting(o, Sp!GrantPrio(o)) # {}
        /\ NoneHigher(o, Sp!GrantPrio(o))
    BY GrantPrioIs
  <2>3. m_g_ptr[o] \in 0 .. NumPorts - 1
    BY <2>1, <1>inv DEF Sp!TypeOK, Sp!Inputs
  <2>4. Sp!Waiting(o, Sp!GrantPrio(o)) \in SUBSET (0 .. NumPorts - 1)
    BY DEF Sp!Waiting, Sp!Inputs
  <2>5. pick(o) \in Sp!Waiting(o, Sp!GrantPrio(o))
    BY <2>2, <2>3, <2>4, PortsAssumption, FirstFromMember
  <2> HIDE DEF pick
  <2>6. pick(o) \in Sp!Inputs \ m_input_occupied /\ m_voq[pick(o)][o][Sp!GrantPrio(o)] > 0
    BY <2>5 DEF Sp!Waiting
  <2> QED
    BY <2>1, <2>2, <2>6
<1> HIDE DEF pick
<1>4. Sp!TypeOK'
  <2>1. New \in SUBSET (Sp!Inputs \X Sp!Outputs) /\ m_accepts = {}
    BY <1>3, <1>inv, <1>1 DEF SpPhase
  <2> HIDE DEF New
  <2> QED
    BY <1>inv, <1>1, <1>2, <2>1 DEF Sp!TypeOK
<1>5. SpPhase'
  <2>1. \A g \in New :
          /\ g[1] \notin m_input_occupied /\ g[2] \notin m_output_occupied
          /\ \E p \in Sp!Prios : m_voq[g[1]][g[2]][p] > 0 /\ NoneHigher(g[2], p)
    BY <1>3
  <2>2. \A g, h \in New : g[2] = h[2] => g = h
    OBVIOUS
  <2>3. \A o, p : NoneHigher(o, p)' <=> NoneHigher(o, p)
    BY <1>1 DEF NoneHigher
  <2>4. m_accepts = {}
    BY <1>inv, <1>1 DEF SpPhase
  <2> HIDE DEF New
  <2>5. \A g \in m_grants' :
          /\ g[1] \notin m_input_occupied' /\ g[2] \notin m_output_occupied'
          /\ \E p \in Sp!Prios : m_voq'[g[1]][g[2]][p] > 0 /\ NoneHigher(g[2], p)'
    <3> SUFFICES ASSUME NEW g \in New
                 PROVE  /\ g[1] \notin m_input_occupied' /\ g[2] \notin m_output_occupied'
                        /\ \E p \in Sp!Prios : m_voq'[g[1]][g[2]][p] > 0 /\ NoneHigher(g[2], p)'
      BY <1>2
    <3> QED
      BY <1>1, <2>1, <2>3
  <2> QED
    BY <1>1, <1>2, <2>2, <2>4, <2>5 DEF SpPhase
<1>6. SpResult'
  BY <1>inv, <1>1 DEF SpResult
<1> QED
  BY <1>4, <1>5, <1>6 DEF SpInv

\* do_accept()
LEMMA SpAccept == SpInv /\ Sp!do_accept => SpInv'
<1> SUFFICES ASSUME SpInv, Sp!do_accept PROVE SpInv'
  OBVIOUS
<1>inv. Sp!TypeOK /\ SpPhase /\ SpResult
  BY DEF SpInv
<1> DEFINE S == {i \in Sp!Inputs \ m_input_occupied : Sp!AcceptCandidates(i) # {}}
           pick(i) == FirstFrom(m_a_ptr[i], NumPorts, Sp!AcceptCandidates(i))
           New == {<<i, pick(i)>> : i \in S}
<1>1. /\ pc = "accept" /\ pc' = "update"
      /\ UNCHANGED <<m_voq, m_g_ptr, m_a_ptr, m_grants, m_input_occupied,
                     m_output_occupied, m_iter_cnt, sch_result>>
  BY DEF Sp!do_accept, Sp!pvars, Sp!slotVars
<1>2. m_accepts' = New
  <2>1. m_accepts' = m_accepts \cup
          {<<i, Sp!FirstFrom(m_a_ptr[i], NumPorts, Sp!AcceptCandidates(i))>> : i \in S}
    BY Zenon DEF Sp!do_accept
  <2>2. m_accepts = {}
    BY <1>inv, <1>1 DEF SpPhase
  <2> QED
    BY <2>1, <2>2, SameSpScan
<1>3. ASSUME NEW i \in S  PROVE <<i, pick(i)>> \in m_grants
  <2>1. m_a_ptr[i] \in 0 .. NumPorts - 1
    BY <1>inv DEF Sp!TypeOK, Sp!Outputs
  <2>2. Sp!AcceptCandidates(i) \in SUBSET (0 .. NumPorts - 1) /\ Sp!AcceptCandidates(i) # {}
    BY DEF Sp!AcceptCandidates, Sp!Outputs
  <2>3. pick(i) \in Sp!AcceptCandidates(i)
    BY <2>1, <2>2, PortsAssumption, FirstFromMember
  <2> HIDE DEF pick
  <2> QED
    BY <2>3 DEF Sp!AcceptCandidates
<1> HIDE DEF pick
<1>4. New \in SUBSET m_grants
  BY <1>3
<1>5. \A a, b \in New : a[1] = b[1] => a = b
  OBVIOUS
<1> HIDE DEF New
<1>6. Sp!TypeOK'
  BY <1>inv, <1>1, <1>2, <1>4 DEF Sp!TypeOK
<1>7. SpPhase'
  <2>1. \A o, p : NoneHigher(o, p)' <=> NoneHigher(o, p)
    BY <1>1 DEF NoneHigher
  <2>2. \A g \in m_grants' :
          /\ g[1] \notin m_input_occupied' /\ g[2] \notin m_output_occupied'
          /\ \E p \in Sp!Prios : m_voq'[g[1]][g[2]][p] > 0 /\ NoneHigher(g[2], p)'
    BY <1>1, <2>1, <1>inv DEF SpPhase
  <2> QED
    BY <1>inv, <1>1, <1>2, <1>5, <2>2 DEF SpPhase
<1>8. SpResult'
  BY <1>inv, <1>1 DEF SpResult
<1> QED
  BY <1>6, <1>7, <1>8 DEF SpInv

\* The priority of the cell a matched pair loses is the highest one any unmatched
\* input holds for the output.
LEMMA SelectedIs ==
  ASSUME SpInv, NEW q \in Sp!Matched
  PROVE  /\ q \in m_grants /\ q[1] \in Sp!Inputs /\ q[2] \in Sp!Outputs
         /\ q[1] \notin m_input_occupied /\ q[2] \notin m_output_occupied
         /\ Sp!Selected(q[1], q[2]) \in Sp!Prios
         /\ m_voq[q[1]][q[2]][Sp!Selected(q[1], q[2])] = 1
         /\ NoneHigher(q[2], Sp!Selected(q[1], q[2]))
<1>inv. Sp!TypeOK /\ SpPhase
  BY DEF SpInv
<1>1. /\ q \in m_grants /\ q[1] \in Sp!Inputs /\ q[2] \in Sp!Outputs
      /\ q[1] \notin m_input_occupied /\ q[2] \notin m_output_occupied
  <2>1. q \in m_accepts /\ q[1] \notin m_input_occupied /\ q[2] \notin m_output_occupied
    BY DEF Sp!Matched
  <2>2. q \in m_grants /\ q \in Sp!Inputs \X Sp!Outputs
    BY <2>1, <1>inv DEF Sp!TypeOK
  <2> QED
    BY <2>1, <2>2
<1>2. PICK p \in Sp!Prios : m_voq[q[1]][q[2]][p] > 0 /\ NoneHigher(q[2], p)
  BY <1>1, <1>inv DEF SpPhase
<1> DEFINE S == {r \in Sp!Prios : m_voq[q[1]][q[2]][r] > 0}
           s == Sp!Min(S)
<1>3. Sp!Selected(q[1], q[2]) = s
  BY DEF Sp!Selected
<1>4. S \in SUBSET Sp!Prios /\ p \in S
  BY <1>2
<1>5. s \in S /\ \A r \in S : s <= r
  <2> HIDE DEF S
  <2> QED
    BY <1>4, SpMin
<1> HIDE DEF s
<1>6. s \in Sp!Prios /\ s <= p /\ m_voq[q[1]][q[2]][s] > 0
  BY <1>4, <1>5
<1>7. NoneHigher(q[2], s)
  <2> SUFFICES ASSUME NEW i \in Sp!Inputs \ m_input_occupied, NEW r \in Sp!Prios, r < s
               PROVE  m_voq[i][q[2]][r] = 0
    BY DEF NoneHigher
  <2>1. r < p
    BY <1>6 DEF Sp!Prios
  <2> QED
    BY <1>2, <2>1 DEF NoneHigher
<1>8. m_voq[q[1]][q[2]][s] \in 0 .. 1
  <2>1. m_voq[q[1]] \in [Sp!Outputs -> [Sp!Prios -> 0 .. 1]]
    BY <1>1, <1>inv DEF Sp!TypeOK
  <2>2. m_voq[q[1]][q[2]] \in [Sp!Prios -> 0 .. 1]
    BY <1>1, <2>1
  <2> QED
    BY <1>6, <2>2
<1> QED
  BY <1>1, <1>3, <1>6, <1>7, <1>8

\* update_pointers(): the cells that cross are those of the highest priority.
LEMMA SpUpdate == SpInv /\ Sp!update_pointers => SpInv'
<1> SUFFICES ASSUME SpInv, Sp!update_pointers PROVE SpInv'
  OBVIOUS
<1>inv. Sp!TypeOK /\ SpPhase /\ SpResult
  BY DEF SpInv
<1> DEFINE M == Sp!Matched
           sel(q) == Sp!Selected(q[1], q[2])
<1>1. /\ pc = "update" /\ pc' = "grant" /\ m_iter_cnt' = m_iter_cnt + 1
      /\ m_grants' = {} /\ m_accepts' = {}
      /\ m_input_occupied' = m_input_occupied \cup {q[1] : q \in M}
      /\ m_output_occupied' = m_output_occupied \cup {q[2] : q \in M}
      /\ sch_result' = sch_result \cup {<<q[1], q[2], sel(q)>> : q \in M}
      /\ Sp!TakeCells /\ Sp!MovePointers
  BY DEF Sp!update_pointers
<1>2. \A q \in M :
         /\ q \in m_grants /\ q[1] \in Sp!Inputs /\ q[2] \in Sp!Outputs
         /\ q[1] \notin m_input_occupied /\ q[2] \notin m_output_occupied
         /\ sel(q) \in Sp!Prios /\ m_voq[q[1]][q[2]][sel(q)] = 1
         /\ NoneHigher(q[2], sel(q))
  BY SelectedIs
<1>3. /\ m_voq' \in [Sp!Inputs -> [Sp!Outputs -> [Sp!Prios -> 0 .. 1]]]
      /\ \A i \in Sp!Inputs, o \in Sp!Outputs, p \in Sp!Prios :
           m_voq[i][o][p] = 0 => m_voq'[i][o][p] = 0
  <2>1. m_voq' = [i \in Sp!Inputs |-> [o \in Sp!Outputs |-> [p \in Sp!Prios |->
              IF <<i, o>> \in M /\ p = Sp!Selected(i, o)
              THEN m_voq[i][o][p] - 1 ELSE m_voq[i][o][p]]]]
    BY <1>1 DEF Sp!TakeCells
  <2>2. \A i \in Sp!Inputs, o \in Sp!Outputs, p \in Sp!Prios : m_voq[i][o][p] \in 0 .. 1
    BY <1>inv DEF Sp!TypeOK
  <2>3. \A i \in Sp!Inputs, o \in Sp!Outputs :
          <<i, o>> \in M => m_voq[i][o][Sp!Selected(i, o)] = 1
    BY <1>2
  <2> HIDE DEF M
  <2> QED
    BY <2>1, <2>2, <2>3
<1>4. m_g_ptr' \in [Sp!Outputs -> Sp!Inputs] /\ m_a_ptr' \in [Sp!Inputs -> Sp!Outputs]
  <2>1. CASE m_iter_cnt = 0
    <3> HIDE DEF M
    <3>1. /\ m_g_ptr' = [o \in Sp!Outputs |-> IF \E i \in Sp!Inputs : <<i, o>> \in M
               THEN ((CHOOSE i \in Sp!Inputs : <<i, o>> \in M) + 1) % NumPorts
               ELSE m_g_ptr[o]]
          /\ m_a_ptr' = [i \in Sp!Inputs |-> IF \E o \in Sp!Outputs : <<i, o>> \in M
               THEN ((CHOOSE o \in Sp!Outputs : <<i, o>> \in M) + 1) % NumPorts
               ELSE m_a_ptr[i]]
      BY <1>1, <2>1 DEF M, Sp!MovePointers
    <3>2. \A k \in Int : k % NumPorts \in 0 .. NumPorts - 1
      BY PortsAssumption
    <3>3. ASSUME NEW o \in Sp!Outputs, \E i \in Sp!Inputs : <<i, o>> \in M
          PROVE  ((CHOOSE i \in Sp!Inputs : <<i, o>> \in M) + 1) % NumPorts \in Sp!Inputs
      <4>1. (CHOOSE i \in Sp!Inputs : <<i, o>> \in M) \in Sp!Inputs
        BY <3>3, Zenon
      <4>2. (CHOOSE i \in Sp!Inputs : <<i, o>> \in M) + 1 \in Int
        BY <4>1 DEF Sp!Inputs
      <4> QED
        BY <3>2, <4>2 DEF Sp!Inputs
    <3>4. ASSUME NEW i \in Sp!Inputs, \E o \in Sp!Outputs : <<i, o>> \in M
          PROVE  ((CHOOSE o \in Sp!Outputs : <<i, o>> \in M) + 1) % NumPorts \in Sp!Outputs
      <4>1. (CHOOSE o \in Sp!Outputs : <<i, o>> \in M) \in Sp!Outputs
        BY <3>4, Zenon
      <4>2. (CHOOSE o \in Sp!Outputs : <<i, o>> \in M) + 1 \in Int
        BY <4>1 DEF Sp!Outputs
      <4> QED
        BY <3>2, <4>2 DEF Sp!Outputs
    <3>5. /\ \A o \in Sp!Outputs : m_g_ptr[o] \in Sp!Inputs
          /\ \A i \in Sp!Inputs : m_a_ptr[i] \in Sp!Outputs
      BY <1>inv DEF Sp!TypeOK
    <3>6. \A o \in Sp!Outputs : (IF \E i \in Sp!Inputs : <<i, o>> \in M
            THEN ((CHOOSE i \in Sp!Inputs : <<i, o>> \in M) + 1) % NumPorts
            ELSE m_g_ptr[o]) \in Sp!Inputs
      BY <3>3, <3>5
    <3>7. \A i \in Sp!Inputs : (IF \E o \in Sp!Outputs : <<i, o>> \in M
            THEN ((CHOOSE o \in Sp!Outputs : <<i, o>> \in M) + 1) % NumPorts
            ELSE m_a_ptr[i]) \in Sp!Outputs
      BY <3>4, <3>5
    <3> QED
      BY <3>1, <3>6, <3>7
  <2>2. CASE m_iter_cnt # 0
    <3>1. m_g_ptr' = m_g_ptr /\ m_a_ptr' = m_a_ptr
      BY <1>1, <2>2 DEF Sp!MovePointers, Sp!pvars
    <3> QED
      BY <3>1, <1>inv DEF Sp!TypeOK
  <2> QED
    BY <2>1, <2>2
<1>5. Sp!TypeOK'
  <2>1. /\ {q[1] : q \in M} \subseteq Sp!Inputs /\ {q[2] : q \in M} \subseteq Sp!Outputs
        /\ {<<q[1], q[2], sel(q)>> : q \in M} \subseteq Sp!Inputs \X Sp!Outputs \X Sp!Prios
    BY <1>2
  <2>2. m_iter_cnt' \in 0 .. NumPorts
    <3>1. m_iter_cnt \in 0 .. NumPorts /\ m_iter_cnt < NumPorts
      BY <1>inv, <1>1 DEF Sp!TypeOK, SpPhase
    <3> QED
      BY <3>1, <1>1, PortsAssumption
  <2> HIDE DEF M, sel
  <2>3. /\ m_input_occupied' \subseteq Sp!Inputs /\ m_output_occupied' \subseteq Sp!Outputs
        /\ sch_result' \subseteq Sp!Inputs \X Sp!Outputs \X Sp!Prios
    BY <2>1, <1>1, <1>inv DEF Sp!TypeOK
  <2> QED
    BY <1>1, <1>3, <1>4, <2>2, <2>3 DEF Sp!TypeOK
<1>6. SpPhase'
  BY <1>1 DEF SpPhase
<1>7. SpResult'
  <2> SUFFICES ASSUME NEW t \in sch_result'
               PROVE  /\ t[1] \in m_input_occupied' /\ t[2] \in m_output_occupied'
                      /\ \A i \in Sp!Inputs, p \in Sp!Prios :
                           p < t[3] /\ (i \in m_input_occupied' => i = t[1])
                             => m_voq'[i][t[2]][p] = 0
    BY DEF SpResult
  <2>1. CASE t \in sch_result
    <3>1. /\ t[1] \in m_input_occupied /\ t[2] \in m_output_occupied
          /\ \A i \in Sp!Inputs, p \in Sp!Prios :
               p < t[3] /\ (i \in m_input_occupied => i = t[1]) => m_voq[i][t[2]][p] = 0
      BY <1>1, <1>inv, <2>1 DEF SpResult
    <3>2. t[2] \in Sp!Outputs
      BY <2>1, <1>inv DEF Sp!TypeOK
    <3> HIDE DEF M
    <3> QED
      BY <1>1, <1>3, <3>1, <3>2
  <2>2. CASE t \in {<<q[1], q[2], sel(q)>> : q \in M}
    <3>1. PICK q \in M : t[1] = q[1] /\ t[2] = q[2] /\ t[3] = sel(q)
      BY <2>2
    <3> HIDE DEF M, sel
    <3>2. /\ t[1] \in m_input_occupied' /\ t[2] \in m_output_occupied'
      BY <1>1, <3>1
    <3>3. ASSUME NEW i \in Sp!Inputs, NEW p \in Sp!Prios, p < sel(q),
                 i \in m_input_occupied' => i = q[1]
          PROVE  m_voq[i][q[2]][p] = 0
      <4>1. i \notin m_input_occupied
        BY <3>3, <1>1, <1>2
      <4> QED
        BY <3>3, <4>1, <1>2 DEF NoneHigher
    <3>4. q[2] \in Sp!Outputs
      BY <1>2
    <3> QED
      BY <1>3, <3>1, <3>2, <3>3, <3>4
  <2> QED
    BY <1>1, <2>1, <2>2
<1> QED
  BY <1>5, <1>6, <1>7 DEF SpInv

\* SpInv holds of every islip_sp.
LEMMA SpInvariant == Spec => [](unit = "islip_sp" => SpInv)
<1> DEFINE Inv == unit = "islip_sp" => SpInv
<1>1. Init => Inv
  BY SpInit DEF Init, IsLsu
<1>2. Inv /\ [Next]_vars => Inv'
  <2> SUFFICES ASSUME Inv, [Next]_vars, unit' = "islip_sp" PROVE SpInv'
    OBVIOUS
  <2>1. CASE Next
    <3>1. unit = "islip_sp" /\ Sp!Next
      BY <2>1 DEF Next, SteadySlot
    <3> QED
      BY <3>1, SpCalls, SpGrant, SpAccept, SpUpdate DEF Sp!Next
  <2>2. CASE UNCHANGED vars
    <3>1. UNCHANGED <<m_voq, m_g_ptr, m_a_ptr, m_grants, m_accepts, m_input_occupied,
                      m_output_occupied, m_iter_cnt, sch_result, pc, unit>>
      BY <2>2 DEF vars, spVars, fifoSp, booksimSp
    <3>2. SpInv
      BY <3>1
    <3>3. Sp!TypeOK'
      BY <3>1, <3>2 DEF SpInv, Sp!TypeOK
    <3>4. \A o, p : NoneHigher(o, p)' <=> NoneHigher(o, p)
      BY <3>1 DEF NoneHigher
    <3>5. SpPhase'
      BY <3>1, <3>2, <3>4 DEF SpInv, SpPhase
    <3>6. SpResult'
      BY <3>1, <3>2 DEF SpInv, SpResult
    <3> QED
      BY <3>3, <3>5, <3>6 DEF SpInv
  <2> QED
    BY <2>1, <2>2
<1> HIDE DEF Inv
<1>3. Spec => []Inv
  BY <1>1, <1>2, PTL DEF Spec
<1> QED
  BY <1>3 DEF Inv

\* islip_sp.cpp: no output serves a lower priority than it could, for every number
\* of ports, although an input accepts without looking at priorities.
THEOREM SpIsStrict == Spec => []StrictPriority
<1>1. (unit = "islip_sp" => SpInv) => StrictPriority
  <2> SUFFICES ASSUME SpInv PROVE Sp!TypeOK /\ Sp!StrictPriority
    BY DEF StrictPriority
  <2> QED
    BY DEF SpInv, SpResult, Sp!StrictPriority
<1> QED
  BY SpInvariant, <1>1, PTL

-----------------------------------------------------------------------------
(* islip_sp.cpp implements pim                                             *)

\* One more cell for one pair of ports.
Bumped(q, q2, I, O, i, o) ==
  /\ q = [j \in I |-> [k \in O |-> q[j][k]]]
  /\ q2 = [j \in I |-> [k \in O |-> IF j = i /\ k = o THEN q[j][k] + 1 ELSE q[j][k]]]

LEMMA BumpedIs ==
  ASSUME NEW I, NEW O, NEW i \in I, NEW o \in O, NEW q, NEW q2, Bumped(q, q2, I, O, i, o)
  PROVE  q2 = [q EXCEPT ![i][o] = @ + 1]
<1>1. q = [j \in I |-> q[j]] /\ DOMAIN q = I /\ \A j \in I : q[j] = [k \in O |-> q[j][k]]
  BY DEF Bumped
<1>2. q2 = [j \in I |-> q2[j]] /\ \A j \in I : q2[j] =
        [k \in O |-> IF j = i /\ k = o THEN q[j][k] + 1 ELSE q[j][k]]
  BY DEF Bumped
<1>3. q2[i] = [q[i] EXCEPT ![o] = @ + 1]
  BY <1>1, <1>2
<1>4. \A j \in I : j # i => q2[j] = q[j]
  BY <1>1, <1>2
<1>5. PICK z : z = [q EXCEPT ![i] = q2[i]]
  OBVIOUS
<1>6. z = [j \in I |-> IF j = i THEN q2[i] ELSE q[j]]
  BY <1>1, <1>5
<1>7. z = q2
  BY <1>2, <1>4, <1>6
<1> QED
  BY <1>3, <1>5, <1>7

\* The cells of a pair of ports: one or none of each priority.
LEMMA SpCountIs ==
  ASSUME NEW m \in [Sp!Prios -> 0 .. 1]
  PROVE  Cardinality({c \in Sp!Prios \X (1 .. 1) : c[2] <= m[c[1]]}) = m[0] + m[1]
<1> DEFINE C == {c \in Sp!Prios \X (1 .. 1) : c[2] <= m[c[1]]}
<1>1. m[0] \in {0, 1} /\ m[1] \in {0, 1}
  BY DEF Sp!Prios
<1>2. PICK a, b : a = <<0, 1>> /\ b = <<1, 1>>
  OBVIOUS
<1>3. a # b /\ \A c : c \in C <=> (c = a /\ m[0] = 1) \/ (c = b /\ m[1] = 1)
  BY <1>1, <1>2 DEF Sp!Prios
<1>4. PICK D : D = C
  OBVIOUS
<1> HIDE DEF C
<1>5. /\ (m[0] = 0 /\ m[1] = 0) => D = {}
      /\ (m[0] = 1 /\ m[1] = 0) => D = {a}
      /\ (m[0] = 0 /\ m[1] = 1) => D = {b}
      /\ (m[0] = 1 /\ m[1] = 1) => D = {a} \cup {b}
  BY <1>3, <1>4
<1>6. /\ Cardinality({}) = 0
      /\ IsFiniteSet({a}) /\ Cardinality({a}) = 1 /\ Cardinality({b}) = 1
  BY FS_EmptySet, FS_Singleton
<1>7. Cardinality({a} \cup {b}) = 2
  <2>1. b \notin {a}
    BY <1>3
  <2>2. Cardinality({a} \cup {b}) = Cardinality({a}) + 1
    BY <1>6, <2>1, FS_AddElement
  <2> QED
    BY <1>6, <2>2
<1>8. Cardinality(D) = m[0] + m[1]
  BY <1>1, <1>5, <1>6, <1>7
<1> QED
  BY <1>4, <1>8 DEF C

LEMMA SpVoqCounts ==
  ASSUME NEW q \in [Sp!Inputs -> [Sp!Outputs -> [Sp!Prios -> 0 .. 1]]]
  PROVE  [i \in Sp!Inputs |-> [o \in Sp!Outputs |->
            Sp!Cardinality({c \in Sp!Prios \X (1 .. 1) : c[2] <= q[i][o][c[1]]})]]
           = [i \in Sp!Inputs |-> [o \in Sp!Outputs |-> q[i][o][0] + q[i][o][1]]]
<1>1. \A S : Sp!Cardinality(S) = Cardinality(S)
  BY DEF Sp!Cardinality, Cardinality
<1>2. \A i \in Sp!Inputs, o \in Sp!Outputs : q[i][o] \in [Sp!Prios -> 0 .. 1]
  OBVIOUS
<1>3. \A i \in Sp!Inputs, o \in Sp!Outputs :
        Cardinality({c \in Sp!Prios \X (1 .. 1) : c[2] <= q[i][o][c[1]]})
          = q[i][o][0] + q[i][o][1]
  BY <1>2, SpCountIs
<1> QED
  BY <1>1, <1>3

LEMMA SpCellsAre ==
  /\ Sp!TypeOK =>
       /\ Sp!Cells = [i \in Sp!Inputs |-> [o \in Sp!Outputs |-> m_voq[i][o][0] + m_voq[i][o][1]]]
       /\ \A i \in Sp!Inputs, o \in Sp!Outputs : m_voq[i][o] \in [Sp!Prios -> 0 .. 1]
  /\ Sp!TypeOK' =>
       /\ Sp!Cells' = [i \in Sp!Inputs |-> [o \in Sp!Outputs |-> m_voq'[i][o][0] + m_voq'[i][o][1]]]
       /\ \A i \in Sp!Inputs, o \in Sp!Outputs : m_voq'[i][o] \in [Sp!Prios -> 0 .. 1]
<1>1. ASSUME Sp!TypeOK
      PROVE  Sp!Cells = [i \in Sp!Inputs |-> [o \in Sp!Outputs |-> m_voq[i][o][0] + m_voq[i][o][1]]]
  <2>1. m_voq \in [Sp!Inputs -> [Sp!Outputs -> [Sp!Prios -> 0 .. 1]]]
    BY <1>1 DEF Sp!TypeOK
  <2> QED
    BY <2>1, SpVoqCounts DEF Sp!Cells
<1>2. ASSUME Sp!TypeOK'
      PROVE  Sp!Cells' = [i \in Sp!Inputs |-> [o \in Sp!Outputs |-> m_voq'[i][o][0] + m_voq'[i][o][1]]]
  <2>1. m_voq' \in [Sp!Inputs -> [Sp!Outputs -> [Sp!Prios -> 0 .. 1]]]
    BY <1>2 DEF Sp!TypeOK
  <2> QED
    BY <2>1, SpVoqCounts DEF Sp!Cells
<1>3. ASSUME NEW q \in [Sp!Inputs -> [Sp!Outputs -> [Sp!Prios -> 0 .. 1]]]
      PROVE  \A i \in Sp!Inputs, o \in Sp!Outputs : q[i][o] \in [Sp!Prios -> 0 .. 1]
  OBVIOUS
<1>4. Sp!TypeOK => \A i \in Sp!Inputs, o \in Sp!Outputs : m_voq[i][o] \in [Sp!Prios -> 0 .. 1]
  BY <1>3 DEF Sp!TypeOK
<1>5. Sp!TypeOK' => \A i \in Sp!Inputs, o \in Sp!Outputs : m_voq'[i][o] \in [Sp!Prios -> 0 .. 1]
  BY <1>3 DEF Sp!TypeOK
<1> QED
  BY <1>1, <1>2, <1>4, <1>5, Zenon

\* The pairs of ports among which outputs and inputs choose are those among which
\* those of pim would.
LEMMA SpSameChoices ==
  ASSUME Sp!TypeOK
  PROVE  /\ Sp!Matcher!Inputs = Sp!Inputs /\ Sp!Matcher!Outputs = Sp!Outputs
         /\ \A i \in Sp!Inputs, o \in Sp!Outputs \ m_output_occupied :
              i \in Sp!Matcher!GrantCandidates(o)
                <=> \E p \in Sp!Prios : i \in Sp!Waiting(o, p)
         /\ Sp!Matcher!GrantingOutputs = Sp!GrantingOutputs
         /\ \A i : Sp!Matcher!AcceptCandidates(i) = Sp!AcceptCandidates(i)
         /\ Sp!Matcher!AcceptingInputs
              = {i \in Sp!Inputs \ m_input_occupied : Sp!AcceptCandidates(i) # {}}
         /\ Sp!Matcher!Matched = Sp!Matched
<1>1. Sp!Matcher!Inputs = Sp!Inputs /\ Sp!Matcher!Outputs = Sp!Outputs
  BY DEF Sp!Matcher!Inputs, Sp!Matcher!Outputs, Sp!Inputs, Sp!Outputs
<1>2. ASSUME NEW i \in Sp!Inputs, NEW o \in Sp!Outputs
      PROVE  Sp!Cells[i][o] > 0 <=> \E p \in Sp!Prios : m_voq[i][o][p] > 0
  <2>1. /\ Sp!Cells[i][o] = m_voq[i][o][0] + m_voq[i][o][1]
        /\ m_voq[i][o] \in [Sp!Prios -> 0 .. 1]
    BY SpCellsAre
  <2> QED
    BY <2>1 DEF Sp!Prios
<1>3. ASSUME NEW o
      PROVE  Sp!Matcher!GrantCandidates(o) =
               {i \in Sp!Inputs : /\ i \notin m_input_occupied
                                  /\ o \in Sp!Outputs \ m_output_occupied
                                  /\ \E p \in Sp!Prios : m_voq[i][o][p] > 0}
  BY <1>1, <1>2 DEF Sp!Matcher!GrantCandidates, Sp!Matcher!Open
<1>4. \A i \in Sp!Inputs, o \in Sp!Outputs \ m_output_occupied :
        i \in Sp!Matcher!GrantCandidates(o) <=> \E p \in Sp!Prios : i \in Sp!Waiting(o, p)
  BY <1>3 DEF Sp!Waiting
<1>5. Sp!Matcher!GrantingOutputs = Sp!GrantingOutputs
  BY <1>1, <1>3 DEF Sp!Matcher!GrantingOutputs, Sp!GrantingOutputs, Sp!Waiting
<1>6. \A i : Sp!Matcher!AcceptCandidates(i) = Sp!AcceptCandidates(i)
  BY <1>1 DEF Sp!Matcher!AcceptCandidates, Sp!AcceptCandidates
<1>7. Sp!Matcher!AcceptingInputs
        = {i \in Sp!Inputs \ m_input_occupied : Sp!AcceptCandidates(i) # {}}
  BY <1>1, <1>6 DEF Sp!Matcher!AcceptingInputs
<1>8. Sp!Matcher!Matched = Sp!Matched
  BY DEF Sp!Matcher!Matched, Sp!Matched
<1> QED
  BY <1>1, <1>4, <1>5, <1>6, <1>7, <1>8

\* The constructor is that of pim.
LEMMA SpMatcherInit == Sp!Init => Sp!Matcher!Init
<1> SUFFICES ASSUME Sp!Init PROVE Sp!Matcher!Init
  OBVIOUS
<1>1. Sp!TypeOK
  BY SpInit DEF SpInv
<1>2. Sp!Cells = [i \in Sp!Inputs |-> [o \in Sp!Outputs |-> 0]]
  <2>1. \A i \in Sp!Inputs, o \in Sp!Outputs : m_voq[i][o][0] = 0 /\ m_voq[i][o][1] = 0
    BY DEF Sp!Init, Sp!Prios
  <2> QED
    BY <1>1, <2>1, SpCellsAre
<1>3. Sp!Served = {}
  BY DEF Sp!Init, Sp!Served
<1>4. Sp!Matcher!Inputs = Sp!Inputs /\ Sp!Matcher!Outputs = Sp!Outputs
  BY <1>1, SpSameChoices
<1> QED
  BY <1>2, <1>3, <1>4 DEF Sp!Init, Sp!Matcher!Init, Sp!Matcher!SwitchInit
\* request() is that of pim, or drops its cell.
LEMMA SpMatcherRequest ==
  ASSUME SpInv, SpInv', NEW i \in -1 .. NumPorts, NEW o \in -1 .. NumPorts, NEW p \in 0 .. 2,
         Sp!request(i, o, p)
  PROVE  [Sp!Matcher!Next]_(Sp!Matcher!svars)
<1> USE DEF Sp!slotVars, Sp!pvars
<1>1. /\ pc = "idle"
      /\ UNCHANGED <<m_grants, m_accepts, m_input_occupied, m_output_occupied,
                     m_iter_cnt, sch_result, pc>>
  BY DEF Sp!request
<1>2. Sp!TypeOK /\ Sp!TypeOK' /\ Sp!Served' = Sp!Served
  BY <1>1 DEF SpInv, Sp!Served
<1>3. CASE m_voq' = m_voq
  <2>1. Sp!Cells' = Sp!Cells
    BY <1>2, <1>3, SpCellsAre
  <2> QED
    BY <1>1, <1>2, <2>1 DEF Sp!Matcher!svars, Sp!Matcher!slotVars
<1>4. CASE /\ i \in Sp!Inputs /\ o \in Sp!Outputs /\ p < 2 /\ m_voq[i][o][p] < 1
           /\ m_voq' = [m_voq EXCEPT ![i][o][p] = @ + 1]
  <2>1. p \in Sp!Prios /\ (p = 0 \/ p = 1)
    BY <1>4 DEF Sp!Prios
  <2>2. /\ m_voq \in [Sp!Inputs -> [Sp!Outputs -> [Sp!Prios -> 0 .. 1]]]
        /\ 0 \in Sp!Prios /\ 1 \in Sp!Prios
    BY <1>2 DEF Sp!TypeOK, Sp!Prios
  <2>3. PICK q, q2 : q = Sp!Cells /\ q2 = Sp!Cells'
    OBVIOUS
  <2>4. /\ q = [j \in Sp!Inputs |-> [k \in Sp!Outputs |-> m_voq[j][k][0] + m_voq[j][k][1]]]
        /\ q2 = [j \in Sp!Inputs |-> [k \in Sp!Outputs |-> m_voq'[j][k][0] + m_voq'[j][k][1]]]
    BY <1>2, <2>3, SpCellsAre
  <2>5. m_voq[i][o][0] \in 0 .. 1 /\ m_voq[i][o][1] \in 0 .. 1
    BY <1>4, <2>2
  <2>6. m_voq'[i][o][0] + m_voq'[i][o][1] = m_voq[i][o][0] + m_voq[i][o][1] + 1
    BY <1>4, <2>1, <2>2, <2>5
  <2>7. \A j \in Sp!Inputs, k \in Sp!Outputs : j # i \/ k # o => m_voq'[j][k] = m_voq[j][k]
    BY <1>4, <2>2
  <2>8. q2 = [q EXCEPT ![i][o] = @ + 1]
    <3>1. \A j \in Sp!Inputs, k \in Sp!Outputs :
            m_voq'[j][k][0] + m_voq'[j][k][1]
              = IF j = i /\ k = o THEN q[j][k] + 1 ELSE q[j][k]
      BY <2>4, <2>6, <2>7
    <3>2. Bumped(q, q2, Sp!Inputs, Sp!Outputs, i, o)
      BY <2>4, <3>1 DEF Bumped
    <3> QED
      BY <1>4, <3>2, BumpedIs
  <2>9. q[i][o] < 1 * 2
    BY <1>4, <2>1, <2>4, <2>5
  <2>10. Sp!Cells' = [Sp!Cells EXCEPT ![i][o] = @ + 1] /\ Sp!Cells[i][o] < 1 * 2
    BY <2>3, <2>8, <2>9
  <2>11. i \in Sp!Matcher!Inputs /\ o \in Sp!Matcher!Outputs
    BY <1>2, <1>4, SpSameChoices
  <2>12. Sp!Matcher!request(i, o)
    BY <1>1, <1>2, <2>10, <2>11 DEF Sp!Matcher!request, Sp!Matcher!Arrive, Sp!Matcher!HasRoom,
                                    Sp!Matcher!slotVars
  <2>13. <<i, o>> \in Sp!Matcher!RequestArgs
    BY DEF Sp!Matcher!RequestArgs
  <2> QED
    BY <2>12, <2>13 DEF Sp!Matcher!Next
<1> QED
  BY <1>3, <1>4 DEF Sp!request, Sp!HasRoom

\* The call and the return of arbitration() are those of pim.
LEMMA SpMatcherCalls ==
  ASSUME SpInv, SpInv', Sp!arbitration \/ Sp!SlotEnds
  PROVE  Sp!Matcher!Next
<1> USE DEF Sp!slotVars, Sp!pvars, Sp!Matcher!slotVars
<1>1. Sp!Cells' = Sp!Cells
  <2>1. Sp!TypeOK /\ Sp!TypeOK' /\ m_voq' = m_voq
    BY DEF SpInv, Sp!arbitration, Sp!SlotEnds
  <2> QED
    BY <2>1, SpCellsAre
<1>2. CASE Sp!arbitration
  <2>1. Sp!Served' = {}
    BY <1>2 DEF Sp!arbitration, Sp!Served
  <2> QED
    BY <1>1, <1>2, <2>1 DEF Sp!arbitration, Sp!Matcher!arbitration, Sp!Matcher!StartSlot,
                            Sp!Matcher!Next
<1>3. CASE Sp!SlotEnds
  <2>1. Sp!Served' = Sp!Served
    BY <1>3 DEF Sp!SlotEnds, Sp!Served
  <2> QED
    BY <1>1, <1>3, <2>1 DEF Sp!SlotEnds, Sp!Matcher!SlotEnds, Sp!Matcher!Next
<1> QED
  BY <1>2, <1>3

\* A grant is one that pim may make.
LEMMA SpMatcherGrant ==
  ASSUME SpInv, SpInv', Sp!do_grant
  PROVE  Sp!Matcher!Next
<1> DEFINE pick == [o \in Sp!GrantingOutputs |->
                      FirstFrom(m_g_ptr[o], NumPorts, Sp!Waiting(o, Sp!GrantPrio(o)))]
<1>1. /\ pc = "grant" /\ pc' = "accept" /\ m_iter_cnt < NumPorts
      /\ UNCHANGED <<m_voq, m_accepts, m_input_occupied, m_output_occupied, m_iter_cnt, sch_result>>
  BY DEF Sp!do_grant, Sp!pvars, Sp!slotVars
<1>2. m_grants' = m_grants \cup {<<pick[o], o>> : o \in Sp!GrantingOutputs}
  <2>1. m_grants' = m_grants \cup
          {<<Sp!FirstFrom(m_g_ptr[o], NumPorts, Sp!Waiting(o, Sp!GrantPrio(o))), o>> :
             o \in Sp!GrantingOutputs}
    BY Zenon DEF Sp!do_grant
  <2> QED
    BY <2>1, SameSpScan
<1>3. /\ Sp!TypeOK /\ Sp!TypeOK' /\ Sp!Served' = Sp!Served
  BY <1>1 DEF SpInv, Sp!Served
<1>4. Sp!Cells' = Sp!Cells
  BY <1>1, <1>3, SpCellsAre
<1>5. ASSUME NEW o \in Sp!GrantingOutputs
      PROVE  pick[o] \in Sp!Inputs /\ pick[o] \in Sp!Matcher!GrantCandidates(o)
  <2>1. o \in Sp!Outputs \ m_output_occupied
    BY DEF Sp!GrantingOutputs
  <2>2. Sp!GrantPrio(o) \in Sp!Prios /\ Sp!Waiting(o, Sp!GrantPrio(o)) # {}
    BY GrantPrioIs
  <2>3. m_g_ptr[o] \in 0 .. NumPorts - 1
    BY <1>3, <2>1 DEF Sp!TypeOK, Sp!Inputs
  <2>4. Sp!Waiting(o, Sp!GrantPrio(o)) \in SUBSET (0 .. NumPorts - 1)
    BY DEF Sp!Waiting, Sp!Inputs
  <2>5. pick[o] \in Sp!Waiting(o, Sp!GrantPrio(o))
    BY <2>2, <2>3, <2>4, PortsAssumption, FirstFromMember
  <2> HIDE DEF pick
  <2>6. pick[o] \in Sp!Inputs
    BY <2>5 DEF Sp!Waiting
  <2> QED
    BY <1>3, <2>1, <2>2, <2>5, <2>6, SpSameChoices
<1>6. pick \in [Sp!Matcher!GrantingOutputs -> Sp!Matcher!Inputs]
  <2>1. pick \in [Sp!GrantingOutputs -> Sp!Inputs]
    BY <1>5
  <2> HIDE DEF pick
  <2> QED
    BY <1>3, <2>1, SpSameChoices
<1> HIDE DEF pick
<1>7. Sp!Matcher!GrantingOutputs = Sp!GrantingOutputs
  BY <1>3, SpSameChoices
<1>8. Sp!Matcher!Grant(pick)
  BY <1>1, <1>2, <1>3, <1>4, <1>7 DEF Sp!Matcher!Grant, Sp!Matcher!slotVars
<1>9. Sp!Matcher!do_grant
  BY <1>5, <1>6, <1>7, <1>8 DEF Sp!Matcher!do_grant
<1> QED
  BY <1>9 DEF Sp!Matcher!Next

\* An accept is one that pim may make.
LEMMA SpMatcherAccept ==
  ASSUME SpInv, SpInv', Sp!do_accept
  PROVE  Sp!Matcher!Next
<1> DEFINE S == {i \in Sp!Inputs \ m_input_occupied : Sp!AcceptCandidates(i) # {}}
           pick == [i \in S |-> FirstFrom(m_a_ptr[i], NumPorts, Sp!AcceptCandidates(i))]
<1>1. /\ pc = "accept" /\ pc' = "update"
      /\ UNCHANGED <<m_voq, m_grants, m_input_occupied, m_output_occupied, m_iter_cnt, sch_result>>
  BY DEF Sp!do_accept, Sp!pvars, Sp!slotVars
<1>2. m_accepts' = m_accepts \cup {<<i, pick[i]>> : i \in S}
  <2>1. m_accepts' = m_accepts \cup
          {<<i, Sp!FirstFrom(m_a_ptr[i], NumPorts, Sp!AcceptCandidates(i))>> : i \in S}
    BY Zenon DEF Sp!do_accept
  <2> QED
    BY <2>1, SameSpScan
<1>3. /\ Sp!TypeOK /\ Sp!TypeOK' /\ Sp!Served' = Sp!Served
  BY <1>1 DEF SpInv, Sp!Served
<1>4. Sp!Cells' = Sp!Cells
  BY <1>1, <1>3, SpCellsAre
<1>5. ASSUME NEW i \in S PROVE pick[i] \in Sp!Outputs /\ pick[i] \in Sp!AcceptCandidates(i)
  <2>1. m_a_ptr[i] \in 0 .. NumPorts - 1
    BY <1>3 DEF Sp!TypeOK, Sp!Outputs
  <2>2. Sp!AcceptCandidates(i) \in SUBSET (0 .. NumPorts - 1) /\ Sp!AcceptCandidates(i) # {}
    BY DEF Sp!AcceptCandidates, Sp!Outputs
  <2>3. pick[i] \in Sp!AcceptCandidates(i)
    BY <2>1, <2>2, PortsAssumption, FirstFromMember
  <2> HIDE DEF pick
  <2> QED
    BY <2>3 DEF Sp!AcceptCandidates
<1>6. pick \in [S -> Sp!Outputs]
  BY <1>5
<1>7. S = Sp!Matcher!AcceptingInputs
  BY <1>3, SpSameChoices
<1> HIDE DEF pick, S
<1>8. Sp!Matcher!Accept(pick)
  BY <1>1, <1>2, <1>3, <1>4, <1>7 DEF Sp!Matcher!Accept, Sp!Matcher!slotVars
<1>9. /\ pick \in [Sp!Matcher!AcceptingInputs -> Sp!Matcher!Outputs]
      /\ \A i \in Sp!Matcher!AcceptingInputs : pick[i] \in Sp!Matcher!AcceptCandidates(i)
  BY <1>3, <1>5, <1>6, <1>7, SpSameChoices
<1>10. Sp!Matcher!do_accept
  BY <1>8, <1>9 DEF Sp!Matcher!do_accept
<1> QED
  BY <1>10 DEF Sp!Matcher!Next

\* The cells that cross are as many as pim's.
LEMMA SpMatcherUpdate ==
  ASSUME SpInv, SpInv', Sp!update_pointers
  PROVE  Sp!Matcher!Next
<1>1. PICK M : M = Sp!Matched
  OBVIOUS
<1> DEFINE sel(i, o) == Sp!Selected(i, o)
<1>2. /\ pc = "update" /\ pc' = "grant" /\ m_iter_cnt' = m_iter_cnt + 1
      /\ m_grants' = {} /\ m_accepts' = {}
      /\ m_input_occupied' = m_input_occupied \cup {q[1] : q \in M}
      /\ m_output_occupied' = m_output_occupied \cup {q[2] : q \in M}
      /\ sch_result' = sch_result \cup {<<q[1], q[2], sel(q[1], q[2])>> : q \in M}
  BY <1>1 DEF Sp!update_pointers
<1>3. m_voq' = [i \in Sp!Inputs |-> [o \in Sp!Outputs |-> [p \in Sp!Prios |->
                  IF <<i, o>> \in M /\ p = sel(i, o)
                  THEN m_voq[i][o][p] - 1 ELSE m_voq[i][o][p]]]]
  BY <1>1 DEF Sp!update_pointers, Sp!TakeCells
<1>4. /\ M \in SUBSET (Sp!Inputs \X Sp!Outputs)
      /\ \A i \in Sp!Inputs, o \in Sp!Outputs : <<i, o>> \in M => sel(i, o) \in Sp!Prios
  <2>1. \A q \in M : /\ q \in m_grants /\ Sp!Selected(q[1], q[2]) \in Sp!Prios
    BY <1>1, SelectedIs
  <2>2. m_grants \in SUBSET (Sp!Inputs \X Sp!Outputs)
    BY DEF SpInv, Sp!TypeOK
  <2> QED
    BY <2>1, <2>2
<1> HIDE DEF sel
<1>5. Sp!TypeOK /\ Sp!TypeOK'
  BY DEF SpInv
<1>6. Sp!Cells' = [i \in Sp!Inputs |-> [o \in Sp!Outputs |->
                     IF <<i, o>> \in M THEN Sp!Cells[i][o] - 1 ELSE Sp!Cells[i][o]]]
  <2>1. PICK q, q2 : q = Sp!Cells /\ q2 = Sp!Cells'
    OBVIOUS
  <2>2. /\ q = [j \in Sp!Inputs |-> [k \in Sp!Outputs |-> m_voq[j][k][0] + m_voq[j][k][1]]]
        /\ q2 = [j \in Sp!Inputs |-> [k \in Sp!Outputs |-> m_voq'[j][k][0] + m_voq'[j][k][1]]]
        /\ \A i \in Sp!Inputs, o \in Sp!Outputs : m_voq[i][o] \in [Sp!Prios -> 0 .. 1]
    BY <1>5, <2>1, SpCellsAre
  <2>3. ASSUME NEW i \in Sp!Inputs, NEW o \in Sp!Outputs
        PROVE  m_voq'[i][o][0] + m_voq'[i][o][1] =
                 IF <<i, o>> \in M THEN (m_voq[i][o][0] + m_voq[i][o][1]) - 1
                                   ELSE m_voq[i][o][0] + m_voq[i][o][1]
    <3>1. /\ 0 \in Sp!Prios /\ 1 \in Sp!Prios
          /\ m_voq[i][o][0] \in 0 .. 1 /\ m_voq[i][o][1] \in 0 .. 1
      BY <2>2 DEF Sp!Prios
    <3>2. /\ m_voq'[i][o][0] = IF <<i, o>> \in M /\ sel(i, o) = 0
                               THEN m_voq[i][o][0] - 1 ELSE m_voq[i][o][0]
          /\ m_voq'[i][o][1] = IF <<i, o>> \in M /\ sel(i, o) = 1
                               THEN m_voq[i][o][1] - 1 ELSE m_voq[i][o][1]
      BY <1>3, <3>1
    <3>3. <<i, o>> \in M => sel(i, o) = 0 \/ sel(i, o) = 1
      BY <1>4 DEF Sp!Prios
    <3> QED
      BY <3>1, <3>2, <3>3
  <2>4. q2 = [i \in Sp!Inputs |-> [o \in Sp!Outputs |->
                IF <<i, o>> \in M THEN q[i][o] - 1 ELSE q[i][o]]]
    BY <2>2, <2>3
  <2> QED
    BY <2>1, <2>4
<1>7. Sp!Served' = Sp!Served \cup M
  <2>1. PICK R, R2 : R = sch_result /\ R2 = sch_result'
    OBVIOUS
  <2>2. PICK New : New = {<<q[1], q[2], sel(q[1], q[2])>> : q \in M}
    OBVIOUS
  <2>3. {<<t[1], t[2]>> : t \in New} = M
    <3>1. ASSUME NEW q \in M PROVE \E t \in New : q = <<t[1], t[2]>>
      <4>1. q = <<q[1], q[2]>> /\ <<q[1], q[2], sel(q[1], q[2])>> \in New
        BY <1>4, <2>2
      <4> QED
        BY <4>1
    <3>2. ASSUME NEW t \in New PROVE <<t[1], t[2]>> \in M
      BY <1>4, <2>2
    <3> QED
      BY <3>1, <3>2
  <2>4. R2 = R \cup New
    BY <1>2, <2>1, <2>2, Zenon
  <2>5. {<<t[1], t[2]>> : t \in R2} = {<<t[1], t[2]>> : t \in R} \cup {<<t[1], t[2]>> : t \in New}
    BY <2>4
  <2> QED
    BY <2>1, <2>3, <2>5, Zenon DEF Sp!Served
<1>8. /\ Sp!Matcher!Matched = M
      /\ Sp!Matcher!Inputs = Sp!Inputs /\ Sp!Matcher!Outputs = Sp!Outputs
  BY <1>1, <1>5, SpSameChoices
<1>9. Sp!Matcher!OccupyPorts
  BY <1>2, <1>8 DEF Sp!Matcher!OccupyPorts
<1>10. Sp!Matcher!TakeCells
  BY <1>6, <1>8 DEF Sp!Matcher!TakeCells
<1>11. Sp!Matcher!update_pointers
  BY <1>2, <1>7, <1>8, <1>9, <1>10 DEF Sp!Matcher!update_pointers, Sp!Matcher!Serve
<1> QED
  BY <1>11 DEF Sp!Matcher!Next

-----------------------------------------------------------------------------
(* fifo.cpp implements the crossbar                                        *)

\* The cells of a queue for output o.
Count(s, o) == Cardinality({k \in DOMAIN s : s[k] = o})

\* What a cell adds to the count.
One(e, o) == IF e = o THEN 1 ELSE 0

LEMMA CountFinite ==
  ASSUME NEW E, NEW s \in Seq(E), NEW o
  PROVE  /\ IsFiniteSet({k \in DOMAIN s : s[k] = o})
         /\ Count(s, o) \in Nat /\ Count(s, o) <= Len(s)
<1>1. PICK m \in Nat : m = Len(s)
  OBVIOUS
<1>2. IsFiniteSet(1 .. m) /\ Cardinality(1 .. m) = m
  <2>1. /\ IsFiniteSet(1 .. m)
        /\ Cardinality(1 .. m) = IF 1 > m THEN 0 ELSE m - 1 + 1
    BY FS_Interval
  <2> QED
    BY <2>1
<1>3. PICK C : C = {k \in DOMAIN s : s[k] = o}
  OBVIOUS
<1>4. C \in SUBSET (1 .. m)
  BY <1>1, <1>3
<1>5. IsFiniteSet(C) /\ Cardinality(C) <= m /\ Cardinality(C) \in Nat
  BY <1>2, <1>4, FS_Subset, FS_CardinalityType
<1> QED
  BY <1>1, <1>3, <1>5 DEF Count

LEMMA CountAppend ==
  ASSUME NEW E, NEW s \in Seq(E), NEW e \in E, NEW o
  PROVE  Count(Append(s, e), o) = Count(s, o) + One(e, o)
<1>1. PICK m \in Nat : m = Len(s)
  OBVIOUS
<1>2. PICK t : t = Append(s, e)
  OBVIOUS
<1>3. PICK C, D : C = {k \in DOMAIN s : s[k] = o} /\ D = {k \in DOMAIN t : t[k] = o}
  OBVIOUS
<1>4. /\ DOMAIN s = 1 .. m /\ DOMAIN t = 1 .. m + 1
      /\ t[m + 1] = e /\ \A k \in 1 .. m : t[k] = s[k]
  BY <1>1, <1>2
<1>5. IsFiniteSet(C) /\ Cardinality(C) \in Nat
  BY <1>3, CountFinite DEF Count
<1>6. D = (IF e = o THEN C \cup {m + 1} ELSE C) /\ m + 1 \notin C
  BY <1>3, <1>4
<1>7. Cardinality(D) = Cardinality(C) + One(e, o)
  <2>1. Cardinality(C \cup {m + 1}) = Cardinality(C) + 1
    BY <1>5, <1>6, FS_AddElement
  <2> QED
    BY <1>5, <1>6, <2>1 DEF One
<1> QED
  BY <1>2, <1>3, <1>7 DEF Count

LEMMA CountTail ==
  ASSUME NEW E, NEW s \in Seq(E), s # <<>>, NEW o
  PROVE  Count(Tail(s), o) = Count(s, o) - One(Head(s), o)
<1>1. PICK m \in Nat : m = Len(s)
  OBVIOUS
<1>2. PICK t : t = Tail(s)
  OBVIOUS
<1>3. PICK C, D : C = {k \in DOMAIN s : s[k] = o} /\ D = {k \in DOMAIN t : t[k] = o}
  OBVIOUS
<1>4. /\ DOMAIN s = 1 .. m /\ DOMAIN t = 1 .. m - 1 /\ m # 0
      /\ s[1] = Head(s) /\ \A k \in 1 .. m - 1 : t[k] = s[k + 1]
  BY <1>1, <1>2
<1>5. t \in Seq(E)
  BY <1>2
<1>6. /\ IsFiniteSet(C) /\ Cardinality(C) \in Nat /\ IsFiniteSet(D)
  BY <1>3, <1>5, CountFinite DEF Count
<1>7. PICK B : B = C \ {1}
  OBVIOUS
<1>8. PICK f : f = [k \in D |-> k + 1]
  OBVIOUS
<1>9. Corresponds(f, D, B)
  <2>1. \A k \in D : k \in Nat /\ k + 1 \in B /\ f[k] = k + 1
    BY <1>3, <1>4, <1>7, <1>8
  <2>2. f \in [D -> B]
    BY <1>8, <2>1
  <2>3. \A j, k \in D : f[j] = f[k] => j = k
    BY <2>1
  <2>4. ASSUME NEW k \in B PROVE \E j \in D : f[j] = k
    <3>1. k \in Int /\ k - 1 \in 1 .. m - 1 /\ (k - 1) + 1 = k /\ s[k] = o
      BY <1>3, <1>4, <1>7
    <3>2. k - 1 \in D
      BY <1>3, <1>4, <3>1
    <3> QED
      BY <2>1, <3>1, <3>2
  <2> QED
    BY <2>2, <2>3, <2>4, Zenon DEF Corresponds
<1>10. Cardinality(B) = Cardinality(D)
  BY <1>6, <1>9, SameSize, Zenon
<1>11. 1 \in C <=> Head(s) = o
  BY <1>3, <1>4
<1>12. Cardinality(B) = IF 1 \in C THEN Cardinality(C) - 1 ELSE Cardinality(C)
  BY <1>6, <1>7, FS_RemoveElement
<1>13. Cardinality(D) = Cardinality(C) - One(Head(s), o)
  BY <1>6, <1>10, <1>11, <1>12 DEF One
<1> QED
  BY <1>2, <1>3, <1>13 DEF Count
\* A grant is for the head of its input's queue, until the head is popped, and an
\* output grants once.
FifoInv ==
  /\ Fifo2!TypeOK
  /\ pc = "update" =>
       /\ \A g \in m_grants : m_fifos[g[1]] # <<>> /\ Head(m_fifos[g[1]]) = g[2]
       /\ \A g, h \in m_grants : g[2] = h[2] => g = h

\* What the mapping counts.
LEMMA FifoCellsAre ==
  /\ Fifo2!Cells = [i \in Fifo2!Inputs |-> [o \in Fifo2!Outputs |-> Count(m_fifos[i], o)]]
  /\ Fifo2!Cells' = [i \in Fifo2!Inputs |-> [o \in Fifo2!Outputs |-> Count(m_fifos'[i], o)]]
<1>1. \A S : Fifo2!Cardinality(S) = Cardinality(S)
  BY DEF Fifo2!Cardinality, Cardinality
<1> QED
  BY <1>1 DEF Fifo2!Cells, Count

\* The constructor.
LEMMA FifoStarts == Fifo2!Init => FifoInv /\ Fifo2!Abstract!Init
<1> SUFFICES ASSUME Fifo2!Init PROVE FifoInv /\ Fifo2!Abstract!Init
  OBVIOUS
<1>1. 0 \in Fifo2!Inputs
  BY PortsAssumption DEF Fifo2!Inputs
<1>2. FifoInv
  BY <1>1 DEF FifoInv, Fifo2!TypeOK, Fifo2!Init
<1>3. \A o : Count(<<>>, o) = 0
  BY FS_EmptySet DEF Count
<1>4. Fifo2!Cells = [i \in Fifo2!Inputs |-> [o \in Fifo2!Outputs |-> 0]]
  BY <1>3, FifoCellsAre DEF Fifo2!Init
<1>5. Fifo2!Served = {}
  BY DEF Fifo2!Init, Fifo2!Served
<1> QED
  BY <1>2, <1>4, <1>5 DEF Fifo2!Abstract!Init

\* A cell arrives at the crossbar, unless it is for an input or an output that does
\* not exist.
LEMMA FifoRequest ==
  ASSUME FifoInv, NEW i \in -1 .. NumPorts, NEW o \in 0 .. NumPorts,
         i \in Fifo2!Inputs => Len(m_fifos[i]) < MaxCells, Fifo2!request(i, o)
  PROVE  FifoInv' /\ [Fifo2!Abstract!Next]_(Fifo2!Abstract!vars)
<1>1. pc = "idle" /\ UNCHANGED <<m_g_ptr, m_grants, pc>>
  BY DEF Fifo2!request
<1>2. /\ m_fifos \in [Fifo2!Inputs -> Seq(0 .. NumPorts)] /\ Fifo2!TypeOK
  BY DEF FifoInv, Fifo2!TypeOK
<1>3. Fifo2!Served' = Fifo2!Served
  BY <1>1 DEF Fifo2!Served
<1>4. CASE i \notin Fifo2!Inputs
  <2>1. m_fifos' = m_fifos
    BY <1>4 DEF Fifo2!request
  <2>2. FifoInv'
    BY <1>1, <1>2, <2>1 DEF FifoInv, Fifo2!TypeOK
  <2>3. Fifo2!Cells' = Fifo2!Cells
    BY <2>1, FifoCellsAre
  <2> QED
    BY <1>3, <2>2, <2>3 DEF Fifo2!Abstract!vars
<1>5. CASE i \in Fifo2!Inputs
  <2>1. m_fifos' = [m_fifos EXCEPT ![i] = Append(@, o)]
    BY <1>5 DEF Fifo2!request
  <2>2. m_fifos' \in [Fifo2!Inputs -> Seq(0 .. NumPorts)]
    BY <1>2, <1>5, <2>1
  <2>3. FifoInv'
    BY <1>1, <1>2, <2>2 DEF FifoInv, Fifo2!TypeOK
  <2>4. PICK s \in Seq(0 .. NumPorts) : s = m_fifos[i]
    BY <1>2, <1>5
  <2>5. \A j \in Fifo2!Inputs : m_fifos'[j] = IF j = i THEN Append(s, o) ELSE m_fifos[j]
    BY <1>2, <1>5, <2>1, <2>4
  <2>6. \A k : Count(Append(s, o), k) = Count(s, k) + One(o, k) /\ Count(s, k) \in Nat
    BY CountAppend, CountFinite
  <2>7. PICK q, q2 : q = Fifo2!Cells /\ q2 = Fifo2!Cells'
    OBVIOUS
  <2>8. /\ q = [j \in Fifo2!Inputs |-> [k \in Fifo2!Outputs |-> Count(m_fifos[j], k)]]
        /\ q2 = [j \in Fifo2!Inputs |-> [k \in Fifo2!Outputs |->
                   IF j = i THEN Count(s, k) + One(o, k) ELSE Count(m_fifos[j], k)]]
    BY <2>5, <2>6, <2>7, FifoCellsAre
  <2>9. CASE o \in Fifo2!Outputs
    <3>1. q[i][o] < MaxCells
      <4>1. Count(s, o) <= Len(s) /\ Count(s, o) \in Nat
        BY <2>4, CountFinite
      <4>2. Len(s) < MaxCells
        BY <1>5, <2>4
      <4>3. q[i][o] = Count(s, o)
        BY <1>5, <2>4, <2>8, <2>9
      <4> QED
        BY <2>4, <4>1, <4>2, <4>3, PortsAssumption
    <3>2. q2 = [q EXCEPT ![i][o] = @ + 1]
      <4>1. \A j \in Fifo2!Inputs, k \in Fifo2!Outputs :
              (IF j = i THEN Count(s, k) + One(o, k) ELSE Count(m_fifos[j], k))
                = IF j = i /\ k = o THEN q[j][k] + 1 ELSE q[j][k]
        BY <2>4, <2>6, <2>8 DEF One
      <4>2. Bumped(q, q2, Fifo2!Inputs, Fifo2!Outputs, i, o)
        BY <2>8, <4>1 DEF Bumped
      <4> QED
        BY <1>5, <2>9, <4>2, BumpedIs
    <3>3. /\ Fifo2!Cells[i][o] < MaxCells
          /\ Fifo2!Cells' = [Fifo2!Cells EXCEPT ![i][o] = @ + 1]
      BY <2>7, <3>1, <3>2
    <3>4. Fifo2!Abstract!Enqueue(i, o)
      BY <1>3, <3>3 DEF Fifo2!Abstract!Enqueue
    <3> QED
      BY <1>5, <2>3, <2>9, <3>4 DEF Fifo2!Abstract!Next
  <2>10. CASE o \notin Fifo2!Outputs
    <3>1. \A k \in Fifo2!Outputs : One(o, k) = 0
      BY <2>10 DEF One
    <3>2. q2 = q
      BY <2>4, <2>6, <2>8, <3>1
    <3> QED
      BY <1>3, <2>3, <2>7, <3>2 DEF Fifo2!Abstract!vars
  <2> QED
    BY <2>9, <2>10
<1> QED
  BY <1>4, <1>5

\* The pointers are not the crossbar's business, the call of arbitration() starts
\* its slot, and the grants are made for heads.
LEMMA FifoPhases ==
  ASSUME FifoInv, Fifo2!init_priority_ptr \/ Fifo2!arbitration \/ Fifo2!do_grant
  PROVE  FifoInv' /\ [Fifo2!Abstract!Next]_(Fifo2!Abstract!vars)
<1>1. Fifo2!TypeOK
  BY DEF FifoInv
<1>2. m_fifos' = m_fifos
  BY DEF Fifo2!init_priority_ptr, Fifo2!arbitration, Fifo2!do_grant
<1>3. Fifo2!Cells' = Fifo2!Cells
  BY <1>2, FifoCellsAre
<1>4. CASE Fifo2!init_priority_ptr
  <2>1. pc = "idle" /\ UNCHANGED <<m_fifos, m_grants, pc>>
    BY <1>4 DEF Fifo2!init_priority_ptr
  <2>2. m_g_ptr' \in [Fifo2!Outputs -> Fifo2!Inputs]
    <3>1. \A o \in Fifo2!Outputs : (o + 1) % NumPorts \in 0 .. NumPorts - 1
      BY PortsAssumption DEF Fifo2!Outputs
    <3> QED
      BY <1>4, <3>1 DEF Fifo2!init_priority_ptr, Fifo2!Inputs
  <2>3. FifoInv'
    BY <1>1, <2>1, <2>2 DEF FifoInv, Fifo2!TypeOK
  <2>4. Fifo2!Served' = Fifo2!Served
    BY <2>1 DEF Fifo2!Served
  <2> QED
    BY <1>3, <2>3, <2>4 DEF Fifo2!Abstract!vars
<1>5. CASE Fifo2!arbitration
  <2>1. /\ pc' = "grant" /\ m_grants' = {} /\ UNCHANGED <<m_fifos, m_g_ptr>>
    BY <1>5 DEF Fifo2!arbitration
  <2>2. FifoInv'
    BY <1>1, <2>1 DEF FifoInv, Fifo2!TypeOK
  <2>3. Fifo2!Served' = {}
    BY <2>1 DEF Fifo2!Served
  <2> QED
    BY <1>3, <2>2, <2>3 DEF Fifo2!Abstract!StartSlot, Fifo2!Abstract!Next
<1>6. CASE Fifo2!do_grant
  <2> DEFINE Asked == {out \in Fifo2!Outputs : Fifo2!Requests(out) # {}}
             pick(o) == FirstFrom(m_g_ptr[o], NumPorts, Fifo2!Requests(o))
  <2>1. pc = "grant" /\ pc' = "update" /\ UNCHANGED <<m_fifos, m_g_ptr>>
    BY <1>6 DEF Fifo2!do_grant
  <2>2. m_grants' = {<<pick(o), o>> : o \in Asked}
    <3>1. m_grants' = {<<Fifo2!FirstFrom(m_g_ptr[o], NumPorts, Fifo2!Requests(o)), o>> : o \in Asked}
      BY <1>6, Zenon DEF Fifo2!do_grant
    <3>2. \A a, b, S : Fifo2!FirstFrom(a, b, S) = FirstFrom(a, b, S)
      BY DEF Fifo2!FirstFrom, Fifo2!Dist, FirstFrom, Dist
    <3> QED
      BY <3>1, <3>2
  <2>3. ASSUME NEW o \in Asked
        PROVE  /\ o \in Fifo2!Outputs /\ pick(o) \in Fifo2!Inputs
               /\ m_fifos[pick(o)] # <<>> /\ Head(m_fifos[pick(o)]) = o
    <3>1. /\ o \in Fifo2!Outputs /\ Fifo2!Requests(o) # {}
          /\ Fifo2!Requests(o) \in SUBSET (0 .. NumPorts - 1)
      BY DEF Fifo2!Requests, Fifo2!Inputs
    <3>2. m_g_ptr[o] \in 0 .. NumPorts - 1
      BY <1>1, <3>1 DEF Fifo2!TypeOK, Fifo2!Inputs
    <3>3. pick(o) \in Fifo2!Requests(o)
      BY <3>1, <3>2, PortsAssumption, FirstFromMember
    <3> HIDE DEF pick
    <3> QED
      BY <3>1, <3>3 DEF Fifo2!Requests
  <2> HIDE DEF pick, Asked
  <2>4. /\ m_grants' \in SUBSET (Fifo2!Inputs \X Fifo2!Outputs)
        /\ \A g \in m_grants' : m_fifos[g[1]] # <<>> /\ Head(m_fifos[g[1]]) = g[2]
        /\ \A g, h \in m_grants' : g[2] = h[2] => g = h
    BY <2>2, <2>3
  <2>5. FifoInv'
    BY <1>1, <2>1, <2>4 DEF FifoInv, Fifo2!TypeOK
  <2>6. Fifo2!Served' = Fifo2!Served
    BY <2>1 DEF Fifo2!Served
  <2> QED
    BY <1>3, <2>5, <2>6 DEF Fifo2!Abstract!vars
<1> QED
  BY <1>4, <1>5, <1>6

\* The granted heads cross together.
LEMMA FifoUpdate ==
  ASSUME FifoInv, Fifo2!update_pointers
  PROVE  FifoInv' /\ Fifo2!Abstract!Next
<1>1. /\ pc = "update" /\ pc' = "idle" /\ m_grants' = m_grants
      /\ m_fifos' = [i \in Fifo2!Inputs |-> IF \E o \in Fifo2!Outputs : <<i, o>> \in m_grants
                                            THEN Tail(m_fifos[i]) ELSE m_fifos[i]]
  BY DEF Fifo2!update_pointers
<1>2. /\ m_fifos \in [Fifo2!Inputs -> Seq(0 .. NumPorts)]
      /\ m_g_ptr \in [Fifo2!Outputs -> Fifo2!Inputs]
      /\ m_grants \in SUBSET (Fifo2!Inputs \X Fifo2!Outputs)
  BY DEF FifoInv, Fifo2!TypeOK
<1>3. /\ \A g \in m_grants : m_fifos[g[1]] # <<>> /\ Head(m_fifos[g[1]]) = g[2]
      /\ \A g, h \in m_grants : g[2] = h[2] => g = h
  BY <1>1 DEF FifoInv
<1>4. \A i \in Fifo2!Inputs, o \in Fifo2!Outputs :
        <<i, o>> \in m_grants => m_fifos[i] # <<>> /\ Head(m_fifos[i]) = o
  BY <1>3
<1>5. m_fifos' \in [Fifo2!Inputs -> Seq(0 .. NumPorts)]
  <2>1. ASSUME NEW i \in Fifo2!Inputs
        PROVE  (IF \E o \in Fifo2!Outputs : <<i, o>> \in m_grants
                THEN Tail(m_fifos[i]) ELSE m_fifos[i]) \in Seq(0 .. NumPorts)
    <3>1. PICK s \in Seq(0 .. NumPorts) : s = m_fifos[i]
      BY <1>2
    <3>2. (\E o \in Fifo2!Outputs : <<i, o>> \in m_grants) => s # <<>>
      BY <1>4, <3>1
    <3>3. s # <<>> => Tail(s) \in Seq(0 .. NumPorts)
      OBVIOUS
    <3> QED
      BY <3>1, <3>2, <3>3
  <2> QED
    BY <1>1, <2>1
<1>6. m_g_ptr' \in [Fifo2!Outputs -> Fifo2!Inputs]
  <2>1. m_g_ptr' = [o \in Fifo2!Outputs |-> IF \E i \in Fifo2!Inputs : <<i, o>> \in m_grants
              THEN Fifo2!MovePointer(CHOOSE i \in Fifo2!Inputs : <<i, o>> \in m_grants)
              ELSE m_g_ptr[o]]
    BY DEF Fifo2!update_pointers
  <2>2. \A i \in Fifo2!Inputs : Fifo2!MovePointer(i) \in Fifo2!Inputs
    BY PortsAssumption DEF Fifo2!MovePointer, Fifo2!Inputs
  <2>3. ASSUME NEW o \in Fifo2!Outputs, \E i \in Fifo2!Inputs : <<i, o>> \in m_grants
        PROVE  Fifo2!MovePointer(CHOOSE i \in Fifo2!Inputs : <<i, o>> \in m_grants)
                 \in Fifo2!Inputs
    <3>1. (CHOOSE i \in Fifo2!Inputs : <<i, o>> \in m_grants) \in Fifo2!Inputs
      BY <2>3, Zenon
    <3> QED
      BY <2>2, <3>1
  <2> QED
    BY <1>2, <2>1, <2>3
<1>7. FifoInv'
  BY <1>1, <1>2, <1>5, <1>6 DEF FifoInv, Fifo2!TypeOK
<1>8. ASSUME NEW i \in Fifo2!Inputs, NEW o \in Fifo2!Outputs
      PROVE  /\ Count(m_fifos[i], o) \in Nat
             /\ <<i, o>> \in m_grants => Count(m_fifos[i], o) > 0
             /\ Count(m_fifos'[i], o) = IF <<i, o>> \in m_grants THEN Count(m_fifos[i], o) - 1
                                                                ELSE Count(m_fifos[i], o)
  <2>1. PICK s \in Seq(0 .. NumPorts) : s = m_fifos[i]
    BY <1>2
  <2>2. Count(s, o) \in Nat
    BY CountFinite
  <2>3. CASE \E k \in Fifo2!Outputs : <<i, k>> \in m_grants
    <3>1. PICK k \in Fifo2!Outputs : <<i, k>> \in m_grants
      BY <2>3
    <3>2. s # <<>> /\ Head(s) = k /\ m_fifos'[i] = Tail(s) /\ Tail(s) \in Seq(0 .. NumPorts)
      <4>1. s # <<>> /\ Head(s) = k
        BY <1>4, <2>1, <3>1
      <4>2. Tail(s) \in Seq(0 .. NumPorts)
        BY <4>1
      <4>3. m_fifos'[i] = Tail(m_fifos[i])
        BY <1>1, <2>3
      <4> QED
        BY <2>1, <4>1, <4>2, <4>3
    <3>3. Count(Tail(s), o) = Count(s, o) - One(k, o) /\ Count(Tail(s), o) \in Nat
      BY <3>2, CountTail, CountFinite
    <3>4. <<i, o>> \in m_grants <=> o = k
      BY <1>4, <2>1, <3>1, <3>2
    <3> QED
      BY <2>1, <2>2, <3>2, <3>3, <3>4 DEF One
  <2>4. CASE ~ \E k \in Fifo2!Outputs : <<i, k>> \in m_grants
    <3>1. m_fifos'[i] = s /\ <<i, o>> \notin m_grants
      BY <1>1, <2>1, <2>4
    <3> QED
      BY <2>1, <2>2, <3>1
  <2> QED
    BY <2>3, <2>4
<1>9. PICK q, q2 : q = Fifo2!Cells /\ q2 = Fifo2!Cells'
  OBVIOUS
<1>10. /\ q = [j \in Fifo2!Inputs |-> [k \in Fifo2!Outputs |-> Count(m_fifos[j], k)]]
       /\ q2 = [j \in Fifo2!Inputs |-> [k \in Fifo2!Outputs |-> Count(m_fifos'[j], k)]]
  BY <1>9, FifoCellsAre
<1>11. \A g \in m_grants : q[g[1]][g[2]] > 0
  BY <1>2, <1>8, <1>10
<1>12. q2 = [i \in Fifo2!Inputs |-> [o \in Fifo2!Outputs |->
               IF <<i, o>> \in m_grants THEN q[i][o] - 1 ELSE q[i][o]]]
  BY <1>8, <1>10
<1>13. Fifo2!Served = {} /\ Fifo2!Served' = m_grants
  BY <1>1 DEF Fifo2!Served
<1>14. Fifo2!Abstract!IsMatching(m_grants)
  BY <1>2, <1>3 DEF Fifo2!Abstract!IsMatching
<1>15. Fifo2!Abstract!Dispatch(m_grants)
  <2>1. /\ \A g \in m_grants : Fifo2!Cells[g[1]][g[2]] > 0
        /\ Fifo2!Cells' = [i \in Fifo2!Inputs |-> [o \in Fifo2!Outputs |->
             IF <<i, o>> \in m_grants THEN Fifo2!Cells[i][o] - 1 ELSE Fifo2!Cells[i][o]]]
    BY <1>9, <1>11, <1>12
  <2>2. Fifo2!Abstract!IsMatching(Fifo2!Served')
    BY <1>13, <1>14
  <2> QED
    BY <1>13, <2>1, <2>2 DEF Fifo2!Abstract!Dispatch
<1> QED
  BY <1>2, <1>7, <1>15 DEF Fifo2!Abstract!Next

\* FifoInv holds of every fifo, and so do its steps.
LEMMA FifoStep ==
  ASSUME FifoInv, Fifo2!Next
  PROVE  FifoInv' /\ [Fifo2!Abstract!Next]_(Fifo2!Abstract!vars)
BY FifoRequest, FifoPhases, FifoUpdate DEF Fifo2!Next, Fifo2!Slot

\* FifoInv holds of every fifo.
LEMMA FifoInvariant == Spec => [](unit = "fifo2" => FifoInv)
<1> DEFINE Inv == unit = "fifo2" => FifoInv
<1>1. Init => Inv
  BY FifoStarts DEF Init, IsLsu
<1>2. Inv /\ [Next]_vars => Inv'
  <2> SUFFICES ASSUME Inv, [Next]_vars, unit' = "fifo2" PROVE FifoInv'
    OBVIOUS
  <2>1. CASE Next
    <3>1. unit = "fifo2" /\ Fifo2!Next
      BY <2>1 DEF Next, SteadySlot
    <3> QED
      BY <3>1, FifoStep
  <2>2. CASE UNCHANGED vars
    <3>1. UNCHANGED <<m_fifos, m_g_ptr, m_grants, pc, unit>>
      BY <2>2 DEF vars, fifoVars, fifoSp
    <3> QED
      BY <3>1 DEF FifoInv, Fifo2!TypeOK
  <2> QED
    BY <2>1, <2>2
<1> HIDE DEF Inv
<1>3. Spec => []Inv
  BY <1>1, <1>2, PTL DEF Spec
<1> QED
  BY <1>3 DEF Inv

-----------------------------------------------------------------------------

\* With any number of ports, every step of islip_sp is one that pim may make on the
\* cells of a pair of ports counted together, and every step of fifo is one of the
\* crossbar, or none.
THEOREM SwitchesImplementAbstract == Spec => ImplementsAbstract
<1>1. Init => /\ unit = "islip_sp" => Sp!Matcher!Init
              /\ unit = "fifo2" => Fifo2!Abstract!Init
  BY SpMatcherInit, FifoStarts DEF Init, IsLsu
<1>2. /\ unit = "islip_sp" => SpInv
      /\ (unit = "islip_sp" => SpInv)'
      /\ [Next]_vars
      => [unit = "islip_sp" => [Sp!Matcher!Next]_(Sp!Matcher!svars)]_vars
  <2> SUFFICES ASSUME unit = "islip_sp" => SpInv, (unit = "islip_sp" => SpInv)',
                      Next, unit = "islip_sp"
               PROVE  [Sp!Matcher!Next]_(Sp!Matcher!svars)
    OBVIOUS
  <2>1. Sp!Next /\ SpInv /\ SpInv'
    BY DEF Next, SteadySlot
  <2> QED
    BY <2>1, SpMatcherRequest, SpMatcherCalls, SpMatcherGrant, SpMatcherAccept, SpMatcherUpdate
    DEF Sp!Next
<1>3. /\ unit = "fifo2" => FifoInv
      /\ [Next]_vars
      => [unit = "fifo2" => [Fifo2!Abstract!Next]_(Fifo2!Abstract!vars)]_vars
  <2> SUFFICES ASSUME FifoInv, Next, unit = "fifo2"
               PROVE  [Fifo2!Abstract!Next]_(Fifo2!Abstract!vars)
    OBVIOUS
  <2>1. Fifo2!Next
    BY DEF Next, SteadySlot
  <2> QED
    BY <2>1, FifoStep
<1>4. (unit = "fifo2" => FifoInv) => (unit = "fifo2" => Fifo2!TypeOK)
  BY DEF FifoInv
<1> QED
  BY SpInvariant, FifoInvariant, <1>1, <1>2, <1>3, <1>4, PTL DEF Spec, ImplementsAbstract

-----------------------------------------------------------------------------
(* The load/store unit.                                                    *)

\* What LoadNotStale says of one result.
NotStale(res) ==
  LET a     == program[res[1]].addr
      older == {k \in LS!Stores(a) : k < res[1]}
  IN  /\ res[1] \in DOMAIN program /\ res[2] \in Int
      /\ IF res[2] <= 0 THEN older = {}
                        ELSE res[2] \in LS!Stores(a) /\ \A k \in older : k <= res[2]

Results == reported \cup {m_finished_loads[k] : k \in DOMAIN m_finished_loads}

\* Two stores in flight finish in program order, because they wait equally long;
\* once the store that the buffer forwards has finished, no store to its address
\* is in flight and the memory holds it.
LsuInv(latency) ==
  /\ program \in Seq([op : {"LOAD", "STORE"}, addr : Addr]) /\ Len(program) <= MaxInst
  /\ m_memory \in [Addr -> Int]
  /\ \A a \in Addr : m_memory[a] \in {0, -1} \cup LS!Stores(a)
  /\ DOMAIN m_store_buffer \subseteq Addr
  /\ \A a \in DOMAIN m_store_buffer :
       /\ m_store_buffer[a] \in LS!Stores(a)
       /\ \A k \in LS!Stores(a) : k <= m_store_buffer[a]
  /\ \A a \in Addr : a \notin DOMAIN m_store_buffer => LS!Stores(a) = {}
  /\ DOMAIN m_inflight_queue \subseteq DOMAIN program
  /\ \A k \in DOMAIN m_inflight_queue :
       /\ m_inflight_queue[k] \in Int
       /\ program[k].op = "STORE" => m_inflight_queue[k] <= latency
  /\ \A j, k \in DOMAIN m_inflight_queue :
       j < k /\ program[j].op = "STORE" /\ program[k].op = "STORE"
       => m_inflight_queue[j] <= m_inflight_queue[k]
  /\ \A a \in DOMAIN m_store_buffer : m_store_buffer[a] \notin DOMAIN m_inflight_queue
       => LS!StoresTo(a, DOMAIN m_inflight_queue) = {} /\ m_memory[a] = m_store_buffer[a]
  /\ m_finished_loads \in Seq(Nat \X Int)
  /\ \A res \in Results : NotStale(res)

\* Counting in the units is counting.
LEMMA CountsInLsu ==
  /\ \A S : LS!Cardinality(S) = Cardinality(S)
  /\ \A S : SlowStores!Cardinality(S) = Cardinality(S)
<1>1. \A S : LS!Cardinality(S) = Cardinality(S)
  BY DEF LS!Cardinality, Cardinality
<1>2. \A S : SlowStores!Cardinality(S) = Cardinality(S)
  BY DEF SlowStores!Cardinality, Cardinality
<1> QED
  BY <1>1, <1>2

\* The program is a sequence of instructions.
LEMMA ProgramIs ==
  ASSUME NEW latency, LsuInv(latency)
  PROVE  /\ Len(program) \in Nat /\ DOMAIN program = 1 .. Len(program)
         /\ program \in Seq([op : {"LOAD", "STORE"}, addr : Addr])
         /\ \A k \in DOMAIN program : program[k] \in [op : {"LOAD", "STORE"}, addr : Addr]
         /\ \A k \in DOMAIN program : k \in Nat \ {0} /\ k <= Len(program)
         /\ DOMAIN m_inflight_queue \subseteq DOMAIN program
<1> DEFINE Inst == [op : {"LOAD", "STORE"}, addr : Addr]
<1>1. program \in Seq(Inst) /\ DOMAIN m_inflight_queue \subseteq DOMAIN program
  BY DEF LsuInv
<1> HIDE DEF Inst
<1>2. /\ Len(program) \in Nat /\ DOMAIN program = 1 .. Len(program)
      /\ \A k \in DOMAIN program : program[k] \in Inst
  BY <1>1
<1> QED
  BY <1>1, <1>2 DEF Inst

\* A store is in the queue behind those it must not overtake, and is what the
\* buffer forwards from now on.
LEMMA LsuIssue ==
  ASSUME NEW latency \in Nat, NEW loads \in Nat, LsuInv(latency),
         NEW op \in {"LOAD", "STORE"}, NEW a \in Addr,
         Len(program) < MaxInst,
         program' = Append(program, [op |-> op, addr |-> a]),
         m_inflight_queue' =
           [k \in DOMAIN m_inflight_queue \cup {Len(program) + 1} |->
              IF k \in DOMAIN m_inflight_queue THEN m_inflight_queue[k]
              ELSE IF op = "LOAD" THEN loads ELSE latency],
         m_store_buffer' = LS!Forwardable(op, a),
         UNCHANGED <<m_memory, m_finished_loads, reported>>,
         MaxInst \in Nat
  PROVE  LsuInv(latency)'
<1> DEFINE Inst == [op : {"LOAD", "STORE"}, addr : Addr]
           id == Len(program) + 1
<1>0. program \in Seq(Inst) /\ \A k \in DOMAIN program : program[k] \in Inst
  BY ProgramIs
<1> HIDE DEF Inst
<1>1. /\ program \in Seq(Inst) /\ Len(program) \in Nat /\ DOMAIN program = 1 .. Len(program)
      /\ DOMAIN m_inflight_queue \subseteq 1 .. Len(program)
      /\ id \in Nat \ {0} /\ id \notin DOMAIN program
      /\ \A k \in DOMAIN program : k \in Nat /\ k < id /\ program[k] \in Inst
  BY <1>0, ProgramIs
<1>2. /\ program' \in Seq(Inst) /\ Len(program') = id /\ DOMAIN program' = DOMAIN program \cup {id}
      /\ \A k \in DOMAIN program : program'[k] = program[k]
      /\ program'[id] = [op |-> op, addr |-> a]
      /\ Len(program') <= MaxInst
  <2>1. [op |-> op, addr |-> a] \in Inst
    BY DEF Inst
  <2> QED
    BY <1>1, <2>1
<1>3. /\ DOMAIN m_inflight_queue' = DOMAIN m_inflight_queue \cup {id}
      /\ \A k \in DOMAIN m_inflight_queue : m_inflight_queue'[k] = m_inflight_queue[k]
      /\ m_inflight_queue'[id] = IF op = "LOAD" THEN loads ELSE latency
  BY <1>1
<1> HIDE DEF id
<1>4. ASSUME NEW S \in SUBSET DOMAIN program, NEW b \in Addr
      PROVE  /\ {k \in S : program'[k] = [op |-> "STORE", addr |-> b]} = LS!StoresTo(b, S)
             /\ {k \in S \cup {id} : program'[k] = [op |-> "STORE", addr |-> b]}
                = IF op = "STORE" /\ a = b THEN LS!StoresTo(b, S) \cup {id} ELSE LS!StoresTo(b, S)
  <2>1. [op |-> op, addr |-> a] = [op |-> "STORE", addr |-> b] <=> op = "STORE" /\ a = b
    <3>1. [op |-> op, addr |-> a].op = op /\ [op |-> op, addr |-> a].addr = a
          /\ [op |-> "STORE", addr |-> b].op = "STORE" /\ [op |-> "STORE", addr |-> b].addr = b
      OBVIOUS
    <3> QED
      BY <3>1
  <2>2. id \notin S
    BY <1>1
  <2> QED
    BY <1>2, <2>1, <2>2 DEF LS!StoresTo
<1>5. \A b \in Addr : LS!Stores(b)' =
        IF op = "STORE" /\ a = b THEN LS!Stores(b) \cup {id} ELSE LS!Stores(b)
  BY <1>2, <1>4 DEF LS!Stores, LS!StoresTo
<1>6. \A b \in Addr : LS!StoresTo(b, DOMAIN m_inflight_queue)' =
        IF op = "STORE" /\ a = b THEN LS!StoresTo(b, DOMAIN m_inflight_queue) \cup {id}
        ELSE LS!StoresTo(b, DOMAIN m_inflight_queue)
  BY <1>1, <1>3, <1>4 DEF LS!StoresTo
<1>7. ASSUME NEW res, NotStale(res)  PROVE NotStale(res)'
  <2>1. /\ res[1] \in DOMAIN program /\ program'[res[1]] = program[res[1]]
        /\ res[1] < id /\ res[1] \in Nat
    BY <1>1, <1>2, <1>7 DEF NotStale
  <2>2. PICK b \in Addr : b = program[res[1]].addr
    BY <1>1, <2>1 DEF Inst
  <2>3. /\ LS!Stores(b) \subseteq LS!Stores(b)'
        /\ \A k \in LS!Stores(b)' : k < res[1] => k \in LS!Stores(b)
    BY <1>1, <1>5, <2>1
  <2>4. {k \in LS!Stores(b)' : k < res[1]} = {k \in LS!Stores(b) : k < res[1]}
    BY <2>3
  <2>5. /\ res[2] \in Int
        /\ IF res[2] <= 0 THEN {k \in LS!Stores(b) : k < res[1]} = {}
           ELSE /\ res[2] \in LS!Stores(b)
                /\ \A k \in {j \in LS!Stores(b) : j < res[1]} : k <= res[2]
    BY <1>7, <2>2 DEF NotStale
  <2>6. /\ res[1] \in DOMAIN program' /\ program'[res[1]].addr = b
    BY <1>2, <2>1, <2>2
  <2> QED
    BY <2>3, <2>4, <2>5, <2>6 DEF NotStale
<1>8. /\ DOMAIN m_store_buffer' = IF op = "STORE" THEN DOMAIN m_store_buffer \cup {a} ELSE DOMAIN m_store_buffer
      /\ \A b \in DOMAIN m_store_buffer' : m_store_buffer'[b] =
           IF op = "STORE" /\ b = a THEN id ELSE m_store_buffer[b]
  BY DEF LS!Forwardable, id
<1>9. ASSUME NEW b \in DOMAIN m_store_buffer'
      PROVE  /\ m_store_buffer'[b] \in LS!Stores(b)'
             /\ \A k \in LS!Stores(b)' : k <= m_store_buffer'[b]
  <2>1. b \in Addr /\ \A k \in LS!Stores(b) : k \in Nat /\ k < id
    BY <1>1, <1>8 DEF LsuInv, LS!Stores, LS!StoresTo
  <2>2. CASE op = "STORE" /\ b = a
    BY <1>1, <1>5, <1>8, <2>1, <2>2
  <2>3. CASE ~ (op = "STORE" /\ b = a)
    BY <1>5, <1>8, <2>1, <2>3 DEF LsuInv
  <2> QED
    BY <2>2, <2>3
<1>10. ASSUME NEW b \in DOMAIN m_store_buffer', m_store_buffer'[b] \notin DOMAIN m_inflight_queue'
       PROVE  /\ LS!StoresTo(b, DOMAIN m_inflight_queue)' = {}
              /\ m_memory'[b] = m_store_buffer'[b]
  <2>1. ~ (op = "STORE" /\ b = a)
    BY <1>3, <1>8, <1>10
  <2>2. b \in Addr /\ b \in DOMAIN m_store_buffer /\ m_store_buffer'[b] = m_store_buffer[b]
    BY <1>8, <2>1 DEF LsuInv
  <2> QED
    BY <1>3, <1>6, <1>10, <2>1, <2>2 DEF LsuInv
<1>11. ASSUME NEW k \in DOMAIN m_inflight_queue'
       PROVE  /\ m_inflight_queue'[k] \in Int
              /\ program'[k].op = "STORE" => m_inflight_queue'[k] <= latency
  <2>1. CASE k = id
    BY <1>2, <1>3, <2>1
  <2>2. CASE k \in DOMAIN m_inflight_queue
    BY <1>1, <1>2, <1>3, <2>2 DEF LsuInv
  <2> QED
    BY <1>3, <2>1, <2>2
<1>ops. \A k \in DOMAIN m_inflight_queue : k \in Nat /\ k < id /\ k \in DOMAIN program /\ program'[k] = program[k]
  BY <1>1, <1>2
<1>12. ASSUME NEW j \in DOMAIN m_inflight_queue', NEW k \in DOMAIN m_inflight_queue',
              j < k, program'[j].op = "STORE", program'[k].op = "STORE"
       PROVE  m_inflight_queue'[j] <= m_inflight_queue'[k]
  <2>1. j \in DOMAIN m_inflight_queue
    BY <1>1, <1>3, <1>12
  <2>2. CASE k = id
    <3>1. op = "STORE" /\ m_inflight_queue'[k] = latency
      BY <1>2, <1>3, <1>12, <2>2
    <3> QED
      BY <1>11, <1>12, <3>1
  <2>3. CASE k \in DOMAIN m_inflight_queue
    <3>1. /\ m_inflight_queue'[j] = m_inflight_queue[j] /\ m_inflight_queue'[k] = m_inflight_queue[k]
          /\ program[j].op = "STORE" /\ program[k].op = "STORE"
      BY <1>3, <1>ops, <1>12, <2>1, <2>3
    <3> QED
      BY <1>12, <2>1, <2>3, <3>1 DEF LsuInv
  <2> QED
    BY <1>3, <2>2, <2>3
<1>13. \A b \in Addr : b \notin DOMAIN m_store_buffer' => LS!Stores(b)' = {}
  BY <1>5, <1>8 DEF LsuInv
<1>14. \A b \in Addr : m_memory'[b] \in {0, -1} \cup LS!Stores(b)'
  BY <1>5 DEF LsuInv
<1>15. /\ DOMAIN m_store_buffer' \subseteq Addr
       /\ DOMAIN m_inflight_queue' \subseteq DOMAIN program'
       /\ m_memory' \in [Addr -> Int]
       /\ m_finished_loads' \in Seq(Nat \X Int)
  BY <1>2, <1>3, <1>8 DEF LsuInv
<1>16. \A res \in Results' : NotStale(res)'
  <2>1. Results' = Results
    BY DEF Results
  <2> QED
    BY <1>7, <2>1 DEF LsuInv
<1> QED
  BY <1>2, <1>9, <1>10, <1>11, <1>12, <1>13, <1>14, <1>15, <1>16 DEF LsuInv, Inst

\* What is in flight is numbered like the program, and so is what is due.
LEMMA StoresToIs ==
  ASSUME NEW latency \in Nat, LsuInv(latency), MaxInst \in Nat,
         NEW S \in SUBSET DOMAIN m_inflight_queue, NEW a \in Addr,
         LS!StoresTo(a, S) # {}
  PROVE  /\ LS!Max(LS!StoresTo(a, S)) \in LS!StoresTo(a, S)
         /\ \A k \in LS!StoresTo(a, S) : k <= LS!Max(LS!StoresTo(a, S))
<1>1. LS!StoresTo(a, S) \in SUBSET (0 .. Len(program)) /\ Len(program) \in Nat
  BY DEF LsuInv, LS!StoresTo
<1>2. LS!Max(LS!StoresTo(a, S)) = Max(LS!StoresTo(a, S))
  BY DEF LS!Max, Max
<1> QED
  BY <1>1, <1>2, MaxIs

\* Committed stores are stores of the program, and no commit can be undone: a
\* store to the address that stays in flight is younger than all that are due.
LEMMA MemoryAfterIs ==
  ASSUME NEW latency \in Nat, LsuInv(latency), MaxInst \in Nat,
         NEW S \in SUBSET DOMAIN m_inflight_queue, NEW a \in Addr
  PROVE  /\ LS!MemoryAfter(S)[a] \in {0, -1} \cup LS!Stores(a)
         /\ LS!StoresTo(a, S) = {} => LS!MemoryAfter(S)[a] = m_memory[a]
         /\ \A k \in LS!StoresTo(a, S) : k <= LS!MemoryAfter(S)[a]
<1>1. LS!MemoryAfter(S)[a] = IF LS!StoresTo(a, S) = {} THEN m_memory[a]
                             ELSE LS!Max(LS!StoresTo(a, S))
  BY DEF LS!MemoryAfter
<1>2. LS!StoresTo(a, S) \subseteq LS!Stores(a)
  BY DEF LS!StoresTo, LS!Stores, LsuInv
<1>3. CASE LS!StoresTo(a, S) = {}
  BY <1>1, <1>3 DEF LsuInv
<1>4. CASE LS!StoresTo(a, S) # {}
  BY <1>1, <1>2, <1>4, StoresToIs
<1> QED
  BY <1>3, <1>4

\* A load that is due reads the last store to its address, or, if there has been
\* none, what the memory started with.
LEMMA ResultIs ==
  ASSUME NEW latency \in Nat, LsuInv(latency), MaxInst \in Nat, NEW k \in LS!DueLoads
  PROVE  LS!Result(k) \in Nat \X Int /\ NotStale(LS!Result(k))
<1> DEFINE a == program[k].addr
           S == {j \in LS!Due : j < k}
           v == LS!read_logic(LS!MemoryAfter(S), a)
<1>1. /\ k \in DOMAIN program /\ k \in Nat /\ a \in Addr
      /\ S \in SUBSET DOMAIN m_inflight_queue
      /\ LS!Result(k) = <<k, v>>
  <2>1. k \in DOMAIN m_inflight_queue /\ S \in SUBSET DOMAIN m_inflight_queue
    BY DEF LS!DueLoads, LS!Due
  <2>2. /\ DOMAIN m_inflight_queue \subseteq DOMAIN program /\ DOMAIN program = 1 .. Len(program)
        /\ \A j \in DOMAIN program : program[j] \in [op : {"LOAD", "STORE"}, addr : Addr]
        /\ Len(program) \in Nat
    BY ProgramIs
  <2>3. program[k].addr \in Addr
    BY <2>1, <2>2
  <2> QED
    BY <2>1, <2>2, <2>3 DEF LS!Result
<1>2. v = IF a \in DOMAIN m_store_buffer THEN m_store_buffer[a] ELSE LS!MemoryAfter(S)[a]
  BY DEF LS!read_logic
<1> HIDE DEF S, v
<1>3. \A j \in LS!Stores(a) : j \in Nat \ {0}
  BY DEF LS!Stores, LS!StoresTo, LsuInv
<1>4. CASE a \in DOMAIN m_store_buffer
  <2>1. v \in LS!Stores(a) /\ \A j \in LS!Stores(a) : j <= v
    BY <1>2, <1>4 DEF LsuInv
  <2>2. v \in Int /\ ~ (v <= 0)
    BY <1>3, <2>1
  <2> QED
    BY <1>1, <2>1, <2>2 DEF NotStale
<1>5. CASE a \notin DOMAIN m_store_buffer
  <2>1. LS!Stores(a) = {}
    BY <1>1, <1>5 DEF LsuInv
  <2>2. v \in {0, -1}
    BY <1>1, <1>2, <1>5, <2>1, MemoryAfterIs
  <2> QED
    BY <1>1, <2>1, <2>2 DEF NotStale
<1> QED
  BY <1>4, <1>5

\* The stores that are due are older than those that are not, so the memory ends
\* up with the youngest; every load that is due reads what it may.
LEMMA LsuTick ==
  ASSUME NEW latency \in Nat, LsuInv(latency), LS!tick, MaxInst \in Nat
  PROVE  LsuInv(latency)'
<1>1. /\ UNCHANGED <<program, m_store_buffer, reported>>
      /\ m_memory' = LS!MemoryAfter(LS!Due)
      /\ DOMAIN m_inflight_queue' = DOMAIN m_inflight_queue \ LS!Due
      /\ \A k \in DOMAIN m_inflight_queue' : m_inflight_queue'[k] = m_inflight_queue[k] - 1
  BY DEF LS!tick, LS!Remaining
<1>2. /\ LS!Due \in SUBSET DOMAIN m_inflight_queue
      /\ \A k \in LS!Due : m_inflight_queue[k] <= 1
      /\ \A k \in DOMAIN m_inflight_queue : m_inflight_queue[k] <= 1 => k \in LS!Due
  BY DEF LS!Due
<1>3. /\ \A a : LS!Stores(a)' = LS!Stores(a)
      /\ \A a : LS!StoresTo(a, DOMAIN m_inflight_queue)' \subseteq LS!StoresTo(a, DOMAIN m_inflight_queue)
  BY <1>1 DEF LS!Stores, LS!StoresTo
<1>4. ASSUME NEW a \in Addr  PROVE m_memory'[a] \in {0, -1} \cup LS!Stores(a)
  BY <1>1, <1>2, MemoryAfterIs
<1>5. m_memory' \in [Addr -> Int]
  <2>1. m_memory' = [a \in Addr |-> m_memory'[a]]
    BY <1>1 DEF LS!MemoryAfter
  <2>2. \A a \in Addr : LS!Stores(a) \subseteq Int
    BY ProgramIs DEF LS!Stores, LS!StoresTo
  <2> QED
    BY <1>4, <2>1, <2>2
<1>6. ASSUME NEW a \in DOMAIN m_store_buffer, m_store_buffer[a] \notin DOMAIN m_inflight_queue'
      PROVE  /\ LS!StoresTo(a, DOMAIN m_inflight_queue)' = {}
             /\ m_memory'[a] = m_store_buffer[a]
  <2> DEFINE s == m_store_buffer[a]
  <2>1. /\ a \in Addr /\ s \in LS!Stores(a) /\ \A k \in LS!Stores(a) : k <= s
    BY DEF LsuInv
  <2>2. /\ LS!StoresTo(a, LS!Due) \subseteq LS!StoresTo(a, DOMAIN m_inflight_queue)
        /\ \A k \in LS!StoresTo(a, DOMAIN m_inflight_queue) : k \in LS!Stores(a)
    BY <1>2, ProgramIs DEF LS!StoresTo, LS!Stores
  <2>3. CASE s \notin DOMAIN m_inflight_queue
    <3>1. LS!StoresTo(a, DOMAIN m_inflight_queue) = {} /\ m_memory[a] = s
      BY <2>3 DEF LsuInv
    <3>2. m_memory'[a] = m_memory[a]
      BY <1>1, <1>2, <2>1, <2>2, <3>1, MemoryAfterIs
    <3> QED
      BY <1>3, <3>1, <3>2
  <2>4. CASE s \in LS!Due
    <3>1. s \in LS!StoresTo(a, LS!Due) /\ program[s].op = "STORE" /\ m_inflight_queue[s] <= 1
      BY <1>2, <2>1, <2>4 DEF LS!StoresTo, LS!Stores
    <3>2. s <= m_memory'[a] /\ m_memory'[a] \in {0, -1} \cup LS!Stores(a)
      BY <1>1, <1>2, <2>1, <3>1, MemoryAfterIs
    <3>3. \A k \in LS!Stores(a) : k \in Nat \ {0}
      BY ProgramIs DEF LS!Stores, LS!StoresTo
    <3>4. m_memory'[a] = s
      BY <2>1, <3>2, <3>3
    <3>5. ASSUME NEW k \in LS!StoresTo(a, DOMAIN m_inflight_queue)  PROVE k \in LS!Due
      <4>1. k \in DOMAIN m_inflight_queue /\ program[k].op = "STORE" /\ k \in LS!Stores(a)
        BY <2>2 DEF LS!StoresTo
      <4>2. k <= s /\ k \in Nat /\ s \in Nat /\ m_inflight_queue[k] \in Int /\ m_inflight_queue[s] \in Int
        BY <1>2, <2>1, <2>4, <3>3, <4>1 DEF LsuInv
      <4>3. m_inflight_queue[k] <= m_inflight_queue[s]
        <5>1. CASE k < s
          BY <1>2, <2>4, <3>1, <4>1, <5>1 DEF LsuInv
        <5>2. CASE k = s
          BY <4>2, <5>2
        <5> QED
          BY <4>2, <5>1, <5>2
      <4> QED
        BY <1>2, <3>1, <4>1, <4>2, <4>3
    <3> QED
      BY <1>1, <3>4, <3>5 DEF LS!StoresTo
  <2> QED
    BY <1>1, <1>6, <2>3, <2>4
<1>7. /\ m_finished_loads' \in Seq(Nat \X Int)
      /\ \A res \in Results' : NotStale(res)
  <2> DEFINE c == Cardinality(LS!DueLoads)
  <2>0. PICK loads \in LS!InOrder(LS!DueLoads) :
          m_finished_loads' = m_finished_loads \o LS!ResultsOf(loads)
    BY DEF LS!tick
  <2>1. /\ loads \in [1 .. c -> LS!DueLoads]
        /\ m_finished_loads' = m_finished_loads \o LS!ResultsOf(loads)
    BY <2>0, CountsInLsu DEF LS!InOrder
  <2>2. c \in Nat
    <3>1. LS!DueLoads \in SUBSET (1 .. Len(program)) /\ Len(program) \in Nat
      BY <1>2, ProgramIs DEF LS!DueLoads
    <3>2. IsFiniteSet(1 .. Len(program))
      BY <3>1, FS_Interval
    <3>3. IsFiniteSet(LS!DueLoads)
      BY <3>1, <3>2, FS_Subset
    <3> QED
      BY <3>3, FS_CardinalityType
  <2> HIDE DEF c
  <2>3. PICK more : more = LS!ResultsOf(loads)
    OBVIOUS
  <2>4. /\ more = [k \in 1 .. c |-> LS!Result(loads[k])]
        /\ \A k \in 1 .. c : more[k] \in Nat \X Int /\ NotStale(more[k])
    <3>1. more = [k \in 1 .. c |-> LS!Result(loads[k])]
      BY <2>1, <2>3 DEF LS!ResultsOf
    <3> QED
      BY <2>1, <3>1, ResultIs
  <2>5. more \in Seq(Nat \X Int) /\ Len(more) = c /\ DOMAIN more = 1 .. c
    BY <2>2, <2>4
  <2>6. m_finished_loads \in Seq(Nat \X Int) /\ m_finished_loads' = m_finished_loads \o more
    BY <2>1, <2>3 DEF LsuInv
  <2>7. m_finished_loads' \in Seq(Nat \X Int)
    BY <2>5, <2>6, ConcatProperties
  <2>8. ASSUME NEW k \in DOMAIN m_finished_loads'
        PROVE  \/ m_finished_loads'[k] \in Results
               \/ \E j \in 1 .. c : m_finished_loads'[k] = more[j]
    <3> DEFINE l == Len(m_finished_loads)
    <3>1. /\ l \in Nat /\ k \in 1 .. l + c /\ DOMAIN m_finished_loads = 1 .. l
          /\ m_finished_loads'[k] = IF k <= l THEN m_finished_loads[k] ELSE more[k - l]
      BY <2>2, <2>5, <2>6, ConcatProperties
    <3>2. CASE k <= l
      BY <3>1, <3>2 DEF Results
    <3>3. CASE ~ (k <= l)
      <4>1. k - l \in 1 .. c
        BY <2>2, <3>1, <3>3
      <4> QED
        BY <3>1, <3>3, <4>1
    <3> QED
      BY <3>2, <3>3
  <2>9. \A res \in Results' : res \in Results \/ \E j \in 1 .. c : res = more[j]
    BY <1>1, <2>8 DEF Results
  <2> QED
    BY <2>4, <2>7, <2>9 DEF LsuInv
<1>8. \A res \in Results' : NotStale(res)'
  BY <1>1, <1>3, <1>7 DEF NotStale
<1>9. ASSUME NEW k \in DOMAIN m_inflight_queue'
      PROVE  /\ k \in DOMAIN program' /\ m_inflight_queue'[k] \in Int
             /\ program'[k].op = "STORE" => m_inflight_queue'[k] <= latency
  BY <1>1 DEF LsuInv
<1>10. ASSUME NEW j \in DOMAIN m_inflight_queue', NEW k \in DOMAIN m_inflight_queue',
              j < k, program'[j].op = "STORE", program'[k].op = "STORE"
       PROVE  m_inflight_queue'[j] <= m_inflight_queue'[k]
  <2>1. /\ m_inflight_queue[j] <= m_inflight_queue[k]
        /\ m_inflight_queue[j] \in Int /\ m_inflight_queue[k] \in Int
    BY <1>1, <1>10 DEF LsuInv
  <2> QED
    BY <1>1, <2>1
<1>11. /\ program' \in Seq([op : {"LOAD", "STORE"}, addr : Addr]) /\ Len(program') <= MaxInst
       /\ DOMAIN m_store_buffer' \subseteq Addr
       /\ \A a \in DOMAIN m_store_buffer' :
            /\ m_store_buffer'[a] \in LS!Stores(a)'
            /\ \A k \in LS!Stores(a)' : k <= m_store_buffer'[a]
       /\ \A a \in Addr : a \notin DOMAIN m_store_buffer' => LS!Stores(a)' = {}
  BY <1>1, <1>3 DEF LsuInv
<1>12. \A a \in Addr : m_memory'[a] \in {0, -1} \cup LS!Stores(a)'
  BY <1>3, <1>4
<1>13. \A a \in DOMAIN m_store_buffer' : m_store_buffer'[a] \notin DOMAIN m_inflight_queue'
         => LS!StoresTo(a, DOMAIN m_inflight_queue)' = {} /\ m_memory'[a] = m_store_buffer'[a]
  BY <1>1, <1>6
<1> QED
  BY <1>5, <1>7, <1>8, <1>9, <1>10, <1>11, <1>12, <1>13 DEF LsuInv

\* A result that is handed out was waiting for it.
LEMMA LsuPoll ==
  ASSUME NEW latency \in Nat, LsuInv(latency), LS!has_completed_load
  PROVE  LsuInv(latency)'
<1>1. /\ m_finished_loads \in Seq(Nat \X Int) /\ m_finished_loads # << >>
      /\ reported' = reported \cup {LS!Last(m_finished_loads)}
      /\ m_finished_loads' = LS!Front(m_finished_loads)
      /\ UNCHANGED <<m_memory, m_store_buffer, m_inflight_queue, program>>
  BY DEF LsuInv, LS!has_completed_load
<1> DEFINE l == Len(m_finished_loads)
<1>2. l \in Nat \ {0} /\ DOMAIN m_finished_loads = 1 .. l
  BY <1>1
<1>3. LS!Last(m_finished_loads) = m_finished_loads[l]
  BY DEF LS!Last
<1>4. /\ m_finished_loads' = SubSeq(m_finished_loads, 1, l - 1)
      /\ m_finished_loads' \in Seq(Nat \X Int)
      /\ DOMAIN m_finished_loads' = 1 .. l - 1
      /\ \A k \in 1 .. l - 1 : m_finished_loads'[k] = m_finished_loads[k]
  <2>1. m_finished_loads' = SubSeq(m_finished_loads, 1, l - 1)
    BY <1>1 DEF LS!Front
  <2> QED
    BY <1>1, <1>2, <2>1
<1>5. Results' \subseteq Results
  <2>1. \A k \in 1 .. l - 1 : k \in 1 .. l
    BY <1>2
  <2>2. l \in 1 .. l
    BY <1>2
  <2> QED
    BY <1>1, <1>2, <1>3, <1>4, <2>1, <2>2 DEF Results
<1>6. \A a : LS!Stores(a)' = LS!Stores(a)
  BY <1>1 DEF LS!Stores, LS!StoresTo
<1>7. \A res \in Results' : NotStale(res)'
  <2>1. \A res \in Results' : NotStale(res)
    BY <1>5 DEF LsuInv
  <2> QED
    BY <1>1, <1>6, <2>1 DEF NotStale
<1> QED
  BY <1>1, <1>4, <1>6, <1>7 DEF LsuInv, LS!StoresTo

\* At first there is no instruction.
LEMMA LsuStarts ==
  ASSUME LS!Init, MaxInst \in Nat, NEW latency \in Nat
  PROVE  LsuInv(latency)
<1>1. /\ m_memory \in [Addr -> {0, -1}] /\ DOMAIN m_store_buffer = {}
      /\ DOMAIN m_inflight_queue = {} /\ m_finished_loads = << >>
      /\ program = << >> /\ reported = {}
  BY DEF LS!Init
<1>2. /\ program \in Seq([op : {"LOAD", "STORE"}, addr : Addr]) /\ Len(program) = 0
      /\ m_finished_loads \in Seq(Nat \X Int) /\ DOMAIN program = {} /\ DOMAIN m_finished_loads = {}
  BY <1>1
<1>3. \A a : LS!Stores(a) = {}
  BY <1>2 DEF LS!Stores, LS!StoresTo
<1>4. Results = {}
  BY <1>1, <1>2 DEF Results
<1> QED
  BY <1>1, <1>2, <1>3, <1>4 DEF LsuInv

\* Latencies matter to the issue of a request only.
LEMMA SlowCalls ==
  /\ SlowStores!tick => LS!tick
  /\ SlowStores!has_completed_load => LS!has_completed_load
<1>1. SlowStores!tick => LS!tick
  <2>1. /\ SlowStores!Due = LS!Due /\ SlowStores!DueLoads = LS!DueLoads
        /\ SlowStores!Remaining = LS!Remaining
    BY DEF SlowStores!Due, LS!Due, SlowStores!DueLoads, LS!DueLoads,
           SlowStores!Remaining, LS!Remaining
  <2>2. \A S : SlowStores!Max(S) = LS!Max(S)
    BY DEF SlowStores!Max, LS!Max
  <2>3. \A S, a : SlowStores!StoresTo(a, S) = LS!StoresTo(a, S)
    BY DEF SlowStores!StoresTo, LS!StoresTo
  <2>4. \A S : SlowStores!MemoryAfter(S) = LS!MemoryAfter(S)
    BY <2>2, <2>3 DEF SlowStores!MemoryAfter, LS!MemoryAfter
  <2>5. \A k : SlowStores!Result(k) = LS!Result(k)
    BY <2>1, <2>4 DEF SlowStores!Result, LS!Result, SlowStores!read_logic, LS!read_logic
  <2>6. \A l : SlowStores!ResultsOf(l) = LS!ResultsOf(l)
    BY <2>5 DEF SlowStores!ResultsOf, LS!ResultsOf
  <2>7. \A S : SlowStores!InOrder(S) = LS!InOrder(S)
    BY CountsInLsu DEF SlowStores!InOrder, LS!InOrder
  <2> QED
    BY <2>1, <2>4, <2>6, <2>7 DEF SlowStores!tick, LS!tick
<1>2. SlowStores!has_completed_load => LS!has_completed_load
  BY DEF SlowStores!has_completed_load, LS!has_completed_load,
         SlowStores!Last, LS!Last, SlowStores!Front, LS!Front
<1> QED
  BY <1>1, <1>2

\* The two units differ in their latencies only.
LEMMA LsuStep ==
  ASSUME MaxInst \in Nat
  PROVE  /\ LsuInv(2) /\ LS!Next => LsuInv(2)'
         /\ LsuInv(3) /\ SlowStores!Next => LsuInv(3)'
<1>1. ASSUME LsuInv(2), LS!Next  PROVE LsuInv(2)'
  <2>1. ASSUME NEW op \in {"LOAD", "STORE"}, NEW a \in Addr, LS!issue_request(op, a)
        PROVE  LsuInv(2)'
    BY <1>1, <2>1, LsuIssue DEF LS!issue_request
  <2> QED
    BY <1>1, <2>1, LsuTick, LsuPoll DEF LS!Next
<1>2. ASSUME LsuInv(3), SlowStores!Next  PROVE LsuInv(3)'
  <2>1. ASSUME NEW op \in {"LOAD", "STORE"}, NEW a \in Addr, SlowStores!issue_request(op, a)
        PROVE  LsuInv(3)'
    <3>1. SlowStores!Forwardable(op, a) = LS!Forwardable(op, a)
      BY DEF SlowStores!Forwardable, LS!Forwardable
    <3> QED
      BY <1>2, <2>1, <3>1, LsuIssue DEF SlowStores!issue_request
  <2> QED
    BY <1>2, <2>1, SlowCalls, LsuTick, LsuPoll DEF SlowStores!Next
<1> QED
  BY <1>1, <1>2

\* What other units do does not concern this one.
LEMMA LsuStutter ==
  ASSUME NEW latency, LsuInv(latency), UNCHANGED lsuVars
  PROVE  LsuInv(latency)'
<1>1. UNCHANGED <<m_memory, m_store_buffer, m_inflight_queue, m_finished_loads,
                   program, reported>>
  BY DEF lsuVars
<1>2. \A a : LS!Stores(a)' = LS!Stores(a)
  BY <1>1 DEF LS!Stores, LS!StoresTo
<1>3. \A a : LS!StoresTo(a, DOMAIN m_inflight_queue)' = LS!StoresTo(a, DOMAIN m_inflight_queue)
  BY <1>1 DEF LS!StoresTo
<1>4. Results' = Results /\ \A res : NotStale(res)' <=> NotStale(res)
  BY <1>1, <1>2 DEF Results, NotStale
<1> QED
  BY <1>1, <1>2, <1>3, <1>4 DEF LsuInv

\* A cycle makes the calls that any caller may make, or none.
LEMMA CycleCalls ==
  ASSUME Next, unit = "lsu_cycle"
  PROVE  LS!Next \/ UNCHANGED lsuVars
<1>1. Cycle
  BY DEF Next, SteadySlot
<1>2. CycleTick => LS!Next \/ UNCHANGED lsuVars
  BY DEF CycleTick, LS!Next
<1>3. CycleIssue => LS!Next \/ UNCHANGED lsuVars
  BY DEF CycleIssue, LS!Next
<1>4. CyclePoll => LS!Next \/ UNCHANGED lsuVars
  BY DEF CyclePoll, LS!Next
<1> QED
  BY <1>1, <1>2, <1>3, <1>4 DEF Cycle

\* With any number of instructions on any addresses, no load returns a value older
\* than the last store before it, and the memory ends up with what the store
\* buffer forwards.
THEOREM LsuIsConsistent == Spec => []MemoryConsistent
<1> DEFINE Inv == /\ unit \in {"lsu", "lsu_cycle"} => LsuInv(2)
                  /\ unit = "lsu_slow_stores" => LsuInv(3)
<1>sizes. MaxInst \in Nat
  BY PortsAssumption
<1>1. Init => Inv
  BY LsuStarts, <1>sizes DEF Init, IsLsu
<1>2. Inv /\ [Next]_vars => Inv'
  <2> SUFFICES ASSUME Inv, [Next]_vars PROVE Inv'
    OBVIOUS
  <2>1. CASE Next
    <3>1. unit' = unit
      BY <2>1 DEF Next
    <3>2. CASE unit = "lsu"
      <4>1. LS!Next
        BY <2>1, <3>2 DEF Next, SteadySlot
      <4> QED
        BY <3>1, <3>2, <4>1, <1>sizes, LsuStep
    <3>3. CASE unit = "lsu_slow_stores"
      <4>1. SlowStores!Next
        BY <2>1, <3>3 DEF Next, SteadySlot
      <4> QED
        BY <3>1, <3>3, <4>1, <1>sizes, LsuStep
    <3>4. CASE unit = "lsu_cycle"
      BY <2>1, <3>1, <3>4, <1>sizes, LsuStep, LsuStutter, CycleCalls
    <3> QED
      BY <3>1, <3>2, <3>3, <3>4
  <2>2. CASE UNCHANGED vars
    <3>1. UNCHANGED lsuVars /\ unit' = unit
      BY <2>2 DEF vars
    <3> QED
      BY <3>1, LsuStutter
  <2> QED
    BY <2>1, <2>2
<1>3. Inv => MemoryConsistent
  <2> SUFFICES ASSUME NEW latency, LsuInv(latency)
               PROVE  LS!TypeOK /\ LS!LoadNotStale /\ LS!MemoryCatchesUp
    BY DEF MemoryConsistent, IsLsu
  <2>1. LS!TypeOK
    <3>1. \A a \in Addr : m_memory[a] \in -1 .. MaxInst
      <4>1. \A a \in Addr : \A k \in LS!Stores(a) : k \in Nat /\ k <= MaxInst
        BY <1>sizes, ProgramIs DEF LsuInv, LS!Stores, LS!StoresTo
      <4>2. \A a \in Addr : m_memory[a] \in {0, -1} \cup LS!Stores(a)
        BY DEF LsuInv
      <4>3. \A a \in Addr : \A k \in LS!Stores(a) : k \in -1 .. MaxInst
        BY <1>sizes, <4>1
      <4>4. 0 \in -1 .. MaxInst /\ -1 \in -1 .. MaxInst
        BY <1>sizes
      <4> QED
        BY <4>2, <4>3, <4>4
    <3> QED
      BY <3>1 DEF LsuInv, LS!TypeOK
  <2>2. LS!LoadNotStale
    BY DEF LS!LoadNotStale, LsuInv, Results, NotStale
  <2>3. LS!MemoryCatchesUp
    <3> SUFFICES ASSUME NEW a \in DOMAIN m_store_buffer,
                        LS!StoresTo(a, DOMAIN m_inflight_queue) = {}
                 PROVE  m_memory[a] = m_store_buffer[a]
      BY DEF LS!MemoryCatchesUp
    <3>1. m_store_buffer[a] \in LS!Stores(a)
      BY DEF LsuInv
    <3>2. m_store_buffer[a] \notin DOMAIN m_inflight_queue
      BY <3>1 DEF LS!StoresTo, LS!Stores
    <3> QED
      BY <3>2 DEF LsuInv
  <2> QED
    BY <2>1, <2>2, <2>3
<1> HIDE DEF Inv
<1> QED
  BY <1>1, <1>2, <1>3, PTL DEF Spec

\* Where a load is.
InOnePlace(k) ==
  \/ k \in DOMAIN m_inflight_queue /\ LS!WaitingAt(k) = {} /\ LS!HandedOut(k) = {}
  \/ k \notin DOMAIN m_inflight_queue /\ (\E j : LS!WaitingAt(k) = {j}) /\ LS!HandedOut(k) = {}
  \/ k \notin DOMAIN m_inflight_queue /\ LS!WaitingAt(k) = {} /\ (\E res : LS!HandedOut(k) = {res})

PlacesInv == \A k \in DOMAIN program : program[k].op = "LOAD" => InOnePlace(k)

\* One place is what counting the places says.
LEMMA PlacesCounted ==
  ASSUME PlacesInv
  PROVE  LS!NoLoadLost
<1> SUFFICES ASSUME NEW k \in DOMAIN program, program[k].op = "LOAD"
             PROVE  Cardinality({k} \cap DOMAIN m_inflight_queue) + Cardinality(LS!WaitingAt(k))
                      + Cardinality(LS!HandedOut(k)) = 1
  BY CountsInLsu DEF LS!NoLoadLost
<1>1. Cardinality({}) = 0 /\ \A e : Cardinality({e}) = 1
  BY FS_EmptySet, FS_Singleton
<1>2. \/ {k} \cap DOMAIN m_inflight_queue = {k} /\ k \in DOMAIN m_inflight_queue
      \/ {k} \cap DOMAIN m_inflight_queue = {} /\ k \notin DOMAIN m_inflight_queue
  OBVIOUS
<1>3. InOnePlace(k)
  BY DEF PlacesInv
<1> DEFINE fl == {k} \cap DOMAIN m_inflight_queue
           wt == LS!WaitingAt(k)
           ho == LS!HandedOut(k)
<1>4. \/ fl = {k} /\ wt = {} /\ ho = {}
      \/ fl = {} /\ (\E j : wt = {j}) /\ ho = {}
      \/ fl = {} /\ wt = {} /\ (\E res : ho = {res})
  BY <1>2, <1>3 DEF InOnePlace
<1> HIDE DEF fl, wt, ho
<1>5. \/ Cardinality(fl) = 1 /\ Cardinality(wt) = 0 /\ Cardinality(ho) = 0
      \/ Cardinality(fl) = 0 /\ Cardinality(wt) = 1 /\ Cardinality(ho) = 0
      \/ Cardinality(fl) = 0 /\ Cardinality(wt) = 0 /\ Cardinality(ho) = 1
  BY <1>1, <1>4, Zenon
<1>6. Cardinality(fl) + Cardinality(wt) + Cardinality(ho) = 1
  BY <1>5
<1> QED
  BY <1>6 DEF fl, wt, ho

\* The results are those of instructions in the program.
LEMMA ResultsInProgram ==
  ASSUME NEW latency, LsuInv(latency)
  PROVE  /\ \A res \in reported : res[1] \in DOMAIN program
         /\ \A j \in DOMAIN m_finished_loads : m_finished_loads[j][1] \in DOMAIN program
  BY DEF LsuInv, Results, NotStale

LEMMA PlacesIssue ==
  ASSUME NEW latency, LsuInv(latency), PlacesInv, NEW op, NEW a,
         program' = Append(program, [op |-> op, addr |-> a]),
         DOMAIN m_inflight_queue' = DOMAIN m_inflight_queue \cup {Len(program) + 1},
         UNCHANGED <<m_finished_loads, reported>>
  PROVE  PlacesInv'
<1>0. PICK id : id = Len(program) + 1
  OBVIOUS
<1>1. /\ Len(program) \in Nat /\ DOMAIN program = 1 .. Len(program)
      /\ program \in Seq([op : {"LOAD", "STORE"}, addr : Addr])
  BY ProgramIs
<1>2. /\ DOMAIN program' = DOMAIN program \cup {id} /\ id \notin DOMAIN program
      /\ \A k \in DOMAIN program : program'[k] = program[k]
  BY <1>0, <1>1
<1>3. \A k : LS!WaitingAt(k)' = LS!WaitingAt(k) /\ LS!HandedOut(k)' = LS!HandedOut(k)
  BY DEF LS!WaitingAt, LS!HandedOut
<1>4. ASSUME NEW k \in DOMAIN program, program[k].op = "LOAD"
      PROVE  InOnePlace(k)'
  <2>1. InOnePlace(k)
    BY <1>4 DEF PlacesInv
  <2>2. k \in DOMAIN m_inflight_queue' <=> k \in DOMAIN m_inflight_queue
    BY <1>0, <1>2
  <2> QED
    BY <1>3, <2>1, <2>2 DEF InOnePlace
<1>5. InOnePlace(id)'
  <2>1. LS!WaitingAt(id) = {} /\ LS!HandedOut(id) = {}
    BY <1>2, ResultsInProgram DEF LS!WaitingAt, LS!HandedOut
  <2>2. id \in DOMAIN m_inflight_queue'
    BY <1>0
  <2> QED
    BY <1>3, <2>1, <2>2 DEF InOnePlace
<1> QED
  BY <1>2, <1>4, <1>5 DEF PlacesInv

\* The results of a tick: one for each load that is due, behind those that wait
\* already.
TickResults(c, loads) ==
  /\ loads \in [1 .. c -> LS!DueLoads]
  /\ \A j, k \in 1 .. c : loads[j] = loads[k] => j = k
  /\ \A k \in LS!DueLoads : \E j \in 1 .. c : loads[j] = k
  /\ Len(m_finished_loads) \in Nat /\ DOMAIN m_finished_loads = 1 .. Len(m_finished_loads)
  /\ DOMAIN m_finished_loads' = 1 .. Len(m_finished_loads) + c
  /\ Len(m_finished_loads') = Len(m_finished_loads) + c
  /\ \A j \in 1 .. Len(m_finished_loads) : m_finished_loads'[j] = m_finished_loads[j]
  /\ \A j \in 1 .. c : m_finished_loads'[Len(m_finished_loads) + j][1] = loads[j]

LEMMA TickAppends ==
  ASSUME NEW latency, LsuInv(latency), LS!tick
  PROVE  \E c \in Nat : \E loads : TickResults(c, loads)
<1> DEFINE l == Len(m_finished_loads)
<1>0. PICK c : c = Cardinality(LS!DueLoads)
  OBVIOUS
<1>1. PICK loads \in LS!InOrder(LS!DueLoads) :
        m_finished_loads' = m_finished_loads \o LS!ResultsOf(loads)
  BY DEF LS!tick
<1>2. IsFiniteSet(LS!DueLoads) /\ c \in Nat /\ LS!DueLoads \subseteq Int
  <2>1. LS!DueLoads \in SUBSET (1 .. Len(program)) /\ Len(program) \in Nat
    BY ProgramIs DEF LS!DueLoads, LS!Due
  <2>2. IsFiniteSet(1 .. Len(program))
    BY <2>1, FS_Interval
  <2>3. IsFiniteSet(LS!DueLoads)
    BY <2>1, <2>2, FS_Subset
  <2>4. c \in Nat
    BY <1>0, <2>3, FS_CardinalityType
  <2>5. LS!DueLoads \subseteq Int
    BY <2>1
  <2> QED
    BY <2>3, <2>4, <2>5
<1>3. /\ loads \in [1 .. c -> LS!DueLoads]
      /\ \A j, k \in 1 .. c : j < k => loads[j] < loads[k]
  <2>1. loads \in {f \in [1 .. c -> LS!DueLoads] : \A j, k \in DOMAIN f : j < k => f[j] < f[k]}
    BY <1>0, <1>1, CountsInLsu DEF LS!InOrder
  <2> QED
    BY <2>1
<1>4. ASSUME NEW j \in 1 .. c, NEW k \in 1 .. c, loads[j] = loads[k]  PROVE j = k
  <2>1. loads[j] \in Int /\ loads[k] \in Int
    BY <1>2, <1>3
  <2>2. ~ (loads[j] < loads[k]) /\ ~ (loads[k] < loads[j])
    BY <1>4, <2>1
  <2>3. ~ (j < k) /\ ~ (k < j)
    BY <1>3, <2>2
  <2> QED
    BY <1>2, <2>3
<1>5. ASSUME NEW k \in LS!DueLoads  PROVE \E j \in 1 .. c : loads[j] = k
  <2>1. loads \in Injection(1 .. c, LS!DueLoads)
    BY <1>3, <1>4 DEF Injection, IsInjective
  <2>2. Cardinality(1 .. c) = c
    BY <1>2, FS_Interval
  <2>3. Cardinality(LS!DueLoads) = c
    BY <1>0
  <2>4. loads \in Surjection(1 .. c, LS!DueLoads)
    BY <1>2, <2>1, <2>2, <2>3, FS_Injection
  <2> QED
    BY <2>4 DEF Surjection
<1>6. PICK more : more = LS!ResultsOf(loads)
  OBVIOUS
<1>7. more = [k \in 1 .. c |-> LS!Result(loads[k])]
  BY <1>3, <1>6 DEF LS!ResultsOf
<1>8. \A k \in 1 .. c : more[k][1] = loads[k]
  BY <1>7 DEF LS!Result
<1>9. more \in Seq({more[k] : k \in 1 .. c}) /\ Len(more) = c /\ DOMAIN more = 1 .. c
  BY <1>2, <1>7
<1>10. /\ m_finished_loads \in Seq(Nat \X Int) /\ l \in Nat /\ DOMAIN m_finished_loads = 1 .. l
       /\ m_finished_loads' = m_finished_loads \o more
  BY <1>1, <1>6 DEF LsuInv
<1>11. /\ Len(m_finished_loads') = l + c /\ DOMAIN m_finished_loads' = 1 .. l + c
       /\ \A j \in 1 .. l : m_finished_loads'[j] = m_finished_loads[j]
       /\ \A j \in 1 .. c : m_finished_loads'[l + j] = more[j]
  <2>1. DOMAIN m_finished_loads' = 1 .. l + c /\ Len(m_finished_loads') = l + c
    BY <1>2, <1>9, <1>10
  <2>2. \A j \in 1 .. l + c : m_finished_loads'[j] = IF j <= l THEN m_finished_loads[j] ELSE more[j - l]
    BY <1>2, <1>9, <1>10
  <2>3. ASSUME NEW j \in 1 .. l  PROVE m_finished_loads'[j] = m_finished_loads[j]
    BY <1>2, <1>10, <2>2
  <2>4. ASSUME NEW j \in 1 .. c  PROVE m_finished_loads'[l + j] = more[j]
    <3>1. l + j \in 1 .. l + c /\ ~ (l + j <= l) /\ l + j - l = j
      BY <1>2, <1>10
    <3> QED
      BY <2>2, <3>1
  <2> QED
    BY <2>1, <2>3, <2>4
<1> QED
  <2>1. \A j \in 1 .. c : m_finished_loads'[l + j][1] = loads[j]
    BY <1>8, <1>11
  <2>2. TickResults(c, loads)
    BY <1>3, <1>4, <1>5, <1>10, <1>11, <2>1 DEF TickResults
  <2> QED
    BY <1>2, <2>2

\* A load that is due moves from the queue to the results that wait.
LEMMA PlacesTick ==
  ASSUME NEW latency, LsuInv(latency), PlacesInv, LS!tick
  PROVE  PlacesInv'
<1>1. /\ program' = program /\ reported' = reported
      /\ DOMAIN m_inflight_queue' = DOMAIN m_inflight_queue \ LS!Due
  BY DEF LS!tick, LS!Remaining
<1>2. PICK c \in Nat : \E loads : TickResults(c, loads)
  BY TickAppends
<1>3. PICK loads : TickResults(c, loads)
  BY <1>2
<1>tick. /\ loads \in [1 .. c -> LS!DueLoads]
         /\ \A j, k \in 1 .. c : loads[j] = loads[k] => j = k
         /\ \A k \in LS!DueLoads : \E j \in 1 .. c : loads[j] = k
         /\ Len(m_finished_loads) \in Nat
  BY <1>3 DEF TickResults
<1>4. PICK l \in Nat : l = Len(m_finished_loads)
  BY <1>tick
<1>5. /\ DOMAIN m_finished_loads = 1 .. l /\ DOMAIN m_finished_loads' = 1 .. l + c
      /\ \A j \in 1 .. l : m_finished_loads'[j] = m_finished_loads[j]
      /\ \A j \in 1 .. c : m_finished_loads'[l + j][1] = loads[j]
  BY <1>3, <1>4 DEF TickResults
<1>6. ASSUME NEW k
      PROVE  LS!WaitingAt(k)' = LS!WaitingAt(k) \cup {l + j : j \in {i \in 1 .. c : loads[i] = k}}
  <2>1. LS!WaitingAt(k)' = {j \in 1 .. l + c : m_finished_loads'[j][1] = k}
    BY <1>5 DEF LS!WaitingAt
  <2>2. LS!WaitingAt(k) = {j \in 1 .. l : m_finished_loads[j][1] = k}
    BY <1>5 DEF LS!WaitingAt
  <2>3. ASSUME NEW e \in LS!WaitingAt(k)'
        PROVE  e \in LS!WaitingAt(k) \/ \E j \in 1 .. c : loads[j] = k /\ e = l + j
    <3>1. e \in 1 .. l + c /\ m_finished_loads'[e][1] = k
      BY <2>1, <2>3
    <3>2. CASE e <= l
      BY <1>5, <2>2, <3>1, <3>2
    <3>3. CASE ~ (e <= l)
      <4>1. e - l \in 1 .. c /\ e = l + (e - l)
        BY <3>1, <3>3
      <4>2. loads[e - l] = k
        BY <1>5, <3>1, <4>1
      <4> QED
        BY <4>1, <4>2
    <3> QED
      BY <3>2, <3>3
  <2>4. ASSUME NEW e \in LS!WaitingAt(k)  PROVE e \in LS!WaitingAt(k)'
    <3>1. e \in 1 .. l /\ e \in 1 .. l + c /\ m_finished_loads[e][1] = k
      BY <2>2, <2>4
    <3> QED
      BY <1>5, <2>1, <3>1
  <2>5. ASSUME NEW j \in 1 .. c, loads[j] = k  PROVE l + j \in LS!WaitingAt(k)'
    <3>1. l + j \in 1 .. l + c
      OBVIOUS
    <3> QED
      BY <1>5, <2>1, <2>5, <3>1
  <2> QED
    BY <2>3, <2>4, <2>5
<1>7. \A k : LS!HandedOut(k)' = LS!HandedOut(k)
  BY <1>1 DEF LS!HandedOut
<1>8. ASSUME NEW k \in DOMAIN program, program[k].op = "LOAD"
      PROVE  InOnePlace(k)'
  <2>1. InOnePlace(k)
    BY <1>8 DEF PlacesInv
  <2>2. CASE k \in LS!DueLoads
    <3>1. k \in DOMAIN m_inflight_queue /\ k \notin DOMAIN m_inflight_queue'
      BY <1>1, <2>2 DEF LS!DueLoads, LS!Due
    <3>2. LS!WaitingAt(k) = {} /\ LS!HandedOut(k) = {}
      BY <2>1, <3>1 DEF InOnePlace
    <3>3. PICK j \in 1 .. c : loads[j] = k
      BY <1>tick, <2>2
    <3>4. {i \in 1 .. c : loads[i] = k} = {j}
      BY <1>tick, <3>3
    <3>5. LS!WaitingAt(k)' = {l + j}
      BY <1>6, <3>2, <3>4
    <3> QED
      BY <1>7, <3>1, <3>2, <3>5 DEF InOnePlace
  <2>3. CASE k \notin LS!DueLoads
    <3>1. k \in DOMAIN m_inflight_queue' <=> k \in DOMAIN m_inflight_queue
      BY <1>1, <1>8, <2>3 DEF LS!DueLoads
    <3>2. {i \in 1 .. c : loads[i] = k} = {}
      BY <1>tick, <2>3
    <3>3. LS!WaitingAt(k)' = LS!WaitingAt(k)
      BY <1>6, <3>2
    <3> QED
      BY <1>7, <2>1, <3>1, <3>3 DEF InOnePlace
  <2> QED
    BY <2>2, <2>3
<1> QED
  BY <1>1, <1>8 DEF PlacesInv

\* The last result moves from those that wait to those that were handed out.
LEMMA PlacesPoll ==
  ASSUME NEW latency, LsuInv(latency), PlacesInv, LS!has_completed_load
  PROVE  PlacesInv'
<1>1. /\ m_finished_loads \in Seq(Nat \X Int) /\ m_finished_loads # << >>
      /\ reported' = reported \cup {LS!Last(m_finished_loads)}
      /\ m_finished_loads' = LS!Front(m_finished_loads)
      /\ UNCHANGED <<m_inflight_queue, program>>
  BY DEF LsuInv, LS!has_completed_load
<1>2. PICK l : l = Len(m_finished_loads)
  OBVIOUS
<1>3. l \in Nat \ {0} /\ DOMAIN m_finished_loads = 1 .. l
  BY <1>1, <1>2
<1>4. PICK last : last = m_finished_loads[l]
  OBVIOUS
<1>5. reported' = reported \cup {last}
  BY <1>1, <1>2, <1>4 DEF LS!Last
<1>6. DOMAIN m_finished_loads' = 1 .. l - 1 /\ \A j \in 1 .. l - 1 : m_finished_loads'[j] = m_finished_loads[j]
  <2>1. m_finished_loads' = SubSeq(m_finished_loads, 1, l - 1)
    BY <1>1, <1>2 DEF LS!Front
  <2> QED
    BY <1>1, <1>2, <1>3, <2>1
<1>7. ASSUME NEW k  PROVE LS!WaitingAt(k)' = LS!WaitingAt(k) \ {l}
  <2>1. LS!WaitingAt(k)' = {j \in 1 .. l - 1 : m_finished_loads[j][1] = k}
    BY <1>6 DEF LS!WaitingAt
  <2>2. LS!WaitingAt(k) = {j \in 1 .. l : m_finished_loads[j][1] = k}
    BY <1>3 DEF LS!WaitingAt
  <2>3. 1 .. l - 1 = (1 .. l) \ {l}
    BY <1>3
  <2> QED
    BY <2>1, <2>2, <2>3
<1>8. ASSUME NEW k \in DOMAIN program, program[k].op = "LOAD"
      PROVE  InOnePlace(k)'
  <2>1. InOnePlace(k)
    BY <1>8 DEF PlacesInv
  <2>2. CASE last[1] = k
    <3>1. l \in LS!WaitingAt(k)
      BY <1>3, <1>4, <2>2 DEF LS!WaitingAt
    <3>2. k \notin DOMAIN m_inflight_queue /\ LS!WaitingAt(k) = {l} /\ LS!HandedOut(k) = {}
      BY <2>1, <3>1 DEF InOnePlace
    <3>3. LS!WaitingAt(k)' = {} /\ LS!HandedOut(k)' = {last}
      BY <1>5, <1>7, <2>2, <3>2 DEF LS!HandedOut
    <3> QED
      BY <1>1, <3>2, <3>3 DEF InOnePlace
  <2>3. CASE last[1] # k
    <3>1. l \notin LS!WaitingAt(k)
      BY <1>4, <2>3 DEF LS!WaitingAt
    <3>2. LS!WaitingAt(k)' = LS!WaitingAt(k) /\ LS!HandedOut(k)' = LS!HandedOut(k)
      BY <1>5, <1>7, <2>3, <3>1 DEF LS!HandedOut
    <3> QED
      BY <1>1, <2>1, <3>2 DEF InOnePlace
  <2> QED
    BY <2>2, <2>3
<1> QED
  BY <1>1, <1>8 DEF PlacesInv

\* The loads of a caller that goes through the cycle: each was issued in a cycle of
\* its own, so that no two wait equally long.
CycleInv ==
  /\ pc \in {"tick", "issue", "poll"}
  /\ \A k \in DOMAIN m_inflight_queue : program[k].op = "LOAD" =>
       /\ m_inflight_queue[k] \in 1 .. 3
       /\ pc = "issue" => m_inflight_queue[k] <= 2
  /\ \A j, k \in DOMAIN m_inflight_queue :
       j < k /\ program[j].op = "LOAD" /\ program[k].op = "LOAD"
       => m_inflight_queue[j] < m_inflight_queue[k]
  /\ Len(m_finished_loads) <= 1
  /\ pc = "tick" => m_finished_loads = << >>

LEMMA CycleTicks ==
  ASSUME LsuInv(2), CycleInv, CycleTick
  PROVE  CycleInv'
<1>1. pc = "tick" /\ pc' = "issue" /\ m_finished_loads = << >>
  BY DEF CycleTick, CycleInv
<1>2. CASE DOMAIN m_inflight_queue = {}
  BY <1>1, <1>2 DEF CycleTick, CycleInv, lsuVars
<1>3. CASE DOMAIN m_inflight_queue # {}
  <2>1. LS!tick
    BY <1>3 DEF CycleTick
  <2>2. /\ program' = program
        /\ DOMAIN m_inflight_queue' = DOMAIN m_inflight_queue \ LS!Due
        /\ \A k \in DOMAIN m_inflight_queue' : m_inflight_queue'[k] = m_inflight_queue[k] - 1
    BY <2>1 DEF LS!tick, LS!Remaining
  <2>3. \A k \in DOMAIN m_inflight_queue' : ~ (m_inflight_queue[k] <= 1)
    BY <2>2 DEF LS!Due
  <2>4. ASSUME NEW k \in DOMAIN m_inflight_queue', program'[k].op = "LOAD"
        PROVE  m_inflight_queue'[k] \in 1 .. 3 /\ m_inflight_queue'[k] <= 2
    <3>1. m_inflight_queue[k] \in 1 .. 3
      BY <2>2, <2>4 DEF CycleInv
    <3> QED
      BY <2>2, <2>3, <3>1
  <2>5. ASSUME NEW j \in DOMAIN m_inflight_queue', NEW k \in DOMAIN m_inflight_queue',
               j < k, program'[j].op = "LOAD", program'[k].op = "LOAD"
        PROVE  m_inflight_queue'[j] < m_inflight_queue'[k]
    <3>1. /\ m_inflight_queue[j] < m_inflight_queue[k]
          /\ m_inflight_queue[j] \in 1 .. 3 /\ m_inflight_queue[k] \in 1 .. 3
      BY <2>2, <2>5 DEF CycleInv
    <3> QED
      BY <2>2, <3>1
  <2>6. \A j, k \in LS!DueLoads : j = k
    <3> SUFFICES ASSUME NEW j \in LS!DueLoads, NEW k \in LS!DueLoads, j < k  PROVE FALSE
      <4>1. \A k \in LS!DueLoads : k \in Nat
        BY ProgramIs DEF LS!DueLoads, LS!Due
      <4> QED
        BY <4>1
    <3>1. /\ j \in DOMAIN m_inflight_queue /\ k \in DOMAIN m_inflight_queue
          /\ program[j].op = "LOAD" /\ program[k].op = "LOAD"
          /\ m_inflight_queue[k] <= 1
      BY DEF LS!DueLoads, LS!Due
    <3>2. /\ m_inflight_queue[j] < m_inflight_queue[k]
          /\ m_inflight_queue[j] \in 1 .. 3 /\ m_inflight_queue[k] \in 1 .. 3
      BY <3>1 DEF CycleInv
    <3> QED
      BY <3>1, <3>2
  <2>7. PICK c \in Nat : \E loads : TickResults(c, loads)
    BY <2>1, TickAppends
  <2>loads. PICK loads : TickResults(c, loads)
    BY <2>7
  <2>8. c <= 1
    <3> SUFFICES ASSUME ~ (c <= 1)  PROVE FALSE
      OBVIOUS
    <3>1. 1 \in 1 .. c /\ 2 \in 1 .. c /\ 1 # 2
      BY <2>7
    <3>2. loads[1] \in LS!DueLoads /\ loads[2] \in LS!DueLoads /\ loads[1] # loads[2]
      BY <2>loads, <3>1 DEF TickResults
    <3> QED
      BY <2>6, <3>2
  <2>9. Len(m_finished_loads') <= 1
    <3>1. Len(m_finished_loads') = Len(m_finished_loads) + c
      BY <2>loads DEF TickResults
    <3>2. Len(m_finished_loads) = 0
      BY <1>1
    <3> QED
      BY <2>8, <3>1, <3>2
  <2> QED
    BY <1>1, <2>4, <2>5, <2>9 DEF CycleInv
<1> QED
  BY <1>2, <1>3

LEMMA CycleIssues ==
  ASSUME LsuInv(2), CycleInv, CycleIssue
  PROVE  CycleInv'
<1>1. pc = "issue" /\ pc' = "poll"
  BY DEF CycleIssue
<1>2. CASE UNCHANGED lsuVars
  BY <1>1, <1>2 DEF CycleInv, lsuVars
<1>3. ASSUME NEW op \in {"LOAD", "STORE"}, NEW a \in Addr, LS!issue_request(op, a)
      PROVE  CycleInv'
  <2>1. PICK id : id = Len(program) + 1
    OBVIOUS
  <2>2. /\ program' = Append(program, [op |-> op, addr |-> a])
        /\ m_inflight_queue' =
             [k \in DOMAIN m_inflight_queue \cup {id} |->
                IF k \in DOMAIN m_inflight_queue THEN m_inflight_queue[k]
                ELSE IF op = "LOAD" THEN 3 ELSE 2]
        /\ m_finished_loads' = m_finished_loads
    BY <1>3, <2>1 DEF LS!issue_request
  <2>3. /\ Len(program) \in Nat /\ DOMAIN program = 1 .. Len(program)
        /\ program \in Seq([op : {"LOAD", "STORE"}, addr : Addr])
        /\ DOMAIN m_inflight_queue \subseteq DOMAIN program
    BY ProgramIs
  <2>4. /\ id \in Nat /\ id \notin DOMAIN program /\ \A k \in DOMAIN program : k \in Nat /\ k < id
        /\ program'[id].op = op
        /\ \A k \in DOMAIN program : program'[k] = program[k]
    BY <2>1, <2>2, <2>3
  <2>5. /\ \A k \in DOMAIN m_inflight_queue : m_inflight_queue'[k] = m_inflight_queue[k]
        /\ op = "LOAD" => m_inflight_queue'[id] = 3
        /\ DOMAIN m_inflight_queue' = DOMAIN m_inflight_queue \cup {id}
    BY <2>2, <2>3, <2>4
  <2>6. \A k \in DOMAIN m_inflight_queue : program[k].op = "LOAD" => m_inflight_queue[k] \in 1 .. 2
    BY <1>1 DEF CycleInv
  <2>7. ASSUME NEW k \in DOMAIN m_inflight_queue', program'[k].op = "LOAD"
        PROVE  m_inflight_queue'[k] \in 1 .. 3
    <3>1. CASE k \in DOMAIN m_inflight_queue
      <4>1. m_inflight_queue[k] \in 1 .. 2
        BY <2>3, <2>4, <2>6, <2>7, <3>1
      <4> QED
        BY <2>5, <3>1, <4>1
    <3>2. CASE k = id
      BY <2>4, <2>5, <2>7, <3>2
    <3> QED
      BY <2>5, <3>1, <3>2
  <2>8. ASSUME NEW j \in DOMAIN m_inflight_queue', NEW k \in DOMAIN m_inflight_queue',
               j < k, program'[j].op = "LOAD", program'[k].op = "LOAD"
        PROVE  m_inflight_queue'[j] < m_inflight_queue'[k]
    <3>1. j \in DOMAIN m_inflight_queue
      <4>1. k \in Nat /\ k <= id
        BY <2>3, <2>4, <2>5
      <4> QED
        BY <2>4, <2>5, <2>8, <4>1
    <3>2. program[j].op = "LOAD" /\ m_inflight_queue'[j] = m_inflight_queue[j]
      BY <2>3, <2>4, <2>5, <2>8, <3>1
    <3>3. CASE k \in DOMAIN m_inflight_queue
      <4>1. program[k].op = "LOAD" /\ m_inflight_queue'[k] = m_inflight_queue[k]
        BY <2>3, <2>4, <2>5, <2>8, <3>3
      <4> QED
        BY <2>8, <3>1, <3>2, <3>3, <4>1 DEF CycleInv
    <3>4. CASE k = id
      <4>1. m_inflight_queue'[k] = 3
        BY <2>4, <2>5, <2>8, <3>4
      <4>2. m_inflight_queue[j] \in 1 .. 2
        BY <2>6, <3>1, <3>2
      <4> QED
        BY <3>2, <4>1, <4>2
    <3> QED
      BY <2>5, <3>3, <3>4
  <2> QED
    BY <1>1, <2>2, <2>7, <2>8 DEF CycleInv
<1> QED
  BY <1>2, <1>3 DEF CycleIssue

LEMMA CyclePolls ==
  ASSUME LsuInv(2), CycleInv, CyclePoll
  PROVE  CycleInv'
<1>1. pc = "poll" /\ pc' = "tick"
  BY DEF CyclePoll
<1>2. CASE m_finished_loads = << >>
  BY <1>1, <1>2 DEF CyclePoll, CycleInv, lsuVars
<1>3. CASE m_finished_loads # << >>
  <2>1. /\ m_finished_loads' = LS!Front(m_finished_loads)
        /\ UNCHANGED <<m_inflight_queue, program>>
    BY <1>3 DEF CyclePoll, LS!has_completed_load
  <2>2. m_finished_loads \in Seq(Nat \X Int) /\ Len(m_finished_loads) <= 1
    BY DEF LsuInv, CycleInv
  <2>3. Len(m_finished_loads) = 1
    <3>1. Len(m_finished_loads) \in Nat \ {0}
      <4>1. m_finished_loads \in Seq(Nat \X Int)
        BY <2>2
      <4>2. \A S : \A q \in Seq(S) : q # << >> => Len(q) \in Nat \ {0}
        BY EmptySeq
      <4> QED
        BY <1>3, <4>1, <4>2, Zenon
    <3>2. Len(m_finished_loads) <= 1
      BY <2>2
    <3>3. \A l \in Nat \ {0} : l <= 1 => l = 1
      OBVIOUS
    <3> QED
      BY <3>1, <3>2, <3>3, Zenon
  <2>4. m_finished_loads' = SubSeq(m_finished_loads, 1, 0)
    BY <2>1, <2>3 DEF LS!Front
  <2>5. m_finished_loads' = << >> /\ Len(m_finished_loads') <= 1
    BY <2>2, <2>4
  <2> QED
    BY <1>1, <2>1, <2>5 DEF CycleInv
<1> QED
  BY <1>2, <1>3

\* However many instructions there are: no load is lost or reported twice, and the
\* caller that goes through the cycle has the result of each load in the cycle in
\* which it is done.
THEOREM LsuReportsInTime == Spec => []LoadsReportedInTime
<1> DEFINE Inv == /\ unit \in {"lsu", "lsu_cycle"} => LsuInv(2) /\ PlacesInv
                  /\ unit = "lsu_slow_stores" => LsuInv(3) /\ PlacesInv
                  /\ unit = "lsu_cycle" => CycleInv
<1>sizes. MaxInst \in Nat
  BY PortsAssumption
<1>1. Init => Inv
  <2> SUFFICES ASSUME Init  PROVE Inv
    OBVIOUS
  <2>1. CASE IsLsu
    <3>1. LS!Init /\ pc = IF unit = "lsu_cycle" THEN "tick" ELSE 0
      BY <2>1 DEF Init, IsLsu
    <3>2. LsuInv(2) /\ LsuInv(3)
      BY <3>1, <1>sizes, LsuStarts
    <3>3. program = << >> /\ DOMAIN m_inflight_queue = {} /\ m_finished_loads = << >>
      BY <3>1 DEF LS!Init
    <3>4. PlacesInv
      BY <3>3 DEF PlacesInv
    <3>5. unit = "lsu_cycle" => CycleInv
      BY <3>1, <3>3 DEF CycleInv
    <3> QED
      BY <3>2, <3>4, <3>5
  <2>2. CASE ~ IsLsu
    BY <2>2 DEF IsLsu
  <2> QED
    BY <2>1, <2>2
<1>2. ASSUME NEW latency \in Nat, LsuInv(latency), PlacesInv, LS!Next \/ SlowStores!Next
      PROVE  PlacesInv'
  <2>1. ASSUME NEW op, NEW a, LS!issue_request(op, a) \/ SlowStores!issue_request(op, a)
        PROVE  PlacesInv'
    <3>1. /\ program' = Append(program, [op |-> op, addr |-> a])
          /\ DOMAIN m_inflight_queue' = DOMAIN m_inflight_queue \cup {Len(program) + 1}
          /\ UNCHANGED <<m_finished_loads, reported>>
      BY <2>1 DEF LS!issue_request, SlowStores!issue_request
    <3> QED
      BY <1>2, <3>1, PlacesIssue
  <2>2. CASE LS!tick \/ SlowStores!tick
    BY <1>2, <2>2, SlowCalls, PlacesTick
  <2>3. CASE LS!has_completed_load \/ SlowStores!has_completed_load
    BY <1>2, <2>3, SlowCalls, PlacesPoll
  <2> QED
    BY <1>2, <2>1, <2>2, <2>3 DEF LS!Next, SlowStores!Next
<1>3. UNCHANGED lsuVars => (PlacesInv <=> PlacesInv')
  BY DEF PlacesInv, InOnePlace, LS!WaitingAt, LS!HandedOut, lsuVars
<1>4. Inv /\ [Next]_vars => Inv'
  <2> SUFFICES ASSUME Inv, [Next]_vars PROVE Inv'
    OBVIOUS
  <2>1. CASE Next
    <3>1. unit' = unit
      BY <2>1 DEF Next
    <3>2. CASE unit = "lsu"
      <4>1. LS!Next
        BY <2>1, <3>2 DEF Next, SteadySlot
      <4>2. LsuInv(2)' /\ PlacesInv'
        BY <3>2, <4>1, <1>sizes, <1>2, LsuStep
      <4> QED
        BY <3>1, <3>2, <4>2
    <3>3. CASE unit = "lsu_slow_stores"
      <4>1. SlowStores!Next
        BY <2>1, <3>3 DEF Next, SteadySlot
      <4>2. LsuInv(3)' /\ PlacesInv'
        BY <3>3, <4>1, <1>sizes, <1>2, LsuStep
      <4> QED
        BY <3>1, <3>3, <4>2
    <3>4. CASE unit = "lsu_cycle"
      <4>1. LsuInv(2) /\ PlacesInv /\ CycleInv
        BY <3>4
      <4>2. LS!Next \/ UNCHANGED lsuVars
        BY <2>1, <3>4, CycleCalls
      <4>3. LsuInv(2)' /\ PlacesInv'
        BY <4>1, <4>2, <1>sizes, <1>2, <1>3, LsuStep, LsuStutter
      <4>4. Cycle
        BY <2>1, <3>4 DEF Next, SteadySlot
      <4>5. CycleInv'
        BY <4>1, <4>4, CycleTicks, CycleIssues, CyclePolls DEF Cycle
      <4> QED
        BY <3>1, <3>4, <4>3, <4>5
    <3> QED
      BY <3>1, <3>2, <3>3, <3>4
  <2>2. CASE UNCHANGED vars
    <3>1. UNCHANGED <<lsuVars, pc, unit>>
      BY <2>2 DEF vars
    <3>2. CycleInv => CycleInv'
      BY <3>1 DEF CycleInv, lsuVars
    <3> QED
      BY <1>3, <3>1, <3>2, LsuStutter
  <2> QED
    BY <2>1, <2>2
<1>5. Inv => LoadsReportedInTime
  BY PlacesCounted DEF LoadsReportedInTime, IsLsu, CycleInv
<1> HIDE DEF Inv
<1> QED
  BY <1>1, <1>4, <1>5, PTL DEF Spec

=============================================================================
