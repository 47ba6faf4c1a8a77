------------------------------- MODULE Lemmas -------------------------------
(***************************************************************************)
(* Facts that the proofs of several components rest on: about the cyclic   *)
(* scan of the schedulers, about queues whose elements are all different,  *)
(* about counting, and about functions defined by recursion on a number.   *)
(***************************************************************************)
EXTENDS RoundRobin, Sequences, SequencesExt, FiniteSets, FiniteSetTheorems,
        SequenceTheorems, WellFoundedInduction, TLAPS

-----------------------------------------------------------------------------
(* The scan.                                                               *)

\* Every nonempty set of naturals has a least element.
LEMMA LeastNat ==
  ASSUME NEW T \in SUBSET Nat, T # {}
  PROVE  \E x \in T : \A y \in T : x <= y
<1> DEFINE Less == {ss \in Nat \X Nat : ss[1] < ss[2]}
<1>1. IsWellFoundedOn(Less, Nat)
  BY NatLessThanWellFounded DEF OpToRel
<1> HIDE DEF Less
<1>2. PICK x \in T : \A y \in T : <<y, x>> \notin Less
  BY <1>1, WFMin
<1>3. ASSUME NEW y \in T  PROVE x <= y
  <2>1. <<y, x>> \notin Less
    BY <1>2
  <2>2. x \in Nat /\ y \in Nat
    OBVIOUS
  <2>3. <<y, x>> \in Nat \X Nat /\ <<y, x>>[1] = y /\ <<y, x>>[2] = x
    BY <2>2
  <2>4. ~ (y < x)
    BY <2>1, <2>3 DEF Less
  <2> QED
    BY <2>2, <2>4
<1> QED
  BY <1>3

\* A bounded set of naturals that is not empty has a greatest element.
LEMMA MaxIs ==
  ASSUME NEW N \in Nat, NEW S \in SUBSET (0 .. N), S # {}
  PROVE  Max(S) \in S /\ \A k \in S : k <= Max(S)
<1> DEFINE T == {N - k : k \in S}
<1>1. T \in SUBSET Nat /\ T # {}
  <2>1. \A k \in S : N - k \in Nat
    OBVIOUS
  <2> QED
    BY <2>1
<1>2. PICK t \in T : \A u \in T : t <= u
  <2> HIDE DEF T
  <2> QED
    BY <1>1, LeastNat
<1>3. PICK m \in S : t = N - m
  OBVIOUS
<1>4. \A k \in S : k <= m
  <2> SUFFICES ASSUME NEW k \in S  PROVE k <= m
    OBVIOUS
  <2>1. N - m <= N - k
    BY <1>2, <1>3
  <2> QED
    BY <2>1
<1> QED
  BY <1>4 DEF Max

\* Counting on around n ports once.
LEMMA Around ==
  ASSUME NEW n \in Nat \ {0}, NEW a \in Nat, a < n + n
  PROVE  a % n = IF a < n THEN a ELSE a - n
<1>1. CASE a < n
  BY <1>1, SMTT(30)
<1>2. CASE a >= n
  BY <1>2, SMTT(30)
<1> QED
  BY <1>1, <1>2

\* The distance is counted around the ports from start on.
LEMMA DistIs ==
  ASSUME NEW n \in Nat \ {0}, NEW start \in 0 .. n-1, NEW x \in 0 .. n-1
  PROVE  Dist(start, x, n) = IF x >= start THEN x - start ELSE x + n - start
<1> DEFINE a == x + n - start
<1>1. a \in Nat /\ a < n + n
  OBVIOUS
<1>2. Dist(start, x, n) = a % n
  BY DEF Dist
<1> HIDE DEF a
<1>3. Dist(start, x, n) = IF a < n THEN a ELSE a - n
  BY <1>1, <1>2, Around
<1> QED
  BY <1>3 DEF a

\* The scan stops on the only port that no other eligible port comes before.
LEMMA FirstFromIs ==
  ASSUME NEW n \in Nat \ {0}, NEW start \in 0 .. n-1,
         NEW S \in SUBSET (0 .. n-1), NEW x \in S,
         \A y \in S : Dist(start, x, n) <= Dist(start, y, n)
  PROVE  FirstFrom(start, n, S) = x
<1>1. \A y \in S : (\A z \in S : Dist(start, y, n) <= Dist(start, z, n)) => y = x
  <2> SUFFICES ASSUME NEW y \in S, Dist(start, y, n) <= Dist(start, x, n)  PROVE y = x
    OBVIOUS
  <2>1. /\ Dist(start, x, n) = IF x >= start THEN x - start ELSE x + n - start
        /\ Dist(start, y, n) = IF y >= start THEN y - start ELSE y + n - start
    BY DistIs
  <2>2. Dist(start, x, n) = Dist(start, y, n)
    BY <2>1
  <2> QED
    BY <2>1, <2>2
<1> QED
  BY <1>1 DEF FirstFrom

\* The scan stops on an eligible port whenever there is one.
LEMMA FirstFromMember ==
  ASSUME NEW n \in Nat \ {0}, NEW start \in 0 .. n-1,
         NEW S \in SUBSET (0 .. n-1), S # {}
  PROVE  FirstFrom(start, n, S) \in S
<1> DEFINE D == {Dist(start, x, n) : x \in S}
<1>1. \A x \in S : Dist(start, x, n) \in Nat
  BY DEF Dist
<1>2. PICK d \in D : \A e \in D : d <= e
  <2>1. D \in SUBSET Nat /\ D # {}
    BY <1>1
  <2> HIDE DEF D
  <2> QED
    BY <2>1, LeastNat
<1>3. PICK x \in S : d = Dist(start, x, n)
  OBVIOUS
<1>4. \A y \in S : Dist(start, x, n) <= Dist(start, y, n)
  BY <1>2, <1>3
<1> QED
  BY <1>4 DEF FirstFrom

-----------------------------------------------------------------------------
(* Queues.                                                                 *)

\* What is left of a sequence when one element is taken out.
LEMMA RemoveAtIs ==
  ASSUME NEW E, NEW q \in Seq(E), NEW k \in DOMAIN q
  PROVE  /\ RemoveAt(q, k) \in Seq(E)
         /\ Len(RemoveAt(q, k)) = Len(q) - 1
         /\ \A j \in 1 .. Len(q) - 1 :
              RemoveAt(q, k)[j] = IF j < k THEN q[j] ELSE q[j+1]
<1> DEFINE a == SubSeq(q, 1, k - 1)
           b == SubSeq(q, k + 1, Len(q))
<1>1. k \in 1 .. Len(q) /\ Len(q) \in Nat /\ k \in Nat
  OBVIOUS
<1>2. a \in Seq(E) /\ Len(a) = k - 1 /\ \A j \in 1 .. k - 1 : a[j] = q[j]
  BY <1>1
<1>3. b \in Seq(E) /\ Len(b) = Len(q) - k
  BY <1>1
<1>4. \A j \in 1 .. Len(q) - k : b[j] = q[k + j]
  BY <1>1
<1>5. RemoveAt(q, k) = a \o b
  BY DEF RemoveAt
<1> HIDE DEF a, b
<1>6. (a \o b) \in Seq(E) /\ Len(a \o b) = Len(q) - 1
  BY <1>1, <1>2, <1>3
<1>7. ASSUME NEW j \in 1 .. Len(q) - 1
      PROVE  (a \o b)[j] = IF j < k THEN q[j] ELSE q[j+1]
  <2>1. CASE j < k
    <3>1. j \in 1 .. Len(a) /\ j \in 1 .. k - 1
      BY <1>1, <1>2, <2>1
    <3>2. (a \o b)[j] = a[j]
      BY <1>2, <1>3, <3>1, ConcatProperties
    <3> QED
      BY <1>2, <2>1, <3>1, <3>2
  <2>2. CASE ~ (j < k)
    <3>1. j - (k - 1) \in 1 .. Len(q) - k /\ k + (j - (k - 1)) = j + 1
      BY <1>1, <2>2
    <3>2. (a \o b)[j] = b[j - (k - 1)]
      <4>1. j \in 1 .. Len(a) + Len(b) /\ ~ (j <= Len(a)) /\ Len(a) = k - 1
        BY <1>1, <1>2, <1>3, <2>2
      <4>2. \A i \in 1 .. Len(a) + Len(b) :
              (a \o b)[i] = IF i <= Len(a) THEN a[i] ELSE b[i - Len(a)]
        BY <1>2, <1>3, ConcatProperties
      <4> QED
        BY <4>1, <4>2, Zenon
    <3> QED
      BY <3>1, <3>2, <1>4, <2>2
  <2> QED
    BY <2>1, <2>2
<1> QED
  BY <1>5, <1>6, <1>7

\* The elements of a sequence with one more, and of two sequences in a row.
LEMMA ToSetAppend ==
  ASSUME NEW E, NEW q \in Seq(E), NEW e \in E
  PROVE  /\ q \o <<e>> = Append(q, e) /\ q \o << >> = q
         /\ Append(q, e) \in Seq(E)
         /\ ToSet(Append(q, e)) = ToSet(q) \cup {e}
<1>1. q \o <<e>> = Append(q, e) /\ q \o << >> = q
  OBVIOUS
<1>2. /\ Append(q, e) \in Seq(E) /\ DOMAIN q = 1 .. Len(q) /\ Len(q) \in Nat
      /\ DOMAIN Append(q, e) = 1 .. Len(q) + 1
      /\ \A i \in 1 .. Len(q) : Append(q, e)[i] = q[i]
      /\ Append(q, e)[Len(q) + 1] = e
  OBVIOUS
<1>3. 1 .. Len(q) + 1 = DOMAIN q \cup {Len(q) + 1}
  BY <1>2
<1>4. ToSet(Append(q, e)) \subseteq ToSet(q) \cup {e}
  BY <1>2, <1>3 DEF ToSet
<1>5. ToSet(q) \cup {e} \subseteq ToSet(Append(q, e))
  BY <1>2, <1>3 DEF ToSet
<1> QED
  BY <1>1, <1>2, <1>4, <1>5

\* Taking an element out of a sequence without repetition takes it out of the
\* set of its elements.
LEMMA ToSetRemoveAt ==
  ASSUME NEW E, NEW q \in Seq(E), NEW k \in DOMAIN q, IsInjective(q)
  PROVE  /\ RemoveAt(q, k) \in Seq(E) /\ IsInjective(RemoveAt(q, k))
         /\ ToSet(RemoveAt(q, k)) = ToSet(q) \ {q[k]}
<1> DEFINE r == RemoveAt(q, k)
           old(j) == IF j < k THEN j ELSE j + 1
<1>1. /\ r \in Seq(E) /\ Len(r) = Len(q) - 1
      /\ \A j \in 1 .. Len(q) - 1 : r[j] = q[old(j)]
  BY RemoveAtIs
<1>2. /\ DOMAIN q = 1 .. Len(q) /\ Len(q) \in Nat /\ k \in 1 .. Len(q)
      /\ DOMAIN r = 1 .. Len(q) - 1
  BY <1>1
<1> HIDE DEF r
<1>3. \A j \in DOMAIN r : old(j) \in DOMAIN q /\ old(j) # k
  BY <1>2
<1>4. \A i \in DOMAIN q : i # k => \E j \in DOMAIN r : i = old(j)
  <2> SUFFICES ASSUME NEW i \in DOMAIN q, i # k
               PROVE  \E j \in DOMAIN r : i = old(j)
    OBVIOUS
  <2>1. CASE i < k
    BY <1>2, <2>1
  <2>2. CASE ~ (i < k)
    <3>1. i - 1 \in DOMAIN r /\ old(i - 1) = i
      BY <1>2, <2>2
    <3> QED
      BY <3>1
  <2> QED
    BY <2>1, <2>2
<1>5. \A i, j \in DOMAIN r : old(i) = old(j) => i = j
  BY <1>2
<1> HIDE DEF old
<1>6. IsInjective(r)
  BY <1>1, <1>2, <1>3, <1>5 DEF IsInjective
<1>7. ToSet(r) \subseteq ToSet(q) \ {q[k]}
  BY <1>1, <1>2, <1>3 DEF ToSet, IsInjective
<1>8. ToSet(q) \ {q[k]} \subseteq ToSet(r)
  BY <1>1, <1>2, <1>4 DEF ToSet
<1> QED
  BY <1>1, <1>6, <1>7, <1>8 DEF r

\* A sequence without repetition stays one when a new element comes last.
LEMMA InjectiveAppend ==
  ASSUME NEW E, NEW q \in Seq(E), NEW e \in E, IsInjective(q), e \notin ToSet(q)
  PROVE  IsInjective(Append(q, e))
<1>1. /\ DOMAIN q = 1 .. Len(q) /\ Len(q) \in Nat
      /\ DOMAIN Append(q, e) = 1 .. Len(q) + 1
      /\ \A i \in 1 .. Len(q) : Append(q, e)[i] = q[i]
      /\ Append(q, e)[Len(q) + 1] = e
  OBVIOUS
<1>2. \A i \in DOMAIN q : q[i] # e
  BY DEF ToSet
<1>3. 1 .. Len(q) + 1 = DOMAIN q \cup {Len(q) + 1}
  BY <1>1
<1> QED
  BY <1>1, <1>2, <1>3 DEF IsInjective

\* A new element may come first as well.
LEMMA ToSetCons ==
  ASSUME NEW E, NEW q \in Seq(E), NEW e \in E
  PROVE  /\ <<e>> \o q \in Seq(E)
         /\ ToSet(<<e>> \o q) = ToSet(q) \cup {e}
         /\ IsInjective(q) /\ e \notin ToSet(q) => IsInjective(<<e>> \o q)
<1> DEFINE r == <<e>> \o q
<1>1. /\ r \in Seq(E) /\ DOMAIN q = 1 .. Len(q) /\ Len(q) \in Nat
      /\ DOMAIN r = 1 .. Len(q) + 1 /\ r[1] = e
      /\ \A i \in 1 .. Len(q) : r[i + 1] = q[i]
  OBVIOUS
<1> HIDE DEF r
<1>2. \A j \in DOMAIN r : j = 1 \/ (j - 1 \in DOMAIN q /\ r[j] = q[j - 1])
  <2> SUFFICES ASSUME NEW j \in DOMAIN r, j # 1
               PROVE  j - 1 \in DOMAIN q /\ r[j] = q[j - 1]
    OBVIOUS
  <2>1. j - 1 \in 1 .. Len(q) /\ (j - 1) + 1 = j
    BY <1>1
  <2> QED
    BY <1>1, <2>1
<1>3. \A i \in DOMAIN q : i + 1 \in DOMAIN r /\ r[i + 1] = q[i]
  BY <1>1
<1>4. 1 \in DOMAIN r
  BY <1>1
<1>5. ToSet(r) \subseteq ToSet(q) \cup {e}
  BY <1>1, <1>2 DEF ToSet
<1>6. ToSet(q) \cup {e} \subseteq ToSet(r)
  BY <1>1, <1>3, <1>4 DEF ToSet
<1>7. ASSUME IsInjective(q), e \notin ToSet(q)  PROVE IsInjective(r)
  <2>1. \A i \in DOMAIN q : q[i] # e
    BY <1>7 DEF ToSet
  <2>2. \A i, j \in DOMAIN q : q[i] = q[j] => i = j
    BY <1>7 DEF IsInjective
  <2>3. \A j \in DOMAIN r : j \in Nat
    BY <1>1
  <2> SUFFICES ASSUME NEW i \in DOMAIN r, NEW j \in DOMAIN r, r[i] = r[j]
               PROVE  i = j
    BY DEF IsInjective
  <2>4. i = 1 <=> r[i] = e
    BY <1>1, <1>2, <2>1
  <2>5. j = 1 <=> r[j] = e
    BY <1>1, <1>2, <2>1
  <2>6. CASE r[i] = e
    BY <2>4, <2>5, <2>6
  <2>7. CASE r[i] # e
    <3>1. i - 1 \in DOMAIN q /\ j - 1 \in DOMAIN q /\ q[i - 1] = q[j - 1]
      BY <1>2, <2>4, <2>5, <2>7
    <3>2. i - 1 = j - 1
      BY <3>1, <2>2
    <3> QED
      BY <3>2, <2>3
  <2> QED
    BY <2>6, <2>7
<1> QED
  BY <1>1, <1>5, <1>6, <1>7 DEF r

\* What is left of a sequence without repetition when its first element goes.
LEMMA ToSetTail ==
  ASSUME NEW E, NEW q \in Seq(E), q # << >>, IsInjective(q)
  PROVE  /\ Head(q) \in ToSet(q) /\ Head(q) \in E
         /\ Tail(q) \in Seq(E) /\ IsInjective(Tail(q))
         /\ ToSet(Tail(q)) = ToSet(q) \ {Head(q)}
<1> DEFINE r == Tail(q)
<1>1. /\ r \in Seq(E) /\ DOMAIN q = 1 .. Len(q) /\ Len(q) \in Nat
      /\ Len(q) # 0 /\ DOMAIN r = 1 .. Len(q) - 1
      /\ \A i \in 1 .. Len(q) - 1 : r[i] = q[i + 1]
      /\ Head(q) = q[1] /\ q[1] \in E
  OBVIOUS
<1> HIDE DEF r
<1>2. 1 \in DOMAIN q
  BY <1>1
<1>3. \A i \in DOMAIN r : i + 1 \in DOMAIN q /\ i + 1 # 1 /\ r[i] = q[i + 1]
  BY <1>1
<1>4. \A j \in DOMAIN q : j = 1 \/ (j - 1 \in DOMAIN r /\ r[j - 1] = q[j])
  <2> SUFFICES ASSUME NEW j \in DOMAIN q, j # 1
               PROVE  j - 1 \in DOMAIN r /\ r[j - 1] = q[j]
    OBVIOUS
  <2>1. j - 1 \in 1 .. Len(q) - 1 /\ (j - 1) + 1 = j
    BY <1>1
  <2> QED
    BY <1>1, <2>1
<1>5. \A i, j \in DOMAIN q : q[i] = q[j] => i = j
  BY DEF IsInjective
<1>6. IsInjective(r)
  <2> SUFFICES ASSUME NEW i \in DOMAIN r, NEW j \in DOMAIN r, r[i] = r[j]
               PROVE  i = j
    BY DEF IsInjective
  <2>1. i + 1 = j + 1
    BY <1>3, <1>5
  <2> QED
    BY <1>1, <2>1
<1>7. ToSet(r) \subseteq ToSet(q) \ {q[1]}
  BY <1>2, <1>3, <1>5 DEF ToSet
<1>8. ToSet(q) \ {q[1]} \subseteq ToSet(r)
  BY <1>1, <1>4 DEF ToSet
<1>9. Head(q) \in ToSet(q)
  BY <1>1, <1>2 DEF ToSet
<1> QED
  BY <1>1, <1>6, <1>7, <1>8, <1>9 DEF r

\* A sequence without repetition is as long as it has elements.
LEMMA LenIsCardinality ==
  ASSUME NEW E, NEW q \in Seq(E), IsInjective(q)
  PROVE  /\ IsFiniteSet(ToSet(q))
         /\ Len(q) = Cardinality(ToSet(q))
<1>1. /\ DOMAIN q = 1 .. Len(q) /\ Len(q) \in Nat
      /\ q \in [1 .. Len(q) -> ToSet(q)]
  BY DEF ToSet
<1>2. q \in Bijection(1 .. Len(q), ToSet(q))
  <2>1. \A a, b \in 1 .. Len(q) : q[a] = q[b] => a = b
    BY <1>1 DEF IsInjective
  <2>2. \A e \in ToSet(q) : \E a \in 1 .. Len(q) : q[a] = e
    BY <1>1 DEF ToSet
  <2> QED
    BY <1>1, <2>1, <2>2 DEF Bijection, Injection, Surjection
<1>3. ExistsBijection(1 .. Len(q), ToSet(q))
  BY <1>2 DEF ExistsBijection
<1>4. IsFiniteSet(1 .. Len(q)) /\ Cardinality(1 .. Len(q)) = Len(q)
  <2>1. PICK n \in Nat : n = Len(q)
    BY <1>1
  <2>2. /\ IsFiniteSet(1 .. n)
        /\ Cardinality(1 .. n) = IF 1 > n THEN 0 ELSE n - 1 + 1
    BY FS_Interval
  <2>3. Cardinality(1 .. n) = n
    BY <2>2
  <2> QED
    BY <2>1, <2>2, <2>3
<1> QED
  BY <1>3, <1>4, FS_Bijection

-----------------------------------------------------------------------------
(* Counting.                                                               *)

\* Two finite sets whose elements correspond have the same size.
Corresponds(f, S, T) ==
  /\ f \in [S -> T]
  /\ \A x, y \in S : f[x] = f[y] => x = y
  /\ \A z \in T : \E x \in S : f[x] = z

LEMMA SameSize ==
  ASSUME NEW S, NEW T, IsFiniteSet(S), NEW f, Corresponds(f, S, T)
  PROVE  IsFiniteSet(T) /\ Cardinality(T) = Cardinality(S)
<1>1. f \in Bijection(S, T)
  <2>1. f \in [S -> T] /\ \A x, y \in S : f[x] = f[y] => x = y
    BY Zenon DEF Corresponds
  <2>2. \A z \in T : \E x \in S : f[x] = z
    BY Zenon DEF Corresponds
  <2>3. f \in Injection(S, T) /\ f \in Surjection(S, T)
    BY <2>1, <2>2, Zenon DEF Injection, Surjection, IsInjective
  <2> QED
    BY <2>3 DEF Bijection
<1>2. ExistsBijection(S, T)
  BY <1>1 DEF ExistsBijection
<1> QED
  BY <1>2, FS_Bijection

\* The remainder is the only way to count on by whole periods from a place in the first.
LEMMA ModIs ==
  ASSUME NEW w \in Nat \ {0}, NEW n \in Nat
  PROVE  /\ n % w \in 0 .. w - 1
         /\ n \div w \in 0 .. n
         /\ n = (n % w) + (n \div w) * w
         /\ \A r \in 0 .. w - 1, m \in Nat : n = r + m * w => r = n % w
<1>1. n % w \in 0 .. w - 1 /\ n \div w \in Nat /\ n = (n % w) + (n \div w) * w
  OBVIOUS
<1>2. n \div w <= n
  <2> DEFINE d == n \div w
             e == n % w
  <2>1. d \in Nat /\ e \in Nat /\ n = e + d * w
    BY <1>1
  <2> HIDE DEF d, e
  <2>2. d * w = d + d * (w - 1) /\ d * (w - 1) >= 0
    BY <2>1
  <2> QED
    BY <2>1, <2>2 DEF d
<1>3. ASSUME NEW r \in 0 .. w - 1, NEW m \in Nat, n = r + m * w
      PROVE  r = n % w
  <2> DEFINE d == n \div w
             e == n % w
  <2>1. d \in Nat /\ e \in 0 .. w - 1 /\ n = e + d * w
    BY <1>1
  <2> HIDE DEF d, e
  <2>2. ASSUME NEW a \in Nat, NEW b \in Nat, a < b  PROVE a * w + w <= b * w
    <3>1. b * w = a * w + (b - a) * w /\ (b - a) * w = w + (b - a - 1) * w /\ (b - a - 1) * w >= 0
      BY <2>2
    <3>2. a * w \in Int /\ b * w \in Int /\ (b - a) * w \in Int /\ (b - a - 1) * w \in Int
      OBVIOUS
    <3> QED
      BY <3>1, <3>2
  <2>3. m * w \in Int /\ d * w \in Int
    BY <2>1
  <2>4. ~ (m < d)
    BY <2>1, <2>2, <2>3, <1>3
  <2>5. ~ (d < m)
    BY <2>1, <2>2, <2>3, <1>3
  <2>6. m = d
    BY <2>1, <2>4, <2>5
  <2> QED
    BY <2>1, <2>3, <2>6, <1>3 DEF e
<1> QED
  BY <1>1, <1>2, <1>3

\* Shares are compared without division; the comparison is transitive.
LEMMA SharesTransitive ==
  ASSUME NEW u \in Nat, NEW v \in Nat, NEW w \in Nat,
         NEW a \in Nat \ {0}, NEW b \in Nat \ {0}, NEW c \in Nat \ {0},
         u * b <= v * a, v * c <= w * b
  PROVE  u * c <= w * a
<1>1. ASSUME NEW x \in Nat, NEW y \in Nat, NEW z \in Nat, x <= y  PROVE x * z <= y * z
  <2>1. y * z = x * z + (y - x) * z /\ (y - x) * z >= 0 /\ x * z \in Nat
    BY <1>1
  <2> QED
    BY <2>1
<1>2. (u * b) * c <= (v * a) * c
  BY <1>1
<1>3. (v * c) * a <= (w * b) * a
  BY <1>1
<1>4. /\ (u * b) * c = (u * c) * b /\ (v * a) * c = (v * c) * a
      /\ (w * b) * a = (w * a) * b
  OBVIOUS
<1>5. u * c \in Nat /\ w * a \in Nat
  OBVIOUS
<1>6. (u * c) * b <= (w * a) * b
  <2>1. (u * b) * c \in Nat /\ (v * a) * c \in Nat /\ (w * b) * a \in Nat
    OBVIOUS
  <2> QED
    BY <1>2, <1>3, <1>4, <2>1
<1>7. ASSUME NEW x \in Nat, NEW y \in Nat, x * b <= y * b  PROVE x <= y
  <2> SUFFICES ASSUME y < x  PROVE FALSE
    BY <1>7
  <2>1. x * b = y * b + (x - y) * b /\ (x - y) * b = b + (x - y - 1) * b /\ (x - y - 1) * b >= 0
    OBVIOUS
  <2>2. x * b \in Nat /\ y * b \in Nat /\ (x - y) * b \in Nat /\ (x - y - 1) * b \in Nat
    OBVIOUS
  <2> QED
    BY <1>7, <2>1, <2>2
<1> QED
  BY <1>5, <1>6, <1>7

\* Among some ports there is one with the smallest share.
LEMMA LeastShare ==
  ASSUME NEW N \in Nat, NEW S \in SUBSET (0 .. N), S # {},
         NEW u, NEW w, \A k \in S : u[k] \in Nat /\ w[k] \in Nat \ {0}
  PROVE  \E b \in S : \A k \in S : u[b] * w[k] <= u[k] * w[b]
<1> DEFINE Good(Q) == \E b \in Q : \A k \in Q : u[b] * w[k] <= u[k] * w[b]
           Part(n) == {k \in S : k <= n}
           Bad == {n \in Nat : Part(n) # {} /\ ~ Good(Part(n))}
<1>0. \A k \in S : k \in Nat /\ k <= N
  OBVIOUS
<1>1. Bad = {}
  <2> SUFFICES ASSUME Bad # {}  PROVE FALSE
    OBVIOUS
  <2>1. PICK n \in Bad : \A m \in Bad : n <= m
    <3>1. Bad \in SUBSET Nat /\ Bad # {}
      OBVIOUS
    <3> HIDE DEF Bad
    <3> QED
      BY <3>1, LeastNat
  <2>2. n \in Nat /\ Part(n) # {} /\ ~ Good(Part(n))
    BY <2>1
  <2> DEFINE Before == {k \in S : k < n}
  <2>3. Part(n) = IF n \in S THEN Before \cup {n} ELSE Before
    <3>1. \A k \in S : k <= n <=> k < n \/ k = n
      BY <1>0, <2>2
    <3>2. \A k : k \in Part(n) <=> k \in Before \/ (k = n /\ n \in S)
      BY <2>2, <3>1
    <3> HIDE DEF Part, Before
    <3> QED
      BY <3>2
  <2>4. ASSUME Before # {}  PROVE Good(Before)
    <3>0. n - 1 \in Nat /\ ~ (n <= n - 1)
      <4>1. PICK k \in S : k < n
        BY <2>4
      <4> QED
        BY <1>0, <2>2, <4>1
    <3>1. n - 1 \in Nat /\ Part(n - 1) = Before /\ ~ (n <= n - 1)
      <4>1. \A k \in S : k <= n - 1 <=> k < n
        BY <1>0, <2>2, <3>0
      <4> QED
        BY <3>0, <4>1
    <3>2. n - 1 \notin Bad
      <4> HIDE DEF Bad
      <4> QED
        BY <2>1, <3>1
    <3> HIDE DEF Good, Part, Before
    <3> QED
      BY <2>4, <3>1, <3>2
  <2>5. n \in S
    <3> SUFFICES ASSUME n \notin S  PROVE FALSE
      OBVIOUS
    <3> HIDE DEF Good, Part, Before
    <3> QED
      BY <2>2, <2>3, <2>4
  <2>6. Before # {}
    <3> SUFFICES ASSUME Before = {}  PROVE FALSE
      OBVIOUS
    <3>1. Part(n) = {n}
      BY <2>3, <2>5
    <3>2. u[n] * w[n] <= u[n] * w[n]
      BY <2>5
    <3>3. Good({n})
      BY <3>2
    <3> HIDE DEF Good, Part, Before
    <3> QED
      BY <2>2, <3>1, <3>3
  <2>7. PICK b \in Before : \A k \in Before : u[b] * w[k] <= u[k] * w[b]
    BY <2>4, <2>6
  <2>8. \A k \in Before \cup {n} : k \in S /\ u[k] \in Nat /\ w[k] \in Nat \ {0} /\ u[k] * w[k] <= u[k] * w[k]
    BY <2>5
  <2>9. CASE u[b] * w[n] <= u[n] * w[b]
    <3>1. Good(Before \cup {n})
      BY <2>7, <2>9
    <3> HIDE DEF Good, Part, Before
    <3> QED
      BY <2>2, <2>3, <2>5, <3>1
  <2>10. CASE ~ (u[b] * w[n] <= u[n] * w[b])
    <3>1. u[n] * w[b] <= u[b] * w[n]
      BY <2>7, <2>8, <2>10
    <3>2. ASSUME NEW k \in Before  PROVE u[n] * w[k] <= u[k] * w[n]
      <4>1. u[b] * w[k] <= u[k] * w[b]
        BY <2>7
      <4>2. /\ u[n] \in Nat /\ u[b] \in Nat /\ u[k] \in Nat
            /\ w[n] \in Nat \ {0} /\ w[b] \in Nat \ {0} /\ w[k] \in Nat \ {0}
        BY <2>7, <2>8
      <4> QED
        BY <3>1, <4>1, <4>2, SharesTransitive
    <3>3. Good(Before \cup {n})
      BY <2>8, <3>2
    <3> HIDE DEF Good, Part, Before
    <3> QED
      BY <2>2, <2>3, <2>5, <3>3
  <2> QED
    BY <2>9, <2>10
<1>2. Part(N) = S
  BY <1>0
<1> HIDE DEF Part, Good
<1>3. Good(S)
  BY <1>1, <1>2
<1> QED
  BY <1>3 DEF Good

-----------------------------------------------------------------------------
(* Recursive functions on an interval; sequences cut and joined.           *)

\* f begins with a, and step gives each value from the one before.
Steps(f, n, T, a, step) ==
  /\ f \in [0 .. n -> T] /\ f[0] = a
  /\ \A k \in 1 .. n : f[k] = step[<<k, f[k - 1]>>]

\* A recursion on the numbers up to n defines a function.
LEMMA RecursionExists ==
  ASSUME NEW n \in Nat, NEW T, NEW a \in T, NEW step \in [(1 .. n) \X T -> T]
  PROVE  \E f : Steps(f, n, T, a, step)
<1> DEFINE Good(m) == \E f \in [0 .. m -> T] :
                        f[0] = a /\ \A k \in 1 .. m : f[k] = step[<<k, f[k - 1]>>]
           Bad == {m \in 0 .. n : ~ Good(m)}
<1>1. Bad = {}
  <2> SUFFICES ASSUME Bad # {}  PROVE FALSE
    OBVIOUS
  <2>1. PICK m \in Bad : \A k \in Bad : m <= k
    <3>1. Bad \in SUBSET Nat
      OBVIOUS
    <3> HIDE DEF Bad
    <3> QED
      BY <3>1, LeastNat
  <2>2. m \in 0 .. n /\ ~ Good(m)
    BY <2>1
  <2>3. CASE m = 0
    <3>1. Good(0)
      <4> DEFINE f == [k \in 0 .. 0 |-> a]
      <4>1. f \in [0 .. 0 -> T] /\ f[0] = a
        OBVIOUS
      <4> HIDE DEF f
      <4> QED
        BY <4>1
    <3> HIDE DEF Good
    <3> QED
      BY <2>2, <2>3, <3>1
  <2>4. CASE m # 0
    <3>1. m - 1 \in 0 .. n /\ m \in 1 .. n /\ ~ (m <= m - 1)
      BY <2>2, <2>4
    <3>2. Good(m - 1)
      <4>1. m - 1 \notin Bad
        <5> HIDE DEF Bad
        <5> QED
          BY <2>1, <3>1
      <4> HIDE DEF Good
      <4> QED
        BY <3>1, <4>1
    <3>3. PICK g \in [0 .. m - 1 -> T] :
             g[0] = a /\ \A k \in 1 .. m - 1 : g[k] = step[<<k, g[k - 1]>>]
      BY <3>2
    <3> DEFINE f == [k \in 0 .. m |-> IF k = m THEN step[<<m, g[m - 1]>>] ELSE g[k]]
    <3>4. /\ f \in [0 .. m -> T] /\ f[0] = a
          /\ \A k \in 1 .. m : f[k] = step[<<k, f[k - 1]>>]
      <4>1. step[<<m, g[m - 1]>>] \in T
        BY <3>1, <3>3
      <4>2. f \in [0 .. m -> T]
        BY <3>1, <3>3, <4>1
      <4>3. ASSUME NEW k \in 1 .. m  PROVE f[k] = step[<<k, f[k - 1]>>]
        <5>1. CASE k = m
          <6>1. m \in 0 .. m /\ m - 1 \in 0 .. m /\ m - 1 # m
            BY <3>1
          <6>2. f[m] = step[<<m, g[m - 1]>>] /\ f[m - 1] = g[m - 1]
            BY <6>1
          <6> QED
            BY <5>1, <6>2
        <5>2. CASE k # m
          <6>1. k \in 1 .. m - 1 /\ k \in 0 .. m /\ k - 1 \in 0 .. m /\ k - 1 # m
            BY <3>1, <5>2
          <6>2. f[k] = g[k] /\ f[k - 1] = g[k - 1]
            BY <5>2, <6>1
          <6>3. g[k] = step[<<k, g[k - 1]>>]
            BY <3>3, <6>1
          <6> QED
            BY <6>2, <6>3
        <5> QED
          BY <5>1, <5>2
      <4>4. f[0] = a
        BY <3>1, <3>3
      <4> QED
        BY <4>2, <4>3, <4>4
    <3>5. Good(m)
      <4> HIDE DEF f
      <4> QED
        BY <3>4
    <3> HIDE DEF Good
    <3> QED
      BY <2>2, <3>5
  <2> QED
    BY <2>3, <2>4
<1>2. Good(n)
  <2> HIDE DEF Good
  <2> QED
    BY <1>1
<1> QED
  BY <1>2 DEF Steps

\* f and g begin with the same value and go on alike.
Alike(f, g, n) == /\ f[0] = g[0]
                  /\ \A k \in 1 .. n : f[k - 1] = g[k - 1] => f[k] = g[k]

\* Two such functions are the same.
LEMMA RecursionUnique ==
  ASSUME NEW n \in Nat, NEW f, NEW g, Alike(f, g, n)
  PROVE  \A k \in 0 .. n : f[k] = g[k]
<1> USE DEF Alike
<1> DEFINE Bad == {k \in 0 .. n : f[k] # g[k]}
<1> SUFFICES ASSUME Bad # {}  PROVE FALSE
  OBVIOUS
<1>1. PICK k \in Bad : \A j \in Bad : k <= j
  <2>1. Bad \in SUBSET Nat
    OBVIOUS
  <2> HIDE DEF Bad
  <2> QED
    BY <2>1, LeastNat
<1>2. k \in 1 .. n /\ f[k] # g[k]
  BY <1>1
<1>3. k - 1 \in 0 .. n /\ ~ (k <= k - 1)
  BY <1>2
<1>4. f[k - 1] = g[k - 1]
  BY <1>1, <1>3
<1> QED
  BY <1>2, <1>4

\* The members of two sequences one behind the other.
LEMMA ToSetConcat ==
  ASSUME NEW E, NEW s \in Seq(E), NEW t \in Seq(E)
  PROVE  s \o t \in Seq(E) /\ ToSet(s \o t) = ToSet(s) \cup ToSet(t)
<1>1. /\ Len(s) \in Nat /\ Len(t) \in Nat
      /\ DOMAIN s = 1 .. Len(s) /\ DOMAIN t = 1 .. Len(t)
      /\ s \o t \in Seq(E) /\ DOMAIN (s \o t) = 1 .. Len(s) + Len(t)
      /\ \A i \in 1 .. Len(s) : (s \o t)[i] = s[i]
      /\ \A i \in 1 .. Len(t) : (s \o t)[i + Len(s)] = t[i]
  OBVIOUS
<1>2. \A i \in 1 .. Len(s) : i \in 1 .. Len(s) + Len(t)
  BY <1>1
<1>3. \A i \in 1 .. Len(t) : i + Len(s) \in 1 .. Len(s) + Len(t)
  BY <1>1
<1>4. \A k \in 1 .. Len(s) + Len(t) :
        k \in 1 .. Len(s) \/ (k - Len(s) \in 1 .. Len(t) /\ k = (k - Len(s)) + Len(s))
  BY <1>1
<1> HIDE <1>1
<1>5. ToSet(s \o t) \subseteq ToSet(s) \cup ToSet(t)
  BY <1>1, <1>4 DEF ToSet
<1>6. ToSet(s) \cup ToSet(t) \subseteq ToSet(s \o t)
  BY <1>1, <1>2, <1>3 DEF ToSet
<1> QED
  BY <1>1, <1>5, <1>6

\* What is in a sequence.
LEMMA ToSetRange ==
  ASSUME NEW E, NEW s \in Seq(E)
  PROVE  /\ ToSet(s) \subseteq E /\ ToSet(s) = {s[k] : k \in 1 .. Len(s)}
         /\ s # << >> => /\ Head(s) = s[1] /\ Head(s) \in ToSet(s) /\ Len(s) > 0
<1>1. DOMAIN s = 1 .. Len(s) /\ Len(s) \in Nat /\ \A k \in 1 .. Len(s) : s[k] \in E
  OBVIOUS
<1>2. ToSet(s) = {s[k] : k \in 1 .. Len(s)}
  BY <1>1 DEF ToSet
<1>3. ASSUME s # << >>  PROVE Head(s) = s[1] /\ Len(s) > 0
  BY <1>3
<1>4. s # << >> => 1 \in 1 .. Len(s)
  BY <1>1, <1>3
<1> QED
  BY <1>1, <1>2, <1>3, <1>4

\* A sequence cut in two behind place n.
LEMMA Cut ==
  ASSUME NEW E, NEW s \in Seq(E), NEW n \in 0 .. Len(s)
  PROVE  /\ SubSeq(s, 1, n) \in Seq(E) /\ Len(SubSeq(s, 1, n)) = n
         /\ SubSeq(s, n + 1, Len(s)) \in Seq(E)
         /\ ToSet(s) = ToSet(SubSeq(s, 1, n)) \cup ToSet(SubSeq(s, n + 1, Len(s)))
         /\ ToSet(SubSeq(s, 1, n)) = {s[k] : k \in 1 .. n}
         /\ IsInjective(s) => /\ ToSet(SubSeq(s, 1, n)) \cap ToSet(SubSeq(s, n + 1, Len(s))) = {}
                              /\ IsInjective(SubSeq(s, n + 1, Len(s)))
<1> DEFINE a == SubSeq(s, 1, n)
           b == SubSeq(s, n + 1, Len(s))
           m == Len(s) - n
<1>1. Len(s) \in Nat /\ n \in Nat /\ m \in Nat /\ n <= Len(s) /\ DOMAIN s = 1 .. Len(s)
  OBVIOUS
<1>2. /\ a \in Seq(E) /\ Len(a) = n /\ DOMAIN a = 1 .. n
      /\ \A i \in 1 .. n : a[i] = s[i]
  BY <1>1
<1>3. /\ b \in Seq(E) /\ Len(b) = m /\ DOMAIN b = 1 .. m
      /\ \A i \in 1 .. m : b[i] = s[n + i]
  <2>1. /\ b \in Seq(E)
        /\ Len(b) = IF n + 1 <= Len(s) THEN Len(s) - (n + 1) + 1 ELSE 0
        /\ \A i \in 1 .. Len(s) - (n + 1) + 1 : b[i] = s[n + 1 + i - 1]
    <3>1. n + 1 \in Int /\ Len(s) \in Int /\ \A i \in n + 1 .. Len(s) : s[i] \in E
      BY <1>1
    <3> HIDE DEF b
    <3> QED
      BY <3>1, SubSeqProperties DEF b
  <2> HIDE DEF b
  <2>2. Len(s) - (n + 1) + 1 = m /\ (IF n + 1 <= Len(s) THEN Len(s) - (n + 1) + 1 ELSE 0) = m
    <3>1. Len(s) - (n + 1) + 1 = m
      BY <1>1
    <3>2. ~ (n + 1 <= Len(s)) => m = 0
      <4>1. \A x, y \in Nat : x <= y /\ ~ (x + 1 <= y) => y - x = 0
        OBVIOUS
      <4> QED
        BY <1>1, <4>1
    <3> HIDE DEF m
    <3> QED
      BY <3>1, <3>2
  <2>3. \A i \in 1 .. m : n + 1 + i - 1 = n + i
    BY <1>1
  <2> HIDE DEF m
  <2> QED
    BY <2>1, <2>2, <2>3
<1> HIDE DEF a, b
<1>4. ToSet(a) = {s[k] : k \in 1 .. n}
  BY <1>2 DEF ToSet
<1>5. ToSet(b) = {s[n + i] : i \in 1 .. m}
  BY <1>3 DEF ToSet
<1>6. \A k \in 1 .. Len(s) : k \in 1 .. n \/ (k - n \in 1 .. m /\ k = n + (k - n))
  BY <1>1
<1>7. (\A k \in 1 .. n : k \in 1 .. Len(s)) /\ (\A i \in 1 .. m : n + i \in 1 .. Len(s))
  BY <1>1
<1>8. \A k \in 1 .. n, i \in 1 .. m : k # n + i
  BY <1>1
<1>9. \A i, j \in 1 .. m : n + i = n + j => i = j
  BY <1>1
<1>10. ToSet(s) = ToSet(a) \cup ToSet(b)
  <2>1. ToSet(s) = {s[k] : k \in 1 .. Len(s)}
    BY <1>1 DEF ToSet
  <2> HIDE DEF m
  <2>2. ToSet(s) \subseteq ToSet(a) \cup ToSet(b)
    BY <2>1, <1>4, <1>5, <1>6
  <2>3. ToSet(a) \cup ToSet(b) \subseteq ToSet(s)
    BY <2>1, <1>4, <1>5, <1>7
  <2> QED
    BY <2>2, <2>3
<1>11. ASSUME IsInjective(s)  PROVE ToSet(a) \cap ToSet(b) = {} /\ IsInjective(b)
  <2> HIDE DEF m
  <2>1. \A k, l \in 1 .. Len(s) : s[k] = s[l] => k = l
    BY <1>1, <1>11 DEF IsInjective
  <2>2. ToSet(a) \cap ToSet(b) = {}
    BY <2>1, <1>4, <1>5, <1>7, <1>8
  <2>3. \A i, j \in 1 .. m : b[i] = b[j] => i = j
    <3> SUFFICES ASSUME NEW i \in 1 .. m, NEW j \in 1 .. m, b[i] = b[j]  PROVE i = j
      OBVIOUS
    <3>1. s[n + i] = s[n + j] /\ n + i \in 1 .. Len(s) /\ n + j \in 1 .. Len(s)
      BY <1>3, <1>7
    <3>2. n + i = n + j
      BY <2>1, <3>1
    <3> QED
      BY <1>9, <3>2
  <2> QED
    BY <2>2, <2>3, <1>3 DEF IsInjective
<1> USE DEF a, b
<1> QED
  BY <1>2, <1>3, <1>4, <1>10, <1>11
=============================================================================
