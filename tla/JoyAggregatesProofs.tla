------------------------ MODULE JoyAggregatesProofs ------------------------
(***************************************************************************)
(* Proofs about JoyAggregates.                                             *)
(***************************************************************************)
EXTENDS JoyAggregates, FiniteSetTheorems, SequenceTheorems, WellFoundedInduction, TLAPS

-----------------------------------------------------------------------------
(* Recursive functions on the naturals. *)

\* A set of naturals that is not empty has a least element.
LEMMA LeastNat ==
  ASSUME NEW T, T \subseteq Nat, T # {}
  PROVE  \E x \in T : \A y \in T : x <= y
<1> DEFINE R == StrictSubsetOrdering(Nat)
           B == {0 .. (x - 1) : x \in T}
<1>1. IsWellFoundedOn(R, FiniteSubsetsOf(Nat))
  BY FS_StrictSubsetOrderingWellFounded
<1>2. B \subseteq FiniteSubsetsOf(Nat) /\ B # {}
  <2>1. ASSUME NEW x \in T PROVE 0 .. (x - 1) \in FiniteSubsetsOf(Nat)
    <3>1. IsFiniteSet(0 .. (x - 1))
      BY FS_Interval, 0 \in Int, x - 1 \in Int
    <3>2. 0 .. (x - 1) \subseteq Nat
      OBVIOUS
    <3>3. QED
      BY <3>1, <3>2 DEF FiniteSubsetsOf
  <2>2. QED
    BY <2>1
<1> HIDE DEF R
<1>3. PICK b \in B : \A c \in B : ~(<<c, b>> \in R)
  BY <1>1, <1>2, WFMin
<1>4. PICK x \in T : b = 0 .. (x - 1)
  OBVIOUS
<1>5. ASSUME NEW y \in T, y < x PROVE FALSE
  <2>1. 0 .. (y - 1) \subseteq 0 .. (x - 1) /\ y \in 0 .. (x - 1) /\ y \notin 0 .. (y - 1)
    BY <1>5
  <2>2. 0 .. (y - 1) \in SUBSET Nat /\ b \in SUBSET Nat
    BY <1>4
  <2>3. 0 .. (y - 1) # b /\ 0 .. (y - 1) \subseteq b
    BY <1>4, <2>1
  <2>4. <<0 .. (y - 1), b>> \in R
    BY <2>2, <2>3 DEF R, StrictSubsetOrdering
  <2>5. 0 .. (y - 1) \in B
    OBVIOUS
  <2>6. QED
    BY <1>3, <2>4, <2>5
<1>6. \A y \in T : x <= y
  BY <1>5
<1>7. QED
  BY <1>6

\* Induction: a set that has 0, and n + 1 with every n, has all naturals.
LEMMA Induct ==
  ASSUME NEW S, 0 \in S, \A n \in Nat : n \in S => n + 1 \in S
  PROVE  Nat \subseteq S
<1> SUFFICES ASSUME Nat \ S # {} PROVE FALSE
  OBVIOUS
<1>1. PICK x \in Nat \ S : \A y \in Nat \ S : x <= y
  BY LeastNat
<1>2. x # 0 /\ x - 1 \in Nat /\ (x - 1) + 1 = x
  BY <1>1
<1>3. x - 1 \in S
  BY <1>1, <1>2
<1>4. QED
  BY <1>1, <1>2, <1>3

\* The function that starts at a and goes on by F.
Goes(n, a, F, r) == r = [m \in 0 .. n |-> IF m = 0 THEN a ELSE F[m][r[m - 1]]]

LEMMA Recursion ==
  ASSUME NEW n \in Nat, NEW a, NEW F
  PROVE  \E r : Goes(n, a, F, r)
<1> DEFINE T == {k \in Nat : \E r : Goes(k, a, F, r)}
<1>1. 0 \in T
  <2> DEFINE q == [m \in 0 .. 0 |-> a]
  <2>1. q = [m \in 0 .. 0 |-> IF m = 0 THEN a ELSE F[m][q[m - 1]]]
    OBVIOUS
  <2>2. Goes(0, a, F, q)
    BY <2>1 DEF Goes
  <2>3. QED
    BY <2>2
<1>2. ASSUME NEW k \in Nat, k \in T PROVE k + 1 \in T
  <2>1. PICK r : Goes(k, a, F, r)
    BY <1>2
  <2> DEFINE q == [m \in 0 .. (k + 1) |-> IF m <= k THEN r[m] ELSE F[k + 1][r[k]]]
  <2>2. ASSUME NEW m \in 0 .. (k + 1)
        PROVE  q[m] = IF m = 0 THEN a ELSE F[m][q[m - 1]]
    <3>1. CASE m <= k
      <4>1. m \in 0 .. k /\ q[m] = r[m] /\ (m # 0 => m - 1 \in 0 .. (k + 1) /\ m - 1 <= k)
        BY <3>1
      <4>2. m # 0 => q[m - 1] = r[m - 1]
        BY <4>1
      <4>3. r[m] = IF m = 0 THEN a ELSE F[m][r[m - 1]]
        BY <2>1, <4>1 DEF Goes
      <4>4. QED
        BY <4>1, <4>2, <4>3
    <3>2. CASE m = k + 1
      BY <3>2
    <3>3. QED
      BY <3>1, <3>2
  <2>3. q = [m \in 0 .. (k + 1) |-> IF m = 0 THEN a ELSE F[m][q[m - 1]]]
    <3>1. q = [m \in 0 .. (k + 1) |-> q[m]]
      OBVIOUS
    <3> HIDE DEF q
    <3>2. QED
      BY <2>2, <3>1
  <2>4. Goes(k + 1, a, F, q)
    BY <2>3 DEF Goes
  <2>5. QED
    BY <2>4
<1>3. n \in T
  BY <1>1, <1>2, Induct
<1>4. QED
  BY <1>3

-----------------------------------------------------------------------------
(* The memory. *)

Used(h) == (h.half * SIZE + 1) .. (h.half * SIZE + h.top)

\* Nothing in use points to what is not.
HeapOK(h) ==
  /\ h \in Heap
  /\ \A s \in Roots : h.root[s] \in Used(h) \cup {NULL}
  /\ \A a \in Used(h) : {h.mem[a].u, h.mem[a].next} \subseteq Used(h) \cup {NULL}

LEMMA UsedFacts ==
  ASSUME NEW h \in Heap
  PROVE  /\ Used(h) \subseteq Addr /\ NULL \notin Used(h) /\ NULL \notin Addr
         /\ IsFiniteSet(Used(h)) /\ Cardinality(Used(h)) = h.top
         /\ h.half * SIZE = IF h.half = 0 THEN 0 ELSE SIZE
         /\ h.top \in 0 .. SIZE /\ h.half \in {0, 1}
<1>1. h.top \in 0 .. SIZE /\ h.half \in {0, 1}
  BY DEF Heap
<1>2. h.half * SIZE = IF h.half = 0 THEN 0 ELSE SIZE
  BY <1>1, SizeAssumption
<1>3. h.half * SIZE \in Int
  BY <1>2, SizeAssumption
<1>4. Used(h) \subseteq Addr
  BY <1>1, <1>2, SizeAssumption DEF Used, Addr
<1>5. NULL \notin Addr
  BY NullAssumption, SizeAssumption DEF Addr
<1>6. IsFiniteSet(Used(h)) /\ Cardinality(Used(h)) = h.top
  <2>1. h.half * SIZE + 1 \in Int /\ h.half * SIZE + h.top \in Int
    BY <1>1, <1>3, SizeAssumption
  <2>2. PICK x \in Int, y \in Int : x = h.half * SIZE + 1 /\ y = h.half * SIZE + h.top
    BY <2>1
  <2>3. IsFiniteSet(x .. y) /\ Cardinality(x .. y) = IF x > y THEN 0 ELSE y - x + 1
    BY FS_Interval
  <2>4. y - x + 1 = h.top
    BY <1>1, <1>3, <2>2
  <2>5. QED
    BY <1>1, <2>2, <2>3, <2>4 DEF Used
<1>7. QED
  BY <1>1, <1>2, <1>4, <1>5, <1>6

\* What the steps of the search for live cells reach.
Reaching(h, extra, reach) ==
  reach = [n \in 0 .. SIZE |->
             IF n = 0 THEN ({h.root[s] : s \in Roots} \cup extra) \ {NULL}
             ELSE reach[n - 1] \cup Successors(h, reach[n - 1])]

LEMMA LiveReaching ==
  ASSUME NEW h \in Heap, NEW extra, extra \subseteq Pointers
  PROVE  \E reach : Reaching(h, extra, reach) /\ Live(h, extra) = reach[SIZE]
<1> DEFINE a == ({h.root[s] : s \in Roots} \cup extra) \ {NULL}
           F == [n \in Nat |-> [X \in SUBSET Addr |-> X \cup Successors(h, X)]]
<1>1. a \in SUBSET Addr
  BY DEF Heap, Pointers
<1>2. ASSUME NEW X \in SUBSET Addr PROVE Successors(h, X) \in SUBSET Addr
  BY DEF Successors, Heap, Cell, Pointers
<1> HIDE DEF F, a
<1>3. PICK r : Goes(SIZE, a, F, r)
  BY Recursion, SizeAssumption
<1>4. ASSUME NEW m \in 0 .. SIZE PROVE r[m] \in SUBSET Addr
  <2> DEFINE T == {k \in Nat : k <= SIZE => r[k] \in SUBSET Addr}
  <2>1. 0 \in T
    BY <1>1, <1>3, SizeAssumption DEF Goes
  <2>2. ASSUME NEW k \in Nat, k \in T PROVE k + 1 \in T
    <3> SUFFICES ASSUME k + 1 <= SIZE PROVE r[k + 1] \in SUBSET Addr
      OBVIOUS
    <3>1. r[k] \in SUBSET Addr /\ k + 1 \in 0 .. SIZE /\ k + 1 # 0 /\ (k + 1) - 1 = k
      BY <2>2, SizeAssumption
    <3>2. r[k + 1] = F[k + 1][r[k]]
      BY <1>3, <3>1 DEF Goes
    <3>3. F[k + 1][r[k]] = r[k] \cup Successors(h, r[k])
      BY <3>1 DEF F
    <3>4. QED
      BY <3>1, <3>2, <3>3, <1>2
  <2> HIDE DEF T
  <2>3. Nat \subseteq T
    BY <2>1, <2>2, Induct
  <2>4. QED
    BY <2>3, SizeAssumption DEF T
<1>5. ASSUME NEW m \in 1 .. SIZE PROVE F[m][r[m - 1]] = r[m - 1] \cup Successors(h, r[m - 1])
  <2>1. m \in Nat /\ m - 1 \in 0 .. SIZE
    BY SizeAssumption
  <2>2. r[m - 1] \in SUBSET Addr
    BY <2>1, <1>4
  <2>3. QED
    BY <2>1, <2>2 DEF F
<1>6. Reaching(h, extra, r)
  <2>1. ASSUME NEW n \in 0 .. SIZE
        PROVE (IF n = 0 THEN a ELSE F[n][r[n - 1]])
              = IF n = 0 THEN a ELSE r[n - 1] \cup Successors(h, r[n - 1])
    <3>1. n # 0 => n \in 1 .. SIZE
      BY SizeAssumption
    <3>2. QED
      BY <3>1, <1>5
  <2>2. r = [n \in 0 .. SIZE |-> IF n = 0 THEN a ELSE r[n - 1] \cup Successors(h, r[n - 1])]
    BY <1>3, <2>1 DEF Goes
  <2>3. QED
    BY <2>2 DEF Reaching, a
<1> DEFINE the == CHOOSE f : Reaching(h, extra, f)
<1>7. Reaching(h, extra, the)
  BY <1>6
<1>8. Live(h, extra) = the[SIZE]
  BY DEF Live, Reaching
<1>9. QED
  BY <1>7, <1>8

\* Every cell counts as live that the roots reach, and only cells in use do.
LEMMA LiveFacts ==
  ASSUME NEW h, HeapOK(h), NEW extra, extra \subseteq Used(h) \cup {NULL}
  PROVE  /\ Live(h, extra) \subseteq Used(h)
         /\ \A s \in Roots : h.root[s] \in Live(h, extra) \cup {NULL}
         /\ extra \subseteq Live(h, extra) \cup {NULL}
         /\ Successors(h, Live(h, extra)) \subseteq Live(h, extra)
<1>1. /\ h \in Heap /\ NULL \notin Used(h) /\ extra \subseteq Pointers
      /\ IsFiniteSet(Used(h)) /\ Cardinality(Used(h)) <= SIZE /\ Cardinality(Used(h)) \in Nat
  <2>1. h \in Heap
    BY DEF HeapOK
  <2>2. QED
    BY <2>1, UsedFacts, SizeAssumption DEF Pointers
<1>2. PICK R : Reaching(h, extra, R) /\ Live(h, extra) = R[SIZE]
  BY <1>1, LiveReaching
<1> DEFINE a == ({h.root[s] : s \in Roots} \cup extra) \ {NULL}
<1>3. R[0] = a /\ a \subseteq Used(h)
  <2>1. R[0] = a
    BY <1>2, SizeAssumption DEF Reaching
  <2>2. a \subseteq Used(h)
    BY DEF HeapOK
  <2>3. QED
    BY <2>1, <2>2
<1>4. ASSUME NEW n \in 1 .. SIZE PROVE R[n] = R[n - 1] \cup Successors(h, R[n - 1])
  <2>1. n \in 0 .. SIZE /\ n # 0
    BY SizeAssumption
  <2>2. QED
    BY <1>2, <2>1 DEF Reaching
<1>5. ASSUME NEW X \in SUBSET Used(h) PROVE Successors(h, X) \subseteq Used(h)
  BY DEF Successors, HeapOK
<1> DEFINE T == {n \in Nat : n <= SIZE =>
                   /\ R[n] \subseteq Used(h) /\ a \subseteq R[n]
                   /\ \/ Successors(h, R[n]) \subseteq R[n]
                      \/ Cardinality(R[n]) >= n + 1}
<1> HIDE DEF a
<1>6. 0 \in T
  <2>1. CASE a = {}
    <3>1. Successors(h, {}) = {}
      BY DEF Successors
    <3>2. QED
      BY <1>3, <2>1, <3>1
  <2>2. CASE a # {}
    <3>1. IsFiniteSet(a) /\ Cardinality(a) \in Nat
      BY <1>1, <1>3, FS_Subset, FS_CardinalityType
    <3>2. Cardinality(a) # 0
      BY <2>2, <3>1, FS_EmptySet
    <3>3. QED
      BY <1>3, <3>1, <3>2
  <2>3. QED
    BY <2>1, <2>2
<1>7. ASSUME NEW n \in Nat, n \in T PROVE n + 1 \in T
  <2> SUFFICES ASSUME n + 1 <= SIZE
               PROVE  /\ R[n + 1] \subseteq Used(h) /\ a \subseteq R[n + 1]
                      /\ \/ Successors(h, R[n + 1]) \subseteq R[n + 1]
                         \/ Cardinality(R[n + 1]) >= n + 2
    OBVIOUS
  <2>1. /\ R[n] \subseteq Used(h) /\ a \subseteq R[n]
        /\ \/ Successors(h, R[n]) \subseteq R[n]
           \/ Cardinality(R[n]) >= n + 1
    BY <1>7, SizeAssumption
  <2>2. R[n + 1] = R[n] \cup Successors(h, R[n])
    <3>1. n + 1 \in 1 .. SIZE /\ (n + 1) - 1 = n
      BY SizeAssumption
    <3>2. QED
      BY <1>4, <3>1
  <2>3. R[n + 1] \subseteq Used(h)
    BY <2>1, <2>2, <1>5
  <2>4. CASE Successors(h, R[n]) \subseteq R[n]
    <3>1. R[n + 1] = R[n]
      BY <2>2, <2>4
    <3>2. QED
      BY <2>1, <2>3, <2>4, <3>1
  <2>5. CASE Cardinality(R[n]) >= n + 1 /\ ~(Successors(h, R[n]) \subseteq R[n])
    <3>1. IsFiniteSet(R[n + 1]) /\ Cardinality(R[n + 1]) \in Nat
      BY <1>1, <2>3, FS_Subset, FS_CardinalityType
    <3>2. R[n] \subseteq R[n + 1] /\ R[n] # R[n + 1]
      BY <2>2, <2>5
    <3>3. /\ Cardinality(R[n]) <= Cardinality(R[n + 1]) /\ Cardinality(R[n]) # Cardinality(R[n + 1])
          /\ Cardinality(R[n]) \in Nat
      BY <3>1, <3>2, FS_Subset, FS_CardinalityType
    <3>4. QED
      BY <2>1, <2>2, <2>3, <2>5, <3>1, <3>3
  <2>6. QED
    BY <2>1, <2>4, <2>5
<1>8. SIZE \in T
  <2> HIDE DEF T
  <2>1. Nat \subseteq T
    BY <1>6, <1>7, Induct
  <2>2. QED
    BY <2>1, SizeAssumption
<1>9. R[SIZE] \subseteq Used(h) /\ a \subseteq R[SIZE] /\ Successors(h, R[SIZE]) \subseteq R[SIZE]
  <2>1. /\ R[SIZE] \subseteq Used(h) /\ a \subseteq R[SIZE]
        /\ \/ Successors(h, R[SIZE]) \subseteq R[SIZE]
           \/ Cardinality(R[SIZE]) >= SIZE + 1
    BY <1>8, SizeAssumption
  <2>2. Cardinality(R[SIZE]) <= SIZE
    <3>1. Cardinality(R[SIZE]) <= Cardinality(Used(h)) /\ Cardinality(R[SIZE]) \in Nat
      BY <1>1, <2>1, FS_Subset, FS_CardinalityType
    <3>2. QED
      BY <1>1, <3>1, SizeAssumption
  <2>3. Cardinality(R[SIZE]) \in Nat
    BY <1>1, <2>1, FS_Subset, FS_CardinalityType
  <2>4. QED
    BY <2>1, <2>2, <2>3, SizeAssumption
<1>10. QED
  BY <1>2, <1>9 DEF a

-----------------------------------------------------------------------------
(* What a collection does. *)

Rank(L, a) == Cardinality({b \in L : b <= a})

\* The ranks of the cells of L are 1 to the number of them.
LEMMA RankFacts ==
  ASSUME NEW L \in SUBSET Int, IsFiniteSet(L)
  PROVE  /\ Cardinality(L) \in Nat
         /\ \A a \in L : Rank(L, a) \in 1 .. Cardinality(L)
         /\ \A a, b \in L : Rank(L, a) = Rank(L, b) => a = b
         /\ \A i \in 1 .. Cardinality(L) : \E a \in L : Rank(L, a) = i
<1> DEFINE n == Cardinality(L)
           Up(a) == {b \in L : b <= a}
<1>1. n \in Nat
  BY FS_CardinalityType
<1>2. ASSUME NEW a \in L PROVE IsFiniteSet(Up(a)) /\ Rank(L, a) \in 1 .. n
  <2>1. IsFiniteSet(Up(a)) /\ Cardinality(Up(a)) \in Nat /\ Cardinality(Up(a)) <= n
    <3>1. Up(a) \in SUBSET L
      OBVIOUS
    <3> HIDE DEF Up
    <3>2. QED
      BY <3>1, FS_Subset, FS_CardinalityType
  <2>2. Cardinality(Up(a)) # 0
    <3>1. Up(a) # {}
      OBVIOUS
    <3>2. QED
      BY <2>1, <3>1, FS_EmptySet
  <2>3. QED
    BY <2>1, <2>2, <1>1 DEF Rank
<1>3. ASSUME NEW a \in L, NEW b \in L, a < b PROVE Rank(L, a) # Rank(L, b)
  <2>1. Up(a) \in SUBSET Up(b) /\ b \in Up(b) /\ b \notin Up(a)
    <3>1. a \in Int /\ b \in Int /\ \A x \in L : x \in Int
      OBVIOUS
    <3>2. b \in Up(b) /\ b \notin Up(a)
      BY <1>3, <3>1
    <3>3. ASSUME NEW x \in Up(a) PROVE x \in Up(b)
      BY <1>3, <3>1
    <3>4. QED
      BY <3>2, <3>3
  <2>2. IsFiniteSet(Up(b)) /\ Up(a) # Up(b)
    BY <1>2, <2>1
  <2>3. Rank(L, a) = Cardinality(Up(a)) /\ Rank(L, b) = Cardinality(Up(b))
    BY DEF Rank
  <2> HIDE DEF Up
  <2>4. QED
    BY <2>1, <2>2, <2>3, FS_Subset
<1>4. ASSUME NEW a \in L, NEW b \in L, Rank(L, a) = Rank(L, b) PROVE a = b
  <2>1. a \in Int /\ b \in Int
    OBVIOUS
  <2>2. ~(a < b) /\ ~(b < a)
    BY <1>3, <1>4
  <2>3. QED
    BY <2>1, <2>2
<1> DEFINE f == [a \in L |-> Rank(L, a)]
<1>5. f \in Injection(L, 1 .. n)
  BY <1>2, <1>4 DEF Injection, IsInjective
<1>6. IsFiniteSet(1 .. n) /\ Cardinality(1 .. n) = n
  <2>1. IsFiniteSet(1 .. n) /\ Cardinality(1 .. n) = IF 1 > n THEN 0 ELSE n - 1 + 1
    BY <1>1, FS_Interval
  <2>2. QED
    BY <1>1, <2>1
<1>7. f \in Surjection(L, 1 .. n)
  BY <1>5, <1>6, FS_Injection
<1>8. ASSUME NEW i \in 1 .. n PROVE \E a \in L : Rank(L, a) = i
  BY <1>7 DEF Surjection
<1>9. QED
  BY <1>1, <1>2, <1>4, <1>8

\* g is h after its live cells L moved, cell a to f[a].
Moved(h, g, L, f) ==
  /\ HeapOK(h) /\ HeapOK(g)
  /\ L \subseteq Used(h)
  /\ f \in [Pointers -> Pointers] /\ f[NULL] = NULL
  /\ \A a \in L : f[a] \in Used(g)
  /\ \A a, b \in L : f[a] = f[b] => a = b
  /\ \A s \in Roots : h.root[s] \in L \cup {NULL} /\ g.root[s] = f[h.root[s]]
  /\ \A a \in L : {h.mem[a].u, h.mem[a].next} \subseteq L \cup {NULL}
  /\ \A a \in L : /\ g.mem[f[a]].val = h.mem[a].val
                  /\ g.mem[f[a]].u = f[h.mem[a].u]
                  /\ g.mem[f[a]].next = f[h.mem[a].next]

LEMMA CollectMoves ==
  ASSUME NEW h, HeapOK(h), NEW extra, extra \subseteq Used(h) \cup {NULL}
  PROVE  /\ Moved(h, Collect(h, extra), Live(h, extra), Forwards(h, Live(h, extra)))
         /\ extra \subseteq Live(h, extra) \cup {NULL}
         /\ Collect(h, extra).half # h.half
<1> SUFFICES ASSUME NEW L, L = Live(h, extra), NEW f, f = Forwards(h, L),
                    NEW g, g = Collect(h, extra)
             PROVE  Moved(h, g, L, f) /\ extra \subseteq L \cup {NULL} /\ g.half # h.half
  OBVIOUS
<1>1. /\ h \in Heap /\ NULL \notin Addr /\ NULL \notin Used(h) /\ Used(h) \subseteq Addr
      /\ h.half * SIZE = (IF h.half = 0 THEN 0 ELSE SIZE) /\ h.half \in {0, 1} /\ h.top \in 0 .. SIZE
      /\ IsFiniteSet(Used(h)) /\ Cardinality(Used(h)) = h.top
  <2>1. h \in Heap
    BY DEF HeapOK
  <2>2. QED
    BY <2>1, UsedFacts
<1>2. /\ L \subseteq Used(h) /\ \A s \in Roots : h.root[s] \in L \cup {NULL}
      /\ extra \subseteq L \cup {NULL} /\ Successors(h, L) \subseteq L
  BY LiveFacts
<1>3. IsFiniteSet(L) /\ Cardinality(L) \in 0 .. SIZE /\ L \in SUBSET Int
  <2>1. IsFiniteSet(L) /\ Cardinality(L) <= h.top /\ Cardinality(L) \in Nat
    BY <1>1, <1>2, FS_Subset, FS_CardinalityType
  <2>2. L \subseteq Addr
    BY <1>1, <1>2
  <2>3. QED
    BY <1>1, <2>1, <2>2, SizeAssumption DEF Addr
<1>4. /\ \A a \in L : Rank(L, a) \in 1 .. Cardinality(L)
      /\ \A a, b \in L : Rank(L, a) = Rank(L, b) => a = b
      /\ \A i \in 1 .. Cardinality(L) : \E a \in L : Rank(L, a) = i
  BY <1>3, RankFacts
<1> DEFINE base == IF h.half = 0 THEN SIZE ELSE 0
<1>5. (1 - h.half) * SIZE = base /\ base \in Int /\ base >= 0 /\ base + SIZE <= 2 * SIZE
  BY <1>1, SizeAssumption
<1>6. ASSUME NEW a \in L PROVE f[a] = base + Rank(L, a) /\ a \in Pointers
  <2>1. a \in Pointers
    BY <1>1, <1>2 DEF Pointers
  <2>2. f[a] = NewAddress(h, L, a)
    BY <2>1 DEF Forwards
  <2>3. QED
    BY <2>1, <2>2, <1>5 DEF NewAddress, Rank
<1>7. \A p \in Pointers : p \notin L => f[p] = p
  BY DEF Forwards
<1>8. f[NULL] = NULL
  BY <1>1, <1>2, <1>7 DEF Pointers
<1>9. g.half = 1 - h.half /\ g.top = Cardinality(L) /\ g.root = [s \in Roots |-> f[h.root[s]]]
  BY DEF Collect
<1>10. Used(g) = (base + 1) .. (base + Cardinality(L)) /\ Used(g) \subseteq Addr
  BY <1>3, <1>5, <1>9, SizeAssumption DEF Used, Addr
<1>11. g.half # h.half
  BY <1>1, <1>9
<1> HIDE DEF base
<1>12. \A a \in L : f[a] \in Used(g)
  BY <1>3, <1>4, <1>5, <1>6, <1>10
<1>13. ASSUME NEW a \in L, NEW b \in L, f[a] = f[b] PROVE a = b
  <2>1. Rank(L, a) \in Int /\ Rank(L, b) \in Int
    BY <1>3, <1>4
  <2>2. Rank(L, a) = Rank(L, b)
    <3>1. base + Rank(L, a) = base + Rank(L, b)
      BY <1>13, <1>6
    <3>2. base \in Int
      BY <1>5
    <3>3. QED
      BY <2>1, <3>1, <3>2
  <2>3. QED
    BY <2>2, <1>4
<1>14. ASSUME NEW x \in Used(g) PROVE \E a \in L : f[a] = x
  <2>1. x - base \in 1 .. Cardinality(L)
    BY <1>3, <1>5, <1>10
  <2>2. PICK a \in L : Rank(L, a) = x - base
    BY <1>4, <2>1
  <2>3. QED
    BY <1>5, <1>6, <1>10, <2>2
<1>15. f \in [Pointers -> Pointers]
  <2>1. f = [p \in Pointers |-> f[p]]
    BY DEF Forwards
  <2>2. \A p \in Pointers : f[p] \in Pointers
    BY <1>7, <1>10, <1>12 DEF Pointers
  <2>3. QED
    BY <2>1, <2>2
<1>16. \A a \in L : {h.mem[a].u, h.mem[a].next} \subseteq L \cup {NULL}
  BY <1>2 DEF Successors
<1> DEFINE from == [a \in {f[b] : b \in L} |-> CHOOSE b \in L : f[b] = a]
<1>17. ASSUME NEW a \in L PROVE f[a] \in DOMAIN from /\ from[f[a]] = a
  <2>1. f[a] \in DOMAIN from
    OBVIOUS
  <2>2. from[f[a]] = CHOOSE b \in L : f[b] = f[a]
    BY <2>1
  <2>3. QED
    BY <2>1, <2>2, <1>13
<1>18. g.mem = [a \in Addr |->
                  IF a \in DOMAIN from
                  THEN [val |-> h.mem[from[a]].val, u |-> f[h.mem[from[a]].u],
                        next |-> f[h.mem[from[a]].next]]
                  ELSE h.mem[a]]
  BY DEF Collect
<1>19. \A x \in DOMAIN from : \E a \in L : x = f[a]
  OBVIOUS
<1> HIDE DEF from
<1>20. ASSUME NEW a \in L
       PROVE  g.mem[f[a]] = [val |-> h.mem[a].val, u |-> f[h.mem[a].u], next |-> f[h.mem[a].next]]
  <2>1. f[a] \in Addr
    BY <1>10, <1>12
  <2>2. QED
    BY <2>1, <1>17, <1>18
<1>20a. ASSUME NEW a \in L
       PROVE  /\ g.mem[f[a]].val = h.mem[a].val
              /\ g.mem[f[a]].u = f[h.mem[a].u]
              /\ g.mem[f[a]].next = f[h.mem[a].next]
  <2>1. PICK v, p, q : v = h.mem[a].val /\ p = f[h.mem[a].u] /\ q = f[h.mem[a].next]
    OBVIOUS
  <2>2. g.mem[f[a]] = [val |-> v, u |-> p, next |-> q]
    BY <2>1, <1>20
  <2>3. g.mem[f[a]].val = v /\ g.mem[f[a]].u = p /\ g.mem[f[a]].next = q
    BY <2>2
  <2>4. QED
    BY <2>1, <2>3
<1>21. g.mem \in [Addr -> Cell]
  <2>1. ASSUME NEW x \in Addr PROVE g.mem[x] \in Cell
    <3>1. CASE x \in DOMAIN from
      <4>1. PICK a \in L : x = f[a]
        BY <3>1, <1>19
      <4>2. a \in Addr /\ h.mem[a] \in Cell
        BY <1>1, <1>2 DEF Heap
      <4>3. QED
        <5>1. f[h.mem[a].u] \in Pointers /\ f[h.mem[a].next] \in Pointers
          BY <4>2, <1>15 DEF Cell
        <5>2. h.mem[a].val \in Vals \cup {NULL}
          BY <4>2 DEF Cell
        <5>3. g.mem[x] = [val |-> h.mem[a].val, u |-> f[h.mem[a].u], next |-> f[h.mem[a].next]]
          BY <4>1, <1>20
        <5>4. QED
          BY <5>1, <5>2, <5>3 DEF Cell
    <3>2. CASE x \notin DOMAIN from
      BY <1>1, <1>18, <3>2 DEF Heap
    <3>3. QED
      BY <3>1, <3>2
  <2>2. g.mem = [x \in Addr |-> g.mem[x]]
    BY <1>18
  <2>3. QED
    BY <2>1, <2>2
<1>22. g \in Heap
  <2>1. g.root \in [Roots -> Pointers]
    BY <1>1, <1>9, <1>15 DEF Heap
  <2>2. g = [mem |-> g.mem, half |-> g.half, top |-> g.top, root |-> g.root]
    BY DEF Collect
  <2>3. g.half \in {0, 1} /\ g.top \in 0 .. SIZE
    BY <1>1, <1>3, <1>9
  <2>4. QED
    BY <2>1, <2>2, <2>3, <1>21 DEF Heap
<1>23. HeapOK(g)
  <2>1. \A s \in Roots : g.root[s] \in Used(g) \cup {NULL}
    BY <1>2, <1>8, <1>9, <1>12
  <2>2. ASSUME NEW x \in Used(g) PROVE {g.mem[x].u, g.mem[x].next} \subseteq Used(g) \cup {NULL}
    <3>1. PICK a \in L : f[a] = x
      BY <1>14
    <3>2. QED
      <4>1. g.mem[x].u = f[h.mem[a].u] /\ g.mem[x].next = f[h.mem[a].next]
        BY <3>1, <1>20a
      <4>2. h.mem[a].u \in L \cup {NULL} /\ h.mem[a].next \in L \cup {NULL}
        BY <1>16
      <4>3. QED
        BY <4>1, <4>2, <1>8, <1>12
  <2>3. QED
    BY <2>1, <2>2, <1>22 DEF HeapOK
<1>24. \A s \in Roots : h.root[s] \in L \cup {NULL} /\ g.root[s] = f[h.root[s]]
  BY <1>2, <1>9
<1>25. Moved(h, g, L, f)
  BY <1>2, <1>8, <1>12, <1>13, <1>15, <1>16, <1>20a, <1>23, <1>24 DEF Moved
<1>26. QED
  BY <1>2, <1>11, <1>25

\* What is in use before and after a collection lies in different halves.
LEMMA OtherHalf ==
  ASSUME NEW h \in Heap, NEW g \in Heap, g.half # h.half
  PROVE  Used(h) \cap Used(g) = {}
<1>1. ASSUME NEW x \in Heap
      PROVE  \A a \in Used(x) : a \in Int /\ (a <= SIZE <=> x.half = 0)
  <2>1. /\ x.half * SIZE = (IF x.half = 0 THEN 0 ELSE SIZE) /\ x.half \in {0, 1}
        /\ x.top \in 0 .. SIZE
    BY UsedFacts
  <2>2. QED
    BY <2>1, SizeAssumption DEF Used
<1>2. h.half \in {0, 1} /\ g.half \in {0, 1}
  BY UsedFacts
<1>3. QED
  BY <1>1, <1>2

\* The next cell, and the memory with it taken.
NextCell(g)       == g.half * SIZE + g.top + 1
Taken(g, v, u, r) == [g EXCEPT !.mem[NextCell(g)] = [val |-> v, u |-> u, next |-> r],
                               !.top = @ + 1]

LEMMA AddCell ==
  ASSUME NEW h, NEW g, NEW L, NEW f, Moved(h, g, L, f), g.top < SIZE,
         NEW v \in Vals \cup {NULL}, NEW u \in L \cup {NULL}, NEW r \in L \cup {NULL},
         NEW p, p = NextCell(g), NEW k, k = Taken(g, v, f[u], f[r])
  PROVE  /\ Moved(h, k, L, f) /\ p \in Used(k) /\ (\A a \in L : f[a] # p)
         /\ k.mem[p].val = v /\ k.mem[p].u = f[u] /\ k.mem[p].next = f[r]
         /\ k.half = g.half
<1>1. /\ g \in Heap /\ HeapOK(g) /\ f[NULL] = NULL
      /\ \A a \in L : f[a] \in Used(g)
  BY DEF Moved, HeapOK
<1>2. /\ g.half * SIZE = (IF g.half = 0 THEN 0 ELSE SIZE) /\ g.half \in {0, 1} /\ g.top \in 0 .. SIZE
      /\ Used(g) \subseteq Addr /\ NULL \notin Addr
  BY <1>1, UsedFacts
<1>3. p \in Addr /\ p \notin Used(g)
  BY <1>2, SizeAssumption DEF Used, Addr, NextCell
<1> DEFINE c == [val |-> v, u |-> f[u], next |-> f[r]]
<1>4. f[u] \in Used(g) \cup {NULL} /\ f[r] \in Used(g) \cup {NULL}
  BY <1>1
<1>5. c \in Cell /\ c.val = v /\ c.u = f[u] /\ c.next = f[r]
  BY <1>2, <1>4 DEF Cell, Pointers
<1> HIDE DEF c
<1>6. /\ k.mem = [g.mem EXCEPT ![p] = c] /\ k.top = g.top + 1 /\ k.half = g.half /\ k.root = g.root
      /\ k \in Heap
  <2>1. k = [g EXCEPT !.mem[p] = c, !.top = @ + 1]
    BY DEF c, Taken
  <2>2. g = [mem |-> g.mem, half |-> g.half, top |-> g.top, root |-> g.root]
    BY <1>1 DEF Heap
  <2>3. k = [mem |-> [g.mem EXCEPT ![p] = c], half |-> g.half, top |-> g.top + 1, root |-> g.root]
    BY <2>1, <2>2
  <2>4. [g.mem EXCEPT ![p] = c] \in [Addr -> Cell] /\ g.root \in [Roots -> Pointers]
    BY <1>1, <1>5 DEF Heap
  <2>5. g.top + 1 \in 0 .. SIZE
    BY <1>2, SizeAssumption
  <2>6. QED
    BY <1>2, <2>3, <2>4, <2>5 DEF Heap
<1>7. k.mem[p] = c /\ \A a \in Addr : a # p => k.mem[a] = g.mem[a]
  BY <1>1, <1>3, <1>6 DEF Heap
<1>8. Used(k) = Used(g) \cup {p}
  BY <1>2, <1>6, SizeAssumption DEF Used, NextCell
<1>9. HeapOK(k)
  <2>1. \A s \in Roots : k.root[s] \in Used(k) \cup {NULL}
    BY <1>1, <1>6, <1>8 DEF HeapOK
  <2>2. ASSUME NEW a \in Used(k) PROVE {k.mem[a].u, k.mem[a].next} \subseteq Used(k) \cup {NULL}
    <3>1. CASE a = p
      BY <3>1, <1>4, <1>5, <1>7, <1>8
    <3>2. CASE a \in Used(g)
      BY <3>2, <1>1, <1>2, <1>3, <1>7, <1>8 DEF HeapOK
    <3>3. QED
      BY <3>1, <3>2, <1>8
  <2>3. QED
    BY <2>1, <2>2, <1>6 DEF HeapOK
<1>10. \A a \in L : f[a] # p /\ f[a] \in Used(k) /\ k.mem[f[a]] = g.mem[f[a]]
  BY <1>1, <1>2, <1>3, <1>7, <1>8
<1>11. Moved(h, k, L, f)
  BY <1>6, <1>9, <1>10 DEF Moved
<1>12. QED
  BY <1>5, <1>6, <1>7, <1>8, <1>10, <1>11

\* Nothing moves when nothing is collected.
LEMMA NothingMoves ==
  ASSUME NEW h, HeapOK(h)
  PROVE  Moved(h, h, Used(h), [p \in Pointers |-> p])
<1>1. h \in Heap
  BY DEF HeapOK
<1>2. Used(h) \subseteq Pointers /\ NULL \in Pointers
  BY <1>1, UsedFacts DEF Pointers
<1> DEFINE f == [p \in Pointers |-> p]
<1>3. f \in [Pointers -> Pointers] /\ f[NULL] = NULL /\ \A a \in Used(h) : f[a] = a
  BY <1>2
<1> HIDE DEF f
<1>4. \A s \in Roots : h.root[s] \in Used(h) \cup {NULL} /\ h.root[s] = f[h.root[s]]
  BY <1>3 DEF HeapOK
<1>5. ASSUME NEW a \in Used(h)
      PROVE  /\ {h.mem[a].u, h.mem[a].next} \subseteq Used(h) \cup {NULL}
             /\ h.mem[a].u = f[h.mem[a].u] /\ h.mem[a].next = f[h.mem[a].next]
  BY <1>3 DEF HeapOK
<1>6. Moved(h, h, Used(h), f)
  BY <1>3, <1>4, <1>5 DEF Moved
<1>7. QED
  BY <1>6 DEF f

\* newnode: all that is live stays, at its old place or at another, and the
\* node is a new one.
LEMMA NewnodeFacts ==
  ASSUME NEW h, HeapOK(h), NEW collects \in BOOLEAN, NEW v \in Vals \cup {NULL},
         NEW u \in Used(h) \cup {NULL}, NEW r \in Used(h) \cup {NULL},
         NEW n, n = newnode(h, collects, v, u, r), n.heap.top <= SIZE
  PROVE  \E L : /\ Moved(h, n.heap, L, n.fwd) /\ u \in L \cup {NULL} /\ r \in L \cup {NULL}
                /\ n.node \in Used(n.heap) /\ \A a \in L : n.fwd[a] # n.node
                /\ n.heap.mem[n.node].val = v
                /\ n.heap.mem[n.node].u = n.fwd[u]
                /\ n.heap.mem[n.node].next = n.fwd[r]
                /\ collects => n.heap.half # h.half
                /\ ~collects => n.fwd = [p \in Pointers |-> p] /\ L = Used(h)
<1> DEFINE live == Live(h, {u, r})
           f == IF collects THEN Forwards(h, live) ELSE [p \in Pointers |-> p]
           g == IF collects THEN Collect(h, {u, r}) ELSE h
           L == IF collects THEN live ELSE Used(h)
           p == NextCell(g)
           k == Taken(g, v, f[u], f[r])
<1>1. n = [heap |-> k, node |-> p, fwd |-> f]
  BY DEF newnode, NextCell, Taken
<1>2. Moved(h, g, L, f) /\ u \in L \cup {NULL} /\ r \in L \cup {NULL} /\ (collects => g.half # h.half)
  <2>1. CASE collects
    <3>1. {u, r} \subseteq Used(h) \cup {NULL}
      OBVIOUS
    <3>2. /\ Moved(h, Collect(h, {u, r}), live, Forwards(h, live))
          /\ {u, r} \subseteq live \cup {NULL} /\ Collect(h, {u, r}).half # h.half
      BY <3>1, CollectMoves
    <3>3. QED
      BY <2>1, <3>2
  <2>2. CASE ~collects
    BY <2>2, NothingMoves
  <2>3. QED
    BY <2>1, <2>2
<1>3. ~collects => f = [q \in Pointers |-> q] /\ L = Used(h)
  OBVIOUS
<1> HIDE DEF f, g, L
<1>4. n.heap = k /\ n.node = p /\ n.fwd = f
  BY <1>1
<1>5. k.top = g.top + 1 /\ g.top \in Nat
  BY <1>2, SizeAssumption DEF Moved, HeapOK, Heap, Taken
<1>6. g.top < SIZE
  BY <1>4, <1>5, SizeAssumption
<1>7. /\ Moved(h, k, L, f) /\ p \in Used(k) /\ (\A a \in L : f[a] # p)
      /\ k.mem[p].val = v /\ k.mem[p].u = f[u] /\ k.mem[p].next = f[r]
      /\ k.half = g.half
  BY <1>2, <1>6, AddCell
<1> HIDE DEF k, p
<1>8. QED
  BY <1>2, <1>3, <1>4, <1>7

-----------------------------------------------------------------------------
(* The lists in the memory. *)

Nth(c, i) == IF i \in 1 .. Len(c) THEN c[i] ELSE NULL

\* The dumps that hold the head of a new list, and the roots of all lists.
Heads == {"dump2", "dump4"}
Lines == {"A", "T"} \cup Heads

\* chain[s]: the cells of list s in their order; no cell is in two lists.
Chained(h, chain) ==
  /\ chain \in [Lines -> Seq(Used(h))]
  /\ \A s, t \in Lines : \A i \in 1 .. Len(chain[s]), j \in 1 .. Len(chain[t]) :
       chain[s][i] = chain[t][j] => s = t
  /\ \A s \in Lines : \A i \in 1 .. Len(chain[s]) :
       h.mem[chain[s][i]].next = Nth(chain[s], i + 1)

\* have[s]: the elements of list s.
Holding(h, chain, have) ==
  /\ have \in [Lines -> Seq(Vals)]
  /\ \A s \in Lines :
       /\ Len(have[s]) = Len(chain[s])
       /\ \A i \in 1 .. Len(chain[s]) : h.mem[chain[s][i]].val = have[s][i]

\* Where the roots are on the lists: the cursor dump1 is k elements into the
\* old list, LastOf(d) is at the last node of its list, or NULL when early, a
\* pointer loaded too early, lost it.
Placed(h, chain, k, early) ==
  /\ \A s \in {"A", "T"} : h.root[s] = Nth(chain[s], 1)
  /\ h.root["dump1"] # NULL => DMP(h, "dump1") = Nth(chain["A"], k + 1)
  /\ \A d \in Heads :
       /\ h.root[d] = NULL => chain[d] = <<>>
       /\ h.root[d] # NULL => DMP(h, d) = Nth(chain[d], 1)
       /\ h.root[LastOf(d)] # NULL =>
            \/ DMP(h, LastOf(d)) = Nth(chain[d], Len(chain[d]))
            \/ early /\ DMP(h, LastOf(d)) = NULL
  /\ \A d, e \in Dumps : h.root[d] = h.root[e] /\ h.root[d] # NULL => d = e

Shape(h, chain, have, k, early) ==
  /\ HeapOK(h)
  /\ Chained(h, chain) /\ Holding(h, chain, have) /\ Placed(h, chain, k, early)

\* The cells of the lists are live.
LEMMA ListsLive ==
  ASSUME NEW h, NEW g, NEW L, NEW f, Moved(h, g, L, f),
         NEW chain, NEW have, NEW k, NEW early, Shape(h, chain, have, k, early),
         NEW s \in Lines, NEW i \in 1 .. Len(chain[s])
  PROVE  chain[s][i] \in L
<1>1. /\ h \in Heap /\ NULL \notin Used(h)
      /\ chain[s] \in Seq(Used(h))
      /\ \A j \in 1 .. Len(chain[s]) : h.mem[chain[s][j]].next = Nth(chain[s], j + 1)
  BY UsedFacts DEF Shape, HeapOK, Chained
<1>2. Len(chain[s]) \in Nat /\ \A j \in 1 .. Len(chain[s]) : chain[s][j] \in Used(h)
  BY <1>1, LenProperties, ElementOfSeq
<1>3. /\ \A a \in L : {h.mem[a].u, h.mem[a].next} \subseteq L \cup {NULL}
      /\ \A q \in Roots : h.root[q] \in L \cup {NULL}
  BY DEF Moved
<1> DEFINE T == {j \in Nat : j + 1 \in 1 .. Len(chain[s]) => chain[s][j + 1] \in L}
<1>4. 0 \in T
  <2> SUFFICES ASSUME 1 \in 1 .. Len(chain[s]) PROVE chain[s][1] \in L
    OBVIOUS
  <2>1. Nth(chain[s], 1) = chain[s][1] /\ chain[s][1] # NULL /\ chain[s] # <<>>
    BY <1>1, <1>2 DEF Nth
  <2>2. CASE s \in {"A", "T"}
    <3>1. h.root[s] = chain[s][1]
      BY <2>1, <2>2 DEF Shape, Placed
    <3>2. QED
      BY <2>1, <2>2, <3>1, <1>3 DEF Roots
  <2>3. CASE s \in Heads
    <3>1. h.root[s] # NULL /\ DMP(h, s) = chain[s][1]
      BY <2>1, <2>3 DEF Shape, Placed
    <3>2. h.root[s] \in L
      BY <2>3, <3>1, <1>3 DEF Roots, Heads, Dumps
    <3>3. QED
      BY <2>1, <3>1, <3>2, <1>3 DEF DMP
  <2>4. QED
    BY <2>2, <2>3 DEF Lines
<1>5. ASSUME NEW j \in Nat, j \in T PROVE j + 1 \in T
  <2> SUFFICES ASSUME (j + 1) + 1 \in 1 .. Len(chain[s]) PROVE chain[s][(j + 1) + 1] \in L
    OBVIOUS
  <2>1. j + 1 \in 1 .. Len(chain[s])
    BY <1>2
  <2>2. chain[s][j + 1] \in L
    BY <2>1, <1>5
  <2>3. h.mem[chain[s][j + 1]].next = chain[s][(j + 1) + 1]
    BY <2>1, <1>1 DEF Nth
  <2>4. QED
    BY <2>2, <2>3, <1>1, <1>2, <1>3
<1>6. i - 1 \in T
  <2> HIDE DEF T
  <2>1. Nat \subseteq T
    BY <1>4, <1>5, Induct
  <2>2. i - 1 \in Nat
    BY <1>2
  <2>3. QED
    BY <2>1, <2>2
<1>7. QED
  <2>1. (i - 1) + 1 = i
    BY <1>2
  <2>2. QED
    BY <1>6, <2>1

\* Where the lists are after their cells moved.
Sent(f, chain) == [s \in Lines |-> [i \in 1 .. Len(chain[s]) |-> f[chain[s][i]]]]

LEMMA MovedShape ==
  ASSUME NEW h, NEW g, NEW L, NEW f, Moved(h, g, L, f),
         NEW chain, NEW have, NEW k \in Int, NEW early, Shape(h, chain, have, k, early)
  PROVE  /\ Shape(g, Sent(f, chain), have, k, early)
         /\ \A s \in Lines : /\ Sent(f, chain)[s] \in Seq(Used(g))
                             /\ Len(Sent(f, chain)[s]) = Len(chain[s])
                             /\ \A i \in Int : /\ Nth(Sent(f, chain)[s], i) = f[Nth(chain[s], i)]
                                               /\ Nth(chain[s], i) \in L \cup {NULL}
<1> SUFFICES ASSUME NEW c, c = Sent(f, chain)
             PROVE  /\ Shape(g, c, have, k, early)
                    /\ \A s \in Lines :
                         /\ c[s] \in Seq(Used(g)) /\ Len(c[s]) = Len(chain[s])
                         /\ \A i \in Int : /\ Nth(c[s], i) = f[Nth(chain[s], i)]
                                           /\ Nth(chain[s], i) \in L \cup {NULL}
  OBVIOUS
<1>1. /\ h \in Heap /\ g \in Heap /\ HeapOK(g) /\ NULL \notin Used(h) /\ NULL \notin Used(g)
      /\ \A s \in Lines : chain[s] \in Seq(Used(h))
      /\ \A s \in Lines : \A j \in 1 .. Len(chain[s]) : h.mem[chain[s][j]].next = Nth(chain[s], j + 1)
      /\ \A s, t \in Lines : \A i \in 1 .. Len(chain[s]), j \in 1 .. Len(chain[t]) :
           chain[s][i] = chain[t][j] => s = t
  BY UsedFacts DEF Shape, HeapOK, Chained, Moved
<1>2. ASSUME NEW s \in Lines
      PROVE  /\ Len(chain[s]) \in Nat /\ \A j \in 1 .. Len(chain[s]) : chain[s][j] \in L
  BY <1>1, LenProperties, ListsLive
<1>3. /\ f[NULL] = NULL /\ \A a \in L : f[a] \in Used(g)
      /\ \A a, b \in L : f[a] = f[b] => a = b
      /\ \A q \in Roots : h.root[q] \in L \cup {NULL} /\ g.root[q] = f[h.root[q]]
      /\ \A a \in L : {h.mem[a].u, h.mem[a].next} \subseteq L \cup {NULL}
      /\ \A a \in L : /\ g.mem[f[a]].val = h.mem[a].val
                      /\ g.mem[f[a]].u = f[h.mem[a].u]
                      /\ g.mem[f[a]].next = f[h.mem[a].next]
      /\ NULL \notin L
  BY <1>1 DEF Moved
<1>4. ASSUME NEW s \in Lines
      PROVE  /\ c[s] \in Seq(Used(g)) /\ Len(c[s]) = Len(chain[s])
             /\ \A j \in 1 .. Len(chain[s]) : c[s][j] = f[chain[s][j]]
  <2>1. c[s] = [i \in 1 .. Len(chain[s]) |-> f[chain[s][i]]]
    BY DEF Sent
  <2>2. \A i \in 1 .. Len(chain[s]) : f[chain[s][i]] \in Used(g)
    BY <1>2, <1>3
  <2>3. QED
    BY <1>2, <2>1, <2>2
<1>5. ASSUME NEW s \in Lines, NEW i \in Int
      PROVE  Nth(c[s], i) = f[Nth(chain[s], i)] /\ Nth(chain[s], i) \in L \cup {NULL}
  BY <1>2, <1>3, <1>4 DEF Nth
<1>6. Chained(g, c)
  <2>1. c \in [Lines -> Seq(Used(g))]
    <3>1. c = [s \in Lines |-> c[s]]
      BY DEF Sent
    <3>2. QED
      BY <3>1, <1>4
  <2>2. ASSUME NEW s \in Lines, NEW t \in Lines, NEW i \in 1 .. Len(c[s]), NEW j \in 1 .. Len(c[t]),
               c[s][i] = c[t][j]
        PROVE  s = t
    <3>1. i \in 1 .. Len(chain[s]) /\ j \in 1 .. Len(chain[t]) /\ f[chain[s][i]] = f[chain[t][j]]
      BY <2>2, <1>4
    <3>2. chain[s][i] = chain[t][j]
      BY <3>1, <1>2, <1>3
    <3>3. QED
      BY <3>1, <3>2, <1>1
  <2>3. ASSUME NEW s \in Lines, NEW i \in 1 .. Len(c[s])
        PROVE  g.mem[c[s][i]].next = Nth(c[s], i + 1)
    <3>1. i \in 1 .. Len(chain[s]) /\ c[s][i] = f[chain[s][i]] /\ chain[s][i] \in L /\ i + 1 \in Int
      BY <1>2, <1>4
    <3>2. g.mem[c[s][i]].next = f[h.mem[chain[s][i]].next]
      BY <3>1, <1>3
    <3>3. QED
      BY <3>1, <3>2, <1>1, <1>5
  <2>4. QED
    BY <2>1, <2>2, <2>3 DEF Chained
<1>7. Holding(g, c, have)
  <2>1. /\ have \in [Lines -> Seq(Vals)]
        /\ \A s \in Lines :
             /\ Len(have[s]) = Len(chain[s])
             /\ \A i \in 1 .. Len(chain[s]) : h.mem[chain[s][i]].val = have[s][i]
    BY DEF Shape, Holding
  <2>2. ASSUME NEW s \in Lines, NEW i \in 1 .. Len(c[s]) PROVE g.mem[c[s][i]].val = have[s][i]
    <3>1. i \in 1 .. Len(chain[s]) /\ c[s][i] = f[chain[s][i]] /\ chain[s][i] \in L
      BY <1>2, <1>4
    <3>2. g.mem[c[s][i]].val = h.mem[chain[s][i]].val
      BY <3>1, <1>3
    <3>3. QED
      BY <3>1, <3>2, <2>1
  <2>3. QED
    BY <2>1, <2>2, <1>4 DEF Holding
<1>8. ASSUME NEW q \in Roots
      PROVE  /\ g.root[q] = NULL <=> h.root[q] = NULL
             /\ h.root[q] # NULL => DMP(g, q) = f[DMP(h, q)]
             /\ h.root[q] # NULL => DMP(h, q) \in L \cup {NULL}
  BY <1>1, <1>3 DEF DMP
<1>9. Placed(g, c, k, early)
  <2>1. Placed(h, chain, k, early)
    BY DEF Shape
  <2>2. \A s \in {"A", "T"} : g.root[s] = Nth(c[s], 1)
    BY <2>1, <1>3, <1>5 DEF Placed, Lines, Roots
  <2>3. g.root["dump1"] # NULL => DMP(g, "dump1") = Nth(c["A"], k + 1)
    <3>1. "A" \in Lines /\ "dump1" \in Roots /\ k + 1 \in Int
      BY DEF Lines, Roots, Dumps
    <3>2. h.root["dump1"] # NULL => DMP(h, "dump1") = Nth(chain["A"], k + 1)
      BY <2>1 DEF Placed
    <3>3. QED
      BY <3>1, <3>2, <1>5, <1>8
  <2>4. ASSUME NEW d \in Heads
        PROVE  /\ g.root[d] = NULL => c[d] = <<>>
               /\ g.root[d] # NULL => DMP(g, d) = Nth(c[d], 1)
               /\ g.root[LastOf(d)] # NULL =>
                    \/ DMP(g, LastOf(d)) = Nth(c[d], Len(c[d]))
                    \/ early /\ DMP(g, LastOf(d)) = NULL
    <3>1. d \in Lines /\ d \in Roots /\ LastOf(d) \in Roots
      BY DEF Lines, Roots, Dumps, Heads, LastOf
    <3>2. /\ h.root[d] = NULL => chain[d] = <<>>
          /\ h.root[d] # NULL => DMP(h, d) = Nth(chain[d], 1)
          /\ h.root[LastOf(d)] # NULL =>
               \/ DMP(h, LastOf(d)) = Nth(chain[d], Len(chain[d]))
               \/ early /\ DMP(h, LastOf(d)) = NULL
      BY <2>1 DEF Placed
    <3>3. Len(chain[d]) \in Int /\ Len(c[d]) = Len(chain[d]) /\ c[d] \in Seq(Used(g))
      BY <3>1, <1>2, <1>4
    <3>4. g.root[d] = NULL => c[d] = <<>>
      BY <3>1, <3>2, <3>3, <1>8
    <3>5. g.root[d] # NULL => DMP(g, d) = Nth(c[d], 1)
      BY <3>1, <3>2, <1>5, <1>8
    <3>6. Nth(c[d], Len(c[d])) = f[Nth(chain[d], Len(chain[d]))]
      BY <3>1, <3>3, <1>5
    <3>7. g.root[LastOf(d)] # NULL =>
            \/ DMP(g, LastOf(d)) = Nth(c[d], Len(c[d]))
            \/ early /\ DMP(g, LastOf(d)) = NULL
      BY <3>1, <3>2, <3>6, <1>3, <1>8
    <3>8. QED
      BY <3>4, <3>5, <3>7
  <2>5. ASSUME NEW d \in Dumps, NEW e \in Dumps, g.root[d] = g.root[e], g.root[d] # NULL
        PROVE  d = e
    <3>1. h.root[d] \in L /\ h.root[e] \in L /\ f[h.root[d]] = f[h.root[e]]
      BY <2>5, <1>3, <1>8 DEF Roots
    <3>2. h.root[d] = h.root[e] /\ h.root[d] # NULL
      BY <3>1, <1>3
    <3>3. QED
      BY <3>2, <2>1 DEF Placed
  <2>6. QED
    BY <2>2, <2>3, <2>4, <2>5 DEF Placed
<1>10. QED
  BY <1>1, <1>4, <1>5, <1>6, <1>7, <1>9 DEF Shape

-----------------------------------------------------------------------------
(* Reading a list. *)

Listing(h, list) ==
  list = [n \in 0 .. SIZE |->
            [q \in Pointers |->
               IF n = 0 \/ q = NULL THEN <<>>
               ELSE <<h.mem[q].val>> \o list[n - 1][h.mem[q].next]]]

ListedBy(h, list) ==
  /\ \A p \in Pointers : ListAt(h, p) = list[SIZE][p]
  /\ \A p \in Pointers : list[0][p] = <<>>
  /\ \A n \in 0 .. SIZE : list[n][NULL] = <<>>
  /\ \A n \in 1 .. SIZE, a \in Addr :
       list[n][a] = <<h.mem[a].val>> \o list[n - 1][h.mem[a].next]

LEMMA ListReading ==
  ASSUME NEW h \in Heap
  PROVE  \E list : ListedBy(h, list)
<1> DEFINE S == [Pointers -> Seq(Vals \cup {NULL})]
           More(x) == [q \in Pointers |-> IF q = NULL THEN <<>>
                                          ELSE <<h.mem[q].val>> \o x[h.mem[q].next]]
           a0 == [q \in Pointers |-> <<>>]
           F == [n \in Nat |-> [x \in S |-> More(x)]]
<1>1. a0 \in S
  OBVIOUS
<1>2. ASSUME NEW x \in S PROVE More(x) \in S
  <2>1. ASSUME NEW q \in Pointers, q # NULL
        PROVE  <<h.mem[q].val>> \o x[h.mem[q].next] \in Seq(Vals \cup {NULL})
    <3>1. h.mem[q].val \in Vals \cup {NULL} /\ h.mem[q].next \in Pointers
      BY <2>1 DEF Heap, Cell, Pointers
    <3>2. <<h.mem[q].val>> \in Seq(Vals \cup {NULL}) /\ x[h.mem[q].next] \in Seq(Vals \cup {NULL})
      BY <3>1
    <3>3. QED
      BY <3>2, ConcatProperties
  <2> DEFINE e(q) == IF q = NULL THEN <<>> ELSE <<h.mem[q].val>> \o x[h.mem[q].next]
  <2>2. ASSUME NEW q \in Pointers PROVE e(q) \in Seq(Vals \cup {NULL})
    <3>1. CASE q = NULL
      BY <3>1
    <3>2. CASE q # NULL
      BY <3>2, <2>1
    <3>3. QED
      BY <3>1, <3>2
  <2>3. More(x) = [q \in Pointers |-> e(q)]
    OBVIOUS
  <2> HIDE DEF e, More
  <2>4. QED
    BY <2>2, <2>3
<1> HIDE DEF F, S, a0, More
<1>3. PICK r : Goes(SIZE, a0, F, r)
  BY Recursion, SizeAssumption
<1>4. ASSUME NEW m \in 0 .. SIZE PROVE r[m] \in S
  <2> DEFINE T == {k \in Nat : k <= SIZE => r[k] \in S}
  <2>1. 0 \in T
    BY <1>1, <1>3, SizeAssumption DEF Goes
  <2>2. ASSUME NEW k \in Nat, k \in T PROVE k + 1 \in T
    <3> SUFFICES ASSUME k + 1 <= SIZE PROVE r[k + 1] \in S
      OBVIOUS
    <3>1. r[k] \in S /\ k + 1 \in 0 .. SIZE /\ k + 1 # 0 /\ (k + 1) - 1 = k
      BY <2>2, SizeAssumption
    <3>2. r[k + 1] = F[k + 1][r[k]]
      BY <1>3, <3>1 DEF Goes
    <3>3. F[k + 1][r[k]] = More(r[k])
      BY <3>1 DEF F
    <3>4. QED
      BY <3>1, <3>2, <3>3, <1>2
  <2> HIDE DEF T
  <2>3. Nat \subseteq T
    BY <2>1, <2>2, Induct
  <2>4. QED
    BY <2>3, SizeAssumption DEF T
<1>5. ASSUME NEW m \in 1 .. SIZE PROVE F[m][r[m - 1]] = More(r[m - 1])
  <2>1. m \in Nat /\ m - 1 \in 0 .. SIZE
    BY SizeAssumption
  <2>2. r[m - 1] \in S
    BY <2>1, <1>4
  <2>3. QED
    BY <2>1, <2>2 DEF F
<1>6. Listing(h, r)
  <2>1. ASSUME NEW n \in 0 .. SIZE
        PROVE  (IF n = 0 THEN a0 ELSE F[n][r[n - 1]])
               = [q \in Pointers |-> IF n = 0 \/ q = NULL THEN <<>>
                                     ELSE <<h.mem[q].val>> \o r[n - 1][h.mem[q].next]]
    <3>1. CASE n = 0
      BY <3>1 DEF a0
    <3>2. CASE n # 0
      <4>1. n \in 1 .. SIZE
        BY <3>2, SizeAssumption
      <4>2. QED
        BY <3>2, <4>1, <1>5 DEF More
    <3>3. QED
      BY <3>1, <3>2
  <2>2. QED
    BY <1>3, <2>1 DEF Goes, Listing
<1> DEFINE the == CHOOSE f : Listing(h, f)
<1>7. Listing(h, the)
  BY <1>6
<1>8. ASSUME NEW p \in Pointers PROVE ListAt(h, p) = the[SIZE][p]
  BY DEF ListAt, Listing
<1> HIDE DEF the
<1>9. NULL \in Pointers /\ NULL \notin Addr
  BY UsedFacts DEF Pointers
<1>10. \A p \in Pointers : the[0][p] = <<>>
  BY <1>7, SizeAssumption DEF Listing
<1>11. \A n \in 0 .. SIZE : the[n][NULL] = <<>>
  BY <1>7, <1>9 DEF Listing
<1>12. ASSUME NEW n \in 1 .. SIZE, NEW a \in Addr
       PROVE  the[n][a] = <<h.mem[a].val>> \o the[n - 1][h.mem[a].next]
  <2>1. n \in 0 .. SIZE /\ n # 0 /\ a \in Pointers /\ a # NULL
    BY <1>9, SizeAssumption DEF Pointers
  <2>2. QED
    <3>1. the[n] = [q \in Pointers |-> IF n = 0 \/ q = NULL THEN <<>>
                                      ELSE <<h.mem[q].val>> \o the[n - 1][h.mem[q].next]]
      BY <1>7, <2>1 DEF Listing
    <3>2. QED
      BY <2>1, <3>1
<1>13. ListedBy(h, the)
  BY <1>8, <1>10, <1>11, <1>12 DEF ListedBy
<1>14. QED
  BY <1>13

\* Cells c that follow each other and hold s: the last m of them.
LEMMA ListFrom ==
  ASSUME NEW h \in Heap, NEW c \in Seq(Addr), NEW s \in Seq(Vals),
         Len(s) = Len(c), Len(c) <= SIZE,
         \A i \in 1 .. Len(c) : h.mem[c[i]].val = s[i] /\ h.mem[c[i]].next = Nth(c, i + 1),
         NEW k \in Nat, k <= Len(c)
  PROVE  ListAt(h, Nth(c, Len(c) - k + 1)) = SubSeq(s, Len(c) - k + 1, Len(c))
<1>1. PICK list :
        /\ \A p \in Pointers : ListAt(h, p) = list[SIZE][p]
        /\ \A p \in Pointers : list[0][p] = <<>>
        /\ \A n \in 0 .. SIZE : list[n][NULL] = <<>>
        /\ \A n \in 1 .. SIZE, a \in Addr :
             list[n][a] = <<h.mem[a].val>> \o list[n - 1][h.mem[a].next]
  BY ListReading DEF ListedBy
<1>2. Len(c) \in Nat /\ \A i \in 1 .. Len(c) : c[i] \in Addr
  BY LenProperties, ElementOfSeq
<1> DEFINE T == {m \in Nat : m <= Len(c) => \A n \in 0 .. SIZE : m <= n =>
                   list[n][Nth(c, Len(c) - m + 1)] = SubSeq(s, Len(c) - m + 1, Len(c))}
<1>3. 0 \in T
  <2>1. Nth(c, Len(c) - 0 + 1) = NULL
    BY <1>2 DEF Nth
  <2>2. SubSeq(s, Len(c) - 0 + 1, Len(c)) = <<>>
    <3> SUFFICES ASSUME NEW x \in Int, x = Len(c) - 0 + 1, NEW y \in Int, y = Len(c)
                 PROVE  SubSeq(s, x, y) = <<>>
      BY <1>2
    <3>1. y < x
      BY <1>2
    <3>2. QED
      BY <3>1, SubSeqEmpty
  <2>3. QED
    BY <1>1, <2>1, <2>2
<1>4. ASSUME NEW m \in Nat, m \in T PROVE m + 1 \in T
  <2> SUFFICES ASSUME m + 1 <= Len(c), NEW n \in 0 .. SIZE, m + 1 <= n
               PROVE  list[n][Nth(c, Len(c) - (m + 1) + 1)] = SubSeq(s, Len(c) - (m + 1) + 1, Len(c))
    OBVIOUS
  <2> SUFFICES ASSUME NEW i \in Int, i = Len(c) - m
               PROVE  list[n][Nth(c, i)] = SubSeq(s, i, Len(c))
    <3>1. Len(c) - (m + 1) + 1 = Len(c) - m /\ Len(c) - m \in Int
      BY <1>2
    <3>2. QED
      BY <3>1
  <2>1. i \in 1 .. Len(c) /\ Nth(c, i) = c[i] /\ c[i] \in Addr
    BY <1>2 DEF Nth
  <2>2. n \in 1 .. SIZE /\ n - 1 \in 0 .. SIZE /\ m <= n - 1
    BY SizeAssumption
  <2>3. list[n][c[i]] = <<s[i]>> \o list[n - 1][Nth(c, i + 1)]
    BY <1>1, <2>1, <2>2
  <2>4. list[n - 1][Nth(c, i + 1)] = SubSeq(s, i + 1, Len(c))
    <3>1. Len(c) - m + 1 = i + 1 /\ m <= Len(c)
      BY <1>2
    <3>2. QED
      BY <1>4, <2>2, <3>1
  <2>5. SubSeq(s, i, Len(c)) = <<s[i]>> \o SubSeq(s, i + 1, Len(c))
    <3>1. i \in 1 .. Len(s) /\ Len(s) \in i .. Len(s)
      BY <1>2, <2>1
    <3>2. SubSeq(s, i, Len(s)) = <<s[i]>> \o SubSeq(s, i + 1, Len(s))
      BY <3>1, SubSeqRecursiveFirst
    <3>3. QED
      BY <3>2
  <2>6. QED
    BY <2>1, <2>3, <2>4, <2>5
<1>5. k \in T
  <2> HIDE DEF T
  <2>1. Nat \subseteq T
    BY <1>3, <1>4, Induct
  <2>2. QED
    BY <2>1
<1>6. list[SIZE][Nth(c, Len(c) - k + 1)] = SubSeq(s, Len(c) - k + 1, Len(c))
  <2>1. SIZE \in 0 .. SIZE /\ k <= SIZE
    BY <1>2, SizeAssumption
  <2>2. QED
    BY <1>5, <2>1
<1>7. Nth(c, Len(c) - k + 1) \in Pointers
  <2>1. Len(c) - k + 1 \in Int
    BY <1>2
  <2>2. \A i \in Int : Nth(c, i) \in Pointers
    BY <1>2 DEF Nth, Pointers
  <2>3. QED
    BY <2>1, <2>2
<1>8. QED
  BY <1>1, <1>6, <1>7

\* Cells c that follow each other and hold s are the list s.
LEMMA ListOfCells ==
  ASSUME NEW h \in Heap, NEW c \in Seq(Addr), NEW s \in Seq(Vals),
         Len(s) = Len(c), Len(c) <= SIZE,
         \A i \in 1 .. Len(c) : h.mem[c[i]].val = s[i] /\ h.mem[c[i]].next = Nth(c, i + 1)
  PROVE  ListAt(h, Nth(c, 1)) = s
<1>1. Len(c) \in Nat /\ Len(c) <= Len(c) /\ Len(c) - Len(c) + 1 = 1
  BY LenProperties
<1>2. ListAt(h, Nth(c, Len(c) - Len(c) + 1)) = SubSeq(s, Len(c) - Len(c) + 1, Len(c))
  BY <1>1, ListFrom
<1>3. SubSeq(s, 1, Len(c)) = s
  BY SubSeqFull
<1>4. QED
  BY <1>1, <1>2, <1>3

-----------------------------------------------------------------------------
(* Storing pointers. *)

PutU(h, x, p)    == [h EXCEPT !.mem[x].u = p]
PutNext(h, x, p) == [h EXCEPT !.mem[x].next = p]

LEMMA PutUFacts ==
  ASSUME NEW h, HeapOK(h), NEW x \in Addr, NEW p \in Used(h) \cup {NULL},
         NEW g, g = PutU(h, x, p)
  PROVE  /\ HeapOK(g) /\ Used(g) = Used(h) /\ g.root = h.root /\ g.top = h.top
         /\ \A a \in Addr : /\ g.mem[a].val = h.mem[a].val
                            /\ g.mem[a].next = h.mem[a].next
                            /\ g.mem[a].u = IF a = x THEN p ELSE h.mem[a].u
<1>1. h \in Heap /\ h.mem \in [Addr -> Cell] /\ Used(h) \subseteq Addr /\ p \in Pointers
  <2>1. h \in Heap
    BY DEF HeapOK
  <2>2. Used(h) \subseteq Addr
    BY <2>1, UsedFacts
  <2>3. QED
    BY <2>1, <2>2 DEF Heap, Pointers
<1> DEFINE c == [h.mem[x] EXCEPT !.u = p]
<1>2. h.mem[x] \in Cell
  BY <1>1
<1>3. c \in Cell /\ c.val = h.mem[x].val /\ c.next = h.mem[x].next /\ c.u = p
  BY <1>1, <1>2 DEF Cell
<1> HIDE DEF c
<1>4. g = [h EXCEPT !.mem = [h.mem EXCEPT ![x] = c]]
  BY DEF PutU, c
<1>5. /\ g.mem = [h.mem EXCEPT ![x] = c] /\ g.half = h.half /\ g.top = h.top /\ g.root = h.root
      /\ g \in Heap
  BY <1>1, <1>3, <1>4 DEF Heap
<1>6. \A a \in Addr : g.mem[a] = IF a = x THEN c ELSE h.mem[a]
  BY <1>1, <1>5
<1>7. \A a \in Addr : /\ g.mem[a].val = h.mem[a].val
                      /\ g.mem[a].next = h.mem[a].next
                      /\ g.mem[a].u = IF a = x THEN p ELSE h.mem[a].u
  BY <1>3, <1>6
<1>8. Used(g) = Used(h)
  BY <1>5 DEF Used
<1>9. HeapOK(g)
  BY <1>1, <1>5, <1>7, <1>8 DEF HeapOK
<1>10. QED
  BY <1>5, <1>7, <1>8, <1>9

LEMMA PutNextFacts ==
  ASSUME NEW h, HeapOK(h), NEW x \in Addr, NEW p \in Used(h) \cup {NULL},
         NEW g, g = PutNext(h, x, p)
  PROVE  /\ HeapOK(g) /\ Used(g) = Used(h) /\ g.root = h.root /\ g.top = h.top
         /\ \A a \in Addr : /\ g.mem[a].val = h.mem[a].val
                            /\ g.mem[a].u = h.mem[a].u
                            /\ g.mem[a].next = IF a = x THEN p ELSE h.mem[a].next
<1>1. h \in Heap /\ h.mem \in [Addr -> Cell] /\ Used(h) \subseteq Addr /\ p \in Pointers
  <2>1. h \in Heap
    BY DEF HeapOK
  <2>2. Used(h) \subseteq Addr
    BY <2>1, UsedFacts
  <2>3. QED
    BY <2>1, <2>2 DEF Heap, Pointers
<1> DEFINE c == [h.mem[x] EXCEPT !.next = p]
<1>2. h.mem[x] \in Cell
  BY <1>1
<1>3. c \in Cell /\ c.val = h.mem[x].val /\ c.u = h.mem[x].u /\ c.next = p
  BY <1>1, <1>2 DEF Cell
<1> HIDE DEF c
<1>4. g = [h EXCEPT !.mem = [h.mem EXCEPT ![x] = c]]
  BY DEF PutNext, c
<1>5. /\ g.mem = [h.mem EXCEPT ![x] = c] /\ g.half = h.half /\ g.top = h.top /\ g.root = h.root
      /\ g \in Heap
  BY <1>1, <1>3, <1>4 DEF Heap
<1>6. \A a \in Addr : g.mem[a] = IF a = x THEN c ELSE h.mem[a]
  BY <1>1, <1>5
<1>7. \A a \in Addr : /\ g.mem[a].val = h.mem[a].val
                      /\ g.mem[a].u = h.mem[a].u
                      /\ g.mem[a].next = IF a = x THEN p ELSE h.mem[a].next
  BY <1>3, <1>6
<1>8. Used(g) = Used(h)
  BY <1>5 DEF Used
<1>9. HeapOK(g)
  BY <1>1, <1>5, <1>7, <1>8 DEF HeapOK
<1>10. QED
  BY <1>5, <1>7, <1>8, <1>9

\* The lists stay when only u fields change.
LEMMA SameLists ==
  ASSUME NEW h, HeapOK(h), NEW g, NEW chain, NEW have, Chained(h, chain), Holding(h, chain, have),
         Used(g) = Used(h),
         \A a \in Addr : g.mem[a].val = h.mem[a].val /\ g.mem[a].next = h.mem[a].next
  PROVE  Chained(g, chain) /\ Holding(g, chain, have)
<1>1. Used(h) \subseteq Addr
  BY UsedFacts DEF HeapOK
<1>2. \A s \in Lines : \A i \in 1 .. Len(chain[s]) : chain[s][i] \in Addr
  BY <1>1, ElementOfSeq DEF Chained
<1>3. Chained(g, chain)
  BY <1>2 DEF Chained
<1>4. Holding(g, chain, have)
  BY <1>2 DEF Holding
<1>5. QED
  BY <1>3, <1>4

\* DMP1 = DMP1->next: the cursor is one element further.
LEMMA SteppedOld ==
  ASSUME NEW h, NEW chain, NEW have, NEW k \in Nat, NEW early, Shape(h, chain, have, k, early),
         h.root["dump1"] # NULL, DMP(h, "dump1") # NULL
  PROVE  /\ Shape(StepOld(h), chain, have, k + 1, early)
         /\ StepOld(h).root = h.root /\ StepOld(h).top = h.top
         /\ k < Len(have["A"])
<1> DEFINE x == h.root["dump1"]
           p == h.mem[DMP(h, "dump1")].next
<1>1. /\ h \in Heap /\ HeapOK(h) /\ Used(h) \subseteq Addr /\ "dump1" \in Roots /\ NULL \notin Used(h)
      /\ chain["A"] \in Seq(Used(h)) /\ "A" \in Lines
  <2>1. h \in Heap /\ HeapOK(h)
    BY DEF Shape, HeapOK
  <2>2. QED
    BY <2>1, UsedFacts DEF Shape, Chained, Lines, Roots, Dumps
<1>2. DMP(h, "dump1") = Nth(chain["A"], k + 1)
  BY DEF Shape, Placed
<1>3. k + 1 \in 1 .. Len(chain["A"]) /\ DMP(h, "dump1") = chain["A"][k + 1]
  BY <1>2 DEF Nth
<1>4. Len(chain["A"]) \in Nat
  BY <1>1, LenProperties
<1>5. p = Nth(chain["A"], (k + 1) + 1)
  BY <1>1, <1>3 DEF Shape, Chained
<1>6. x \in Used(h) /\ p \in Used(h) \cup {NULL}
  BY <1>1, <1>3, ElementOfSeq DEF HeapOK
<1>7. StepOld(h) = PutU(h, x, p)
  BY DEF StepOld, PutU
<1> SUFFICES ASSUME NEW g, g = StepOld(h)
             PROVE  /\ Shape(g, chain, have, k + 1, early) /\ g.root = h.root /\ g.top = h.top
                    /\ k < Len(have["A"])
  OBVIOUS
<1> HIDE DEF x, p
<1>8. /\ HeapOK(g) /\ Used(g) = Used(h) /\ g.root = h.root /\ g.top = h.top
      /\ \A a \in Addr : /\ g.mem[a].val = h.mem[a].val
                         /\ g.mem[a].next = h.mem[a].next
                         /\ g.mem[a].u = IF a = x THEN p ELSE h.mem[a].u
  <2>1. HeapOK(h) /\ x \in Addr /\ p \in Used(h) \cup {NULL} /\ g = PutU(h, x, p)
    BY <1>1, <1>6, <1>7
  <2>2. QED
    BY <2>1, PutUFacts
<1>9. Chained(g, chain) /\ Holding(g, chain, have)
  BY <1>1, <1>8, SameLists DEF Shape
<1>10. DMP(g, "dump1") = p
  BY <1>1, <1>6, <1>8 DEF DMP, x
<1>11. ASSUME NEW d \in Dumps, d # "dump1", h.root[d] # NULL
       PROVE  DMP(g, d) = DMP(h, d)
  <2>1. h.root[d] # x /\ h.root[d] \in Used(h)
    <3>1. "dump1" \in Dumps /\ d \in Roots
      BY DEF Dumps, Roots
    <3>2. h.root[d] # x
      BY <1>11, <3>1 DEF Shape, Placed, x
    <3>3. QED
      BY <1>1, <1>11, <3>1, <3>2 DEF HeapOK
  <2>2. QED
    BY <2>1, <1>1, <1>8 DEF DMP
<1>12. ASSUME NEW d \in Heads
       PROVE  d \in Dumps /\ LastOf(d) \in Dumps /\ d # "dump1" /\ LastOf(d) # "dump1"
  BY DEF Heads, Dumps, LastOf
<1>13. Placed(g, chain, k + 1, early)
  BY <1>5, <1>8, <1>10, <1>11, <1>12 DEF Shape, Placed
<1>14. k < Len(have["A"])
  BY <1>1, <1>3, <1>4 DEF Shape, Holding
<1>15. QED
  BY <1>8, <1>9, <1>13, <1>14 DEF Shape

\* g is h with the node p put behind list d.
Longer(h, g, chain, d, p) ==
  /\ HeapOK(g) /\ Used(g) = Used(h) /\ g.root = h.root
  /\ \A a \in Addr : g.mem[a].val = h.mem[a].val
  /\ \A a \in Addr : a # Nth(chain[d], Len(chain[d])) => g.mem[a].next = h.mem[a].next
  /\ chain[d] # <<>> => g.mem[Nth(chain[d], Len(chain[d]))].next = p
  /\ DMP(g, d) = (IF chain[d] = <<>> THEN p ELSE Nth(chain[d], 1))
  /\ DMP(g, LastOf(d)) = p
  /\ \A q \in Dumps \ {d, LastOf(d)} : h.root[q] # NULL => DMP(g, q) = DMP(h, q)

LEMMA LongerShape ==
  ASSUME NEW h, NEW chain, NEW have, NEW k \in Nat, NEW early, Shape(h, chain, have, k, early),
         NEW d \in Heads, NEW p \in Used(h), h.root[d] # NULL,
         \A s \in Lines : \A i \in 1 .. Len(chain[s]) : chain[s][i] # p,
         NEW v \in Vals, h.mem[p].val = v, h.mem[p].next = NULL,
         NEW g, Longer(h, g, chain, d, p)
  PROVE  Shape(g, [chain EXCEPT ![d] = Append(@, p)], [have EXCEPT ![d] = Append(@, v)], k, early)
<1> SUFFICES ASSUME NEW c, c = [chain EXCEPT ![d] = Append(@, p)],
                    NEW w, w = [have EXCEPT ![d] = Append(@, v)]
             PROVE  Shape(g, c, w, k, early)
  OBVIOUS
<1>1. /\ h \in Heap /\ HeapOK(h) /\ Used(h) \subseteq Addr /\ NULL \notin Used(h) /\ NULL \notin Addr
      /\ Used(g) = Used(h) /\ g.root = h.root /\ HeapOK(g)
      /\ chain \in [Lines -> Seq(Used(h))] /\ have \in [Lines -> Seq(Vals)] /\ d \in Lines
      /\ d \notin {"A", "T"}
  <2>1. h \in Heap /\ HeapOK(h)
    BY DEF Shape, HeapOK
  <2>2. QED
    BY <2>1, UsedFacts DEF Shape, Chained, Holding, Lines, Longer, Heads
<1>2. ASSUME NEW s \in Lines
      PROVE  /\ chain[s] \in Seq(Used(h)) /\ Len(chain[s]) \in Nat
             /\ have[s] \in Seq(Vals) /\ Len(have[s]) = Len(chain[s])
             /\ \A i \in 1 .. Len(chain[s]) :
                  /\ chain[s][i] \in Used(h) /\ chain[s][i] \in Addr
                  /\ h.mem[chain[s][i]].next = Nth(chain[s], i + 1)
                  /\ h.mem[chain[s][i]].val = have[s][i]
  <2>1. chain[s] \in Seq(Used(h)) /\ Len(chain[s]) \in Nat /\ have[s] \in Seq(Vals)
    BY <1>1, LenProperties
  <2>2. \A i \in 1 .. Len(chain[s]) : chain[s][i] \in Used(h)
    BY <2>1, ElementOfSeq
  <2>3. QED
    BY <2>1, <2>2, <1>1 DEF Shape, Chained, Holding
<1> DEFINE n == Len(chain[d])
<1>3. /\ c[d] = Append(chain[d], p) /\ c[d] \in Seq(Used(h)) /\ Len(c[d]) = n + 1 /\ n \in Nat
      /\ c[d][n + 1] = p /\ \A i \in 1 .. n : c[d][i] = chain[d][i]
      /\ \A s \in Lines : s # d => c[s] = chain[s]
      /\ c \in [Lines -> Seq(Used(h))]
  <2>1. c[d] = Append(chain[d], p) /\ \A s \in Lines : s # d => c[s] = chain[s]
    BY <1>1
  <2>2. chain[d] \in Seq(Used(h)) /\ n \in Nat
    BY <1>1, <1>2
  <2>3. /\ Append(chain[d], p) \in Seq(Used(h)) /\ Len(Append(chain[d], p)) = n + 1
        /\ Append(chain[d], p)[n + 1] = p /\ \A i \in 1 .. n : Append(chain[d], p)[i] = chain[d][i]
    BY <2>2, AppendProperties
  <2>4. c \in [Lines -> Seq(Used(h))]
    BY <1>1, <2>3
  <2>5. QED
    BY <2>1, <2>2, <2>3, <2>4
<1>4. /\ w[d] \in Seq(Vals) /\ Len(w[d]) = n + 1
      /\ w[d][n + 1] = v /\ \A i \in 1 .. n : w[d][i] = have[d][i]
      /\ \A s \in Lines : s # d => w[s] = have[s]
      /\ w \in [Lines -> Seq(Vals)]
  <2>1. w[d] = Append(have[d], v) /\ \A s \in Lines : s # d => w[s] = have[s]
    BY <1>1
  <2>2. have[d] \in Seq(Vals) /\ Len(have[d]) = n
    BY <1>1, <1>2
  <2>3. /\ Append(have[d], v) \in Seq(Vals) /\ Len(Append(have[d], v)) = n + 1
        /\ Append(have[d], v)[n + 1] = v /\ \A i \in 1 .. n : Append(have[d], v)[i] = have[d][i]
    BY <2>2, AppendProperties
  <2>4. w \in [Lines -> Seq(Vals)]
    BY <1>1, <2>3
  <2>5. QED
    BY <2>1, <2>2, <2>3, <2>4
<1> HIDE DEF n
<1>5. ASSUME NEW s \in Lines, NEW i \in 1 .. Len(c[s])
      PROVE  \/ s = d /\ i = n + 1 /\ c[s][i] = p
             \/ i \in 1 .. Len(chain[s]) /\ c[s][i] = chain[s][i] /\ (s = d => i \in 1 .. n)
  BY <1>3 DEF n
<1>6. ASSUME NEW s \in Lines, NEW t \in Lines, NEW i \in 1 .. Len(c[s]), NEW j \in 1 .. Len(c[t]),
             c[s][i] = c[t][j]
      PROVE  s = t
  <2>1. CASE c[s][i] = p
    <3>1. s = d /\ t = d
      BY <1>5, <1>6, <2>1
    <3>2. QED
      BY <3>1
  <2>2. CASE c[s][i] # p
    <3>1. i \in 1 .. Len(chain[s]) /\ j \in 1 .. Len(chain[t]) /\ chain[s][i] = chain[t][j]
      BY <1>5, <1>6, <2>2
    <3>2. QED
      BY <3>1 DEF Shape, Chained
  <2>3. QED
    BY <2>1, <2>2
<1>7. /\ \A a \in Addr : g.mem[a].val = h.mem[a].val
      /\ \A a \in Addr : a # Nth(chain[d], n) => g.mem[a].next = h.mem[a].next
      /\ chain[d] # <<>> => g.mem[Nth(chain[d], n)].next = p
  BY DEF Longer, n
<1>8. ASSUME NEW s \in Lines, NEW i \in 1 .. Len(c[s])
      PROVE  g.mem[c[s][i]].next = Nth(c[s], i + 1)
  <2>1. CASE s = d /\ i = n + 1 /\ c[s][i] = p
    <3>1. p # Nth(chain[d], n) /\ p \in Addr
      BY <1>1, <1>3 DEF Nth, n
    <3>2. Nth(c[d], i + 1) = NULL
      BY <2>1, <1>3 DEF Nth
    <3>3. QED
      BY <2>1, <3>1, <3>2, <1>7
  <2>2. CASE i \in 1 .. Len(chain[s]) /\ c[s][i] = chain[s][i] /\ (s = d => i \in 1 .. n)
    <3>1. chain[s][i] \in Addr /\ h.mem[chain[s][i]].next = Nth(chain[s], i + 1)
      BY <2>2, <1>2
    <3>2. CASE s = d /\ i = n
      <4>1. Nth(chain[d], n) = chain[d][n] /\ chain[d] # <<>>
        BY <2>2, <3>2, <1>3 DEF Nth, n
      <4>2. Nth(c[d], n + 1) = p
        BY <1>3 DEF Nth
      <4>3. QED
        BY <2>2, <3>2, <4>1, <4>2, <1>7
    <3>3. CASE s = d /\ i # n
      <4>1. chain[d][i] # Nth(chain[d], n)
        <5>1. n \in 1 .. n /\ Nth(chain[d], n) = chain[d][n] /\ i + 1 \in 1 .. n
          BY <2>2, <3>3, <1>3 DEF Nth, n
        <5>2. h.mem[chain[d][n]].next = NULL
          <6>1. Nth(chain[d], n + 1) = NULL
            BY <1>3 DEF Nth, n
          <6>2. n \in 1 .. Len(chain[d])
            BY <5>1 DEF n
          <6>3. QED
            BY <1>1, <1>2, <6>1, <6>2
        <5>3. h.mem[chain[d][i]].next = chain[d][i + 1] /\ chain[d][i + 1] # NULL
          BY <1>1, <1>2, <2>2, <3>1, <3>3, <5>1 DEF Nth, n
        <5>4. QED
          BY <5>1, <5>2, <5>3
      <4>2. Nth(c[d], i + 1) = Nth(chain[d], i + 1)
        BY <2>2, <3>3, <1>3 DEF Nth, n
      <4>3. QED
        BY <2>2, <3>1, <3>3, <4>1, <4>2, <1>7
    <3>4. CASE s # d
      <4>1. chain[s][i] # Nth(chain[d], n)
        <5>1. CASE n = 0
          BY <1>1, <3>1, <5>1 DEF Nth
        <5>2. CASE n # 0
          <6>1. n \in 1 .. Len(chain[d]) /\ Nth(chain[d], n) = chain[d][n]
            BY <5>2, <1>3 DEF Nth, n
          <6>2. QED
            BY <2>2, <3>4, <6>1, <1>1 DEF Shape, Chained
        <5>3. QED
          BY <5>1, <5>2
      <4>2. QED
        BY <2>2, <3>1, <3>4, <4>1, <1>3, <1>7
    <3>5. QED
      BY <3>2, <3>3, <3>4
  <2>3. QED
    BY <1>5, <2>1, <2>2
<1>9. Chained(g, c)
  BY <1>1, <1>3, <1>6, <1>8 DEF Chained
<1>10. ASSUME NEW s \in Lines
       PROVE  /\ Len(w[s]) = Len(c[s])
              /\ \A i \in 1 .. Len(c[s]) : g.mem[c[s][i]].val = w[s][i]
  <2>1. Len(w[s]) = Len(c[s])
    BY <1>2, <1>3, <1>4
  <2>2. ASSUME NEW i \in 1 .. Len(c[s]) PROVE g.mem[c[s][i]].val = w[s][i]
    <3>1. CASE s = d /\ i = n + 1 /\ c[s][i] = p
      BY <3>1, <1>1, <1>4, <1>7
    <3>2. CASE i \in 1 .. Len(chain[s]) /\ c[s][i] = chain[s][i] /\ (s = d => i \in 1 .. n)
      <4>1. chain[s][i] \in Addr /\ h.mem[chain[s][i]].val = have[s][i]
        BY <3>2, <1>2
      <4>2. w[s][i] = have[s][i]
        BY <3>2, <1>4
      <4>3. QED
        BY <3>2, <4>1, <4>2, <1>7
    <3>3. QED
      BY <1>5, <3>1, <3>2
  <2>3. QED
    BY <2>1, <2>2
<1>11. Holding(g, c, w)
  BY <1>4, <1>10 DEF Holding
<1>12. Placed(g, c, k, early)
  <2>1. \A s \in {"A", "T"} : c[s] = chain[s]
    BY <1>1, <1>3 DEF Lines
  <2>2. \A s \in {"A", "T"} : g.root[s] = Nth(c[s], 1)
    BY <1>1, <2>1 DEF Shape, Placed
  <2>3. \A q \in Dumps \ {d, LastOf(d)} : h.root[q] # NULL => DMP(g, q) = DMP(h, q)
    BY DEF Longer
  <2>4. g.root["dump1"] # NULL => DMP(g, "dump1") = Nth(c["A"], k + 1)
    <3>1. "dump1" \in Dumps \ {d, LastOf(d)}
      BY DEF Dumps, Heads, LastOf
    <3>2. QED
      BY <1>1, <2>1, <2>3, <3>1 DEF Shape, Placed
  <2>5. ASSUME NEW e \in Heads
        PROVE  /\ g.root[e] = NULL => c[e] = <<>>
               /\ g.root[e] # NULL => DMP(g, e) = Nth(c[e], 1)
               /\ g.root[LastOf(e)] # NULL =>
                    \/ DMP(g, LastOf(e)) = Nth(c[e], Len(c[e]))
                    \/ early /\ DMP(g, LastOf(e)) = NULL
    <3>1. CASE e = d
      <4>1. DMP(g, d) = (IF chain[d] = <<>> THEN p ELSE Nth(chain[d], 1)) /\ DMP(g, LastOf(d)) = p
        BY DEF Longer
      <4>2. Nth(c[d], Len(c[d])) = p
        BY <1>3 DEF Nth
      <4>3. Nth(c[d], 1) = IF chain[d] = <<>> THEN p ELSE Nth(chain[d], 1)
        <5>1. CASE chain[d] = <<>>
          <6>1. n = 0
            BY <5>1 DEF n
          <6>2. QED
            BY <5>1, <6>1, <1>3 DEF Nth
        <5>2. CASE chain[d] # <<>>
          <6>1. n # 0
            BY <5>2, <1>1, <1>2, EmptySeq DEF n
          <6>2. QED
            BY <5>2, <6>1, <1>3 DEF Nth, n
        <5>3. QED
          BY <5>1, <5>2
      <4>4. QED
        BY <3>1, <4>1, <4>2, <4>3, <1>1
    <3>2. CASE e # d
      <4>1. {e, LastOf(e)} \subseteq Dumps \ {d, LastOf(d)} /\ e \in Lines
        BY <3>2 DEF Dumps, Heads, LastOf, Lines
      <4>2. c[e] = chain[e]
        BY <3>2, <4>1, <1>3
      <4>3. QED
        BY <4>1, <4>2, <2>3, <1>1 DEF Shape, Placed
    <3>3. QED
      BY <3>1, <3>2
  <2>6. QED
    BY <2>2, <2>4, <2>5, <1>1 DEF Shape, Placed
<1>13. QED
  BY <1>1, <1>9, <1>11, <1>12 DEF Shape

\* When the store went to the half given up, only LastOf(d) changes: it is
\* NULL then.
LEMMA LostShape ==
  ASSUME NEW h, NEW chain, NEW have, NEW k \in Nat, Shape(h, chain, have, k, TRUE),
         NEW d \in Heads, NEW g, HeapOK(g), Used(g) = Used(h), g.root = h.root,
         \A a \in Used(h) : g.mem[a].val = h.mem[a].val /\ g.mem[a].next = h.mem[a].next,
         \A q \in Dumps \ {LastOf(d)} : h.root[q] # NULL => DMP(g, q) = DMP(h, q),
         DMP(g, LastOf(d)) = NULL
  PROVE  Shape(g, chain, have, k, TRUE)
<1>1. \A s \in Lines : \A i \in 1 .. Len(chain[s]) : chain[s][i] \in Used(h)
  BY ElementOfSeq DEF Shape, Chained
<1>2. Chained(g, chain)
  BY <1>1 DEF Shape, Chained
<1>3. Holding(g, chain, have)
  BY <1>1 DEF Shape, Holding
<1>4. ASSUME NEW e \in Heads
      PROVE  /\ e \in Dumps \ {LastOf(d)} /\ (e # d => LastOf(e) \in Dumps \ {LastOf(d)})
             /\ "dump1" \in Dumps \ {LastOf(d)}
  BY DEF Heads, Dumps, LastOf
<1>5. Placed(g, chain, k, TRUE)
  <2>1. ASSUME NEW e \in Heads
        PROVE  /\ g.root[e] = NULL => chain[e] = <<>>
               /\ g.root[e] # NULL => DMP(g, e) = Nth(chain[e], 1)
               /\ g.root[LastOf(e)] # NULL =>
                    \/ DMP(g, LastOf(e)) = Nth(chain[e], Len(chain[e]))
                    \/ TRUE /\ DMP(g, LastOf(e)) = NULL
    BY <1>4 DEF Shape, Placed
  <2>2. g.root["dump1"] # NULL => DMP(g, "dump1") = Nth(chain["A"], k + 1)
    BY <1>4 DEF Shape, Placed, Heads
  <2>3. QED
    BY <2>1, <2>2 DEF Shape, Placed
<1>6. QED
  BY <1>2, <1>3, <1>5 DEF Shape

\* What a store leaves: the list d has v more, or has lost it.
Stored(h, g, have, k, loses, early, d, v) ==
  /\ \A q \in Roots : g.root[q] = NULL <=> h.root[q] = NULL
  /\ \E c, w : /\ Shape(g, c, w, k, early)
               /\ w = IF loses THEN have ELSE [have EXCEPT ![d] = Append(@, v)]

\* A node was taken: the cells L moved by n.fwd, c is where the lists are then.
After(h, collects, chain, have, k, early, v, n, L, c) ==
  /\ Moved(h, n.heap, L, n.fwd) /\ Shape(n.heap, c, have, k, early)
  /\ n.node \in Used(n.heap) /\ (\A a \in L : n.fwd[a] # n.node)
  /\ n.heap.mem[n.node].val = v /\ n.heap.mem[n.node].next = NULL
  /\ \A s \in Lines : \A i \in 1 .. Len(c[s]) : c[s][i] # n.node
  /\ \A s \in Lines : /\ Len(c[s]) = Len(chain[s])
                      /\ c[s] \in Seq(Used(n.heap))
                      /\ \A i \in Int : /\ Nth(c[s], i) = n.fwd[Nth(chain[s], i)]
                                        /\ Nth(chain[s], i) \in L \cup {NULL}
  /\ \A a \in Used(h) :
       /\ ~collects => n.fwd[a] = a
       /\ collects => a \notin Used(n.heap) /\ a \in Addr

LEMMA NodeTaken ==
  ASSUME NEW h, NEW chain, NEW have, NEW k \in Nat, NEW early, Shape(h, chain, have, k, early),
         NEW collects \in BOOLEAN, NEW v \in Vals,
         NEW n, n = newnode(h, collects, v, NULL, NULL), n.heap.top <= SIZE
  PROVE  \E L, c : After(h, collects, chain, have, k, early, v, n, L, c)
<1>1. HeapOK(h) /\ h \in Heap
  BY DEF Shape, HeapOK
<1>2. PICK L : /\ Moved(h, n.heap, L, n.fwd)
               /\ n.node \in Used(n.heap) /\ \A a \in L : n.fwd[a] # n.node
               /\ n.heap.mem[n.node].val = v
               /\ n.heap.mem[n.node].next = n.fwd[NULL]
               /\ collects => n.heap.half # h.half
               /\ ~collects => n.fwd = [p \in Pointers |-> p] /\ L = Used(h)
  <2>1. v \in Vals \cup {NULL} /\ NULL \in Used(h) \cup {NULL}
    OBVIOUS
  <2>2. QED
    BY <1>1, <2>1, NewnodeFacts
<1> DEFINE c == Sent(n.fwd, chain)
<1>3. /\ Shape(n.heap, c, have, k, early)
      /\ \A s \in Lines : /\ Len(c[s]) = Len(chain[s])
                          /\ c[s] \in Seq(Used(n.heap))
                          /\ \A i \in Int : /\ Nth(c[s], i) = n.fwd[Nth(chain[s], i)]
                                            /\ Nth(chain[s], i) \in L \cup {NULL}
  <2>1. k \in Int
    OBVIOUS
  <2>2. QED
    BY <1>2, <2>1, MovedShape
<1> HIDE DEF c
<1>4. n.heap \in Heap /\ n.fwd[NULL] = NULL /\ NULL \notin Used(n.heap)
  <2>1. n.heap \in Heap /\ n.fwd[NULL] = NULL
    BY <1>2 DEF Moved, HeapOK
  <2>2. QED
    BY <2>1, UsedFacts
<1>5. ASSUME NEW s \in Lines, NEW i \in 1 .. Len(c[s])
      PROVE  c[s][i] # n.node
  <2>1. Nth(c[s], i) = c[s][i] /\ i \in Int
    BY DEF Nth
  <2>2. c[s][i] = n.fwd[Nth(chain[s], i)] /\ Nth(chain[s], i) \in L \cup {NULL}
    BY <2>1, <1>3
  <2>3. QED
    BY <2>2, <1>2, <1>4
<1>6. ASSUME NEW a \in Used(h)
      PROVE  /\ ~collects => n.fwd[a] = a
             /\ collects => a \notin Used(n.heap) /\ a \in Addr
  <2>1. a \in Addr
    BY <1>1, UsedFacts
  <2>2. CASE collects
    <3>1. Used(h) \cap Used(n.heap) = {}
      BY <1>1, <1>2, <1>4, <2>2, OtherHalf
    <3>2. QED
      BY <2>1, <2>2, <3>1
  <2>3. CASE ~collects
    BY <1>2, <2>1, <2>3 DEF Pointers
  <2>4. QED
    BY <2>2, <2>3
<1>7. /\ Moved(h, n.heap, L, n.fwd) /\ Shape(n.heap, c, have, k, early)
      /\ n.node \in Used(n.heap) /\ (\A a \in L : n.fwd[a] # n.node)
      /\ n.heap.mem[n.node].val = v /\ n.heap.mem[n.node].next = NULL
  BY <1>2, <1>3, <1>4
<1>8. After(h, collects, chain, have, k, early, v, n, L, c)
  BY <1>3, <1>5, <1>6, <1>7 DEF After
<1>9. QED
  BY <1>8

IsMemory(h) == h = [mem |-> h.mem, half |-> h.half, top |-> h.top, root |-> h.root]

LEMMA NewnodeMemory ==
  ASSUME NEW h, HeapOK(h), NEW collects, NEW v, NEW u, NEW r
  PROVE  IsMemory(newnode(h, collects, v, u, r).heap)
<1> DEFINE live == Live(h, {u, r})
           f == IF collects THEN Forwards(h, live) ELSE [p \in Pointers |-> p]
           g == IF collects THEN Collect(h, {u, r}) ELSE h
           p == NextCell(g)
           c == [val |-> v, u |-> f[u], next |-> f[r]]
<1>1. newnode(h, collects, v, u, r) =
        [heap |-> [g EXCEPT !.mem[p] = c, !.top = @ + 1], node |-> p, fwd |-> f]
  BY DEF newnode, NextCell
<1>2. IsMemory(g)
  <2>1. CASE collects
    BY <2>1 DEF Collect, IsMemory
  <2>2. CASE ~collects
    BY <2>2 DEF HeapOK, Heap, IsMemory
  <2>3. QED
    BY <2>1, <2>2
<1> HIDE DEF f, g, p, c
<1>3. newnode(h, collects, v, u, r).heap = [g EXCEPT !.mem[p] = c, !.top = @ + 1]
  BY <1>1
<1>4. [g EXCEPT !.mem[p] = c, !.top = @ + 1]
      = [mem |-> [g.mem EXCEPT ![p] = c], half |-> g.half, top |-> g.top + 1, root |-> g.root]
  <2>1. g = [mem |-> g.mem, half |-> g.half, top |-> g.top, root |-> g.root]
    BY <1>2 DEF IsMemory
  <2> SUFFICES ASSUME NEW k, k = [g EXCEPT !.mem[p] = c, !.top = @ + 1]
               PROVE  k = [mem |-> [g.mem EXCEPT ![p] = c], half |-> g.half,
                           top |-> g.top + 1, root |-> g.root]
    OBVIOUS
  <2>2. QED
    BY <2>1
<1>5. QED
  BY <1>3, <1>4 DEF IsMemory

LEMMA PutMemory ==
  ASSUME NEW h, IsMemory(h), NEW x, NEW p
  PROVE  /\ IsMemory(PutU(h, x, p)) /\ PutU(h, x, p).top = h.top
         /\ IsMemory(PutNext(h, x, p)) /\ PutNext(h, x, p).top = h.top
<1> DEFINE m == [h.mem EXCEPT ![x].u = p]
           o == [h.mem EXCEPT ![x].next = p]
<1>1. PutU(h, x, p) = [h EXCEPT !.mem = m]
  BY DEF PutU
<1>2. PutNext(h, x, p) = [h EXCEPT !.mem = o]
  BY DEF PutNext
<1> HIDE DEF m, o
<1>3. PutU(h, x, p) = [mem |-> m, half |-> h.half, top |-> h.top, root |-> h.root]
  BY <1>1 DEF IsMemory
<1>4. PutNext(h, x, p) = [mem |-> o, half |-> h.half, top |-> h.top, root |-> h.root]
  BY <1>2 DEF IsMemory
<1>5. QED
  BY <1>3, <1>4 DEF IsMemory

\* DMP2 = newnode(v); DMP3 = DMP2;
LEMMA StoredFirst ==
  ASSUME lvalueFirst \in BOOLEAN, NEW early \in BOOLEAN,
         NEW h, NEW chain, NEW have, NEW k \in Nat, Shape(h, chain, have, k, early),
         NEW d \in Heads, h.root[d] # NULL, h.root[LastOf(d)] # NULL, DMP(h, d) = NULL,
         NEW collects \in BOOLEAN, NEW loses \in BOOLEAN, loses <=> lvalueFirst /\ collects,
         loses => early, NEW v \in Vals,
         NEW g, g = First(h, collects, v, d), g.top <= SIZE
  PROVE  Stored(h, g, have, k, loses, early, d, v)
<1> DEFINE n == newnode(h, collects, v, NULL, NULL)
           x == IF lvalueFirst THEN h.root[d] ELSE n.fwd[h.root[d]]
           g1 == PutU(n.heap, x, n.node)
           y == g1.root[LastOf(d)]
<1>1. g = PutU(g1, y, DMP(g1, d))
  BY DEF First, PutU
<1>2. n.heap.top <= SIZE
  <2>1. HeapOK(h)
    BY DEF Shape
  <2>2. IsMemory(n.heap)
    BY <2>1, NewnodeMemory
  <2> HIDE DEF n, x
  <2>3. IsMemory(g1) /\ g1.top = n.heap.top
    BY <2>2, PutMemory
  <2> HIDE DEF g1, y
  <2>4. g.top = g1.top
    BY <1>1, <2>3, PutMemory
  <2>5. QED
    BY <2>3, <2>4
<1>3. PICK L, c : After(h, collects, chain, have, k, early, v, n, L, c)
  <2> HIDE DEF n
  <2>1. n = newnode(h, collects, v, NULL, NULL)
    BY DEF n
  <2>2. QED
    BY <1>2, <2>1, NodeTaken
<1> HIDE DEF n
<1>4. /\ Moved(h, n.heap, L, n.fwd) /\ Shape(n.heap, c, have, k, early)
      /\ n.node \in Used(n.heap) /\ (\A a \in L : n.fwd[a] # n.node)
      /\ n.heap.mem[n.node].val = v /\ n.heap.mem[n.node].next = NULL
      /\ \A s \in Lines : \A i \in 1 .. Len(c[s]) : c[s][i] # n.node
      /\ \A s \in Lines : Len(c[s]) = Len(chain[s]) /\ c[s] \in Seq(Used(n.heap))
      /\ \A a \in Used(h) :
           /\ ~collects => n.fwd[a] = a
           /\ collects => a \notin Used(n.heap) /\ a \in Addr
  BY <1>3 DEF After
<1>5. /\ d \in Lines /\ d \in Dumps /\ LastOf(d) \in Dumps /\ LastOf(d) # d
      /\ d \in Roots /\ LastOf(d) \in Roots
  BY DEF Heads, Lines, Dumps, Roots, LastOf
<1>6. /\ HeapOK(n.heap) /\ Used(n.heap) \subseteq Addr /\ NULL \notin Used(n.heap) /\ NULL \notin L
      /\ n.fwd[NULL] = NULL /\ (\A a \in L : n.fwd[a] \in Used(n.heap)) /\ L \subseteq Used(h)
      /\ \A q \in Roots : h.root[q] \in L \cup {NULL} /\ n.heap.root[q] = n.fwd[h.root[q]]
  <2>1. HeapOK(n.heap) /\ n.heap \in Heap /\ h \in Heap /\ L \subseteq Used(h)
    BY <1>4 DEF Moved, HeapOK
  <2>2. QED
    BY <1>4, <2>1, UsedFacts DEF Moved
<1>7. \A q \in Roots : n.heap.root[q] = NULL <=> h.root[q] = NULL
  BY <1>6
<1>8. c[d] = <<>>
  <2>1. Nth(chain[d], 1) = NULL
    BY DEF Shape, Placed
  <2>2. chain[d] \in Seq(Used(h))
    BY <1>5 DEF Shape, Chained
  <2>3. Len(chain[d]) \in Nat /\ \A i \in 1 .. Len(chain[d]) : chain[d][i] \in Used(h)
    BY <2>2, LenProperties, ElementOfSeq
  <2>4. NULL \notin Used(h)
    BY UsedFacts DEF Shape, HeapOK
  <2>5. Len(chain[d]) = 0
    BY <2>1, <2>3, <2>4 DEF Nth
  <2>6. QED
    BY <2>5, <1>4, <1>5, EmptySeq
<1>9. /\ x \in Addr /\ (~loses => x = n.heap.root[d])
      /\ loses => early /\ x \notin Used(n.heap)
  <2>1. h.root[d] \in L /\ n.heap.root[d] = n.fwd[h.root[d]] /\ n.fwd[h.root[d]] \in Addr
    BY <1>5, <1>6
  <2>2. (lvalueFirst => x = h.root[d]) /\ (~lvalueFirst => x = n.fwd[h.root[d]])
    BY Zenon
  <2> HIDE DEF x
  <2>3. /\ ~collects => n.fwd[h.root[d]] = h.root[d]
        /\ collects => h.root[d] \notin Used(n.heap) /\ h.root[d] \in Addr
    BY <1>4, <1>6, <2>1
  <2>4. CASE lvalueFirst
    BY <2>1, <2>2, <2>3, <2>4
  <2>5. CASE ~lvalueFirst
    BY <2>1, <2>2, <2>5
  <2>6. QED
    BY <2>4, <2>5
<1> HIDE DEF x
<1>10. /\ HeapOK(g1) /\ Used(g1) = Used(n.heap) /\ g1.root = n.heap.root
       /\ \A a \in Addr : /\ g1.mem[a].val = n.heap.mem[a].val
                          /\ g1.mem[a].next = n.heap.mem[a].next
                          /\ g1.mem[a].u = IF a = x THEN n.node ELSE n.heap.mem[a].u
  <2>1. n.node \in Used(n.heap) \cup {NULL} /\ HeapOK(n.heap) /\ x \in Addr
    BY <1>4, <1>6, <1>9
  <2>2. QED
    BY <2>1, PutUFacts
<1> HIDE DEF g1
<1>11. y \in Used(n.heap) /\ y = n.heap.root[LastOf(d)] /\ y # n.heap.root[d]
  <2>1. y = n.heap.root[LastOf(d)] /\ n.heap.root[LastOf(d)] # NULL /\ n.heap.root[d] # NULL
    BY <1>5, <1>7, <1>10
  <2>2. QED
    BY <2>1, <1>4, <1>5, <1>6 DEF Shape, Placed, HeapOK
<1> HIDE DEF y
<1> DEFINE p == DMP(g1, d)
<1>12. p \in Used(g1) \cup {NULL}
  <2>1. g1.root[d] \in Used(g1)
    BY <1>5, <1>7, <1>10 DEF HeapOK
  <2>2. QED
    BY <1>10, <2>1 DEF HeapOK, DMP
<1> HIDE DEF p
<1>13. /\ HeapOK(g) /\ Used(g) = Used(n.heap) /\ g.root = n.heap.root
       /\ \A a \in Addr : /\ g.mem[a].val = g1.mem[a].val
                          /\ g.mem[a].next = g1.mem[a].next
                          /\ g.mem[a].u = IF a = y THEN p ELSE g1.mem[a].u
  <2>1. g = PutU(g1, y, p) /\ HeapOK(g1) /\ y \in Addr
    BY <1>1, <1>6, <1>10, <1>11 DEF p
  <2>2. /\ HeapOK(g) /\ Used(g) = Used(g1) /\ g.root = g1.root
        /\ \A a \in Addr : /\ g.mem[a].val = g1.mem[a].val
                           /\ g.mem[a].next = g1.mem[a].next
                           /\ g.mem[a].u = IF a = y THEN p ELSE g1.mem[a].u
    BY <2>1, <1>12, PutUFacts
  <2>3. QED
    BY <2>2, <1>10
<1>14. DMP(g, LastOf(d)) = p
  BY <1>6, <1>11, <1>13 DEF DMP
<1>15. ASSUME NEW q \in Dumps, q # LastOf(d), n.heap.root[q] # NULL
       PROVE  DMP(g, q) = DMP(g1, q) /\ n.heap.root[q] \in Addr
  <2>1. n.heap.root[q] \in Used(n.heap) /\ n.heap.root[q] # y
    <3>1. q \in Roots
      BY DEF Roots
    <3>2. QED
      BY <3>1, <1>4, <1>5, <1>6, <1>11, <1>15 DEF Shape, Placed, HeapOK
  <2>2. QED
    BY <2>1, <1>6, <1>10, <1>13 DEF DMP
<1>16. \A a \in Addr : g.mem[a].val = n.heap.mem[a].val /\ g.mem[a].next = n.heap.mem[a].next
  BY <1>10, <1>13
<1>17. CASE ~loses
  <2>1. p = n.node
    BY <1>9, <1>10, <1>17 DEF p, DMP
  <2>2. DMP(g, d) = n.node
    BY <2>1, <1>5, <1>7, <1>15 DEF p
  <2>3. ASSUME NEW q \in Dumps \ {d, LastOf(d)}, n.heap.root[q] # NULL
        PROVE  DMP(g, q) = DMP(n.heap, q)
    <3>1. n.heap.root[q] # x
      BY <2>3, <1>4, <1>5, <1>9, <1>17 DEF Shape, Placed
    <3>2. QED
      BY <2>3, <3>1, <1>10, <1>15 DEF DMP
  <2>4. Longer(n.heap, g, c, d, n.node)
    BY <1>8, <1>13, <1>14, <1>16, <2>1, <2>2, <2>3 DEF Longer
  <2>5. Shape(g, [c EXCEPT ![d] = Append(@, n.node)], [have EXCEPT ![d] = Append(@, v)], k, early)
    <3>1. n.heap.root[d] # NULL
      BY <1>5, <1>7
    <3>2. QED
      BY <1>4, <2>4, <3>1, LongerShape
  <2>6. QED
    BY <2>5, <1>7, <1>13, <1>17 DEF Stored
<1>18. CASE loses
  <2>1. ASSUME NEW q \in Dumps, n.heap.root[q] # NULL
        PROVE  DMP(g1, q) = DMP(n.heap, q)
    <3>1. n.heap.root[q] \in Used(n.heap)
      BY <2>1, <1>6 DEF HeapOK, Roots
    <3>2. QED
      BY <3>1, <1>6, <1>9, <1>10, <1>18 DEF DMP
  <2>2. p = NULL
    <3>1. n.heap.root[d] # NULL
      BY <1>5, <1>7
    <3>2. DMP(n.heap, d) = Nth(c[d], 1)
      BY <3>1, <1>4 DEF Shape, Placed
    <3>3. Nth(c[d], 1) = NULL
      BY <1>8 DEF Nth
    <3>4. QED
      BY <2>1, <3>1, <3>2, <3>3, <1>5 DEF p
  <2>3. Shape(g, c, have, k, TRUE)
    <3>1. Shape(n.heap, c, have, k, TRUE)
      BY <1>4, <1>9, <1>18
    <3>2. \A q \in Dumps \ {LastOf(d)} : n.heap.root[q] # NULL => DMP(g, q) = DMP(n.heap, q)
      BY <2>1, <1>15
    <3>3. \A a \in Used(n.heap) : g.mem[a].val = n.heap.mem[a].val /\ g.mem[a].next = n.heap.mem[a].next
      BY <1>6, <1>16
    <3>4. DMP(g, LastOf(d)) = NULL
      BY <1>14, <2>2
    <3>5. QED
      BY <3>1, <3>2, <3>3, <3>4, <1>13, LostShape
  <2>4. QED
    BY <2>3, <1>7, <1>9, <1>13, <1>18 DEF Stored
<1>19. QED
  BY <1>17, <1>18

\* DMP3->next = newnode(v); DMP3 = DMP3->next;
LEMMA StoredFurther ==
  ASSUME lvalueFirst \in BOOLEAN, NEW early \in BOOLEAN,
         NEW h, NEW chain, NEW have, NEW k \in Nat, Shape(h, chain, have, k, early),
         NEW d \in Heads, h.root[d] # NULL, h.root[LastOf(d)] # NULL,
         DMP(h, LastOf(d)) # NULL,
         NEW collects \in BOOLEAN, NEW loses \in BOOLEAN, loses <=> lvalueFirst /\ collects,
         loses => early, NEW v \in Vals,
         NEW g, g = Further(h, collects, v, d), g.top <= SIZE
  PROVE  Stored(h, g, have, k, loses, early, d, v)
<1> DEFINE n == newnode(h, collects, v, NULL, NULL)
           z == DMP(h, LastOf(d))
           x == IF lvalueFirst THEN z ELSE n.fwd[z]
           g1 == PutNext(n.heap, x, n.node)
           y == g1.root[LastOf(d)]
           p == g1.mem[DMP(g1, LastOf(d))].next
<1>1. g = PutU(g1, y, p)
  BY DEF Further, PutU, PutNext
<1>2. n.heap.top <= SIZE
  <2>1. HeapOK(h)
    BY DEF Shape
  <2>2. IsMemory(n.heap)
    BY <2>1, NewnodeMemory
  <2> HIDE DEF n, x
  <2>3. IsMemory(g1) /\ g1.top = n.heap.top
    BY <2>2, PutMemory
  <2> HIDE DEF g1, y, p
  <2>4. g.top = g1.top
    BY <1>1, <2>3, PutMemory
  <2>5. QED
    BY <2>3, <2>4
<1>3. PICK L, c : After(h, collects, chain, have, k, early, v, n, L, c)
  <2> HIDE DEF n
  <2>1. n = newnode(h, collects, v, NULL, NULL)
    BY DEF n
  <2>2. QED
    BY <1>2, <2>1, NodeTaken
<1> HIDE DEF n
<1>4. /\ Moved(h, n.heap, L, n.fwd) /\ Shape(n.heap, c, have, k, early)
      /\ n.node \in Used(n.heap) /\ (\A a \in L : n.fwd[a] # n.node)
      /\ n.heap.mem[n.node].val = v /\ n.heap.mem[n.node].next = NULL
      /\ \A s \in Lines : \A i \in 1 .. Len(c[s]) : c[s][i] # n.node
      /\ \A s \in Lines : /\ Len(c[s]) = Len(chain[s]) /\ c[s] \in Seq(Used(n.heap))
                          /\ \A i \in Int : /\ Nth(c[s], i) = n.fwd[Nth(chain[s], i)]
                                            /\ Nth(chain[s], i) \in L \cup {NULL}
      /\ \A a \in Used(h) :
           /\ ~collects => n.fwd[a] = a
           /\ collects => a \notin Used(n.heap) /\ a \in Addr
  BY <1>3 DEF After
<1>5. /\ d \in Lines /\ d \in Dumps /\ LastOf(d) \in Dumps /\ LastOf(d) # d
      /\ d \in Roots /\ LastOf(d) \in Roots
  BY DEF Heads, Lines, Dumps, Roots, LastOf
<1>6. /\ HeapOK(n.heap) /\ Used(n.heap) \subseteq Addr /\ NULL \notin Used(n.heap) /\ NULL \notin L
      /\ n.fwd[NULL] = NULL /\ (\A a \in L : n.fwd[a] \in Used(n.heap)) /\ L \subseteq Used(h)
      /\ \A q \in Roots : h.root[q] \in L \cup {NULL} /\ n.heap.root[q] = n.fwd[h.root[q]]
  <2>1. HeapOK(n.heap) /\ n.heap \in Heap /\ h \in Heap /\ L \subseteq Used(h)
    BY <1>4 DEF Moved, HeapOK
  <2>2. QED
    BY <1>4, <2>1, UsedFacts DEF Moved
<1>7. \A q \in Roots : n.heap.root[q] = NULL <=> h.root[q] = NULL
  BY <1>6
<1> DEFINE m == Len(c[d])
           last == n.fwd[z]
<1>8. /\ m \in Nat /\ m = Len(chain[d]) /\ z = Nth(chain[d], m) /\ z \in L
      /\ last = Nth(c[d], m) /\ last = c[d][m] /\ m \in 1 .. m
      /\ last \in Used(n.heap) /\ last \in Addr /\ c[d] # <<>>
  <2>1. chain[d] \in Seq(Used(h)) /\ m = Len(chain[d]) /\ m \in Nat
    BY <1>4, <1>5, LenProperties DEF Shape, Chained
  <2>2. z = Nth(chain[d], m)
    BY <2>1 DEF Shape, Placed
  <2>3. z \in L /\ last = Nth(c[d], m)
    BY <1>4, <1>5, <2>1, <2>2
  <2>4. last \in Used(n.heap) /\ last \in Addr
    BY <1>6, <2>3
  <2>5. m \in 1 .. m
    BY <2>2 DEF Nth
  <2>6. last = c[d][m]
    BY <2>3, <2>5 DEF Nth
  <2>7. c[d] # <<>>
    BY <2>5
  <2>8. QED
    BY <2>1, <2>2, <2>3, <2>4, <2>5, <2>6, <2>7
<1>9. DMP(n.heap, LastOf(d)) = last
  <2>1. h.root[LastOf(d)] \in L /\ n.heap.root[LastOf(d)] = n.fwd[h.root[LastOf(d)]]
    BY <1>5, <1>6
  <2>2. QED
    BY <1>4, <2>1 DEF Moved, DMP
<1>10. n.heap.mem[last].next = NULL
  <2>1. n.heap.mem[c[d][m]].next = Nth(c[d], m + 1)
    BY <1>4, <1>5, <1>8 DEF Shape, Chained
  <2>2. Nth(c[d], m + 1) = NULL
    BY <1>8 DEF Nth
  <2>3. QED
    BY <1>8, <2>1, <2>2
<1>11. /\ x \in Addr /\ (~loses => x = last)
       /\ loses => early /\ x \notin Used(n.heap)
  <2>1. (lvalueFirst => x = z) /\ (~lvalueFirst => x = last)
    BY Zenon
  <2>2. /\ ~collects => last = z
        /\ collects => z \notin Used(n.heap) /\ z \in Addr
    BY <1>4, <1>6, <1>8
  <2> HIDE DEF x, z, last
  <2>3. CASE lvalueFirst
    BY <1>8, <2>1, <2>2, <2>3
  <2>4. CASE ~lvalueFirst
    BY <1>8, <2>1, <2>4
  <2>5. QED
    BY <2>3, <2>4
<1> HIDE DEF x, z, last, m
<1>12. /\ HeapOK(g1) /\ Used(g1) = Used(n.heap) /\ g1.root = n.heap.root
       /\ \A a \in Addr : /\ g1.mem[a].val = n.heap.mem[a].val
                          /\ g1.mem[a].u = n.heap.mem[a].u
                          /\ g1.mem[a].next = IF a = x THEN n.node ELSE n.heap.mem[a].next
  <2>1. n.node \in Used(n.heap) \cup {NULL} /\ HeapOK(n.heap) /\ x \in Addr
    BY <1>4, <1>6, <1>11
  <2>2. QED
    BY <2>1, PutNextFacts
<1> HIDE DEF g1
<1>13. /\ y \in Used(n.heap) /\ y = n.heap.root[LastOf(d)]
       /\ \A q \in Dumps : q # LastOf(d) => n.heap.root[q] # y
  <2>1. y = n.heap.root[LastOf(d)] /\ n.heap.root[LastOf(d)] # NULL
    BY <1>5, <1>7, <1>12
  <2>2. QED
    BY <2>1, <1>4, <1>5, <1>6 DEF Shape, Placed, HeapOK
<1> HIDE DEF y
<1>14. ASSUME NEW q \in Dumps, n.heap.root[q] # NULL
       PROVE  DMP(g1, q) = DMP(n.heap, q) /\ n.heap.root[q] \in Addr
  <2>1. n.heap.root[q] \in Addr
    BY <1>14, <1>6 DEF HeapOK, Roots
  <2>2. QED
    BY <2>1, <1>12 DEF DMP
<1>15. p = (IF last = x THEN n.node ELSE NULL)
  <2>1. DMP(g1, LastOf(d)) = last
    BY <1>5, <1>7, <1>9, <1>14
  <2>2. QED
    BY <2>1, <1>8, <1>10, <1>12
<1> HIDE DEF p
<1>16. /\ HeapOK(g) /\ Used(g) = Used(n.heap) /\ g.root = n.heap.root
       /\ \A a \in Addr : /\ g.mem[a].val = g1.mem[a].val
                          /\ g.mem[a].next = g1.mem[a].next
                          /\ g.mem[a].u = IF a = y THEN p ELSE g1.mem[a].u
  <2>1. g = PutU(g1, y, p) /\ HeapOK(g1) /\ y \in Addr /\ p \in Used(g1) \cup {NULL}
    BY <1>1, <1>4, <1>6, <1>12, <1>13, <1>15
  <2>2. /\ HeapOK(g) /\ Used(g) = Used(g1) /\ g.root = g1.root
        /\ \A a \in Addr : /\ g.mem[a].val = g1.mem[a].val
                           /\ g.mem[a].next = g1.mem[a].next
                           /\ g.mem[a].u = IF a = y THEN p ELSE g1.mem[a].u
    BY <2>1, PutUFacts
  <2>3. QED
    BY <2>2, <1>12
<1>17. DMP(g, LastOf(d)) = p
  BY <1>6, <1>13, <1>16 DEF DMP
<1>18. ASSUME NEW q \in Dumps, q # LastOf(d), n.heap.root[q] # NULL
       PROVE  DMP(g, q) = DMP(n.heap, q)
  BY <1>12, <1>13, <1>14, <1>16, <1>18 DEF DMP
<1>19. \A a \in Addr : /\ g.mem[a].val = n.heap.mem[a].val
                       /\ g.mem[a].next = IF a = x THEN n.node ELSE n.heap.mem[a].next
  BY <1>12, <1>16
<1>20. CASE ~loses
  <2>0. x = last
    BY <1>11, <1>20
  <2>1. p = n.node
    BY <1>15, <2>0
  <2>2. DMP(g, d) = Nth(c[d], 1)
    BY <1>4, <1>5, <1>7, <1>18 DEF Shape, Placed
  <2>3. Longer(n.heap, g, c, d, n.node)
    <3>1. \A q \in Dumps \ {d, LastOf(d)} : n.heap.root[q] # NULL => DMP(g, q) = DMP(n.heap, q)
      BY <1>18
    <3>2. \A a \in Addr : a # Nth(c[d], Len(c[d])) => g.mem[a].next = n.heap.mem[a].next
      BY <1>8, <1>19, <2>0 DEF m
    <3>3. g.mem[Nth(c[d], Len(c[d]))].next = n.node
      BY <1>8, <1>19, <2>0 DEF m
    <3>4. QED
      BY <1>8, <1>16, <1>17, <1>19, <2>1, <2>2, <3>1, <3>2, <3>3 DEF Longer
  <2>4. Shape(g, [c EXCEPT ![d] = Append(@, n.node)], [have EXCEPT ![d] = Append(@, v)], k, early)
    <3>1. n.heap.root[d] # NULL
      BY <1>5, <1>7
    <3>2. QED
      BY <1>4, <2>3, <3>1, LongerShape
  <2>5. QED
    BY <2>4, <1>7, <1>16, <1>20 DEF Stored
<1>21. CASE loses
  <2>1. p = NULL
    BY <1>8, <1>11, <1>15, <1>21
  <2>2. Shape(g, c, have, k, TRUE)
    <3>1. Shape(n.heap, c, have, k, TRUE)
      BY <1>4, <1>11, <1>21
    <3>2. \A q \in Dumps \ {LastOf(d)} : n.heap.root[q] # NULL => DMP(g, q) = DMP(n.heap, q)
      BY <1>18
    <3>3. \A a \in Used(n.heap) : g.mem[a].val = n.heap.mem[a].val /\ g.mem[a].next = n.heap.mem[a].next
      BY <1>6, <1>11, <1>19, <1>21
    <3>4. DMP(g, LastOf(d)) = NULL
      BY <1>17, <2>1
    <3>5. QED
      BY <3>1, <3>2, <3>3, <3>4, <1>16, LostShape
  <2>3. QED
    BY <2>2, <1>7, <1>11, <1>16, <1>21 DEF Stored
<1>22. QED
  BY <1>20, <1>21

-----------------------------------------------------------------------------
(* What is left of a list. *)

Picking(a, N, keep, sub) ==
  sub = [n \in 0 .. N |->
           IF n = 0 THEN <<>>
           ELSE sub[n - 1] \o (IF n \in keep THEN <<a[n]>> ELSE <<>>)]

AtBy(a, N, keep, sub) ==
  /\ At(a, N, keep) = sub[N]
  /\ sub[0] = <<>>
  /\ \A n \in 0 .. N : sub[n] \in Seq(Vals)
  /\ \A n \in 1 .. N : sub[n] = sub[n - 1] \o (IF n \in keep THEN <<a[n]>> ELSE <<>>)

LEMMA AtReading ==
  ASSUME NEW a \in Seq(Vals), NEW N \in Nat, N <= Len(a), NEW keep
  PROVE  \E sub : AtBy(a, N, keep, sub)
<1> DEFINE S == Seq(Vals)
           More(n, x) == x \o (IF n \in keep THEN <<a[n]>> ELSE <<>>)
           F == [n \in Nat |-> [x \in S |-> More(n, x)]]
<1>1. <<>> \in S
  OBVIOUS
<1>2. ASSUME NEW n \in 1 .. N, NEW x \in S PROVE More(n, x) \in S
  <2>1. a[n] \in Vals
    <3>1. n \in 1 .. Len(a)
      BY LenProperties
    <3>2. QED
      BY <3>1, ElementOfSeq
  <2>2. <<a[n]>> \in S
    BY <2>1
  <2>3. (IF n \in keep THEN <<a[n]>> ELSE <<>>) \in S
    BY <1>1, <2>2
  <2>4. QED
    BY <2>3, ConcatProperties
<1> HIDE DEF F, S, More
<1>3. PICK sub : Goes(N, <<>>, F, sub)
  BY Recursion
<1>4. ASSUME NEW m \in 0 .. N PROVE sub[m] \in S
  <2> DEFINE T == {k \in Nat : k <= N => sub[k] \in S}
  <2>1. 0 \in T
    BY <1>1, <1>3 DEF Goes
  <2>2. ASSUME NEW k \in Nat, k \in T PROVE k + 1 \in T
    <3> SUFFICES ASSUME k + 1 <= N PROVE sub[k + 1] \in S
      OBVIOUS
    <3>1. sub[k] \in S /\ k + 1 \in 1 .. N /\ k + 1 \in 0 .. N /\ k + 1 # 0 /\ (k + 1) - 1 = k
      BY <2>2
    <3>2. sub[k + 1] = F[k + 1][sub[k]]
      BY <1>3, <3>1 DEF Goes
    <3>3. F[k + 1][sub[k]] = More(k + 1, sub[k])
      BY <3>1 DEF F
    <3>4. QED
      BY <3>1, <3>2, <3>3, <1>2
  <2> HIDE DEF T
  <2>3. Nat \subseteq T
    BY <2>1, <2>2, Induct
  <2>4. QED
    BY <2>3 DEF T
<1>5. ASSUME NEW m \in 1 .. N PROVE F[m][sub[m - 1]] = More(m, sub[m - 1])
  <2>1. m \in Nat /\ m - 1 \in 0 .. N
    OBVIOUS
  <2>2. sub[m - 1] \in S
    BY <2>1, <1>4
  <2>3. QED
    BY <2>1, <2>2 DEF F
<1>6. Picking(a, N, keep, sub)
  <2>1. ASSUME NEW n \in 0 .. N
        PROVE  (IF n = 0 THEN <<>> ELSE F[n][sub[n - 1]])
               = IF n = 0 THEN <<>> ELSE sub[n - 1] \o (IF n \in keep THEN <<a[n]>> ELSE <<>>)
    <3>1. CASE n = 0
      BY <3>1
    <3>2. CASE n # 0
      <4>1. n \in 1 .. N
        BY <3>2
      <4>2. QED
        BY <3>2, <4>1, <1>5 DEF More
    <3>3. QED
      BY <3>1, <3>2
  <2>2. QED
    BY <1>3, <2>1 DEF Goes, Picking
<1> DEFINE the == CHOOSE f : Picking(a, N, keep, f)
<1>7. Picking(a, N, keep, the)
  BY <1>6
<1>8. At(a, N, keep) = the[N]
  BY DEF At, Picking
<1> HIDE DEF the
<1>9. the[0] = <<>>
  BY <1>7 DEF Picking
<1>10. ASSUME NEW n \in 1 .. N
       PROVE  the[n] = the[n - 1] \o (IF n \in keep THEN <<a[n]>> ELSE <<>>)
  <2>1. n \in 0 .. N /\ n # 0
    OBVIOUS
  <2>2. QED
    BY <1>7, <2>1 DEF Picking
<1>11. ASSUME NEW m \in 0 .. N PROVE the[m] \in S
  <2> DEFINE T == {k \in Nat : k <= N => the[k] \in S}
  <2>1. 0 \in T
    BY <1>1, <1>9
  <2>2. ASSUME NEW k \in Nat, k \in T PROVE k + 1 \in T
    <3> SUFFICES ASSUME k + 1 <= N PROVE the[k + 1] \in S
      OBVIOUS
    <3>1. the[k] \in S /\ k + 1 \in 1 .. N /\ (k + 1) - 1 = k
      BY <2>2
    <3>2. the[k + 1] = More(k + 1, the[k])
      BY <1>10, <3>1 DEF More
    <3>3. QED
      BY <3>1, <3>2, <1>2
  <2> HIDE DEF T
  <2>3. Nat \subseteq T
    BY <2>1, <2>2, Induct
  <2>4. QED
    BY <2>3 DEF T
<1>12. AtBy(a, N, keep, the)
  BY <1>8, <1>9, <1>10, <1>11 DEF S, AtBy
<1>13. QED
  BY <1>12

\* Only the first elements and their places matter.
LEMMA AtSame ==
  ASSUME NEW a \in Seq(Vals), NEW b \in Seq(Vals), NEW N \in Nat, N <= Len(a), N <= Len(b),
         NEW K, NEW L, \A i \in 1 .. N : a[i] = b[i] /\ (i \in K <=> i \in L)
  PROVE  At(b, N, L) = At(a, N, K) /\ At(a, N, K) \in Seq(Vals)
<1>1. PICK f : AtBy(a, N, K, f)
  BY AtReading
<1>2. PICK g : AtBy(b, N, L, g)
  BY AtReading
<1>3. /\ At(a, N, K) = f[N] /\ f[0] = <<>> /\ f[N] \in Seq(Vals)
      /\ \A n \in 1 .. N : f[n] = f[n - 1] \o (IF n \in K THEN <<a[n]>> ELSE <<>>)
  <2>1. N \in 0 .. N
    OBVIOUS
  <2>2. QED
    BY <1>1, <2>1 DEF AtBy
<1>4. /\ At(b, N, L) = g[N] /\ g[0] = <<>>
      /\ \A n \in 1 .. N : g[n] = g[n - 1] \o (IF n \in L THEN <<b[n]>> ELSE <<>>)
  BY <1>2 DEF AtBy
<1> DEFINE T == {m \in Nat : m <= N => g[m] = f[m]}
<1>5. 0 \in T
  BY <1>3, <1>4
<1>6. ASSUME NEW m \in Nat, m \in T PROVE m + 1 \in T
  <2> SUFFICES ASSUME m + 1 <= N PROVE g[m + 1] = f[m + 1]
    OBVIOUS
  <2>1. g[m] = f[m] /\ m + 1 \in 1 .. N /\ (m + 1) - 1 = m
    BY <1>6
  <2>2. a[m + 1] = b[m + 1] /\ (m + 1 \in K <=> m + 1 \in L)
    BY <2>1
  <2>3. g[m + 1] = g[m] \o (IF m + 1 \in L THEN <<b[m + 1]>> ELSE <<>>)
    BY <1>4, <2>1
  <2>4. f[m + 1] = f[m] \o (IF m + 1 \in K THEN <<a[m + 1]>> ELSE <<>>)
    BY <1>3, <2>1
  <2>5. QED
    BY <2>1, <2>2, <2>3, <2>4
<1>7. g[N] = f[N]
  <2> HIDE DEF T
  <2>1. Nat \subseteq T
    BY <1>5, <1>6, Induct
  <2>2. QED
    BY <2>1 DEF T
<1>8. QED
  BY <1>3, <1>4, <1>7

\* One more element is kept or not.
LEMMA AtMore ==
  ASSUME NEW a \in Seq(Vals), NEW k \in Nat, k < Len(a), NEW keep
  PROVE  /\ At(a, k, keep) \in Seq(Vals)
         /\ At(a, k + 1, keep) =
              IF k + 1 \in keep THEN Append(At(a, k, keep), a[k + 1]) ELSE At(a, k, keep)
<1>1. k + 1 \in Nat /\ k + 1 \in 1 .. Len(a) /\ k <= Len(a) /\ k + 1 <= Len(a) /\ (k + 1) - 1 = k
  BY LenProperties
<1>2. PICK g : AtBy(a, k + 1, keep, g)
  BY <1>1, AtReading
<1>3. PICK f : AtBy(a, k, keep, f)
  BY <1>1, AtReading
<1>4. /\ At(a, k, keep) = f[k] /\ f[0] = <<>> /\ f[k] \in Seq(Vals)
      /\ \A n \in 1 .. k : f[n] = f[n - 1] \o (IF n \in keep THEN <<a[n]>> ELSE <<>>)
  <2>1. k \in 0 .. k
    OBVIOUS
  <2>2. QED
    BY <1>3, <2>1 DEF AtBy
<1>5. /\ At(a, k + 1, keep) = g[k + 1] /\ g[0] = <<>>
      /\ \A n \in 1 .. (k + 1) : g[n] = g[n - 1] \o (IF n \in keep THEN <<a[n]>> ELSE <<>>)
  BY <1>2 DEF AtBy
<1> DEFINE T == {m \in Nat : m <= k => g[m] = f[m]}
<1>6. 0 \in T
  BY <1>4, <1>5
<1>7. ASSUME NEW m \in Nat, m \in T PROVE m + 1 \in T
  <2> SUFFICES ASSUME m + 1 <= k PROVE g[m + 1] = f[m + 1]
    OBVIOUS
  <2>1. g[m] = f[m] /\ m + 1 \in 1 .. k /\ m + 1 \in 1 .. (k + 1) /\ (m + 1) - 1 = m
    BY <1>7
  <2>2. QED
    BY <1>4, <1>5, <2>1
<1>8. g[k] = f[k]
  <2> HIDE DEF T
  <2>1. Nat \subseteq T
    BY <1>6, <1>7, Induct
  <2>2. QED
    BY <2>1 DEF T
<1>9. At(a, k + 1, keep) = f[k] \o (IF k + 1 \in keep THEN <<a[k + 1]>> ELSE <<>>)
  <2>1. k + 1 \in 1 .. (k + 1)
    OBVIOUS
  <2>2. g[k + 1] = g[k] \o (IF k + 1 \in keep THEN <<a[k + 1]>> ELSE <<>>)
    BY <1>1, <1>5, <2>1
  <2>3. QED
    BY <1>5, <1>8, <2>2
<1>10. a[k + 1] \in Vals
  BY <1>1, ElementOfSeq
<1>11. CASE k + 1 \in keep
  <2>1. Append(f[k], a[k + 1]) = f[k] \o <<a[k + 1]>>
    BY <1>4, <1>10, AppendIsConcat
  <2>2. QED
    BY <1>4, <1>9, <1>11, <2>1
<1>12. CASE k + 1 \notin keep
  <2>1. f[k] \o <<>> = f[k]
    BY <1>4, ConcatEmptySeq
  <2>2. QED
    BY <1>4, <1>9, <1>12, <2>1
<1>13. QED
  BY <1>11, <1>12

LEMMA AtNone ==
  ASSUME NEW a \in Seq(Vals), NEW keep
  PROVE  At(a, 0, keep) = <<>>
<1>1. 0 \in Nat /\ 0 <= Len(a)
  BY LenProperties
<1>2. PICK sub : AtBy(a, 0, keep, sub)
  BY <1>1, AtReading
<1>3. QED
  BY <1>2 DEF AtBy

-----------------------------------------------------------------------------
(* The inductive invariant. *)

\* The dumps that are pushed when operator o is at p.
Pushed(o, p) ==
  CASE p \in {"begin", "dump1"} -> {}
    [] p = "dump2" -> {"dump1"}
    [] p = "dump3" -> {"dump1", "dump2"}
    [] p = "dump4" -> {"dump1", "dump2", "dump3"}
    [] p = "dump5" -> Dumps \ {"dump5"}
    [] OTHER -> IF o = "split" THEN Dumps ELSE {"dump1", "dump2", "dump3"}

\* The operators that run a program on each element.
Runs == {"map", "filter", "split"}

\* The new lists of operator o.
News(o) == IF o = "split" THEN Heads ELSE {"dump2"}

\* What list d wants of the elements, P having returned r, and what it holds
\* after k elements of a if it lost those at the places of l.
Wanted(o, r, d) ==
  IF o \in {"filter", "split"} THEN {n \in 1 .. Len(r) : r[n] = (d = "dump2")} ELSE Int
Built(o, r, a, d, k, l) == At(IF o = "map" THEN r ELSE a, k, Wanted(o, r, d) \ l)

\* Has a store lost its element?
Hurt(l) == l # {}

\* Operator o is at p after k elements. a and t are the lists it was given,
\* N is the number, cnt what is left of it, r what P returned, l what is lost.
Going(h, l, o, cnt, p, r, a, t, N, chain, have, k) ==
  /\ Shape(h, chain, have, k, Hurt(l))
  /\ have["A"] = a /\ have["T"] = t
  /\ \A d \in Dumps : h.root[d] # NULL <=> d \in Pushed(o, p)
  /\ p \in {"dump4", "dump5"} => o = "split"
  /\ k \in 0 .. Len(a) /\ l \subseteq 1 .. k
  /\ p \in Dumps \cup {"begin"} => k = 0
  /\ p = "store" => k < Len(a)
  /\ o \in Runs => Len(r) = IF p = "store" THEN k + 1 ELSE k
  /\ o = "take" => /\ cnt = IF p = "store" THEN N - k - 1 ELSE N - k
                   /\ p # "begin" => cnt >= 0 /\ N >= 1
  /\ o = "concat" /\ p # "begin" => a # <<>>
  /\ o = "filter" /\ p = "store" => r[k + 1] = TRUE
  /\ \A d \in Heads : Len(have[d]) <= k
  /\ \A d \in News(o) : have[d] = Built(o, r, a, d, k, l)

Under(h, l, o, cnt, p, r, a, t, N) ==
  \E chain, have, k : Going(h, l, o, cnt, p, r, a, t, N, chain, have, k)

\* What stands between take and concat having tied their list and the end.
Tied ==
  /\ op \in {"take", "concat"}
  /\ \E s \in Seq(Vals) : /\ ListAt(heap, DMP(heap, "dump2")) = s
                          /\ Expected = <<s>>

IInv ==
  /\ TypeOK
  /\ ArgumentsKept
  /\ ResultCorrect
  /\ Len(inA) + Len(inT) <= SIZE
  /\ pc \in Dumps \cup {"begin", "loop", "store"} =>
       Under(heap, lost, op, count, pc, ran, inA, inT, inN)
  /\ pc = "finish" => Tied

-----------------------------------------------------------------------------
(* What the lists of a shape are read as. *)

LEMMA ShapeLists ==
  ASSUME NEW h, NEW chain, NEW have, NEW k, NEW early, Shape(h, chain, have, k, early),
         NEW s \in Lines, Len(have[s]) <= SIZE
  PROVE  ListAt(h, Nth(chain[s], 1)) = have[s]
<1> DEFINE c == chain[s]
           w == have[s]
<1>1. h \in Heap /\ Used(h) \subseteq Addr
  BY UsedFacts DEF Shape, HeapOK
<1>2. c \in Seq(Used(h)) /\ w \in Seq(Vals) /\ Len(w) = Len(c)
  BY DEF Shape, Chained, Holding
<1>3. c \in Seq(Addr)
  BY <1>1, <1>2
<1>4. \A i \in 1 .. Len(c) : h.mem[c[i]].val = w[i] /\ h.mem[c[i]].next = Nth(c, i + 1)
  BY DEF Shape, Chained, Holding
<1>5. Len(c) <= SIZE
  BY <1>2
<1> HIDE DEF c, w
<1>6. ListAt(h, Nth(c, 1)) = w
  BY <1>1, <1>2, <1>3, <1>4, <1>5, ListOfCells
<1>7. QED
  BY <1>6 DEF c, w

\* The two arguments are read as they were, and so are the new lists.
Reads(h, a, t, have) ==
  /\ h \in Heap
  /\ ListAt(h, h.root["A"]) = a
  /\ ListAt(h, h.root["T"]) = t
  /\ \A d \in Heads : h.root[d] # NULL => ListAt(h, DMP(h, d)) = have[d]

LEMMA GoingLists ==
  ASSUME NEW h, NEW l, NEW o, NEW cnt, NEW p, NEW r, NEW a \in Seq(Vals), NEW t \in Seq(Vals),
         NEW N, NEW chain, NEW have, NEW k, Going(h, l, o, cnt, p, r, a, t, N, chain, have, k),
         Len(a) + Len(t) <= SIZE
  PROVE  Reads(h, a, t, have)
<1>1. Shape(h, chain, have, k, Hurt(l)) /\ have["A"] = a /\ have["T"] = t
  BY DEF Going
<1>2. Len(a) <= SIZE /\ Len(t) <= SIZE /\ Len(a) \in Nat /\ Len(t) \in Nat
  BY LenProperties, SizeAssumption
<1>3. "A" \in Lines /\ "T" \in Lines /\ Heads \subseteq Lines
  BY DEF Lines
<1>4. h \in Heap
  BY <1>1 DEF Shape, HeapOK
<1>5. h.root["A"] = Nth(chain["A"], 1) /\ h.root["T"] = Nth(chain["T"], 1)
  BY <1>1 DEF Shape, Placed
<1>6. ListAt(h, Nth(chain["A"], 1)) = a
  BY <1>1, <1>2, <1>3, ShapeLists
<1>7. ListAt(h, Nth(chain["T"], 1)) = t
  BY <1>1, <1>2, <1>3, ShapeLists
<1>8. ASSUME NEW d \in Heads, h.root[d] # NULL PROVE ListAt(h, DMP(h, d)) = have[d]
  <2>1. DMP(h, d) = Nth(chain[d], 1)
    BY <1>1, <1>8 DEF Shape, Placed
  <2>2. Len(have[d]) <= k /\ k \in 0 .. Len(a)
    BY DEF Going
  <2>3. have \in [Lines -> Seq(Vals)]
    BY <1>1 DEF Shape, Holding
  <2>4. have[d] \in Seq(Vals)
    BY <1>3, <2>3
  <2>5. Len(have[d]) \in Nat
    BY <2>4, LenProperties
  <2>6. Len(have[d]) <= SIZE
    BY <1>2, <2>2, <2>5, SizeAssumption
  <2>7. QED
    BY <1>1, <1>3, <2>1, <2>6, ShapeLists
<1>9. QED
  BY <1>4, <1>5, <1>6, <1>7, <1>8 DEF Reads

\* So they are whenever an operator goes on.
LEMMA UnderReads ==
  ASSUME NEW h, NEW l, NEW o, NEW cnt, NEW p, NEW r, NEW a \in Seq(Vals), NEW t \in Seq(Vals),
         NEW N, Under(h, l, o, cnt, p, r, a, t, N), Len(a) + Len(t) <= SIZE
  PROVE  \E have : Reads(h, a, t, have)
<1>1. PICK chain, have, k : Going(h, l, o, cnt, p, r, a, t, N, chain, have, k)
  BY DEF Under
<1>2. Reads(h, a, t, have)
  BY <1>1, GoingLists
<1>3. QED
  BY <1>2

LEMMA ArgumentsType ==
  ASSUME inA \in Lists, inT \in Lists \cup {<<>>}
  PROVE  /\ inA \in Seq(Vals) /\ inT \in Seq(Vals)
         /\ Len(inA) \in Nat /\ Len(inT) \in Nat
<1>1. Lists \subseteq Seq(Vals) /\ <<>> \in Seq(Vals)
  BY ListAssumption, EmptySeq
<1>2. inA \in Seq(Vals) /\ inT \in Seq(Vals)
  BY <1>1
<1>3. QED
  BY <1>2, LenProperties

\* A state of an operator that goes on is one of the invariant.
LEMMA StillUnder ==
  ASSUME TypeOK, pc \in Dumps \cup {"begin", "loop", "store"}, Len(inA) + Len(inT) <= SIZE,
         Under(heap, lost, op, count, pc, ran, inA, inT, inN)
  PROVE  IInv
<1>1. inA \in Seq(Vals) /\ inT \in Seq(Vals)
  BY ArgumentsType DEF TypeOK
<1>2. PICK have : Reads(heap, inA, inT, have)
  BY <1>1, UnderReads
<1>3. ArgumentsKept
  BY <1>2 DEF Reads, ArgumentsKept
<1>4. pc # "done" /\ pc # "finish" /\ pc # "crashed"
  BY DEF Dumps
<1>5. ResultCorrect
  BY <1>4 DEF ResultCorrect
<1>6. QED
  BY <1>3, <1>4, <1>5 DEF IInv

\* The same of the state after a step that leaves what does not change.
LEMMA GoesOnAfter ==
  ASSUME IInv, UNCHANGED <<op, inA, inT, inN, lvalueFirst, result>>, lost' \subseteq 1 .. Len(inA),
         pc' \in Dumps \cup {"begin", "loop", "store"}, count' \in Int,
         ran' \in Seq(IF op = "map" THEN Vals ELSE BOOLEAN),
         Under(heap', lost', op, count', pc', ran', inA, inT, inN)
  PROVE  IInv'
<1>1. inA \in Seq(Vals) /\ inT \in Seq(Vals)
  BY ArgumentsType DEF IInv, TypeOK
<1>2. Len(inA) + Len(inT) <= SIZE
  BY DEF IInv
<1>3. PICK have : Reads(heap', inA, inT, have)
  BY <1>1, <1>2, UnderReads
<1>4. ArgumentsKept'
  BY <1>3 DEF Reads, ArgumentsKept
<1>5. pc' # "done" /\ pc' # "finish" /\ pc' # "crashed"
  BY DEF Dumps
<1>6. ResultCorrect'
  BY <1>5 DEF ResultCorrect
<1>7. TypeOK'
  BY <1>3 DEF IInv, TypeOK, Reads
<1>8. QED
  BY <1>2, <1>4, <1>5, <1>6, <1>7 DEF IInv

\* So it is when no store has collected.
LEMMA GoesOnUnder ==
  ASSUME IInv, UNCHANGED <<op, inA, inT, inN, lvalueFirst, lost, result>>,
         pc' \in Dumps \cup {"begin", "loop", "store"}, count' \in Int,
         ran' \in Seq(IF op = "map" THEN Vals ELSE BOOLEAN),
         Under(heap', lost, op, count', pc', ran', inA, inT, inN)
  PROVE  IInv'
<1>1. lost' \subseteq 1 .. Len(inA)
  BY DEF IInv, TypeOK
<1>2. Under(heap', lost', op, count', pc', ran', inA, inT, inN)
  OBVIOUS
<1>3. QED
  BY <1>1, <1>2, GoesOnAfter

-----------------------------------------------------------------------------
(* The initial states. *)

\* A memory of the lists A and T, no dump pushed.
Fresh(h, A, T, early) ==
  \E chain, have :
    /\ Shape(h, chain, have, 0, early)
    /\ have["A"] = A /\ have["T"] = T /\ \A d \in Heads : have[d] = <<>>
    /\ \A d \in Dumps : h.root[d] = NULL

LEMMA HeapWithShape ==
  ASSUME NEW A \in Seq(Vals), NEW T \in Seq(Vals), Len(A) + Len(T) <= SIZE, NEW early,
         NEW h, h = HeapWith(A, T)
  PROVE  Fresh(h, A, T, early)
<1> DEFINE nA == Len(A)
           n == nA + Len(T)
           chain == [s \in Lines |->
                      CASE s = "A" -> [i \in 1 .. nA |-> i]
                        [] s = "T" -> [i \in 1 .. Len(T) |-> nA + i]
                        [] OTHER -> <<>>]
           have == [s \in Lines |-> CASE s = "A" -> A [] s = "T" -> T [] OTHER -> <<>>]
<1>1. nA \in Nat /\ Len(T) \in Nat /\ n \in 0 .. SIZE /\ SIZE \in Nat
  BY LenProperties, SizeAssumption
<1>2. \A i \in 1 .. nA : A[i] \in Vals
  BY ElementOfSeq
<1>3. \A i \in 1 .. Len(T) : T[i] \in Vals
  BY ElementOfSeq
<1>4. /\ h.half = 0 /\ h.top = n
      /\ \A s \in Roots : h.root[s] = CASE s = "A" /\ nA > 0 -> 1
                                        [] s = "T" /\ n > nA -> nA + 1
                                        [] OTHER -> NULL
      /\ \A a \in Addr :
           /\ h.mem[a].val = IF a <= n THEN (IF a <= nA THEN A[a] ELSE T[a - nA]) ELSE NULL
           /\ h.mem[a].u = NULL
           /\ h.mem[a].next = IF a < n /\ a # nA THEN a + 1 ELSE NULL
  BY DEF HeapWith
<1>5. Used(h) = 1 .. n /\ Used(h) \subseteq Addr
  BY <1>1, <1>4 DEF Used, Addr
<1>6. h \in Heap
  <2>1. \A a \in Addr : /\ h.mem[a].val \in Vals \cup {NULL}
                        /\ h.mem[a].u \in Pointers /\ h.mem[a].next \in Pointers
    <3> SUFFICES ASSUME NEW a \in Addr
                 PROVE  /\ h.mem[a].val \in Vals \cup {NULL}
                        /\ h.mem[a].u \in Pointers /\ h.mem[a].next \in Pointers
      OBVIOUS
    <3>1. a \in Nat /\ a >= 1
      BY <1>1 DEF Addr
    <3>2. a < n => a + 1 \in Addr
      BY <1>1, <3>1 DEF Addr
    <3>3. a <= n /\ ~(a <= nA) => a - nA \in 1 .. Len(T)
      BY <1>1, <3>1
    <3>4. a <= nA => a \in 1 .. nA
      BY <1>1, <3>1
    <3>5. QED
      BY <1>2, <1>3, <1>4, <3>2, <3>3, <3>4 DEF Pointers
  <2>2. h.root \in [Roots -> Pointers]
    <3>1. h.root = [s \in Roots |-> h.root[s]]
      BY DEF HeapWith
    <3>2. 1 <= n => 1 \in Addr
      BY <1>1 DEF Addr
    <3>3. n > nA => nA + 1 \in Addr
      BY <1>1 DEF Addr
    <3>4. \A s \in Roots : h.root[s] \in Pointers
      BY <1>1, <1>4, <3>2, <3>3 DEF Pointers
    <3>5. QED
      BY <3>1, <3>4
  <2>3. h.mem \in [Addr -> Cell]
    <3>1. h.mem = [a \in Addr |-> h.mem[a]]
      BY DEF HeapWith
    <3>2. \A a \in Addr : h.mem[a] = [val |-> h.mem[a].val, u |-> h.mem[a].u, next |-> h.mem[a].next]
      BY DEF HeapWith
    <3>3. \A a \in Addr : h.mem[a] \in Cell
      <4> SUFFICES ASSUME NEW a \in Addr PROVE h.mem[a] \in Cell
        OBVIOUS
      <4>1. PICK x, y, z : x = h.mem[a].val /\ y = h.mem[a].u /\ z = h.mem[a].next
        OBVIOUS
      <4>2. h.mem[a] = [val |-> x, u |-> y, next |-> z]
        BY <3>2, <4>1
      <4>3. x \in Vals \cup {NULL} /\ y \in Pointers /\ z \in Pointers
        BY <2>1, <4>1
      <4> HIDE <4>1
      <4>4. QED
        BY <4>2, <4>3 DEF Cell
    <3>4. QED
      BY <3>1, <3>3
  <2>4. PICK m, z, c, q : m = h.mem /\ z = h.half /\ c = h.top /\ q = h.root
    OBVIOUS
  <2>5. h = [mem |-> m, half |-> z, top |-> c, root |-> q]
    BY <2>4 DEF HeapWith
  <2>6. m \in [Addr -> Cell] /\ z \in {0, 1} /\ c \in 0 .. SIZE /\ q \in [Roots -> Pointers]
    BY <1>1, <1>4, <2>2, <2>3, <2>4
  <2>7. QED
    BY <2>5, <2>6 DEF Heap
<1>7. HeapOK(h)
  <2>1. \A s \in Roots : h.root[s] \in Used(h) \cup {NULL}
    <3>1. 1 <= n => 1 \in 1 .. n
      BY <1>1
    <3>2. n > nA => nA + 1 \in 1 .. n
      BY <1>1
    <3>3. QED
      BY <1>1, <1>4, <1>5, <3>1, <3>2
  <2>2. \A a \in Used(h) : {h.mem[a].u, h.mem[a].next} \subseteq Used(h) \cup {NULL}
    <3> SUFFICES ASSUME NEW a \in Used(h)
                 PROVE  {h.mem[a].u, h.mem[a].next} \subseteq Used(h) \cup {NULL}
      OBVIOUS
    <3>1. a \in 1 .. n /\ a \in Addr
      BY <1>5
    <3>2. a < n => a + 1 \in 1 .. n
      BY <1>1, <3>1
    <3>3. QED
      BY <1>4, <1>5, <3>1, <3>2
  <2>3. QED
    BY <1>6, <2>1, <2>2 DEF HeapOK
<1>8. /\ chain \in [Lines -> Seq(Used(h))]
      /\ chain["A"] = [i \in 1 .. nA |-> i] /\ Len(chain["A"]) = nA
      /\ chain["T"] = [i \in 1 .. Len(T) |-> nA + i] /\ Len(chain["T"]) = Len(T)
      /\ \A d \in Heads : chain[d] = <<>> /\ Len(chain[d]) = 0
  <2>1. [i \in 1 .. nA |-> i] \in Seq(Used(h)) /\ Len([i \in 1 .. nA |-> i]) = nA
    BY <1>1, <1>5
  <2>2. /\ [i \in 1 .. Len(T) |-> nA + i] \in Seq(Used(h))
        /\ Len([i \in 1 .. Len(T) |-> nA + i]) = Len(T)
    BY <1>1, <1>5
  <2>3. <<>> \in Seq(Used(h)) /\ Len(<<>>) = 0
    BY EmptySeq, LenProperties
  <2>4. QED
    BY <2>1, <2>2, <2>3 DEF Lines, Heads
<1>9. /\ have \in [Lines -> Seq(Vals)] /\ have["A"] = A /\ have["T"] = T
      /\ \A d \in Heads : have[d] = <<>> /\ Len(have[d]) = 0
  <2>1. <<>> \in Seq(Vals) /\ Len(<<>>) = 0
    BY EmptySeq
  <2>2. QED
    BY <2>1 DEF Lines, Heads
<1>10. \A d \in Dumps : h.root[d] = NULL
  BY <1>4 DEF Dumps, Roots
<1> HIDE DEF chain, have
<1>11. Lines = {"A", "T", "dump2", "dump4"}
  BY DEF Lines, Heads
<1>12. Chained(h, chain)
  <2>1. ASSUME NEW s \in Lines, NEW t \in Lines, NEW i \in 1 .. Len(chain[s]),
               NEW j \in 1 .. Len(chain[t]), chain[s][i] = chain[t][j]
        PROVE  s = t
    <3>1. s \in {"A", "T"} /\ t \in {"A", "T"}
      BY <1>8, <1>11, <2>1 DEF Heads
    <3>2. \A x \in 1 .. nA, y \in 1 .. Len(T) : chain["A"][x] # chain["T"][y]
      BY <1>1, <1>8
    <3>3. QED
      BY <1>8, <2>1, <3>1, <3>2
  <2>2. \A i \in 1 .. Len(chain["A"]) : h.mem[chain["A"][i]].next = Nth(chain["A"], i + 1)
    BY <1>1, <1>4, <1>5, <1>8 DEF Nth
  <2>3. ASSUME NEW i \in 1 .. Len(chain["T"])
        PROVE  h.mem[chain["T"][i]].next = Nth(chain["T"], i + 1)
    <3>1. i \in 1 .. Len(T) /\ chain["T"][i] = nA + i
      BY <1>8
    <3>2. nA + i \in Addr /\ nA + i # nA /\ (nA + i < n <=> i + 1 \in 1 .. Len(T))
      BY <1>1, <1>5, <3>1
    <3>3. h.mem[nA + i].next = IF i + 1 \in 1 .. Len(T) THEN nA + (i + 1) ELSE NULL
      BY <1>1, <1>4, <3>1, <3>2
    <3>4. Nth(chain["T"], i + 1) = IF i + 1 \in 1 .. Len(T) THEN nA + (i + 1) ELSE NULL
      BY <1>8 DEF Nth
    <3>5. QED
      BY <3>1, <3>3, <3>4
  <2>4. \A d \in Heads : \A i \in 1 .. Len(chain[d]) : FALSE
    BY <1>8
  <2>5. \A s \in Lines : \A i \in 1 .. Len(chain[s]) :
          h.mem[chain[s][i]].next = Nth(chain[s], i + 1)
    BY <2>2, <2>3, <2>4 DEF Lines
  <2>6. QED
    BY <1>8, <2>1, <2>5 DEF Chained
<1>13. Holding(h, chain, have)
  <2>1. \A s \in Lines : Len(have[s]) = Len(chain[s])
    BY <1>8, <1>9 DEF Lines
  <2>2. ASSUME NEW i \in 1 .. Len(chain["A"])
        PROVE  h.mem[chain["A"][i]].val = have["A"][i]
    <3>1. i \in 1 .. nA /\ chain["A"][i] = i
      BY <1>8
    <3>2. i \in Addr /\ i <= nA /\ i <= n
      BY <1>1, <1>5, <3>1
    <3>3. QED
      BY <1>4, <1>9, <3>1, <3>2
  <2>3. ASSUME NEW i \in 1 .. Len(chain["T"])
        PROVE  h.mem[chain["T"][i]].val = have["T"][i]
    <3>1. i \in 1 .. Len(T) /\ chain["T"][i] = nA + i
      BY <1>8
    <3>2. nA + i \in Addr /\ ~(nA + i <= nA) /\ nA + i <= n /\ (nA + i) - nA = i
      BY <1>1, <1>5, <3>1
    <3>3. QED
      BY <1>4, <1>9, <3>1, <3>2
  <2>4. \A d \in Heads : \A i \in 1 .. Len(chain[d]) : FALSE
    BY <1>8
  <2>5. \A s \in Lines : \A i \in 1 .. Len(chain[s]) : h.mem[chain[s][i]].val = have[s][i]
    BY <2>2, <2>3, <2>4 DEF Lines
  <2>6. QED
    BY <1>9, <2>1, <2>5 DEF Holding
<1>14. Placed(h, chain, 0, early)
  <2>1. h.root["A"] = Nth(chain["A"], 1)
    <3>1. h.root["A"] = IF nA > 0 THEN 1 ELSE NULL
      BY <1>4 DEF Roots
    <3>2. nA > 0 <=> 1 \in 1 .. nA
      BY <1>1
    <3>3. Nth(chain["A"], 1) = IF 1 \in 1 .. nA THEN 1 ELSE NULL
      BY <1>8 DEF Nth
    <3>4. QED
      BY <3>1, <3>2, <3>3
  <2>2. h.root["T"] = Nth(chain["T"], 1)
    BY <1>1, <1>4, <1>8 DEF Nth, Roots
  <2>3. \A d \in Heads : h.root[d] = NULL /\ h.root[LastOf(d)] = NULL
    BY <1>10 DEF Heads, LastOf, Dumps
  <2>4. h.root["dump1"] = NULL
    BY <1>10 DEF Dumps
  <2>5. QED
    BY <1>8, <1>10, <2>1, <2>2, <2>3, <2>4 DEF Placed
<1>15. Shape(h, chain, have, 0, early)
  BY <1>7, <1>12, <1>13, <1>14 DEF Shape
<1>16. QED
  BY <1>9, <1>10, <1>15 DEF Fresh

LEMMA BuiltNone ==
  ASSUME NEW o, NEW a \in Seq(Vals), NEW d, NEW l
  PROVE  Built(o, <<>>, a, d, 0, l) = <<>>
<1>1. <<>> \in Seq(Vals)
  BY EmptySeq
<1>2. PICK b : b = IF o = "map" THEN <<>> ELSE a
  OBVIOUS
<1>3. b \in Seq(Vals)
  BY <1>1, <1>2
<1>4. At(b, 0, Wanted(o, <<>>, d) \ l) = <<>>
  BY <1>3, AtNone
<1>5. QED
  BY <1>2, <1>4 DEF Built

LEMMA InitIInv == Init => IInv
<1> SUFFICES ASSUME Init PROVE IInv
  OBVIOUS
<1>1. inA \in Lists /\ inT \in Lists \cup {<<>>} /\ Len(inA) + Len(inT) <= SIZE
  BY DEF Init
<1>2. /\ inA \in Seq(Vals) /\ inT \in Seq(Vals)
      /\ Len(inA) \in Nat /\ Len(inT) \in Nat
  BY <1>1, ArgumentsType
<1>3. PICK chain, have :
        /\ Shape(heap, chain, have, 0, Hurt(lost))
        /\ have["A"] = inA /\ have["T"] = inT /\ \A d \in Heads : have[d] = <<>>
        /\ \A d \in Dumps : heap.root[d] = NULL
  <2>1. heap = HeapWith(inA, inT)
    BY DEF Init
  <2>2. Fresh(heap, inA, inT, Hurt(lost))
    BY <1>1, <1>2, <2>1, HeapWithShape
  <2>3. QED
    BY <2>2 DEF Fresh
<1>4. TypeOK
  <2>1. heap \in Heap
    BY <1>3 DEF Shape, HeapOK
  <2>2. inN \in Int
    BY ListAssumption DEF Init
  <2>3. ran \in Seq(IF op = "map" THEN Vals ELSE BOOLEAN) /\ result \in Seq(Seq(Vals))
    BY EmptySeq DEF Init
  <2>4. QED
    BY <1>1, <2>1, <2>2, <2>3 DEF Init, TypeOK
<1>5. Going(heap, lost, op, count, pc, ran, inA, inT, inN, chain, have, 0)
  <2>1. pc = "begin" /\ pc \notin Dumps /\ pc # "store" /\ pc \notin {"dump4", "dump5"}
    BY DEF Init, Dumps
  <2>2. \A d \in Dumps : heap.root[d] # NULL <=> d \in Pushed(op, pc)
    BY <1>3, <2>1 DEF Pushed
  <2>3. ran = <<>> /\ Len(ran) = 0 /\ count = inN /\ inN \in Int
    BY ListAssumption DEF Init
  <2>4. \A d \in Heads : Len(have[d]) = 0
    BY <1>3
  <2>5. \A d \in News(op) : have[d] = Built(op, ran, inA, d, 0, lost)
    <3>1. News(op) \subseteq Heads
      BY DEF News, Heads
    <3>2. QED
      BY <1>2, <1>3, <2>3, <3>1, BuiltNone
  <2>6. op = "take" => count = inN - 0
    BY <2>3
  <2>7. 0 \in 0 .. Len(inA) /\ lost \subseteq 1 .. 0
    BY <1>2 DEF Init
  <2>8. QED
    BY <1>3, <2>1, <2>2, <2>3, <2>4, <2>5, <2>6, <2>7 DEF Going
<1>6. Under(heap, lost, op, count, pc, ran, inA, inT, inN)
  BY <1>5 DEF Under
<1>7. QED
  BY <1>1, <1>4, <1>6, StillUnder DEF Init

-----------------------------------------------------------------------------
(* The operators begin. *)

\* What a state that goes on knows of its arguments.
LEMMA IInvFacts ==
  ASSUME IInv
  PROVE  /\ inA \in Seq(Vals) /\ inT \in Seq(Vals)
         /\ Len(inA) \in Nat /\ Len(inT) \in Nat /\ Len(inA) + Len(inT) <= SIZE
         /\ lvalueFirst \in BOOLEAN /\ lost \subseteq 1 .. Len(inA) /\ count \in Int /\ inN \in Int
         /\ op \in {"map", "filter", "split", "take", "concat"}
         /\ ran \in Seq(IF op = "map" THEN Vals ELSE BOOLEAN)
         /\ Len(ran) \in Nat
<1>1. inA \in Seq(Vals) /\ inT \in Seq(Vals) /\ Len(inA) \in Nat /\ Len(inT) \in Nat
  BY ArgumentsType DEF IInv, TypeOK
<1>2. ran \in Seq(IF op = "map" THEN Vals ELSE BOOLEAN)
  BY DEF IInv, TypeOK
<1>3. Len(ran) \in Nat
  BY <1>2, LenProperties
<1>4. QED
  BY <1>1, <1>2, <1>3, OrderAssumption DEF IInv, TypeOK

LEMMA NthNull ==
  ASSUME NEW h, NEW chain, NEW have, NEW k, NEW early, Shape(h, chain, have, k, early),
         NEW s \in Lines, NEW i \in Nat, i >= 1
  PROVE  /\ Nth(chain[s], i) = NULL <=> i > Len(have[s])
         /\ have[s] \in Seq(Vals) /\ Len(have[s]) \in Nat
<1>1. NULL \notin Used(h)
  BY UsedFacts DEF Shape, HeapOK
<1>2. chain[s] \in Seq(Used(h)) /\ Len(have[s]) = Len(chain[s]) /\ have[s] \in Seq(Vals)
  BY DEF Shape, Chained, Holding
<1>3. Len(chain[s]) \in Nat
  BY <1>2, LenProperties
<1>4. i \in 1 .. Len(chain[s]) => chain[s][i] \in Used(h)
  BY <1>2, ElementOfSeq
<1>5. QED
  BY <1>1, <1>2, <1>3, <1>4 DEF Nth

LEMMA BeginLong == ASSUME IInv, begin_long PROVE IInv'
<1>1. pc = "begin" /\ pc' = "dump1"
  BY DEF begin_long
<1>2. PICK chain, have, k :
        Going(heap, lost, op, count, "begin", ran, inA, inT, inN, chain, have, k)
  BY <1>1 DEF IInv, Under
<1>3. Going(heap, lost, op, count, "dump1", ran, inA, inT, inN, chain, have, k)
  <2>1. Pushed(op, "dump1") = Pushed(op, "begin") /\ "dump1" \in Dumps
    BY DEF Pushed, Dumps
  <2>2. op = "take" => count >= 0 /\ inN >= 1
    <3>1. op = "take" => count >= 1
      BY DEF begin_long
    <3>2. k = 0 /\ (op = "take" => count = inN - k)
      BY <1>2 DEF Going
    <3>3. QED
      BY <3>1, <3>2, IInvFacts
  <2>4. op = "concat" => inA # <<>>
    <3> SUFFICES ASSUME op = "concat" PROVE inA # <<>>
      OBVIOUS
    <3>1. Shape(heap, chain, have, k, Hurt(lost)) /\ have["A"] = inA
      BY <1>2 DEF Going
    <3>2. Nth(chain["A"], 1) # NULL
      BY <3>1 DEF begin_long, Shape, Placed
    <3>3. ~(1 > Len(inA))
      BY <3>1, <3>2, NthNull DEF Lines
    <3>4. QED
      BY <3>3, LenProperties
  <2>3. QED
    BY <1>2, <2>1, <2>2, <2>4 DEF Going
<1>4. Under(heap', lost, op, count', pc', ran', inA, inT, inN)
  BY <1>1, <1>3 DEF Under, begin_long
<1>5. QED
  BY <1>1, <1>4, GoesOnUnder, IInvFacts DEF begin_long, Dumps

\* A list ends where its pointers do.
\* An operator ends: what it leaves has to be right.
LEMMA EndsWell ==
  ASSUME IInv, UNCHANGED <<op, count, ran, inA, inT, inN, lvalueFirst, lost>>,
         pc' = "done", heap' \in Heap,
         ListAt(heap', heap'.root["A"]) = inA, ListAt(heap', heap'.root["T"]) = inT,
         result' \in Seq(Seq(Vals)),
         result' = Expected, op \in Runs => Len(ran) = Len(inA)
  PROVE  IInv'
<1>1. TypeOK'
  BY DEF IInv, TypeOK
<1>2. ArgumentsKept'
  BY DEF ArgumentsKept
<1>3. Expected' = Expected
  BY DEF Expected, Chosen
<1>4. ResultCorrect'
  BY <1>3 DEF ResultCorrect, Runs
<1>5. pc' \notin Dumps \cup {"begin", "loop", "store"} /\ pc' # "finish"
  BY DEF Dumps
<1>6. QED
  BY <1>1, <1>2, <1>4, <1>5 DEF IInv

\* A sequence of one or two lists.
LEMMA OneList ==
  ASSUME NEW s \in Seq(Vals)
  PROVE  <<s>> \in Seq(Seq(Vals))
OBVIOUS

LEMMA BeginShort == ASSUME IInv, begin_short PROVE IInv'
<1>1. pc = "begin" /\ pc' = "done" /\ UNCHANGED <<heap, op, count, ran, inA, inT, inN, lvalueFirst, lost>>
  BY DEF begin_short
<1>2. PICK chain, have, k :
        Going(heap, lost, op, count, "begin", ran, inA, inT, inN, chain, have, k)
  BY <1>1 DEF IInv, Under
<1>3. heap' \in Heap /\ ListAt(heap', heap'.root["A"]) = inA /\ ListAt(heap', heap'.root["T"]) = inT
  BY <1>1 DEF IInv, TypeOK, ArgumentsKept
<1>4. Shape(heap, chain, have, k, Hurt(lost)) /\ have["A"] = inA /\ k = 0
  BY <1>2 DEF Going
<1>5. result' = Expected /\ result' \in Seq(Seq(Vals)) /\ op \notin Runs
  <2>1. CASE op = "take" /\ count < 1 /\ result' = << <<>> >>
    <3>1. inN < 1
      BY <1>2, <1>4, <2>1, IInvFacts DEF Going
    <3>2. Asked = 0
      BY <3>1, IInvFacts DEF Asked
    <3>3. At(inA, 0, Int \ lost) = <<>>
      BY IInvFacts, AtNone
    <3>4. Expected = << <<>> >>
      BY <2>1, <3>2, <3>3 DEF Expected
    <3>5. QED
      BY <2>1, <3>4, EmptySeq DEF Runs
  <2>2. CASE op = "concat" /\ heap.root["A"] = NULL /\ result' = <<ListAt(heap, heap.root["T"])>>
    <3>1. Nth(chain["A"], 1) = NULL
      BY <1>4, <2>2 DEF Shape, Placed
    <3>2. 1 > Len(inA)
      BY <1>4, <3>1, NthNull DEF Lines
    <3>3. inA = <<>>
      BY <3>2, IInvFacts, EmptySeq
    <3>4. At(inA, Len(inA), Int \ lost) \o inT = inT
      <4>1. Len(inA) = 0
        BY <3>2, IInvFacts
      <4>2. At(inA, 0, Int \ lost) = <<>>
        BY IInvFacts, AtNone
      <4>3. <<>> \o inT = inT
        BY IInvFacts, ConcatEmptySeq
      <4>4. QED
        BY <4>1, <4>2, <4>3
    <3>5. Expected = <<inT>>
      BY <2>2, <3>4 DEF Expected
    <3>6. result' = <<inT>>
      BY <2>2 DEF IInv, ArgumentsKept
    <3>7. QED
      BY <2>2, <3>5, <3>6, IInvFacts, OneList DEF Runs
  <2>3. QED
    BY <2>1, <2>2 DEF begin_short
<1>6. QED
  BY <1>1, <1>3, <1>5, EndsWell

\* The steps that end in disorder: abortexecution_, and a store through NULL.
LEMMA EndsBadly ==
  ASSUME IInv, UNCHANGED <<op, count, ran, inA, inT, inN, lvalueFirst, lost, result>>,
         pc' \in {"aborted", "crashed"},
         pc' = "crashed" => lost # {} \/ (op = "take" /\ inA = <<>>),
         heap' \in Heap, heap'.mem = heap.mem,
         heap'.root["A"] = heap.root["A"], heap'.root["T"] = heap.root["T"]
  PROVE  IInv'
<1>1. TypeOK'
  BY DEF IInv, TypeOK
<1>2. \A p : ListAt(heap', p) = ListAt(heap, p)
  BY DEF ListAt
<1>3. ArgumentsKept'
  BY <1>2 DEF IInv, ArgumentsKept
<1>4. pc' \notin Dumps \cup {"begin", "loop", "store"} /\ pc' # "finish" /\ pc' # "done"
  BY DEF Dumps
<1>5. ResultCorrect'
  BY <1>4 DEF ResultCorrect
<1>6. QED
  BY <1>1, <1>3, <1>4, <1>5 DEF IInv

\* An empty list, and no other, has neither a head nor a last node, unless an
\* element was lost.
LEMMA LastIs ==
  ASSUME NEW h, NEW chain, NEW have, NEW k, Shape(h, chain, have, k, FALSE),
         NEW d \in Heads, h.root[d] # NULL, h.root[LastOf(d)] # NULL
  PROVE  /\ DMP(h, LastOf(d)) = NULL <=> have[d] = <<>>
         /\ DMP(h, d) = NULL <=> have[d] = <<>>
<1>1. /\ DMP(h, d) = Nth(chain[d], 1)
      /\ DMP(h, LastOf(d)) = Nth(chain[d], Len(chain[d]))
  BY DEF Shape, Placed
<1>2. d \in Lines /\ 1 \in Nat
  BY DEF Lines
<1>3. have[d] \in Seq(Vals) /\ Len(have[d]) \in Nat /\ Len(have[d]) = Len(chain[d])
  BY <1>2, NthNull DEF Shape, Holding
<1>4. CASE Len(have[d]) = 0
  <2>1. Nth(chain[d], Len(chain[d])) = NULL /\ Nth(chain[d], 1) = NULL
    BY <1>3, <1>4 DEF Nth
  <2>2. QED
    BY <1>1, <1>3, <1>4, <2>1, EmptySeq
<1>5. CASE Len(have[d]) # 0
  <2>1. PICK i : i = Len(have[d])
    OBVIOUS
  <2>2. i \in Nat /\ i >= 1 /\ ~(i > Len(have[d]))
    BY <1>3, <1>5, <2>1
  <2>3. Nth(chain[d], i) # NULL /\ Nth(chain[d], 1) # NULL
    <3>1. Nth(chain[d], i) # NULL
      BY <1>2, <2>2, NthNull
    <3>2. PICK j : j = 1
      OBVIOUS
    <3>3. j \in Nat /\ j >= 1 /\ ~(j > Len(have[d]))
      BY <2>1, <2>2, <3>2
    <3>4. Nth(chain[d], j) # NULL
      BY <1>2, <3>3, NthNull
    <3>5. QED
      BY <3>1, <3>2, <3>4
  <2>4. have[d] # <<>>
    BY <1>5, LenProperties, EmptySeq
  <2>5. QED
    BY <1>1, <1>3, <2>1, <2>3, <2>4
<1>6. QED
  BY <1>4, <1>5

\* Roots may be emptied or follow a link.
LEMMA RootsMayChange ==
  ASSUME NEW h \in Heap, NEW R \in [Roots -> Pointers]
  PROVE  [h EXCEPT !.root = R] \in Heap
BY DEF Heap

LEMMA StoreNull == ASSUME IInv, store_null PROVE IInv'
<1>1. /\ pc = "store" /\ pc' = "crashed"
      /\ DMP(heap, Target) # NULL /\ DMP(heap, LastOf(Target)) = NULL
      /\ UNCHANGED <<heap, op, count, ran, inA, inT, inN, lvalueFirst, lost, result>>
  BY DEF store_null
<1>2. lost # {}
  <2> SUFFICES ASSUME lost = {} PROVE FALSE
    OBVIOUS
  <2>1. PICK chain, have, k :
          Going(heap, lost, op, count, "store", ran, inA, inT, inN, chain, have, k)
    BY <1>1 DEF IInv, Under
  <2>2. PICK d : d = Target
    OBVIOUS
  <2>3. Hurt(lost) = FALSE
    BY DEF Hurt
  <2>4. Shape(heap, chain, have, k, FALSE) /\ \A q \in Dumps : heap.root[q] # NULL <=> q \in Pushed(op, "store")
    BY <2>1, <2>3 DEF Going
  <2>5. /\ d \in Heads /\ d \in Dumps /\ LastOf(d) \in Dumps
        /\ d \in Pushed(op, "store") /\ LastOf(d) \in Pushed(op, "store")
    BY <2>2 DEF Target, LastOf, Pushed, Dumps, Heads
  <2>6. heap.root[d] # NULL /\ heap.root[LastOf(d)] # NULL
    BY <2>4, <2>5
  <2>7. QED
    BY <1>1, <2>2, <2>4, <2>5, <2>6, LastIs
<1>3. QED
  BY <1>1, <1>2, EndsBadly DEF IInv, TypeOK

LEMMA Execerror == ASSUME IInv, execerror PROVE IInv'
<1> DEFINE R == [s \in Roots |-> IF s \in Dumps THEN NULL ELSE heap.root[s]]
<1>1. heap \in Heap /\ heap.root \in [Roots -> Pointers]
  BY DEF IInv, TypeOK, Heap
<1>2. R \in [Roots -> Pointers]
  BY <1>1 DEF Pointers
<1>3. heap' = [heap EXCEPT !.root = R]
  BY DEF execerror
<1>4. R["A"] = heap.root["A"] /\ R["T"] = heap.root["T"]
  BY DEF Roots, Dumps
<1> HIDE DEF R
<1>5. heap' \in Heap
  BY <1>1, <1>2, <1>3, RootsMayChange
<1>6. heap'.mem = heap.mem /\ heap'.root = R
  BY <1>1, <1>3 DEF Heap
<1>7. QED
  BY <1>4, <1>5, <1>6, EndsBadly DEF execerror

-----------------------------------------------------------------------------
(* A dump is pushed. *)

\* What newnode is found to do, as one predicate.
Got(h, collects, v, u, r, n, L) ==
  /\ Moved(h, n.heap, L, n.fwd) /\ u \in L \cup {NULL} /\ r \in L \cup {NULL}
  /\ n.node \in Used(n.heap) /\ \A a \in L : n.fwd[a] # n.node
  /\ n.heap.mem[n.node].u = n.fwd[u]

LEMMA NewnodeGot ==
  ASSUME NEW h, HeapOK(h), NEW collects \in BOOLEAN, NEW v \in Vals \cup {NULL},
         NEW u \in Used(h) \cup {NULL}, NEW r \in Used(h) \cup {NULL},
         NEW n, n = newnode(h, collects, v, u, r), n.heap.top <= SIZE
  PROVE  \E L : Got(h, collects, v, u, r, n, L)
<1>1. PICK L : /\ Moved(h, n.heap, L, n.fwd) /\ u \in L \cup {NULL} /\ r \in L \cup {NULL}
               /\ n.node \in Used(n.heap) /\ \A a \in L : n.fwd[a] # n.node
               /\ n.heap.mem[n.node].val = v
               /\ n.heap.mem[n.node].u = n.fwd[u]
               /\ n.heap.mem[n.node].next = n.fwd[r]
               /\ collects => n.heap.half # h.half
               /\ ~collects => n.fwd = [p \in Pointers |-> p] /\ L = Used(h)
  BY NewnodeFacts
<1>2. QED
  BY <1>1 DEF Got

\* What is so after a node was pushed on dump d.
PushedOn(h, g, have, early, d) ==
  /\ \A q \in Dumps : g.root[q] # NULL <=> h.root[q] # NULL \/ q = d
  /\ \E c : Shape(g, c, have, 0, early)

LEMMA PushedShape ==
  ASSUME NEW h, NEW chain, NEW have, NEW early, Shape(h, chain, have, 0, early),
         NEW d \in Dumps, h.root[d] = NULL, \A e \in Heads : Len(have[e]) = 0,
         NEW collects \in BOOLEAN, NEW u, u = (IF d = "dump1" THEN h.root["A"] ELSE NULL),
         NEW n, n = newnode(h, collects, NULL, u, h.root[d]), n.heap.top <= SIZE,
         NEW g, g = [n.heap EXCEPT !.root[d] = n.node]
  PROVE  PushedOn(h, g, have, early, d)
<1>1. HeapOK(h) /\ h.root[d] \in Used(h) \cup {NULL} /\ u \in Used(h) \cup {NULL}
  BY DEF Shape, HeapOK, Roots
<1>2. PICK L : /\ Moved(h, n.heap, L, n.fwd) /\ u \in L \cup {NULL}
               /\ n.node \in Used(n.heap) /\ \A a \in L : n.fwd[a] # n.node
               /\ n.heap.mem[n.node].u = n.fwd[u]
  <2>1. NULL \in Vals \cup {NULL}
    OBVIOUS
  <2>2. PICK L : Got(h, collects, NULL, u, h.root[d], n, L)
    BY <1>1, <2>1, NewnodeGot
  <2>3. QED
    BY <2>2 DEF Got
<1>3. PICK m : m = n.heap
  OBVIOUS
<1> DEFINE c == Sent(n.fwd, chain)
<1>5. /\ Shape(m, c, have, 0, early)
      /\ \A s \in Lines : Nth(c[s], 1) = n.fwd[Nth(chain[s], 1)]
      /\ \A s \in Lines : Len(c[s]) = Len(have[s])
  <2>1. Moved(h, n.heap, L, n.fwd) /\ 0 \in Int /\ 1 \in Int
    BY <1>2
  <2>2. /\ Shape(n.heap, c, have, 0, early)
        /\ \A s \in Lines : /\ c[s] \in Seq(Used(n.heap))
                            /\ Len(c[s]) = Len(chain[s])
                            /\ \A i \in Int : /\ Nth(c[s], i) = n.fwd[Nth(chain[s], i)]
                                              /\ Nth(chain[s], i) \in L \cup {NULL}
    BY <2>1, MovedShape
  <2> HIDE DEF c
  <2>3. \A s \in Lines : Len(c[s]) = Len(have[s])
    BY <2>2 DEF Shape, Holding
  <2>4. QED
    BY <1>3, <2>1, <2>2, <2>3
<1> HIDE DEF c
<1>6. n.fwd[NULL] = NULL /\ NULL \notin Used(m) /\ n.node \in Used(m) /\ m \in Heap
  <2>1. n.fwd[NULL] = NULL
    BY <1>2 DEF Moved
  <2>2. m \in Heap
    BY <1>5 DEF Shape, HeapOK
  <2>3. QED
    BY <1>2, <1>3, <2>1, <2>2, UsedFacts
<1>7. \A e \in Heads : c[e] = <<>> /\ Len(c[e]) = 0
  <2> SUFFICES ASSUME NEW e \in Heads PROVE c[e] = <<>> /\ Len(c[e]) = 0
    OBVIOUS
  <2>1. e \in Lines
    BY DEF Lines
  <2>2. c[e] \in Seq(Used(m)) /\ Len(c[e]) = 0
    BY <1>5, <2>1 DEF Shape, Chained
  <2>3. QED
    BY <2>2, EmptySeq
<1>8. \A s \in Roots : h.root[s] \in L \cup {NULL} /\ m.root[s] = n.fwd[h.root[s]]
  BY <1>2, <1>3 DEF Moved
<1>9. \A a \in L : n.fwd[a] \in Used(m) /\ n.fwd[a] # n.node
  BY <1>2, <1>3 DEF Moved
<1> DEFINE R == [m.root EXCEPT ![d] = n.node]
<1>10. g = [m EXCEPT !.root = R]
  BY <1>3, <1>6 DEF Heap
<1>11. d \in Roots /\ Dumps \subseteq Roots /\ m.root \in [Roots -> Pointers]
  BY <1>6 DEF Roots, Heap
<1>12. R \in [Roots -> Pointers] /\ \A q \in Roots : R[q] = IF q = d THEN n.node ELSE m.root[q]
  <2>1. n.node \in Pointers
    BY <1>6, UsedFacts DEF Pointers
  <2>2. QED
    BY <1>11, <2>1
<1> HIDE DEF R
<1>13. g \in Heap /\ g.mem = m.mem /\ g.half = m.half /\ g.top = m.top /\ g.root = R
  BY <1>6, <1>10, <1>12, RootsMayChange DEF Heap
<1>14. Used(g) = Used(m)
  BY <1>13 DEF Used
<1>15. HeapOK(g)
  <2>1. HeapOK(m)
    BY <1>5 DEF Shape
  <2>2. \A s \in Roots : g.root[s] \in Used(g) \cup {NULL}
    BY <1>6, <1>12, <1>13, <1>14, <2>1 DEF HeapOK
  <2>3. \A a \in Used(g) : {g.mem[a].u, g.mem[a].next} \subseteq Used(g) \cup {NULL}
    BY <1>13, <1>14, <2>1 DEF HeapOK
  <2>4. QED
    BY <1>13, <2>2, <2>3 DEF HeapOK
<1>16. Chained(g, c) /\ Holding(g, c, have)
  BY <1>5, <1>13, <1>14, SameLists DEF Shape
<1>17. DMP(g, d) = IF d = "dump1" THEN Nth(c["A"], 1) ELSE NULL
  <2>1. DMP(g, d) = n.fwd[u]
    <3>1. g.root[d] = n.node
      BY <1>11, <1>12, <1>13
    <3>2. g.mem[n.node].u = n.fwd[u]
      BY <1>2, <1>3, <1>13
    <3>3. QED
      BY <3>1, <3>2 DEF DMP
  <2>2. CASE d = "dump1"
    <3>1. u = Nth(chain["A"], 1)
      BY <2>2 DEF Shape, Placed
    <3>2. QED
      BY <1>5, <2>1, <2>2, <3>1 DEF Lines
  <2>3. CASE d # "dump1"
    BY <1>6, <2>1, <2>3
  <2>4. QED
    BY <2>2, <2>3
<1>18. \A q \in Dumps : q # d => g.root[q] = m.root[q] /\ DMP(g, q) = DMP(m, q)
  BY <1>11, <1>12, <1>13 DEF DMP
<1>19. Placed(g, c, 0, early)
  <2>1. Placed(m, c, 0, early)
    BY <1>5 DEF Shape
  <2>2. \A s \in {"A", "T"} : g.root[s] = Nth(c[s], 1)
    BY <1>12, <1>13, <2>1 DEF Placed, Roots, Dumps
  <2>3. g.root["dump1"] # NULL => DMP(g, "dump1") = Nth(c["A"], 0 + 1)
    BY <1>17, <1>18, <2>1 DEF Placed, Dumps
  <2>4. ASSUME NEW e \in Heads
        PROVE  /\ g.root[e] # NULL => DMP(g, e) = Nth(c[e], 1)
               /\ g.root[LastOf(e)] # NULL =>
                    \/ DMP(g, LastOf(e)) = Nth(c[e], Len(c[e]))
                    \/ early /\ DMP(g, LastOf(e)) = NULL
    <3>1. Nth(c[e], 1) = NULL /\ Nth(c[e], Len(c[e])) = NULL
      BY <1>7 DEF Nth
    <3>2. e \in Dumps /\ LastOf(e) \in Dumps /\ e # "dump1" /\ LastOf(e) # "dump1"
      BY DEF Heads, Dumps, LastOf
    <3>3. m.root[e] # NULL => DMP(m, e) = Nth(c[e], 1)
      BY <2>1 DEF Placed
    <3>4. m.root[LastOf(e)] # NULL => DMP(m, LastOf(e)) = NULL
      BY <2>1, <3>1 DEF Placed
    <3>5. g.root[e] # NULL => DMP(g, e) = NULL
      BY <1>17, <1>18, <3>1, <3>2, <3>3
    <3>6. g.root[LastOf(e)] # NULL => DMP(g, LastOf(e)) = NULL
      BY <1>17, <1>18, <3>2, <3>4
    <3>7. QED
      BY <3>1, <3>5, <3>6
  <2>5. ASSUME NEW q \in Dumps, NEW e \in Dumps, g.root[q] = g.root[e], g.root[q] # NULL
        PROVE  q = e
    <3>1. \A x \in Dumps : m.root[x] # n.node
      <4> SUFFICES ASSUME NEW x \in Dumps PROVE m.root[x] # n.node
        OBVIOUS
      <4>1. h.root[x] \in L \cup {NULL} /\ m.root[x] = n.fwd[h.root[x]]
        BY <1>8, <1>11
      <4>2. QED
        BY <1>6, <1>9, <4>1
    <3>2. g.root[d] = n.node
      BY <1>11, <1>12, <1>13
    <3>3. m.root[q] = m.root[e] /\ m.root[q] # NULL => q = e
      BY <2>1 DEF Placed
    <3>4. QED
      BY <1>18, <2>5, <3>1, <3>2, <3>3
  <2>6. QED
    BY <1>7, <2>2, <2>3, <2>4, <2>5 DEF Placed
<1>20. Shape(g, c, have, 0, early)
  BY <1>15, <1>16, <1>19 DEF Shape
<1>21. ASSUME NEW q \in Dumps PROVE g.root[q] # NULL <=> h.root[q] # NULL \/ q = d
  <2>1. g.root[d] # NULL
    BY <1>6, <1>11, <1>12, <1>13
  <2>2. h.root[q] \in L \cup {NULL} /\ m.root[q] = n.fwd[h.root[q]]
    BY <1>8, <1>11
  <2>3. m.root[q] = NULL <=> h.root[q] = NULL
    <3>1. NULL \notin L
      BY <1>1, <1>2, UsedFacts DEF Moved, HeapOK
    <3>2. QED
      BY <1>6, <1>9, <2>2, <3>1
  <2>4. QED
    BY <1>18, <2>1, <2>3
<1>22. QED
  BY <1>20, <1>21 DEF PushedOn

LEMMA NextDumpFacts ==
  ASSUME NEW p \in Dumps, p \in {"dump4", "dump5"} => op = "split"
  PROVE  /\ NextDump(p) \in Dumps \cup {"loop"}
         /\ p \notin Pushed(op, p)
         /\ Pushed(op, NextDump(p)) = Pushed(op, p) \cup {p}
         /\ NextDump(p) \in {"dump4", "dump5"} => op = "split"
<1>1. CASE p = "dump1"
  BY <1>1 DEF Pushed, NextDump, Dumps
<1>2. CASE p = "dump2"
  BY <1>2 DEF Pushed, NextDump, Dumps
<1>3. CASE p = "dump3"
  BY <1>3 DEF Pushed, NextDump, Dumps
<1>4. CASE p = "dump4"
  BY <1>4 DEF Pushed, NextDump, Dumps
<1>5. CASE p = "dump5"
  BY <1>5 DEF Pushed, NextDump, Dumps
<1>6. QED
  BY <1>1, <1>2, <1>3, <1>4, <1>5 DEF Dumps

LEMMA PushDump == ASSUME IInv, push_dump PROVE IInv'
<1>1. /\ pc \in Dumps /\ pc' = NextDump(pc) /\ heap'.top <= SIZE
      /\ UNCHANGED <<op, count, ran, inA, inT, inN, lvalueFirst, lost, result>>
  BY DEF push_dump
<1>2. PICK chain, have, k :
        Going(heap, lost, op, count, pc, ran, inA, inT, inN, chain, have, k)
  BY <1>1 DEF IInv, Under
<1>3. /\ Shape(heap, chain, have, 0, Hurt(lost)) /\ k = 0
      /\ \A d \in Heads : Len(have[d]) <= 0
      /\ \A d \in Dumps : heap.root[d] # NULL <=> d \in Pushed(op, pc)
      /\ pc \in {"dump4", "dump5"} => op = "split"
      /\ pc # "begin" /\ pc # "store"
  BY <1>1, <1>2 DEF Going, Dumps
<1>4. /\ pc' \in Dumps \cup {"loop"}
      /\ pc \notin Pushed(op, pc)
      /\ Pushed(op, pc') = Pushed(op, pc) \cup {pc}
      /\ pc' \in {"dump4", "dump5"} => op = "split"
  BY <1>1, <1>3, NextDumpFacts
<1>5. heap.root[pc] = NULL
  BY <1>1, <1>3, <1>4
<1>6. \A e \in Heads : Len(have[e]) = 0
  <2> SUFFICES ASSUME NEW e \in Heads PROVE Len(have[e]) = 0
    OBVIOUS
  <2>1. have \in [Lines -> Seq(Vals)] /\ e \in Lines
    BY <1>3 DEF Shape, Holding, Lines
  <2>2. Len(have[e]) \in Nat
    BY <2>1, LenProperties
  <2>3. QED
    BY <1>3, <2>2
<1>7. PushedOn(heap, heap', have, Hurt(lost), pc)
  <2>1. PICK collects \in BOOLEAN :
          LET u == IF pc = "dump1" THEN heap.root["A"] ELSE NULL
              n == newnode(heap, collects, NULL, u, heap.root[pc])
          IN  heap' = [n.heap EXCEPT !.root[pc] = n.node]
    BY DEF push_dump
  <2>2. PICK u : u = IF pc = "dump1" THEN heap.root["A"] ELSE NULL
    OBVIOUS
  <2>3. PICK n : n = newnode(heap, collects, NULL, u, heap.root[pc])
    OBVIOUS
  <2>4. heap' = [n.heap EXCEPT !.root[pc] = n.node]
    BY <2>1, <2>2, <2>3
  <2>5. n.heap.top <= SIZE
    <3>1. u \in Used(heap) \cup {NULL} /\ HeapOK(heap)
      BY <1>3, <2>2 DEF Shape, HeapOK, Roots
    <3>2. IsMemory(n.heap)
      BY <2>3, <3>1, NewnodeMemory
    <3>3. heap'.top = n.heap.top
      BY <2>4, <3>2 DEF IsMemory
    <3>4. QED
      BY <1>1, <3>3
  <2>6. QED
    BY <1>1, <1>3, <1>5, <1>6, <2>2, <2>3, <2>4, <2>5, PushedShape
<1>8. PICK c : Shape(heap', c, have, 0, Hurt(lost))
  BY <1>7 DEF PushedOn
<1>9. \A d \in Dumps : heap'.root[d] # NULL <=> d \in Pushed(op, pc')
  BY <1>3, <1>4, <1>7 DEF PushedOn
<1>10. pc # "store" /\ pc # "begin" /\ pc' # "store" /\ pc' # "begin"
  BY <1>1, <1>4 DEF Dumps
<1>11. Going(heap', lost, op, count, pc', ran, inA, inT, inN, c, have, 0)
  BY <1>2, <1>3, <1>4, <1>8, <1>9, <1>10 DEF Going
<1>12. Under(heap', lost, op, count, pc', ran, inA, inT, inN)
  BY <1>11 DEF Under
<1>13. pc' \in Dumps \cup {"begin", "loop", "store"}
  BY <1>4
<1>14. QED
  BY <1>1, <1>12, <1>13, GoesOnUnder, IInvFacts

-----------------------------------------------------------------------------
(* An element is worked on. *)

LEMMA Prefixes ==
  ASSUME NEW S, NEW s \in Seq(S), NEW k \in Nat, k < Len(s)
  PROVE  /\ SubSeq(s, 1, k) \in Seq(S) /\ Len(SubSeq(s, 1, k)) = k
         /\ SubSeq(s, 1, k + 1) = Append(SubSeq(s, 1, k), s[k + 1])
         /\ s[k + 1] \in S
<1>1. Len(s) \in Nat
  BY LenProperties
<1>2. 1 \in 1 .. Len(s) /\ k + 1 \in 1 .. Len(s) /\ (k + 1) - 1 = k
  BY <1>1
<1>3. s[k + 1] \in S
  BY <1>2, ElementOfSeq
<1>4. SubSeq(s, 1, k) \in Seq(S) /\ Len(SubSeq(s, 1, k)) = k
  <2>1. \A i \in 1 .. k : s[i] \in S
    BY <1>1, ElementOfSeq
  <2>2. 1 \in Int /\ k \in Int
    OBVIOUS
  <2>3. /\ SubSeq(s, 1, k) \in Seq(S)
        /\ Len(SubSeq(s, 1, k)) = IF 1 <= k THEN k - 1 + 1 ELSE 0
    BY <2>1, <2>2, SubSeqProperties
  <2>4. QED
    BY <2>3
<1>5. SubSeq(s, 1, k + 1) = SubSeq(s, 1, k) \o <<s[k + 1]>>
  <2>1. PICK n : n = k + 1
    OBVIOUS
  <2>2. n \in 1 .. Len(s) /\ 1 \in 1 .. Len(s) /\ n - 1 = k
    BY <1>2, <2>1
  <2>3. SubSeq(s, 1, n) = SubSeq(s, 1, n - 1) \o <<s[n]>>
    BY <2>2, SubSeqRecursiveSecond
  <2>4. QED
    BY <2>1, <2>2, <2>3
<1>6. Append(SubSeq(s, 1, k), s[k + 1]) = SubSeq(s, 1, k) \o <<s[k + 1]>>
  BY <1>3, <1>4, AppendIsConcat
<1>7. QED
  BY <1>3, <1>4, <1>5, <1>6

\* List d takes the next element, or it does not, or it loses it.
Grows(o, r, a, d, k, l, m) ==
  Built(o, r, a, d, k + 1, m) =
    IF k + 1 \in m \/ (o \in {"filter", "split"} /\ r[k + 1] # (d = "dump2"))
    THEN Built(o, r, a, d, k, l)
    ELSE Append(Built(o, r, a, d, k, l), IF o = "map" THEN r[k + 1] ELSE a[k + 1])

LEMMA BuiltMore ==
  ASSUME NEW o \in {"map", "filter", "split", "take", "concat"},
         NEW r \in Seq(IF o = "map" THEN Vals ELSE BOOLEAN), NEW a \in Seq(Vals),
         NEW k \in Nat, k < Len(a), o \in Runs => Len(r) = k + 1, NEW d \in News(o),
         NEW l, NEW m, \A i \in 1 .. k : i \in l <=> i \in m
  PROVE  Grows(o, r, a, d, k, l, m)
<1>1. PICK b : b = IF o = "map" THEN r ELSE a
  OBVIOUS
<1>2. PICK W : W = Wanted(o, r, d)
  OBVIOUS
<1>3. b \in Seq(Vals) /\ k < Len(b) /\ k <= Len(b)
  <2>1. k < Len(b)
    BY <1>1 DEF Runs
  <2>2. b \in Seq(Vals)
    BY <1>1
  <2>3. QED
    BY <2>1, <2>2, LenProperties
<1>4. At(b, k, W \ m) = At(b, k, W \ l)
  BY <1>3, AtSame
<1>5. At(b, k + 1, W \ m) = IF k + 1 \in W \ m THEN Append(At(b, k, W \ m), b[k + 1])
                            ELSE At(b, k, W \ m)
  BY <1>3, AtMore
<1>6. k + 1 \in W <=> ~(o \in {"filter", "split"} /\ r[k + 1] # (d = "dump2"))
  <2>1. CASE o \in {"filter", "split"}
    <3>1. Len(r) = k + 1 /\ k + 1 \in 1 .. (k + 1)
      BY <2>1 DEF Runs
    <3>2. W = {n \in 1 .. (k + 1) : r[n] = (d = "dump2")}
      BY <1>2, <2>1, <3>1 DEF Wanted
    <3>3. QED
      BY <2>1, <3>1, <3>2
  <2>2. CASE o \notin {"filter", "split"}
    BY <1>2, <2>2 DEF Wanted
  <2>3. QED
    BY <2>1, <2>2
<1>7. b[k + 1] = IF o = "map" THEN r[k + 1] ELSE a[k + 1]
  BY <1>1
<1>8. Built(o, r, a, d, k + 1, m) = At(b, k + 1, W \ m) /\ Built(o, r, a, d, k, l) = At(b, k, W \ l)
  BY <1>1, <1>2 DEF Built
<1>9. QED
  BY <1>4, <1>5, <1>6, <1>7, <1>8 DEF Grows

\* What was built does not change when P returns for one more element.
LEMMA BuiltBefore ==
  ASSUME NEW o, NEW r \in Seq(IF o = "map" THEN Vals ELSE BOOLEAN), NEW a \in Seq(Vals), NEW d,
         NEW v \in (IF o = "map" THEN Vals ELSE BOOLEAN), Len(r) <= Len(a), NEW l
  PROVE  Built(o, Append(r, v), a, d, Len(r), l) = Built(o, r, a, d, Len(r), l)
<1>1. PICK S : S = IF o = "map" THEN Vals ELSE BOOLEAN
  OBVIOUS
<1>2. r \in Seq(S) /\ v \in S
  BY <1>1
<1>3. PICK q : q = Append(r, v)
  OBVIOUS
<1>4. PICK k : k = Len(r)
  OBVIOUS
<1>5. /\ q \in Seq(S) /\ k \in Nat /\ Len(q) = k + 1 /\ k <= Len(q)
      /\ \A i \in 1 .. k : q[i] = r[i]
  <2>1. Len(r) \in Nat
    BY <1>2, LenProperties
  <2>2. q \in Seq(S) /\ Len(q) = Len(r) + 1 /\ \A i \in 1 .. Len(r) : q[i] = r[i]
    BY <1>2, <1>3, AppendProperties
  <2>3. QED
    BY <1>4, <2>1, <2>2
<1>6. PICK b, c : b = (IF o = "map" THEN r ELSE a) /\ c = (IF o = "map" THEN q ELSE a)
  OBVIOUS
<1>7. /\ b \in Seq(Vals) /\ c \in Seq(Vals) /\ k <= Len(b) /\ k <= Len(c)
      /\ \A i \in 1 .. k : b[i] = c[i]
  <2>1. CASE o = "map"
    BY <1>1, <1>2, <1>4, <1>5, <1>6, <2>1
  <2>2. CASE o # "map"
    BY <1>4, <1>6, <2>2
  <2>3. QED
    BY <2>1, <2>2
<1>8. PICK K, L : K = Wanted(o, r, d) \ l /\ L = Wanted(o, q, d) \ l
  OBVIOUS
<1>9. \A i \in 1 .. k : i \in K <=> i \in L
  <2>1. CASE o \in {"filter", "split"}
    <3>1. /\ Wanted(o, r, d) = {n \in 1 .. k : r[n] = (d = "dump2")}
          /\ Wanted(o, q, d) = {n \in 1 .. (k + 1) : q[n] = (d = "dump2")}
      BY <1>4, <1>5, <2>1 DEF Wanted
    <3>2. \A i \in 1 .. k : i \in 1 .. (k + 1) /\ q[i] = r[i]
      BY <1>5
    <3>3. QED
      BY <1>8, <3>1, <3>2
  <2>2. CASE o \notin {"filter", "split"}
    BY <1>8, <2>2 DEF Wanted
  <2>3. QED
    BY <2>1, <2>2
<1>10. At(c, k, L) = At(b, k, K)
  BY <1>5, <1>7, <1>9, AtSame
<1>11. QED
  BY <1>3, <1>4, <1>6, <1>8, <1>10 DEF Built

\* Where the cursor is, and what it shows.
LEMMA CursorFacts ==
  ASSUME NEW h, NEW chain, NEW have, NEW k \in Nat, NEW early, Shape(h, chain, have, k, early),
         h.root["dump1"] # NULL
  PROVE  /\ DMP(h, "dump1") = NULL <=> k >= Len(have["A"])
         /\ have["A"] \in Seq(Vals) /\ Len(have["A"]) \in Nat
         /\ k < Len(have["A"]) => h.mem[DMP(h, "dump1")].val = have["A"][k + 1]
<1>1. DMP(h, "dump1") = Nth(chain["A"], k + 1)
  BY DEF Shape, Placed
<1>2. PICK i : i = k + 1
  OBVIOUS
<1>3. i \in Nat /\ i >= 1 /\ "A" \in Lines
  BY <1>2 DEF Lines
<1>4. /\ Nth(chain["A"], i) = NULL <=> i > Len(have["A"])
      /\ have["A"] \in Seq(Vals) /\ Len(have["A"]) \in Nat
  BY <1>3, NthNull
<1>5. DMP(h, "dump1") = NULL <=> k >= Len(have["A"])
  BY <1>1, <1>2, <1>4
<1>6. ASSUME k < Len(have["A"]) PROVE h.mem[DMP(h, "dump1")].val = have["A"][k + 1]
  <2>1. Len(have["A"]) = Len(chain["A"])
    BY <1>3 DEF Shape, Holding
  <2>2. i \in 1 .. Len(chain["A"])
    BY <1>2, <1>3, <1>4, <1>6, <2>1
  <2>3. Nth(chain["A"], i) = chain["A"][i]
    BY <2>2 DEF Nth
  <2>4. h.mem[chain["A"][i]].val = have["A"][i]
    BY <1>3, <2>2 DEF Shape, Holding
  <2>5. QED
    BY <1>1, <1>2, <2>3, <2>4
<1>7. QED
  BY <1>4, <1>5, <1>6

\* An element is stored and the cursor goes on.
LEMMA StoreGoing ==
  ASSUME NEW l, NEW loses \in BOOLEAN, NEW o \in {"map", "filter", "split", "take", "concat"},
         NEW r \in Seq(IF o = "map" THEN Vals ELSE BOOLEAN), NEW a \in Seq(Vals), NEW t,
         NEW N, NEW cnt \in Int, N \in Int,
         NEW h, NEW chain, NEW have, NEW k,
         Going(h, l, o, cnt, "store", r, a, t, N, chain, have, k),
         NEW d, d = (IF o = "split" /\ ~r[Len(r)] THEN "dump4" ELSE "dump2"),
         NEW v, v = (IF o = "map" THEN r[k + 1] ELSE a[k + 1]),
         NEW m, m = (IF loses THEN l \cup {k + 1} ELSE l),
         NEW g, Stored(h, g, have, k, loses, Hurt(m), d, v),
         NEW e, e = StepOld(g)
  PROVE  Under(e, m, o, cnt, "loop", r, a, t, N)
<1>1. /\ Shape(h, chain, have, k, Hurt(l)) /\ have["A"] = a /\ have["T"] = t
      /\ k \in Nat /\ k < Len(a) /\ Len(a) \in Nat
      /\ \A q \in Dumps : h.root[q] # NULL <=> q \in Pushed(o, "store")
      /\ o \in Runs => Len(r) = k + 1
      /\ o = "take" => cnt = N - k - 1 /\ cnt >= 0 /\ N >= 1
      /\ l \subseteq 1 .. k
      /\ o = "filter" => r[k + 1] = TRUE
      /\ \A x \in Heads : Len(have[x]) <= k
      /\ \A x \in News(o) : have[x] = Built(o, r, a, x, k, l)
  <2>1. Len(a) \in Nat
    BY LenProperties
  <2>2. QED
    BY <2>1 DEF Going, Dumps
<1>2. PICK c, w : /\ Shape(g, c, w, k, Hurt(m))
                  /\ w = IF loses THEN have ELSE [have EXCEPT ![d] = Append(@, v)]
  BY DEF Stored
<1>3. have \in [Lines -> Seq(Vals)] /\ Heads \subseteq Lines /\ {"A", "T"} \subseteq Lines
  BY <1>1 DEF Shape, Holding, Lines
<1>4. d \in Heads /\ d \in News(o) /\ "A" \notin Heads /\ "T" \notin Heads
  BY DEF Heads, News
<1>5. /\ w["A"] = a /\ w["T"] = t
      /\ \A x \in Heads : x # d => w[x] = have[x]
      /\ w[d] = IF loses THEN have[d] ELSE Append(have[d], v)
  BY <1>1, <1>2, <1>3, <1>4
<1>6. g.root["dump1"] # NULL
  <2>1. h.root["dump1"] # NULL
    BY <1>1 DEF Pushed, Dumps
  <2>2. QED
    BY <2>1 DEF Stored, Roots, Dumps
<1>7. DMP(g, "dump1") # NULL
  <2>1. DMP(g, "dump1") = NULL <=> k >= Len(w["A"])
    BY <1>1, <1>2, <1>6, CursorFacts
  <2>2. QED
    BY <1>1, <1>5, <2>1
<1>8. Shape(e, c, w, k + 1, Hurt(m)) /\ e.root = g.root
  BY <1>1, <1>2, <1>6, <1>7, SteppedOld
<1>9. \A q \in Dumps : e.root[q] # NULL <=> q \in Pushed(o, "loop")
  <2>1. Pushed(o, "loop") = Pushed(o, "store")
    BY DEF Pushed
  <2>2. Dumps \subseteq Roots
    BY DEF Roots
  <2>3. QED
    BY <1>1, <1>8, <2>1, <2>2 DEF Stored
<1>10. \A x \in Heads : Len(w[x]) <= k + 1
  <2> SUFFICES ASSUME NEW x \in Heads PROVE Len(w[x]) <= k + 1
    OBVIOUS
  <2>1. have[x] \in Seq(Vals) /\ Len(have[x]) \in Nat /\ Len(have[x]) <= k
    <3>1. have[x] \in Seq(Vals)
      BY <1>3
    <3>2. QED
      BY <1>1, <3>1, LenProperties
  <2>2. w[x] = have[x] \/ w[x] = Append(have[x], v)
    BY <1>5
  <2>3. v \in Vals
    <3>1. CASE o = "map"
      <4>1. r \in Seq(Vals) /\ k < Len(r)
        BY <1>1, <3>1 DEF Runs
      <4>2. r[k + 1] \in Vals
        BY <1>1, <4>1, Prefixes
      <4>3. QED
        BY <3>1, <4>2
    <3>2. CASE o # "map"
      <4>1. a[k + 1] \in Vals
        BY <1>1, Prefixes
      <4>2. QED
        BY <3>2, <4>1
    <3>3. QED
      BY <3>1, <3>2
  <2>4. Len(Append(have[x], v)) = Len(have[x]) + 1
    BY <2>1, <2>3, AppendProperties
  <2>5. CASE w[x] = have[x]
    BY <1>1, <2>1, <2>5
  <2>6. CASE w[x] = Append(have[x], v)
    BY <1>1, <2>1, <2>4, <2>6
  <2>7. QED
    BY <2>2, <2>5, <2>6
<1>11. ASSUME NEW x \in News(o) PROVE w[x] = Built(o, r, a, x, k + 1, m)
  <2>1. Built(o, r, a, x, k + 1, m) =
           IF k + 1 \in m \/ (o \in {"filter", "split"} /\ r[k + 1] # (x = "dump2"))
           THEN Built(o, r, a, x, k, l)
           ELSE Append(Built(o, r, a, x, k, l), IF o = "map" THEN r[k + 1] ELSE a[k + 1])
    <3>1. \A i \in 1 .. k : i \in l <=> i \in m
      BY <1>1
    <3>2. Grows(o, r, a, x, k, l, m)
      BY <1>1, <3>1, BuiltMore
    <3>3. QED
      BY <3>2 DEF Grows
  <2>2. have[x] = Built(o, r, a, x, k, l)
    BY <1>1
  <2>3. x \in Heads
    BY DEF News, Heads
  <2>4. k + 1 \in m <=> loses
    BY <1>1
  <2>5. CASE loses
    <3>1. w[x] = have[x]
      BY <1>5, <2>3, <2>5
    <3>2. QED
      BY <2>1, <2>2, <2>4, <2>5, <3>1
  <2>6. CASE ~loses /\ o = "split"
    <3>1. Len(r) = k + 1 /\ r[k + 1] \in BOOLEAN
      <4>1. r \in Seq(BOOLEAN) /\ Len(r) = k + 1
        BY <1>1, <2>6 DEF Runs
      <4>2. k < Len(r)
        BY <1>1, <4>1
      <4>3. r[k + 1] \in BOOLEAN
        BY <1>1, <4>1, <4>2, Prefixes
      <4>4. QED
        BY <4>1, <4>3
    <3>2. d = IF r[k + 1] THEN "dump2" ELSE "dump4"
      BY <2>6, <3>1
    <3>3. r[k + 1] # (x = "dump2") <=> x # d
      BY <2>3, <3>1, <3>2 DEF Heads
    <3>4. CASE x = d
      BY <1>5, <2>1, <2>2, <2>4, <2>6, <3>3, <3>4
    <3>5. CASE x # d
      <4>1. w[x] = have[x]
        BY <1>5, <2>3, <3>5
      <4>2. QED
        BY <2>1, <2>2, <2>4, <2>6, <3>3, <3>5, <4>1
    <3>6. QED
      BY <3>4, <3>5
  <2>7. CASE ~loses /\ o # "split"
    <3>1. x = "dump2" /\ d = "dump2"
      BY <2>7 DEF News
    <3>2. o = "filter" => r[k + 1] = TRUE
      BY <1>1
    <3>3. ~(o \in {"filter", "split"} /\ r[k + 1] # (x = "dump2"))
      BY <2>7, <3>1, <3>2
    <3>4. w[x] = Append(have[x], v)
      BY <1>5, <2>7, <3>1
    <3>5. k + 1 \notin m
      BY <2>4, <2>7
    <3>6. QED
      BY <2>1, <2>2, <3>3, <3>4, <3>5
  <2>8. QED
    BY <2>5, <2>6, <2>7
<1>12. Going(e, m, o, cnt, "loop", r, a, t, N, c, w, k + 1)
  <2>1. "loop" \notin Dumps \cup {"begin", "store", "dump4", "dump5"}
    BY DEF Dumps
  <2>2. k + 1 \in 0 .. Len(a) /\ m \subseteq 1 .. (k + 1)
    <3>1. k + 1 \in 0 .. Len(a) /\ k + 1 \in 1 .. (k + 1) /\ l \subseteq 1 .. (k + 1)
      BY <1>1
    <3>2. m \subseteq l \cup {k + 1}
      OBVIOUS
    <3>3. QED
      BY <3>1, <3>2
  <2>3. o = "take" => cnt = N - (k + 1) /\ cnt >= 0 /\ N >= 1
    BY <1>1
  <2>4. o = "concat" => a # <<>>
    BY <1>1, EmptySeq
  <2>5. QED
    BY <1>1, <1>5, <1>8, <1>9, <1>10, <1>11, <2>1, <2>2, <2>3, <2>4 DEF Going
<1>13. QED
  BY <1>12 DEF Under

\* The place of the cursor's element.
LEMMA PositionIs ==
  ASSUME IInv, NEW early, NEW chain, NEW have, NEW k \in Nat, Shape(heap, chain, have, k, early),
         have["A"] = inA, k < Len(inA), heap.root["dump1"] # NULL
  PROVE  Position = k + 1
<1>1. PICK c, p : c = chain["A"] /\ p = DMP(heap, "dump1")
  OBVIOUS
<1>2. "A" \in Lines
  BY DEF Lines
<1>3. /\ heap \in Heap /\ c \in Seq(Used(heap)) /\ Len(inA) = Len(c) /\ p = Nth(c, k + 1)
      /\ \A i \in 1 .. Len(c) : heap.mem[c[i]].val = inA[i] /\ heap.mem[c[i]].next = Nth(c, i + 1)
  BY <1>1, <1>2 DEF Shape, Chained, Holding, Placed, HeapOK
<1>4. Used(heap) \subseteq Addr
  BY <1>3, UsedFacts DEF Shape, HeapOK
<1>5. c \in Seq(Addr) /\ inA \in Seq(Vals) /\ Len(c) \in Nat /\ Len(c) <= SIZE
  BY <1>3, <1>4, IInvFacts, SizeAssumption
<1>6. PICK m : m = Len(c) - k
  OBVIOUS
<1>7. m \in Nat /\ m <= Len(c) /\ Len(c) - m + 1 = k + 1 /\ m = Len(c) - k
  BY <1>3, <1>5, <1>6
<1>8. ListAt(heap, Nth(c, Len(c) - m + 1)) = SubSeq(inA, Len(c) - m + 1, Len(c))
  BY <1>3, <1>5, <1>7, ListFrom
<1>9. ListAt(heap, p) = SubSeq(inA, k + 1, Len(inA))
  BY <1>3, <1>7, <1>8
<1>10. Len(SubSeq(inA, k + 1, Len(inA))) = Len(inA) - k
  <2>1. PICK x, y : x = k + 1 /\ y = Len(inA)
    OBVIOUS
  <2>2. x \in Int /\ y \in Int /\ x <= y /\ \A i \in x .. y : inA[i] \in Vals
    <3>1. x \in Int /\ y \in Int /\ x <= y /\ \A i \in x .. y : i \in 1 .. Len(inA)
      BY <1>3, <1>5, <2>1
    <3>2. QED
      BY <1>5, <3>1, ElementOfSeq
  <2>3. Len(SubSeq(inA, x, y)) = IF x <= y THEN y - x + 1 ELSE 0
    BY <2>2, SubSeqProperties
  <2>4. QED
    BY <2>1, <2>2, <2>3
<1>11. QED
  BY <1>1, <1>3, <1>5, <1>9, <1>10 DEF Position

\* What a store knows of its element and its list.
LEMMA StoreFacts ==
  ASSUME IInv, pc = "store", NEW chain, NEW have, NEW k,
         Going(heap, lost, op, count, "store", ran, inA, inT, inN, chain, have, k)
  PROVE  /\ Shape(heap, chain, have, k, Hurt(lost)) /\ k \in Nat /\ Position = k + 1
         /\ Target \in Heads /\ heap.root[Target] # NULL /\ heap.root[LastOf(Target)] # NULL
         /\ Element = (IF op = "map" THEN ran[k + 1] ELSE inA[k + 1])
         /\ Element \in Vals
<1>1. /\ Shape(heap, chain, have, k, Hurt(lost)) /\ have["A"] = inA
      /\ k \in Nat /\ k < Len(inA)
      /\ \A q \in Dumps : heap.root[q] # NULL <=> q \in Pushed(op, "store")
      /\ op \in Runs => Len(ran) = k + 1
  BY IInvFacts DEF Going, Dumps
<1>2. /\ inA \in Seq(Vals) /\ ran \in Seq(IF op = "map" THEN Vals ELSE BOOLEAN)
  BY IInvFacts
<1>3. Target \in Heads
  BY DEF Target, Heads
<1>4. heap.root[Target] # NULL /\ heap.root[LastOf(Target)] # NULL
  <2>1. Target \in Pushed(op, "store") /\ LastOf(Target) \in Pushed(op, "store")
    BY DEF Target, LastOf, Pushed, Dumps
  <2>2. Target \in Dumps /\ LastOf(Target) \in Dumps
    BY DEF Target, LastOf, Dumps
  <2>3. QED
    BY <1>1, <2>1, <2>2
<1>5. heap.root["dump1"] # NULL
  BY <1>1 DEF Pushed, Dumps
<1>6. Element = (IF op = "map" THEN ran[k + 1] ELSE inA[k + 1])
  <2>1. heap.mem[DMP(heap, "dump1")].val = inA[k + 1]
    BY <1>1, <1>5, CursorFacts
  <2>2. CASE op = "map"
    <3>1. Len(ran) = k + 1
      BY <1>1, <2>2 DEF Runs
    <3>2. QED
      BY <2>2, <3>1 DEF Element
  <2>3. CASE op # "map"
    BY <2>1, <2>3 DEF Element
  <2>4. QED
    BY <2>2, <2>3
<1>7. Element \in Vals
  <2>1. CASE op = "map"
    <3>1. ran \in Seq(Vals) /\ k < Len(ran)
      BY <1>1, <1>2, <2>1 DEF Runs
    <3>2. ran[k + 1] \in Vals
      BY <1>1, <3>1, Prefixes
    <3>3. QED
      BY <1>6, <2>1, <3>2
  <2>2. CASE op # "map"
    <3>1. inA[k + 1] \in Vals
      BY <1>1, <1>2, Prefixes
    <3>2. QED
      BY <1>6, <2>2, <3>1
  <2>3. QED
    BY <2>1, <2>2
<1>8. Position = k + 1
  BY <1>1, <1>5, PositionIs
<1>9. QED
  BY <1>1, <1>3, <1>4, <1>6, <1>7, <1>8

\* StepOld changes one cell's pointer.
LEMMA StepTop ==
  ASSUME NEW h, IsMemory(h)
  PROVE  StepOld(h).top = h.top
BY DEF StepOld, IsMemory

\* What holds while no element is lost holds when one is.
LEMMA ShapeLater ==
  ASSUME NEW h, NEW early \in BOOLEAN, NEW later \in BOOLEAN, early => later,
         NEW chain, NEW have, NEW k, Shape(h, chain, have, k, early)
  PROVE  Shape(h, chain, have, k, later)
<1>1. Placed(h, chain, k, later)
  BY DEF Shape, Placed
<1>2. QED
  BY <1>1 DEF Shape

LEMMA HurtType == ASSUME NEW l PROVE Hurt(l) \in BOOLEAN
BY DEF Hurt

\* What both stores begin from: loses says whether they lose their element.
Storing(chain, have, k, loses) ==
  /\ Going(heap, lost, op, count, "store", ran, inA, inT, inN, chain, have, k)
  /\ Shape(heap, chain, have, k, Hurt(lost')) /\ k \in Nat
  /\ lost' = IF loses THEN lost \cup {k + 1} ELSE lost
  /\ loses => Hurt(lost')

LEMMA StoreBegins ==
  ASSUME IInv, pc = "store", NEW collects \in BOOLEAN, NEW loses, loses = (lvalueFirst /\ collects),
         lost' = (IF lvalueFirst /\ collects THEN lost \cup {Position} ELSE lost)
  PROVE  \E chain, have, k : Storing(chain, have, k, loses)
<1>1. PICK chain, have, k :
        Going(heap, lost, op, count, "store", ran, inA, inT, inN, chain, have, k)
  BY DEF IInv, Under
<1>2. Shape(heap, chain, have, k, Hurt(lost)) /\ k \in Nat /\ Position = k + 1
  BY <1>1, StoreFacts
<1>3. lost' = IF loses THEN lost \cup {k + 1} ELSE lost
  BY <1>2
<1>4. (Hurt(lost) => Hurt(lost')) /\ (loses => Hurt(lost'))
  BY <1>3 DEF Hurt
<1>5. Hurt(lost) \in BOOLEAN /\ Hurt(lost') \in BOOLEAN
  BY HurtType
<1>6. Shape(heap, chain, have, k, Hurt(lost'))
  BY <1>2, <1>4, <1>5, ShapeLater
<1>7. Storing(chain, have, k, loses)
  BY <1>1, <1>2, <1>3, <1>4, <1>6 DEF Storing
<1>8. QED
  BY <1>7

\* Both stores end in the same way.
LEMMA Stores ==
  ASSUME IInv, pc = "store", pc' = "loop",
         UNCHANGED <<op, count, ran, inA, inT, inN, lvalueFirst, result>>,
         NEW loses \in BOOLEAN, NEW chain, NEW have, NEW k, Storing(chain, have, k, loses),
         NEW g, Stored(heap, g, have, k, loses, Hurt(lost'), Target, Element), heap' = StepOld(g)
  PROVE  IInv'
<1>0. /\ Going(heap, lost, op, count, "store", ran, inA, inT, inN, chain, have, k)
      /\ lost' = IF loses THEN lost \cup {k + 1} ELSE lost
  BY DEF Storing
<1>1. Element = (IF op = "map" THEN ran[k + 1] ELSE inA[k + 1])
  BY <1>0, StoreFacts
<1>2. Target = (IF op = "split" /\ ~ran[Len(ran)] THEN "dump4" ELSE "dump2")
  BY DEF Target
<1>3. PICK d, m : d = Target /\ m = lost'
  OBVIOUS
<1>4. PICK v : v = Element
  OBVIOUS
<1>5. PICK e : e = heap'
  OBVIOUS
<1>6. /\ d = (IF op = "split" /\ ~ran[Len(ran)] THEN "dump4" ELSE "dump2")
      /\ v = (IF op = "map" THEN ran[k + 1] ELSE inA[k + 1])
      /\ m = (IF loses THEN lost \cup {k + 1} ELSE lost)
      /\ Stored(heap, g, have, k, loses, Hurt(m), d, v) /\ e = StepOld(g)
  BY <1>0, <1>1, <1>2, <1>3, <1>4, <1>5
<1>7. Under(e, m, op, count, "loop", ran, inA, inT, inN)
  BY <1>0, <1>6, IInvFacts, StoreGoing
<1>8. Under(heap', lost', op, count', pc', ran', inA, inT, inN)
  BY <1>3, <1>5, <1>7
<1>9. pc' \in Dumps \cup {"begin", "loop", "store"}
  OBVIOUS
<1>10. lost' \subseteq 1 .. Len(inA)
  <2>1. k \in Nat /\ k < Len(inA) /\ lost \subseteq 1 .. k
    BY <1>0 DEF Going, Storing
  <2>2. QED
    BY <1>0, <2>1, IInvFacts
<1>11. QED
  BY <1>8, <1>9, <1>10, GoesOnAfter, IInvFacts

LEMMA StoreFirst == ASSUME IInv, store_first PROVE IInv'
<1>1. /\ pc = "store" /\ pc' = "loop" /\ heap'.top <= SIZE /\ DMP(heap, Target) = NULL
      /\ UNCHANGED <<op, count, ran, inA, inT, inN, lvalueFirst, result>>
  BY DEF store_first
<1>3. PICK collects \in BOOLEAN :
        /\ heap' = StepOld(First(heap, collects, Element, Target))
        /\ lost' = IF lvalueFirst /\ collects THEN lost \cup {Position} ELSE lost
  BY DEF store_first, Outdates
<1>0. PICK loses \in BOOLEAN : loses <=> lvalueFirst /\ collects
  BY IInvFacts
<1>2. PICK chain, have, k : Storing(chain, have, k, loses)
  BY <1>0, <1>1, <1>3, IInvFacts, StoreBegins
<1>4. PICK g : g = First(heap, collects, Element, Target)
  OBVIOUS
<1>5. PICK d : d = Target
  OBVIOUS
<1>6. PICK v : v = Element
  OBVIOUS
<1>7. /\ Shape(heap, chain, have, k, Hurt(lost')) /\ k \in Nat /\ (loses => Hurt(lost'))
      /\ d \in Heads /\ heap.root[d] # NULL /\ heap.root[LastOf(d)] # NULL
      /\ v \in Vals
  BY <1>1, <1>2, <1>5, <1>6, StoreFacts DEF Storing
<1>8. IsMemory(g)
  <2>1. PICK n : n = newnode(heap, collects, v, NULL, NULL)
    OBVIOUS
  <2>2. PICK x : x = IF lvalueFirst THEN heap.root[d] ELSE n.fwd[heap.root[d]]
    OBVIOUS
  <2>3. PICK m : m = PutU(n.heap, x, n.node)
    OBVIOUS
  <2>4. g = PutU(m, m.root[LastOf(d)], DMP(m, d))
    BY <1>4, <1>5, <1>6, <2>1, <2>2, <2>3 DEF First, PutU
  <2>5. IsMemory(n.heap)
    BY <1>7, <2>1, NewnodeMemory DEF Shape
  <2>6. IsMemory(m)
    BY <2>3, <2>5, PutMemory
  <2>7. QED
    BY <2>4, <2>6, PutMemory
<1>9. g.top <= SIZE
  BY <1>1, <1>3, <1>4, <1>8, StepTop
<1>10. g = First(heap, collects, v, d) /\ DMP(heap, d) = NULL
  BY <1>1, <1>4, <1>5, <1>6
<1>11. Stored(heap, g, have, k, loses, Hurt(lost'), d, v)
  BY <1>7, <1>9, <1>10, <1>0, HurtType, IInvFacts, StoredFirst
<1>12. Stored(heap, g, have, k, loses, Hurt(lost'), Target, Element) /\ heap' = StepOld(g)
  BY <1>3, <1>4, <1>5, <1>6, <1>11
<1>13. QED
  BY <1>0, <1>1, <1>2, <1>12, Stores

LEMMA StoreFurther == ASSUME IInv, store_further PROVE IInv'
<1>1. /\ pc = "store" /\ pc' = "loop" /\ heap'.top <= SIZE
      /\ DMP(heap, Target) # NULL /\ DMP(heap, LastOf(Target)) # NULL
      /\ UNCHANGED <<op, count, ran, inA, inT, inN, lvalueFirst, result>>
  BY DEF store_further
<1>3. PICK collects \in BOOLEAN :
        /\ heap' = StepOld(Further(heap, collects, Element, Target))
        /\ lost' = IF lvalueFirst /\ collects THEN lost \cup {Position} ELSE lost
  BY DEF store_further, Outdates
<1>0. PICK loses \in BOOLEAN : loses <=> lvalueFirst /\ collects
  BY IInvFacts
<1>2. PICK chain, have, k : Storing(chain, have, k, loses)
  BY <1>0, <1>1, <1>3, IInvFacts, StoreBegins
<1>4. PICK g : g = Further(heap, collects, Element, Target)
  OBVIOUS
<1>5. PICK d : d = Target
  OBVIOUS
<1>6. PICK v : v = Element
  OBVIOUS
<1>7. /\ Shape(heap, chain, have, k, Hurt(lost')) /\ k \in Nat /\ (loses => Hurt(lost'))
      /\ d \in Heads /\ heap.root[d] # NULL /\ heap.root[LastOf(d)] # NULL
      /\ v \in Vals
  BY <1>1, <1>2, <1>5, <1>6, StoreFacts DEF Storing
<1>8. IsMemory(g)
  <2>1. PICK n : n = newnode(heap, collects, v, NULL, NULL)
    OBVIOUS
  <2>2. PICK x : x = IF lvalueFirst THEN DMP(heap, LastOf(d)) ELSE n.fwd[DMP(heap, LastOf(d))]
    OBVIOUS
  <2>3. PICK m : m = PutNext(n.heap, x, n.node)
    OBVIOUS
  <2>4. g = PutU(m, m.root[LastOf(d)], m.mem[DMP(m, LastOf(d))].next)
    BY <1>4, <1>5, <1>6, <2>1, <2>2, <2>3 DEF Further, PutU, PutNext
  <2>5. IsMemory(n.heap)
    BY <1>7, <2>1, NewnodeMemory DEF Shape
  <2>6. IsMemory(m)
    BY <2>3, <2>5, PutMemory
  <2>7. QED
    BY <2>4, <2>6, PutMemory
<1>9. g.top <= SIZE
  BY <1>1, <1>3, <1>4, <1>8, StepTop
<1>10. g = Further(heap, collects, v, d) /\ DMP(heap, LastOf(d)) # NULL
  BY <1>1, <1>4, <1>5, <1>6
<1>11. Stored(heap, g, have, k, loses, Hurt(lost'), d, v)
  BY <1>7, <1>9, <1>10, <1>0, HurtType, IInvFacts, StoredFurther
<1>12. Stored(heap, g, have, k, loses, Hurt(lost'), Target, Element) /\ heap' = StepOld(g)
  BY <1>3, <1>4, <1>5, <1>6, <1>11
<1>13. QED
  BY <1>0, <1>1, <1>2, <1>12, Stores

\* A collection while P runs.
Same(h, g, have, k, early) ==
  /\ \A q \in Roots : g.root[q] = NULL <=> h.root[q] = NULL
  /\ \E c : Shape(g, c, have, k, early)

LEMMA CollectShape ==
  ASSUME NEW h, NEW chain, NEW have, NEW k \in Int, NEW early, Shape(h, chain, have, k, early),
         NEW collects \in BOOLEAN,
         NEW g, g = (IF collects THEN Collect(h, {}) ELSE h)
  PROVE  Same(h, g, have, k, early)
<1>1. CASE ~collects
  BY <1>1 DEF Same
<1>2. CASE collects
  <2>1. HeapOK(h) /\ {} \subseteq Used(h) \cup {NULL}
    BY DEF Shape
  <2>2. PICK L, f : L = Live(h, {}) /\ f = Forwards(h, Live(h, {}))
    OBVIOUS
  <2>3. Moved(h, g, L, f)
    <3>1. Moved(h, Collect(h, {}), Live(h, {}), Forwards(h, Live(h, {})))
      BY <2>1, CollectMoves
    <3>2. QED
      BY <1>2, <2>2, <3>1
  <2>4. Shape(g, Sent(f, chain), have, k, early)
    BY <2>3, MovedShape
  <2>5. ASSUME NEW q \in Roots PROVE g.root[q] = NULL <=> h.root[q] = NULL
    <3>1. h.root[q] \in L \cup {NULL} /\ g.root[q] = f[h.root[q]] /\ f[NULL] = NULL
      BY <2>3 DEF Moved
    <3>2. \A a \in L : f[a] \in Used(g) /\ a \in Used(h)
      BY <2>3 DEF Moved
    <3>3. NULL \notin Used(g) /\ NULL \notin Used(h)
      BY <2>1, <2>3, UsedFacts DEF Moved, HeapOK
    <3>4. QED
      BY <3>1, <3>2, <3>3
  <2>6. QED
    BY <2>4, <2>5 DEF Same
<1>3. QED
  BY <1>1, <1>2

LEMMA CopyElement == ASSUME IInv, copy_element PROVE IInv'
<1>1. /\ pc = "loop" /\ pc' = "store" /\ DMP(heap, "dump1") # NULL
      /\ op = "take" => count > 0
      /\ op \in {"take", "concat"}
      /\ count' = IF op = "take" THEN count - 1 ELSE count
      /\ UNCHANGED <<heap, op, ran, inA, inT, inN, lvalueFirst, lost, result>>
  BY DEF copy_element, GoesOn
<1>2. PICK chain, have, k :
        Going(heap, lost, op, count, "loop", ran, inA, inT, inN, chain, have, k)
  BY <1>1 DEF IInv, Under
<1>3. /\ Shape(heap, chain, have, k, Hurt(lost)) /\ have["A"] = inA /\ k \in Nat
      /\ \A q \in Dumps : heap.root[q] # NULL <=> q \in Pushed(op, "loop")
      /\ op = "take" => count = inN - k
  BY <1>2, IInvFacts DEF Going
<1>4. k < Len(inA)
  <2>1. heap.root["dump1"] # NULL
    BY <1>3 DEF Pushed, Dumps
  <2>2. DMP(heap, "dump1") = NULL <=> k >= Len(inA)
    BY <1>3, <2>1, CursorFacts
  <2>3. QED
    BY <1>1, <1>3, <2>2, IInvFacts
<1>5. Going(heap, lost, op, count', "store", ran, inA, inT, inN, chain, have, k)
  <2>1. Pushed(op, "store") = Pushed(op, "loop")
    BY DEF Pushed
  <2>2. "store" \notin Dumps \cup {"begin", "dump4", "dump5"}
    BY DEF Dumps
  <2>3. op = "take" => count' = inN - k - 1 /\ count' >= 0 /\ inN >= 1
    BY <1>1, <1>3, IInvFacts
  <2>4. op \notin Runs /\ op # "filter"
    BY <1>1 DEF Runs
  <2>5. QED
    BY <1>2, <1>4, <2>1, <2>2, <2>3, <2>4 DEF Going
<1>6. Under(heap', lost, op, count', pc', ran', inA, inT, inN)
  BY <1>1, <1>5 DEF Under
<1>7. pc' \in Dumps \cup {"begin", "loop", "store"} /\ count' \in Int
  BY <1>1, IInvFacts
<1>8. QED
  BY <1>1, <1>6, <1>7, GoesOnUnder, IInvFacts

\* What P returned for one more element.
LEMMA OneMore ==
  ASSUME NEW S, NEW r \in Seq(S), NEW v \in S, NEW q, q = Append(r, v)
  PROVE  q \in Seq(S) /\ Len(q) = Len(r) + 1 /\ q[Len(r) + 1] = v
BY AppendProperties

\* P was executed for an element of list a.
LEMMA ExecGoing ==
  ASSUME NEW l, NEW o \in Runs, NEW r \in Seq(IF o = "map" THEN Vals ELSE BOOLEAN),
         NEW v \in (IF o = "map" THEN Vals ELSE BOOLEAN), NEW a \in Seq(Vals), NEW t, NEW N, NEW cnt,
         NEW h, NEW chain, NEW have, NEW k,
         Going(h, l, o, cnt, "loop", r, a, t, N, chain, have, k), DMP(h, "dump1") # NULL,
         NEW collects \in BOOLEAN, NEW m, m = (IF collects THEN Collect(h, {}) ELSE h),
         NEW q, q = Append(r, v)
  PROVE  IF o = "filter" /\ ~v THEN Under(StepOld(m), l, o, cnt, "loop", q, a, t, N)
         ELSE Under(m, l, o, cnt, "store", q, a, t, N)
<1>1. /\ Shape(h, chain, have, k, Hurt(l)) /\ have["A"] = a /\ have["T"] = t
      /\ k \in Nat /\ k <= Len(a) /\ Len(a) \in Nat /\ Len(r) = k
      /\ \A x \in Dumps : h.root[x] # NULL <=> x \in Pushed(o, "loop")
      /\ \A x \in Heads : Len(have[x]) <= k
      /\ l \subseteq 1 .. k
      /\ \A x \in News(o) : have[x] = Built(o, r, a, x, k, l)
  <2>1. Len(a) \in Nat
    BY LenProperties
  <2>2. QED
    BY <2>1 DEF Going
<1>2. o \in {"map", "filter", "split"} /\ o # "take" /\ o # "concat"
  BY DEF Runs
<1>3. h.root["dump1"] # NULL /\ Dumps \subseteq Roots
  BY <1>1 DEF Pushed, Dumps, Roots
<1>4. k < Len(a)
  <2>1. DMP(h, "dump1") = NULL <=> k >= Len(a)
    BY <1>1, <1>3, CursorFacts
  <2>2. QED
    BY <1>1, <2>1
<1>5. Same(h, m, have, k, Hurt(l))
  BY <1>1, HurtType, CollectShape
<1>6. PICK c : Shape(m, c, have, k, Hurt(l))
  BY <1>5 DEF Same
<1>7. \A x \in Dumps : m.root[x] # NULL <=> x \in Pushed(o, "loop")
  BY <1>1, <1>3, <1>5 DEF Same
<1>8. /\ q \in Seq(IF o = "map" THEN Vals ELSE BOOLEAN) /\ Len(q) = k + 1 /\ q[k + 1] = v
  BY <1>1, OneMore
<1>9. \A x \in News(o) : Built(o, q, a, x, k, l) = Built(o, r, a, x, k, l)
  BY <1>1, BuiltBefore
<1>10. CASE o = "filter" /\ ~v
  <2>1. DMP(m, "dump1") # NULL /\ m.root["dump1"] # NULL
    <3>1. m.root["dump1"] # NULL
      BY <1>3, <1>5 DEF Same, Dumps
    <3>2. DMP(m, "dump1") = NULL <=> k >= Len(a)
      BY <1>1, <1>6, <3>1, CursorFacts
    <3>3. QED
      BY <1>1, <1>4, <3>1, <3>2
  <2>2. PICK e : e = StepOld(m)
    OBVIOUS
  <2>3. Shape(e, c, have, k + 1, Hurt(l)) /\ e.root = m.root
    BY <1>1, <1>6, <2>1, <2>2, SteppedOld
  <2>4. ASSUME NEW x \in News(o) PROVE have[x] = Built(o, q, a, x, k + 1, l)
    <3>1. Grows(o, q, a, x, k, l, l)
      BY <1>1, <1>2, <1>4, <1>8, BuiltMore
    <3>2. x = "dump2" /\ q[k + 1] = FALSE
      <4>1. v \in BOOLEAN
        BY <1>10
      <4>2. QED
        BY <1>8, <1>10, <4>1 DEF News
    <3>3. Built(o, q, a, x, k + 1, l) = Built(o, q, a, x, k, l)
      BY <1>10, <3>1, <3>2 DEF Grows
    <3>4. QED
      BY <1>1, <1>9, <3>3
  <2>5. \A x \in Heads : Len(have[x]) <= k + 1
    <3> SUFFICES ASSUME NEW x \in Heads PROVE Len(have[x]) <= k + 1
      OBVIOUS
    <3>1. have \in [Lines -> Seq(Vals)] /\ x \in Lines
      BY <1>1 DEF Shape, Holding, Lines
    <3>2. Len(have[x]) \in Nat
      BY <3>1, LenProperties
    <3>3. QED
      BY <1>1, <3>2
  <2>6. Going(e, l, o, cnt, "loop", q, a, t, N, c, have, k + 1)
    <3>1. "loop" \notin Dumps \cup {"begin", "store", "dump4", "dump5"}
      BY DEF Dumps
    <3>2. k + 1 \in 0 .. Len(a) /\ l \subseteq 1 .. (k + 1)
      BY <1>1, <1>4
    <3>3. \A x \in Dumps : e.root[x] # NULL <=> x \in Pushed(o, "loop")
      BY <1>7, <2>3
    <3>4. QED
      BY <1>1, <1>2, <1>8, <2>3, <2>4, <2>5, <3>1, <3>2, <3>3 DEF Going
  <2>7. QED
    BY <1>10, <2>2, <2>6 DEF Under
<1>11. CASE ~(o = "filter" /\ ~v)
  <2>1. "store" \notin Dumps \cup {"begin", "dump4", "dump5"}
    BY DEF Dumps
  <2>2. o = "filter" => q[k + 1] = TRUE
    <3>1. o = "filter" => v \in BOOLEAN
      OBVIOUS
    <3>2. QED
      BY <1>8, <1>11, <3>1
  <2>3. Pushed(o, "store") = Pushed(o, "loop")
    BY DEF Pushed
  <2>4. k \in 0 .. Len(a)
    BY <1>1
  <2>5. \A x \in News(o) : have[x] = Built(o, q, a, x, k, l)
    BY <1>1, <1>9
  <2>6. Going(m, l, o, cnt, "store", q, a, t, N, c, have, k)
    BY <1>1, <1>2, <1>4, <1>6, <1>7, <1>8, <2>1, <2>2, <2>3, <2>4, <2>5 DEF Going
  <2>7. Under(m, l, o, cnt, "store", q, a, t, N)
    BY <2>6 DEF Under
  <2>8. QED
    BY <1>11, <2>7
<1>12. QED
  BY <1>10, <1>11

LEMMA Exeterm == ASSUME IInv, exeterm PROVE IInv'
<1>1. /\ pc = "loop" /\ DMP(heap, "dump1") # NULL /\ op \in Runs
      /\ UNCHANGED <<op, count, inA, inT, inN, lvalueFirst, lost, result>>
  BY DEF exeterm, GoesOn, Runs
<1>2. PICK chain, have, k :
        Going(heap, lost, op, count, "loop", ran, inA, inT, inN, chain, have, k)
  BY <1>1 DEF IInv, Under
<1>3. PICK v \in (IF op = "map" THEN Vals ELSE BOOLEAN), collects \in BOOLEAN :
        LET h == IF collects THEN Collect(heap, {}) ELSE heap
        IN  /\ ran' = Append(ran, v)
            /\ IF op = "filter" /\ ~v
               THEN heap' = StepOld(h) /\ pc' = "loop"
               ELSE heap' = h /\ pc' = "store"
  BY DEF exeterm
<1>4. PICK m : m = IF collects THEN Collect(heap, {}) ELSE heap
  OBVIOUS
<1>5. PICK q : q = Append(ran, v)
  OBVIOUS
<1>6. IF op = "filter" /\ ~v
      THEN Under(StepOld(m), lost, op, count, "loop", q, inA, inT, inN)
      ELSE Under(m, lost, op, count, "store", q, inA, inT, inN)
  BY <1>1, <1>2, <1>4, <1>5, IInvFacts, ExecGoing
<1>7. /\ ran' = q
      /\ IF op = "filter" /\ ~v THEN heap' = StepOld(m) /\ pc' = "loop"
         ELSE heap' = m /\ pc' = "store"
  BY <1>3, <1>4, <1>5
<1>8. Under(heap', lost, op, count', pc', ran', inA, inT, inN)
  <2>1. CASE op = "filter" /\ ~v
    BY <1>1, <1>6, <1>7, <2>1
  <2>2. CASE ~(op = "filter" /\ ~v)
    BY <1>1, <1>6, <1>7, <2>2
  <2>3. QED
    BY <2>1, <2>2
<1>9. pc' \in Dumps \cup {"begin", "loop", "store"}
  BY <1>7
<1>10. ran' \in Seq(IF op = "map" THEN Vals ELSE BOOLEAN)
  BY <1>5, <1>7, IInvFacts, OneMore
<1>11. QED
  BY <1>1, <1>8, <1>9, <1>10, GoesOnUnder, IInvFacts

-----------------------------------------------------------------------------
(* The new list is tied. *)

\* What is so after the last node of the new list was given a successor: the
\* second list when both, else nothing.
TiedBy(h, g, have, both) ==
  /\ HeapOK(g) /\ g.root = h.root
  /\ ListAt(g, g.root["A"]) = have["A"]
  /\ ListAt(g, g.root["T"]) = have["T"]
  /\ ListAt(g, DMP(g, "dump2")) = have["dump2"] \o (IF both THEN have["T"] ELSE <<>>)

\* What storing a successor does, as one predicate.
Linked(h, x, p, g) ==
  /\ HeapOK(g) /\ g.root = h.root
  /\ \A a \in Addr : /\ g.mem[a].val = h.mem[a].val
                     /\ g.mem[a].u = h.mem[a].u
                     /\ g.mem[a].next = IF a = x THEN p ELSE h.mem[a].next

LEMMA LinkedIs ==
  ASSUME NEW h, HeapOK(h), NEW x \in Addr, NEW p \in Used(h) \cup {NULL},
         NEW g, g = PutNext(h, x, p)
  PROVE  Linked(h, x, p, g)
BY PutNextFacts DEF Linked

LEMMA TiedList ==
  ASSUME NEW h, NEW chain, NEW have, NEW k, NEW early, Shape(h, chain, have, k, early),
         h.root["dump2"] # NULL, h.root["dump3"] # NULL, NEW last, last = DMP(h, "dump3"),
         last # NULL, NEW both \in BOOLEAN, NEW p, p = (IF both THEN h.root["T"] ELSE NULL),
         NEW g, g = PutNext(h, last, p),
         Len(have["A"]) + Len(have["T"]) <= SIZE, Len(have["dump2"]) <= Len(have["A"])
  PROVE  TiedBy(h, g, have, both)
<1>1. HeapOK(h) /\ h \in Heap /\ NULL \notin Used(h) /\ Used(h) \subseteq Addr /\ SIZE \in Nat
  BY UsedFacts, SizeAssumption DEF Shape, HeapOK
<1>2. PICK a, t, b : a = chain["A"] /\ t = chain["T"] /\ b = chain["dump2"]
  OBVIOUS
<1>3. PICK wa, wt, wb : wa = have["A"] /\ wt = have["T"] /\ wb = have["dump2"]
  OBVIOUS
<1>4. "A" \in Lines /\ "T" \in Lines /\ "dump2" \in Lines /\ "dump2" \in Heads
  BY DEF Lines, Heads
<1>5. /\ a \in Seq(Used(h)) /\ t \in Seq(Used(h)) /\ b \in Seq(Used(h))
      /\ \A i \in 1 .. Len(a), j \in 1 .. Len(b) : a[i] # b[j]
      /\ \A i \in 1 .. Len(t), j \in 1 .. Len(b) : t[i] # b[j]
      /\ \A i \in 1 .. Len(a) : h.mem[a[i]].next = Nth(a, i + 1)
      /\ \A i \in 1 .. Len(t) : h.mem[t[i]].next = Nth(t, i + 1)
      /\ \A i \in 1 .. Len(b) : h.mem[b[i]].next = Nth(b, i + 1)
  <2>1. Chained(h, chain)
    BY DEF Shape
  <2>2. chain \in [Lines -> Seq(Used(h))]
    BY <2>1 DEF Chained
  <2>3. a \in Seq(Used(h)) /\ t \in Seq(Used(h)) /\ b \in Seq(Used(h))
    BY <1>2, <1>4, <2>2
  <2>4. /\ \A i \in 1 .. Len(a), j \in 1 .. Len(b) : a[i] # b[j]
        /\ \A i \in 1 .. Len(t), j \in 1 .. Len(b) : t[i] # b[j]
    BY <1>2, <1>4, <2>1 DEF Chained
  <2>5. /\ \A i \in 1 .. Len(a) : h.mem[a[i]].next = Nth(a, i + 1)
        /\ \A i \in 1 .. Len(t) : h.mem[t[i]].next = Nth(t, i + 1)
        /\ \A i \in 1 .. Len(b) : h.mem[b[i]].next = Nth(b, i + 1)
    BY <1>2, <1>4, <2>1 DEF Chained
  <2>6. QED
    BY <2>3, <2>4, <2>5
<1>6. /\ wa \in Seq(Vals) /\ wt \in Seq(Vals) /\ wb \in Seq(Vals)
      /\ Len(wa) = Len(a) /\ Len(wt) = Len(t) /\ Len(wb) = Len(b)
      /\ \A i \in 1 .. Len(a) : h.mem[a[i]].val = wa[i]
      /\ \A i \in 1 .. Len(t) : h.mem[t[i]].val = wt[i]
      /\ \A i \in 1 .. Len(b) : h.mem[b[i]].val = wb[i]
  <2>1. Holding(h, chain, have)
    BY DEF Shape
  <2>2. have \in [Lines -> Seq(Vals)]
    BY <2>1 DEF Holding
  <2>3. wa \in Seq(Vals) /\ wt \in Seq(Vals) /\ wb \in Seq(Vals)
    BY <1>3, <1>4, <2>2
  <2>4. QED
    BY <1>2, <1>3, <1>4, <2>1, <2>3 DEF Holding
<1>7. /\ h.root["A"] = Nth(a, 1) /\ h.root["T"] = Nth(t, 1) /\ DMP(h, "dump2") = Nth(b, 1)
      /\ last = Nth(b, Len(b))
  BY <1>2, <1>4 DEF Shape, Placed, LastOf
<1>8. /\ Len(a) \in Nat /\ Len(t) \in Nat /\ Len(b) \in Nat
      /\ Len(a) + Len(t) <= SIZE /\ Len(b) <= Len(a)
  BY <1>3, <1>5, <1>6, LenProperties
<1>9. Len(b) \in 1 .. Len(b) /\ last = b[Len(b)] /\ last \in Used(h) /\ last \in Addr
  <2>1. Len(b) \in 1 .. Len(b) /\ last = b[Len(b)]
    BY <1>7 DEF Nth
  <2>2. QED
    BY <1>1, <1>5, <2>1, ElementOfSeq
<1>10. p \in Used(h) \cup {NULL}
  BY DEF Shape, HeapOK, Roots
<1>11. /\ HeapOK(g) /\ g.root = h.root
       /\ \A x \in Addr : /\ g.mem[x].val = h.mem[x].val
                          /\ g.mem[x].u = h.mem[x].u
                          /\ g.mem[x].next = IF x = last THEN p ELSE h.mem[x].next
  <2>1. Linked(h, last, p, g)
    BY <1>1, <1>9, <1>10, LinkedIs
  <2>2. QED
    BY <2>1 DEF Linked
<1>12. g \in Heap
  BY <1>11 DEF HeapOK
<1>13. a \in Seq(Addr) /\ t \in Seq(Addr) /\ b \in Seq(Addr)
  BY <1>1, <1>5
<1>14. ListAt(g, g.root["A"]) = wa
  <2>1. \A i \in 1 .. Len(a) : g.mem[a[i]].val = wa[i] /\ g.mem[a[i]].next = Nth(a, i + 1)
    <3> SUFFICES ASSUME NEW i \in 1 .. Len(a)
                 PROVE  g.mem[a[i]].val = wa[i] /\ g.mem[a[i]].next = Nth(a, i + 1)
      OBVIOUS
    <3>1. a[i] \in Addr /\ a[i] # last
      BY <1>5, <1>9, <1>13, ElementOfSeq
    <3>2. QED
      BY <1>5, <1>6, <1>11, <3>1, SMTT(40)
  <2>2. Len(a) <= SIZE
    BY <1>1, <1>8
  <2>3. ListAt(g, Nth(a, 1)) = wa
    BY <1>6, <1>12, <1>13, <2>1, <2>2, ListOfCells
  <2>4. QED
    BY <1>7, <1>11, <2>3
<1>15. /\ \A i \in 1 .. Len(t) : g.mem[t[i]].val = wt[i] /\ g.mem[t[i]].next = Nth(t, i + 1)
       /\ ListAt(g, g.root["T"]) = wt
  <2>1. \A i \in 1 .. Len(t) : g.mem[t[i]].val = wt[i] /\ g.mem[t[i]].next = Nth(t, i + 1)
    <3> SUFFICES ASSUME NEW i \in 1 .. Len(t)
                 PROVE  g.mem[t[i]].val = wt[i] /\ g.mem[t[i]].next = Nth(t, i + 1)
      OBVIOUS
    <3>1. t[i] \in Addr /\ t[i] # last
      BY <1>5, <1>9, <1>13, ElementOfSeq
    <3>2. QED
      BY <1>5, <1>6, <1>11, <3>1
  <2>2. Len(t) <= SIZE
    BY <1>1, <1>8
  <2>3. ListAt(g, Nth(t, 1)) = wt
    BY <1>6, <1>12, <1>13, <2>1, <2>2, ListOfCells
  <2>4. QED
    BY <1>7, <1>11, <2>1, <2>3
<1>16. \A i \in 1 .. Len(b) : /\ g.mem[b[i]].val = wb[i]
                              /\ g.mem[b[i]].next = IF i = Len(b) THEN p ELSE Nth(b, i + 1)
  <2> SUFFICES ASSUME NEW i \in 1 .. Len(b)
               PROVE  /\ g.mem[b[i]].val = wb[i]
                      /\ g.mem[b[i]].next = IF i = Len(b) THEN p ELSE Nth(b, i + 1)
    OBVIOUS
  <2>1. b[i] \in Addr
    BY <1>13, ElementOfSeq
  <2>2. g.mem[b[i]].val = wb[i]
    BY <1>6, <1>11, <2>1
  <2>3. CASE i = Len(b)
    BY <1>9, <1>11, <2>1, <2>2, <2>3
  <2>4. CASE i # Len(b)
    <3>1. i + 1 \in 1 .. Len(b) /\ Len(b) + 1 \notin 1 .. Len(b)
      BY <1>8, <2>4
    <3>2. Nth(b, i + 1) = b[i + 1] /\ Nth(b, Len(b) + 1) = NULL
      BY <3>1 DEF Nth
    <3>3. b[i + 1] \in Used(h)
      BY <1>5, <3>1, ElementOfSeq
    <3>4. h.mem[b[i]].next # NULL /\ h.mem[last].next = NULL
      BY <1>1, <1>5, <1>9, <3>2, <3>3
    <3>5. b[i] # last
      BY <3>4
    <3>6. QED
      BY <1>5, <1>11, <2>1, <2>2, <2>4, <3>5
  <2>5. QED
    BY <2>3, <2>4
<1>17. DMP(g, "dump2") = Nth(b, 1)
  <2>1. h.root["dump2"] \in Addr
    <3>1. h.root["dump2"] \in Used(h) \cup {NULL}
      BY <1>1 DEF HeapOK, Roots, Dumps
    <3>2. QED
      BY <1>1, <3>1
  <2>2. QED
    BY <1>7, <1>11, <2>1 DEF DMP
<1>18. CASE ~both
  <2>1. p = NULL /\ Nth(b, Len(b) + 1) = NULL
    BY <1>8, <1>18 DEF Nth
  <2>2. \A i \in 1 .. Len(b) : g.mem[b[i]].val = wb[i] /\ g.mem[b[i]].next = Nth(b, i + 1)
    BY <1>16, <2>1
  <2>3. Len(b) <= SIZE
    BY <1>1, <1>8
  <2>4. ListAt(g, Nth(b, 1)) = wb
    BY <1>6, <1>12, <1>13, <2>2, <2>3, ListOfCells
  <2>5. wb \o <<>> = wb
    BY <1>6, ConcatEmptySeq
  <2>6. QED
    BY <1>3, <1>11, <1>14, <1>15, <1>17, <1>18, <2>4, <2>5 DEF TiedBy
<1>19. CASE both
  <2>1. p = Nth(t, 1)
    BY <1>7, <1>19
  <2>2. PICK c, s : c = b \o t /\ s = wb \o wt
    OBVIOUS
  <2>3. /\ c \in Seq(Addr) /\ Len(c) = Len(b) + Len(t)
        /\ \A i \in 1 .. Len(b) : c[i] = b[i]
        /\ \A i \in 1 .. Len(t) : c[Len(b) + i] = t[i]
    BY <1>8, <1>13, <2>2
  <2>4. /\ s \in Seq(Vals) /\ Len(s) = Len(b) + Len(t)
        /\ \A i \in 1 .. Len(b) : s[i] = wb[i]
        /\ \A i \in 1 .. Len(t) : s[Len(b) + i] = wt[i]
    BY <1>6, <1>8, <2>2
  <2>5. \A i \in 1 .. Len(c) : g.mem[c[i]].val = s[i] /\ g.mem[c[i]].next = Nth(c, i + 1)
    <3> SUFFICES ASSUME NEW i \in 1 .. Len(c)
                 PROVE  g.mem[c[i]].val = s[i] /\ g.mem[c[i]].next = Nth(c, i + 1)
      OBVIOUS
    <3>1. CASE i \in 1 .. Len(b) /\ i # Len(b)
      <4>1. i + 1 \in 1 .. Len(b) /\ i + 1 \in 1 .. Len(c)
        BY <1>8, <2>3, <3>1
      <4>2. Nth(c, i + 1) = Nth(b, i + 1)
        BY <2>3, <4>1 DEF Nth
      <4>3. QED
        BY <1>16, <2>3, <2>4, <3>1, <4>2
    <3>2. CASE i = Len(b)
      <4>1. Nth(c, i + 1) = Nth(t, 1)
        <5>1. i + 1 \in 1 .. Len(c) <=> 1 \in 1 .. Len(t)
          BY <1>8, <2>3, <3>2
        <5>2. 1 \in 1 .. Len(t) => c[i + 1] = t[1]
          BY <2>3, <3>2
        <5>3. QED
          BY <5>1, <5>2 DEF Nth
      <4>2. QED
        BY <1>9, <1>16, <2>1, <2>3, <2>4, <3>2, <4>1
    <3>3. CASE i \notin 1 .. Len(b)
      <4>1. PICK j : j = i - Len(b)
        OBVIOUS
      <4>2. j \in 1 .. Len(t) /\ i = Len(b) + j
        BY <1>8, <2>3, <3>3, <4>1
      <4>3. c[i] = t[j] /\ s[i] = wt[j]
        BY <2>3, <2>4, <4>2
      <4>4. Nth(c, i + 1) = Nth(t, j + 1)
        <5>1. i + 1 \in 1 .. Len(c) <=> j + 1 \in 1 .. Len(t)
          BY <1>8, <2>3, <4>2
        <5>2. i + 1 = Len(b) + (j + 1)
          BY <1>8, <4>2
        <5>3. j + 1 \in 1 .. Len(t) => c[i + 1] = t[j + 1]
          BY <2>3, <5>2
        <5>4. QED
          BY <5>1, <5>3 DEF Nth
      <4>5. QED
        BY <1>15, <4>2, <4>3, <4>4
    <3>4. QED
      BY <3>1, <3>2, <3>3
  <2>6. Len(c) <= SIZE /\ Len(s) = Len(c)
    BY <1>1, <1>8, <2>3, <2>4
  <2>7. ListAt(g, Nth(c, 1)) = s
    BY <1>12, <2>3, <2>4, <2>5, <2>6, ListOfCells
  <2>8. Nth(c, 1) = Nth(b, 1)
    <3>1. 1 \in 1 .. Len(b) /\ 1 \in 1 .. Len(c)
      BY <1>8, <1>9, <2>3
    <3>2. QED
      BY <2>3, <3>1 DEF Nth
  <2>9. QED
    BY <1>3, <1>11, <1>14, <1>15, <1>17, <1>19, <2>2, <2>7, <2>8 DEF TiedBy
<1>20. QED
  BY <1>18, <1>19

\* Where the loop of an operator ends.
LEMMA LoopEnds ==
  ASSUME IInv, pc = "loop", ~GoesOn, NEW chain, NEW have, NEW k,
         Going(heap, lost, op, count, "loop", ran, inA, inT, inN, chain, have, k)
  PROVE  /\ op # "take" => k = Len(inA)
         /\ op = "take" => k = Asked
         /\ op \in {"take", "concat"} /\ inA # <<>> => k >= 1
<1>1. /\ Shape(heap, chain, have, k, Hurt(lost)) /\ have["A"] = inA
      /\ k \in Nat /\ k <= Len(inA)
      /\ \A q \in Dumps : heap.root[q] # NULL <=> q \in Pushed(op, "loop")
      /\ op = "take" => count = inN - k /\ count >= 0 /\ inN >= 1
  BY IInvFacts DEF Going
<1>2. heap.root["dump1"] # NULL
  BY <1>1 DEF Pushed, Dumps
<1>3. DMP(heap, "dump1") = NULL <=> k >= Len(inA)
  BY <1>1, <1>2, CursorFacts
<1>4. k >= Len(inA) \/ (op = "take" /\ ~(count > 0))
  BY <1>3 DEF GoesOn
<1>5. inA # <<>> => Len(inA) >= 1
  BY IInvFacts, EmptySeq
<1>6. CASE op # "take"
  BY <1>1, <1>4, <1>5, <1>6, IInvFacts
<1>7. CASE op = "take"
  BY <1>1, <1>4, <1>5, <1>7, IInvFacts DEF Asked
<1>8. QED
  BY <1>6, <1>7

LEMMA Tie == ASSUME IInv, tie PROVE IInv'
<1>1. /\ pc = "loop" /\ ~GoesOn /\ op \in {"take", "concat"} /\ op \notin Runs
      /\ UNCHANGED <<op, count, ran, inA, inT, inN, lvalueFirst, lost, result>>
  BY DEF tie, Runs
<1>2. PICK last : last = DMP(heap, "dump3")
  OBVIOUS
<1>3. IF last = NULL THEN pc' = "crashed" /\ heap' = heap
      ELSE /\ pc' = "finish"
           /\ heap' = [heap EXCEPT !.mem[last].next = IF op = "take" THEN NULL ELSE heap.root["T"]]
  BY <1>2 DEF tie
<1>4. PICK chain, have, k :
        Going(heap, lost, op, count, "loop", ran, inA, inT, inN, chain, have, k)
  BY <1>1 DEF IInv, Under
<1>5. CASE last = NULL
  <2>1. pc' = "crashed" /\ heap' = heap
    BY <1>3, <1>5
  <2>2. ASSUME lost = {} PROVE op = "take" /\ inA = <<>>
    <3>1. Hurt(lost) = FALSE
      BY <2>2 DEF Hurt
    <3>2. /\ Shape(heap, chain, have, k, FALSE) /\ k \in Nat /\ k <= Len(inA)
          /\ \A q \in Dumps : heap.root[q] # NULL <=> q \in Pushed(op, "loop")
          /\ have["dump2"] = Built(op, ran, inA, "dump2", k, lost)
          /\ op = "concat" => inA # <<>>
      <4>1. Shape(heap, chain, have, k, FALSE)
        BY <1>4, <3>1 DEF Going
      <4>2. /\ k \in Nat /\ k <= Len(inA) /\ (op = "concat" => inA # <<>>)
            /\ \A q \in Dumps : heap.root[q] # NULL <=> q \in Pushed(op, "loop")
        BY <1>4, IInvFacts DEF Going
      <4>3. "dump2" \in News(op)
        BY DEF News, Heads
      <4>4. have["dump2"] = Built(op, ran, inA, "dump2", k, lost)
        BY <1>4, <4>3 DEF Going
      <4>5. QED
        BY <4>1, <4>2, <4>4
    <3>3. /\ heap.root["dump2"] # NULL /\ heap.root[LastOf("dump2")] # NULL
          /\ LastOf("dump2") = "dump3" /\ "dump2" \in Heads
      BY <3>2 DEF Pushed, Dumps, LastOf, Heads
    <3>4. have["dump2"] = <<>>
      BY <1>2, <1>5, <3>2, <3>3, LastIs
    <3>5. have["dump2"] = At(inA, k, Int \ {})
      BY <1>1, <2>2, <3>2 DEF Built, Wanted
    <3>6. ASSUME k >= 1 PROVE FALSE
      <4>1. PICK m \in Nat : k = m + 1
        <5>1. k - 1 \in Nat /\ k = (k - 1) + 1
          BY <3>2, <3>6
        <5>2. QED
          BY <5>1
      <4>2. m + 1 \in Int \ {} /\ m < Len(inA)
        BY <3>2, <4>1, IInvFacts
      <4>3. /\ At(inA, m, Int \ {}) \in Seq(Vals)
            /\ At(inA, m + 1, Int \ {}) = Append(At(inA, m, Int \ {}), inA[m + 1])
        BY <4>2, IInvFacts, AtMore
      <4>4. inA[m + 1] \in Vals
        BY <4>2, IInvFacts, Prefixes
      <4>5. PICK x : x = At(inA, m, Int \ {})
        OBVIOUS
      <4>6. Append(x, inA[m + 1]) # <<>>
        BY <4>3, <4>4, <4>5, AppendProperties
      <4>7. QED
        BY <3>4, <3>5, <4>1, <4>3, <4>5, <4>6
    <3>7. inA = <<>>
      BY <1>1, <1>4, <3>6, LoopEnds
    <3>8. QED
      BY <1>1, <3>2, <3>7
  <2>3. QED
    BY <1>1, <2>1, <2>2, EndsBadly DEF IInv, TypeOK
<1>6. CASE last # NULL
  <2>2. /\ Shape(heap, chain, have, k, Hurt(lost)) /\ have["A"] = inA /\ have["T"] = inT
        /\ k \in Nat /\ k <= Len(inA)
        /\ \A q \in Dumps : heap.root[q] # NULL <=> q \in Pushed(op, "loop")
        /\ Len(have["dump2"]) <= k
        /\ have["dump2"] = At(inA, k, Int \ lost)
    <3>1. "dump2" \in Heads /\ "dump2" \in News(op)
      BY DEF Heads, News
    <3>2. Built(op, ran, inA, "dump2", k, lost) = At(inA, k, Int \ lost)
      BY <1>1 DEF Built, Wanted
    <3>3. k \in Nat /\ k <= Len(inA)
      BY <1>4, IInvFacts DEF Going
    <3>4. Len(have["dump2"]) <= k
      BY <1>4, <3>1 DEF Going
    <3>5. have["dump2"] = At(inA, k, Int \ lost)
      BY <1>4, <3>1, <3>2 DEF Going
    <3>6. QED
      BY <1>4, <3>3, <3>4, <3>5 DEF Going
  <2>3. heap.root["dump2"] # NULL /\ heap.root["dump3"] # NULL
    BY <2>2 DEF Pushed, Dumps
  <2>4. PICK both \in BOOLEAN : both = (op = "concat")
    OBVIOUS
  <2>5. PICK p : p = IF both THEN heap.root["T"] ELSE NULL
    OBVIOUS
  <2>6. PICK g : g = heap'
    OBVIOUS
  <2>7. g = PutNext(heap, last, p)
    <3>1. p = IF op = "take" THEN NULL ELSE heap.root["T"]
      BY <1>1, <2>4, <2>5
    <3>2. QED
      BY <1>3, <1>6, <2>6, <3>1 DEF PutNext
  <2>8. have["dump2"] \in Seq(Vals) /\ Len(have["dump2"]) \in Nat
    <3>1. have \in [Lines -> Seq(Vals)] /\ "dump2" \in Lines
      BY <2>2 DEF Shape, Holding, Lines, Heads
    <3>2. QED
      BY <3>1, LenProperties
  <2>9. TiedBy(heap, g, have, both)
    <3>1. Len(have["A"]) + Len(have["T"]) <= SIZE /\ Len(have["dump2"]) <= Len(have["A"])
      BY <2>2, <2>8, IInvFacts
    <3>2. QED
      BY <1>2, <1>6, <2>2, <2>3, <2>5, <2>7, <3>1, TiedList
  <2>10. /\ heap' \in Heap
         /\ ListAt(heap', heap'.root["A"]) = inA
         /\ ListAt(heap', heap'.root["T"]) = inT
    BY <2>2, <2>6, <2>9 DEF TiedBy, HeapOK
  <2>11. pc' = "finish"
    BY <1>3, <1>6
  <2>12. PICK s : s = have["dump2"] \o (IF both THEN inT ELSE <<>>)
    OBVIOUS
  <2>13. s \in Seq(Vals)
    BY <2>8, <2>12, IInvFacts, EmptySeq
  <2>14. ListAt(heap', DMP(heap', "dump2")) = s
    BY <2>2, <2>6, <2>9, <2>12 DEF TiedBy
  <2>15. Expected = <<s>>
    <3>1. CASE op = "take"
      <4>1. k = Asked
        BY <1>1, <1>4, <3>1, LoopEnds
      <4>2. s = have["dump2"]
        BY <2>4, <2>8, <2>12, <3>1, ConcatEmptySeq
      <4>3. QED
        BY <2>2, <3>1, <4>1, <4>2 DEF Expected
    <3>2. CASE op = "concat"
      <4>1. k = Len(inA)
        BY <1>1, <1>4, <3>2, LoopEnds
      <4>2. s = At(inA, Len(inA), Int \ lost) \o inT
        BY <2>2, <2>4, <2>12, <3>2, <4>1
      <4>3. QED
        BY <3>2, <4>2 DEF Expected
    <3>3. QED
      BY <1>1, <3>1, <3>2
  <2>16. Tied'
    <3>1. Expected' = Expected
      BY <1>1 DEF Expected, Chosen
    <3>2. ListAt(heap', DMP(heap', "dump2")) = s /\ Expected' = <<s>>
      BY <1>1, <2>14, <2>15, <3>1
    <3>3. QED
      BY <1>1, <2>13, <3>2 DEF Tied
  <2>17. TypeOK' /\ ArgumentsKept'
    BY <1>1, <2>10, <2>11 DEF IInv, TypeOK, ArgumentsKept
  <2>18. pc' \notin Dumps \cup {"begin", "loop", "store", "done", "crashed"}
    BY <2>11 DEF Dumps
  <2>19. ResultCorrect'
    BY <2>18 DEF ResultCorrect
  <2>20. Len(inA') + Len(inT') <= SIZE
    BY <1>1, IInvFacts
  <2>21. QED
    BY <2>16, <2>17, <2>18, <2>19, <2>20 DEF IInv
<1>7. QED
  BY <1>5, <1>6

-----------------------------------------------------------------------------
(* The dumps are popped. *)

LEMMA PopMemory ==
  ASSUME NEW h \in Heap, NEW g,
         g = [h EXCEPT !.root = [s \in Roots |->
                IF s \in Dumps /\ @[s] # NULL THEN h.mem[@[s]].next ELSE @[s]]]
  PROVE  /\ g \in Heap /\ g.mem = h.mem
         /\ g.root["A"] = h.root["A"] /\ g.root["T"] = h.root["T"]
<1> DEFINE R == [s \in Roots |->
                  IF s \in Dumps /\ h.root[s] # NULL THEN h.mem[h.root[s]].next ELSE h.root[s]]
<1>1. h.root \in [Roots -> Pointers] /\ h.mem \in [Addr -> Cell]
  BY DEF Heap
<1>2. ASSUME NEW s \in Roots
      PROVE  (IF s \in Dumps /\ h.root[s] # NULL THEN h.mem[h.root[s]].next ELSE h.root[s]) \in Pointers
  <2>1. h.root[s] \in Pointers
    BY <1>1
  <2>2. h.root[s] # NULL => h.mem[h.root[s]] \in Cell
    BY <1>1, <2>1 DEF Pointers
  <2>3. h.root[s] # NULL => h.mem[h.root[s]].next \in Pointers
    BY <2>2 DEF Cell
  <2>4. QED
    BY <2>1, <2>3
<1>3. R \in [Roots -> Pointers]
  BY <1>2
<1>4. g = [h EXCEPT !.root = R]
  OBVIOUS
<1>5. R["A"] = h.root["A"] /\ R["T"] = h.root["T"]
  BY DEF Roots, Dumps
<1> HIDE DEF R
<1>6. g \in Heap /\ g.mem = h.mem /\ g.root = R
  BY <1>3, <1>4, RootsMayChange DEF Heap
<1>7. QED
  BY <1>5, <1>6

LEMMA ListAtMemory ==
  ASSUME NEW h, NEW g, g.mem = h.mem, NEW p
  PROVE  ListAt(g, p) = ListAt(h, p)
BY DEF ListAt

LEMMA TwoLists ==
  ASSUME NEW x \in Seq(Vals), NEW y \in Seq(Vals)
  PROVE  <<x>> \o <<y>> = <<x, y>> /\ <<x>> \o <<>> = <<x>> /\ <<x, y>> \in Seq(Seq(Vals))
<1>1. PICK S : S = Seq(Vals)
  OBVIOUS
<1>2. x \in S /\ y \in S
  BY <1>1
<1>3. <<x>> \in Seq(S) /\ <<x, y>> \in Seq(S) /\ Append(<<x>>, y) = <<x, y>>
  <2>1. <<x>> \in Seq(S) /\ Len(<<x>>) = 1 /\ <<x>>[1] = x
    BY <1>2
  <2>2. <<x, y>> \in Seq(S) /\ Len(<<x, y>>) = 2 /\ <<x, y>>[1] = x /\ <<x, y>>[2] = y
    BY <1>2
  <2>3. PICK s, q, w : s = <<x>> /\ q = <<x, y>> /\ w = Append(s, y)
    OBVIOUS
  <2>4. s \in Seq(S) /\ Len(s) = 1 /\ s[1] = x
    BY <2>1, <2>3
  <2>5. w \in Seq(S) /\ Len(w) = 2 /\ w[1] = x /\ w[2] = y
    <3>1. /\ w \in Seq(S) /\ Len(w) = Len(s) + 1 /\ w[Len(s) + 1] = y
          /\ \A i \in 1 .. Len(s) : w[i] = s[i]
      BY <1>2, <2>3, <2>4, AppendProperties
    <3>2. QED
      BY <2>4, <3>1
  <2>6. q \in Seq(S) /\ Len(q) = 2 /\ q[1] = x /\ q[2] = y
    BY <2>2, <2>3
  <2>7. \A i \in 1 .. 2 : w[i] = q[i]
    BY <2>5, <2>6
  <2>8. w = q
    BY <2>5, <2>6, <2>7, SeqEqual
  <2>9. QED
    BY <2>1, <2>2, <2>3, <2>8
<1>4. Append(<<x>>, y) = <<x>> \o <<y>>
  BY <1>2, <1>3, AppendIsConcat
<1>5. <<x>> \o <<>> = <<x>>
  BY <1>3, ConcatEmptySeq
<1>6. QED
  BY <1>1, <1>3, <1>4, <1>5

\* What an operator that runs P has built when its loop ends.
LEMMA RunsEnd ==
  ASSUME IInv, pc = "loop", ~GoesOn, op \in Runs
  PROVE  /\ Len(ran) = Len(inA)
         /\ ListAt(heap, DMP(heap, "dump2")) \in Seq(Vals)
         /\ op = "split" => ListAt(heap, DMP(heap, "dump4")) \in Seq(Vals)
         /\ ListAt(heap, DMP(heap, "dump2")) =
              IF op = "map" THEN At(ran, Len(ran), Int \ lost)
              ELSE At(inA, Len(ran), Chosen(TRUE) \ lost)
         /\ op = "split" => ListAt(heap, DMP(heap, "dump4")) =
                              At(inA, Len(ran), Chosen(FALSE) \ lost)
<1>1. PICK chain, have, k :
        Going(heap, lost, op, count, "loop", ran, inA, inT, inN, chain, have, k)
  BY DEF IInv, Under
<1>2. k = Len(inA)
  <2>1. op # "take"
    BY DEF Runs
  <2>2. QED
    BY <1>1, <2>1, LoopEnds
<1>3. /\ Shape(heap, chain, have, k, Hurt(lost))
      /\ \A q \in Dumps : heap.root[q] # NULL <=> q \in Pushed(op, "loop")
      /\ Len(ran) = k
      /\ \A d \in News(op) : have[d] = Built(op, ran, inA, d, k, lost)
  BY <1>1 DEF Going
<1>4. Reads(heap, inA, inT, have)
  BY <1>1, IInvFacts, GoingLists
<1>5. ASSUME NEW d \in News(op)
      PROVE  /\ ListAt(heap, DMP(heap, d)) = have[d] /\ have[d] \in Seq(Vals)
             /\ have[d] = Built(op, ran, inA, d, k, lost)
  <2>1. d \in Heads /\ d \in Dumps /\ d \in Pushed(op, "loop")
    BY DEF News, Heads, Dumps, Pushed
  <2>2. have \in [Lines -> Seq(Vals)] /\ d \in Lines
    BY <1>3, <2>1 DEF Shape, Holding, Lines
  <2>3. ListAt(heap, DMP(heap, d)) = have[d]
    BY <1>3, <1>4, <2>1 DEF Reads
  <2>4. QED
    BY <1>3, <2>2, <2>3
<1>6. /\ op # "map" => Wanted(op, ran, "dump2") = Chosen(TRUE)
      /\ op = "map" => Wanted(op, ran, "dump2") = Int
      /\ op = "split" => Wanted(op, ran, "dump4") = Chosen(FALSE)
  <2>1. ("dump2" = "dump2") = TRUE /\ ("dump4" = "dump2") = FALSE
    OBVIOUS
  <2>2. QED
    BY <2>1 DEF Wanted, Chosen, Runs
<1>7. Built(op, ran, inA, "dump2", k, lost) =
        IF op = "map" THEN At(ran, Len(ran), Int \ lost)
        ELSE At(inA, Len(ran), Chosen(TRUE) \ lost)
  BY <1>3, <1>6 DEF Built
<1>8. op = "split" =>
        Built(op, ran, inA, "dump4", k, lost) = At(inA, Len(ran), Chosen(FALSE) \ lost)
  BY <1>3, <1>6 DEF Built
<1>9. "dump2" \in News(op) /\ (op = "split" => "dump4" \in News(op))
  BY DEF News, Heads
<1>10. QED
  BY <1>2, <1>3, <1>5, <1>7, <1>8, <1>9

LEMMA Finish == ASSUME IInv, finish PROVE IInv'
<1>1. /\ pc = "finish" \/ (pc = "loop" /\ ~GoesOn /\ op \in Runs)
      /\ pc' = "done"
      /\ UNCHANGED <<op, count, ran, inA, inT, inN, lvalueFirst, lost>>
  BY IInvFacts DEF finish, Runs
<1>2. result' = <<ListAt(heap, DMP(heap, "dump2"))>> \o
                (IF op = "split" THEN <<ListAt(heap, DMP(heap, "dump4"))>> ELSE <<>>)
  BY DEF finish
<1>3. /\ heap' \in Heap /\ heap'.mem = heap.mem
      /\ heap'.root["A"] = heap.root["A"] /\ heap'.root["T"] = heap.root["T"]
  <2>1. PICK g : g = heap'
    OBVIOUS
  <2>2. heap \in Heap
    BY DEF IInv, TypeOK
  <2>3. g = [heap EXCEPT !.root = [s \in Roots |->
                IF s \in Dumps /\ @[s] # NULL THEN heap.mem[@[s]].next ELSE @[s]]]
    BY <2>1 DEF finish
  <2>4. QED
    BY <2>1, <2>2, <2>3, PopMemory
<1>4. ListAt(heap', heap'.root["A"]) = inA /\ ListAt(heap', heap'.root["T"]) = inT
  BY <1>3, ListAtMemory DEF IInv, ArgumentsKept
<1>5. PICK x, y : x = ListAt(heap, DMP(heap, "dump2")) /\ y = ListAt(heap, DMP(heap, "dump4"))
  OBVIOUS
<1>6. result' = <<x>> \o (IF op = "split" THEN <<y>> ELSE <<>>)
  BY <1>2, <1>5
<1>7. CASE pc = "finish"
  <2>1. PICK s \in Seq(Vals) : x = s /\ Expected = <<s>>
    BY <1>5, <1>7 DEF IInv, Tied
  <2>2. op \in {"take", "concat"}
    BY <1>7 DEF IInv, Tied
  <2>3. result' = <<x>>
    BY <1>6, <2>1, <2>2, TwoLists
  <2>4. result' \in Seq(Seq(Vals))
    BY <2>1, <2>3, OneList
  <2>5. result' = Expected /\ (op \in Runs => Len(ran) = Len(inA))
    BY <2>1, <2>2, <2>3 DEF Runs
  <2>6. QED
    BY <1>1, <1>3, <1>4, <2>4, <2>5, EndsWell
<1>8. CASE pc = "loop" /\ ~GoesOn /\ op \in Runs
  <2>1. /\ Len(ran) = Len(inA) /\ x \in Seq(Vals) /\ (op = "split" => y \in Seq(Vals))
        /\ x = IF op = "map" THEN At(ran, Len(ran), Int \ lost)
               ELSE At(inA, Len(ran), Chosen(TRUE) \ lost)
        /\ op = "split" => y = At(inA, Len(ran), Chosen(FALSE) \ lost)
    BY <1>5, <1>8, RunsEnd
  <2>2. CASE op = "split"
    <3>1. result' = <<x, y>> /\ result' \in Seq(Seq(Vals))
      BY <1>6, <2>1, <2>2, TwoLists
    <3>2. result' = Expected
      BY <2>1, <2>2, <3>1 DEF Expected
    <3>3. QED
      BY <1>1, <1>3, <1>4, <2>1, <3>1, <3>2, EndsWell
  <2>3. CASE op # "split"
    <3>1. result' = <<x>> /\ result' \in Seq(Seq(Vals))
      BY <1>6, <2>1, <2>3, TwoLists, OneList
    <3>2. op = "map" \/ op = "filter"
      BY <1>8, <2>3 DEF Runs
    <3>3. result' = Expected
      BY <2>1, <3>1, <3>2 DEF Expected
    <3>4. QED
      BY <1>1, <1>3, <1>4, <2>1, <3>1, <3>3, EndsWell
  <2>4. QED
    BY <2>2, <2>3
<1>9. QED
  BY <1>1, <1>7, <1>8

LEMMA NextIInv == IInv /\ [Next]_vars => IInv'
<1> SUFFICES ASSUME IInv, [Next]_vars PROVE IInv'
  OBVIOUS
<1>1. CASE begin_short
  BY <1>1, BeginShort
<1>2. CASE begin_long
  BY <1>2, BeginLong
<1>3. CASE push_dump
  BY <1>3, PushDump
<1>4. CASE exeterm
  BY <1>4, Exeterm
<1>5. CASE copy_element
  BY <1>5, CopyElement
<1>6. CASE store_first
  BY <1>6, StoreFirst
<1>7. CASE store_further
  BY <1>7, StoreFurther
<1>8. CASE store_null
  BY <1>8, StoreNull
<1>9. CASE tie
  BY <1>9, Tie
<1>10. CASE finish
  BY <1>10, Finish
<1>11. CASE execerror
  BY <1>11, Execerror
<1>12. CASE UNCHANGED vars
  BY <1>12 DEF vars, IInv, TypeOK, ArgumentsKept, ResultCorrect,
               Expected, Chosen, Asked, Tied
<1>13. QED
  BY <1>1, <1>2, <1>3, <1>4, <1>5, <1>6, <1>7, <1>8, <1>9, <1>10, <1>11, <1>12 DEF Next

-----------------------------------------------------------------------------
(* What is proved of every memory, list, number and order of evaluation. *)

\* The invariant holds throughout: while an operator works the roots, its
\* arguments and its new lists are chains of cells in use that no other list
\* shares, however often newnode collects.
THEOREM Invariance == Spec => []IInv
<1>1. Init => IInv
  BY InitIInv
<1>2. IInv /\ [Next]_vars => IInv'
  BY NextIInv
<1>3. QED
  BY <1>1, <1>2, PTL DEF Spec

\* The types of the model are kept: no pointer leaves the memory.
THEOREM TypeCorrect == Spec => []TypeOK
<1>1. IInv => TypeOK
  BY DEF IInv
<1>2. QED
  BY <1>1, Invariance, PTL

\* The lists an operator was given are never changed, whichever order the
\* compiler chose: the store through an address loaded too early goes to the
\* half given up.
THEOREM ArgumentsStay == Spec => []ArgumentsKept
<1>1. IInv => ArgumentsKept
  BY DEF IInv
<1>2. QED
  BY <1>1, Invariance, PTL

\* map, filter, split, take and concat leave what the manual says, whichever
\* order the compiler chose, for lists of any length and collections at any
\* newnode and at any time while P runs, less exactly the elements in whose store
\* a collection came after the left pointer was loaded; without such a loss they
\* follow no null pointer, save take with an empty list.
THEOREM ResultsCorrect == Spec => []ResultCorrect
<1>1. IInv => ResultCorrect
  BY DEF IInv
<1>2. QED
  BY <1>1, Invariance, PTL

=============================================================================
