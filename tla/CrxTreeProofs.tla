---------------------------- MODULE CrxTreeProofs ----------------------------
(***************************************************************************)
(* Proofs about the tree of words of CrxReadIn and WalkTree.               *)
(*                                                                         *)
(* The fields Lower and Higher of the nodes are functions lo and hi on the *)
(* set S of nodes, R is the order of the nodes by their words, and under   *)
(* gives the nodes of the subtree of each node.                            *)
(***************************************************************************)
EXTENDS CrxReadIn, FiniteSetTheorems, SequenceTheorems, WellFoundedInduction, TLAPS

-----------------------------------------------------------------------------
(* Induction on the naturals. *)

\* A set of naturals that is not empty has a least element.
LEMMA LeastNat ==
  ASSUME NEW T,
         T \subseteq Nat, T # {}
  PROVE  \E x \in T : \A y \in T : x <= y
<1> DEFINE R == StrictSubsetOrdering(Nat)
           B == {0 .. (x - 1) : x \in T}
<1>1. IsWellFoundedOn(R, FiniteSubsetsOf(Nat))
  BY FS_StrictSubsetOrderingWellFounded
<1>2. B \subseteq FiniteSubsetsOf(Nat) /\ B # {}
  <2>1. ASSUME NEW x \in T PROVE 0 .. (x - 1) \in FiniteSubsetsOf(Nat)
    <3>1. IsFiniteSet(0 .. (x - 1))
      BY FS_Interval, 0 \in Int, x - 1 \in Int
    <3>2. 0 .. (x - 1) \subseteq Nat
      OBVIOUS
    <3>3. QED
      BY <3>1, <3>2 DEF FiniteSubsetsOf
  <2>2. QED
    BY <2>1
<1> HIDE DEF R
<1>3. PICK b \in B : \A c \in B : ~(<<c, b>> \in R)
  BY <1>1, <1>2, WFMin
<1>4. PICK x \in T : b = 0 .. (x - 1)
  OBVIOUS
<1>5. ASSUME NEW y \in T, y < x PROVE FALSE
  <2>1. 0 .. (y - 1) \subseteq 0 .. (x - 1) /\ y \in 0 .. (x - 1) /\ y \notin 0 .. (y - 1)
    BY <1>5
  <2>2. 0 .. (y - 1) \in SUBSET Nat /\ b \in SUBSET Nat
    BY <1>4
  <2>3. 0 .. (y - 1) # b /\ 0 .. (y - 1) \subseteq b
    BY <1>4, <2>1
  <2>4. <<0 .. (y - 1), b>> \in R
    BY <2>2, <2>3 DEF R, StrictSubsetOrdering
  <2>5. 0 .. (y - 1) \in B
    OBVIOUS
  <2>6. QED
    BY <1>3, <2>4, <2>5
<1>6. \A y \in T : x <= y
  BY <1>5
<1>7. QED
  BY <1>6

\* Induction: a set that has 0, and n + 1 with every n, has all naturals.
LEMMA Induct ==
  ASSUME NEW S,
         0 \in S, \A n \in Nat : n \in S => n + 1 \in S
  PROVE  Nat \subseteq S
<1> SUFFICES ASSUME Nat \ S # {} PROVE FALSE
  OBVIOUS
<1>1. PICK x \in Nat \ S : \A y \in Nat \ S : x <= y
  BY LeastNat
<1>2. x # 0 /\ x - 1 \in Nat /\ (x - 1) + 1 = x
  BY <1>1
<1>3. x - 1 \in S
  BY <1>1, <1>2
<1>4. QED
  BY <1>1, <1>2, <1>3

-----------------------------------------------------------------------------
(* Forests. *)

Below(under, n) == IF n = 0 THEN {} ELSE under[n]

\* R puts S in a strict order.
Orders(R, S) ==
  /\ \A a \in S : <<a, a>> \notin R
  /\ \A a, b, c \in S : <<a, b>> \in R /\ <<b, c>> \in R => <<a, c>> \in R

Forest(S, R, lo, hi, under) ==
  /\ 0 \notin S
  /\ lo \in [S -> S \cup {0}] /\ hi \in [S -> S \cup {0}] /\ under \in [S -> SUBSET S]
  /\ \A n \in S : under[n] = Below(under, lo[n]) \cup {n} \cup Below(under, hi[n])
  /\ \A n \in S : \A m \in Below(under, lo[n]) : <<m, n>> \in R
  /\ \A n \in S : \A m \in Below(under, hi[n]) : <<n, m>> \in R
  /\ \A n \in S : \A m \in under[n] : under[m] \subseteq under[n]

\* A field that is written.
Put(f, n, x) == [f EXCEPT ![n] = x]

\* A function on T that has x at n and is f elsewhere.
With(T, n, x, f) == [m \in T |-> IF m = n THEN x ELSE f[m]]

\* What is below each node when n has lost its high side, and when c was put
\* below e.
Shorn(under, lo, n) == Put(under, n, Below(under, lo[n]) \cup {n})
Hung(S, under, e, c) ==
  [m \in S |-> IF e \in under[m] THEN under[m] \cup Below(under, c) ELSE under[m]]

\* What holds of a forest holds with low and high exchanged.
Back(R) == {<<p[2], p[1]>> : p \in R}

LEMMA Mirror ==
  ASSUME NEW S, NEW R, NEW lo, NEW hi, NEW under,
         R \subseteq S \X S, Forest(S, R, lo, hi, under)
  PROVE  Forest(S, Back(R), hi, lo, under)
<1>1. \A a, b \in S : <<a, b>> \in R <=> <<b, a>> \in Back(R)
  BY DEF Back
<1>2. \A n \in S : \A m \in Below(under, lo[n]) \cup Below(under, hi[n]) : m \in S
  BY DEF Forest, Below
<1>3. \A n \in S : under[n] = Below(under, hi[n]) \cup {n} \cup Below(under, lo[n])
  BY DEF Forest
<1>4. QED
  BY <1>1, <1>2, <1>3 DEF Forest

LEMMA MirrorOrder ==
  ASSUME NEW S, NEW R,
         R \subseteq S \X S, Orders(R, S)
  PROVE  /\ Back(R) \subseteq S \X S /\ Orders(Back(R), S) /\ Back(Back(R)) = R
         /\ \A a, b \in S : <<a, b>> \in R <=> <<b, a>> \in Back(R)
<1>1. \A a, b \in S : <<a, b>> \in R <=> <<b, a>> \in Back(R)
  BY DEF Back
<1>2. Back(R) \subseteq S \X S
  BY DEF Back
<1>3. Orders(Back(R), S)
  BY <1>1 DEF Orders
<1>4. ASSUME NEW p PROVE p \in Back(Back(R)) <=> p \in R
  <2>1. ASSUME p \in R PROVE p \in Back(Back(R))
    <3>1. p[1] \in S /\ p[2] \in S /\ p = <<p[1], p[2]>>
      BY <2>1
    <3> DEFINE q == <<p[2], p[1]>>
    <3>2. q \in Back(R) /\ p = <<q[2], q[1]>>
      BY <2>1, <3>1 DEF Back
    <3> HIDE DEF q
    <3>3. QED
      BY <3>2 DEF Back
  <2>2. ASSUME p \in Back(Back(R)) PROVE p \in R
    <3>1. PICK q \in Back(R) : p = <<q[2], q[1]>>
      BY <2>2 DEF Back
    <3>2. PICK r \in R : q = <<r[2], r[1]>>
      BY DEF Back
    <3>3. r = <<r[1], r[2]>>
      OBVIOUS
    <3>4. p = r
      BY <3>1, <3>2, <3>3
    <3>5. QED
      BY <3>4
  <2>3. QED
    BY <2>1, <2>2
<1>5. QED
  BY <1>1, <1>2, <1>3, <1>4

\* A tree that is the subtree of no other node loses its high side.
LEMMA Detach ==
  ASSUME NEW S, NEW R, NEW lo, NEW hi, NEW under, NEW n,
         Forest(S, R, lo, hi, under), n \in S, \A p \in S : n \in under[p] => p = n
  PROVE  Forest(S, R, lo, Put(hi, n, 0), Shorn(under, lo, n))
<1> USE DEF Put, Shorn
<1> DEFINE u == Shorn(under, lo, n)
           h == Put(hi, n, 0)
<1>1. \A p \in S \ {n} : u[p] = under[p] /\ h[p] = hi[p]
  BY DEF Forest
<1>2. u[n] = Below(under, lo[n]) \cup {n} /\ h[n] = 0
  BY DEF Forest
<1>3. u \in [S -> SUBSET S] /\ h \in [S -> S \cup {0}]
  BY DEF Forest, Below
<1>4. \A p \in S : p \in under[p]
  BY DEF Forest
<1>5. ASSUME NEW p \in S PROVE Below(u, lo[p]) = Below(under, lo[p])
  <2>1. CASE lo[p] = n
    <3>1. n \in under[p]
      BY <2>1, <1>4 DEF Forest, Below
    <3>2. n \in Below(under, lo[n])
      BY <2>1, <3>1, <1>4 DEF Forest, Below
    <3>3. lo[n] # 0 /\ lo[n] \in S
      BY <3>2 DEF Below, Forest
    <3>4. lo[n] = n
      BY <3>2, <3>3 DEF Below
    <3>5. u[n] = under[n]
      BY <1>2, <3>4, <3>3, <1>4 DEF Below
    <3>6. QED
      BY <2>1, <3>5 DEF Below
  <2>2. CASE lo[p] # n
    BY <2>2, <1>1 DEF Forest, Below
  <2>3. QED
    BY <2>1, <2>2
<1>6. ASSUME NEW p \in S \ {n} PROVE Below(u, h[p]) = Below(under, hi[p])
  <2>1. hi[p] # n
    BY <1>4 DEF Forest, Below
  <2>2. QED
    BY <1>1, <2>1 DEF Forest, Below
<1>7. Below(u, h[n]) = {}
  BY <1>2 DEF Below
<1> HIDE DEF h, u
<1>8. ASSUME NEW p \in S PROVE u[p] = Below(u, lo[p]) \cup {p} \cup Below(u, h[p])
  BY <1>1, <1>2, <1>5, <1>6, <1>7 DEF Forest
<1>9. ASSUME NEW p \in S, NEW m \in u[p] PROVE u[m] \subseteq u[p]
  <2>1. m \in S /\ m \in under[p] /\ under[m] \subseteq under[p]
    BY <1>1, <1>2, <1>3 DEF Forest
  <2>2. u[m] \subseteq under[m]
    BY <1>1, <1>2, <2>1 DEF Forest
  <2>3. CASE p # n
    BY <2>1, <2>2, <2>3, <1>1
  <2>4. CASE p = n /\ m # n
    <3>1. m \in Below(under, lo[n]) /\ lo[n] \in S /\ u[m] = under[m]
      BY <2>4, <1>1, <1>2, <2>1 DEF Below, Forest
    <3>2. under[m] \subseteq under[lo[n]]
      BY <3>1 DEF Below, Forest
    <3>3. QED
      BY <2>4, <3>1, <3>2, <1>2 DEF Below, Forest
  <2>5. QED
    BY <2>3, <2>4
<1>10. ASSUME NEW p \in S PROVE \A m \in Below(u, lo[p]) : <<m, p>> \in R
  BY <1>5 DEF Forest
<1>11. ASSUME NEW p \in S PROVE \A m \in Below(u, h[p]) : <<p, m>> \in R
  BY <1>6, <1>7 DEF Forest
<1>12. Forest(S, R, lo, h, u)
  BY <1>3, <1>8, <1>9, <1>10, <1>11 DEF Forest
<1>13. QED
  BY <1>12 DEF h, u

\* Where a tree ends, the next tree in the order is put under its last node.
LEMMA Attach ==
  ASSUME NEW S, NEW R, NEW lo, NEW hi, NEW under, NEW L, NEW e, NEW c,
         Orders(R, S), Forest(S, R, lo, hi, under), L \subseteq S,
         \A m \in L : under[m] \subseteq L, e \in L, hi[e] = 0,
         \A m \in L : m = e \/ <<m, e>> \in R, \A p \in S : e \in under[p] => p \in L,
         c \in S \cup {0}, \A m \in L, x \in Below(under, c) : <<m, x>> \in R
  PROVE  Forest(S, R, lo, Put(hi, e, c), Hung(S, under, e, c))
<1> USE DEF Put, Hung
<1> DEFINE u == Hung(S, under, e, c)
           h == Put(hi, e, c)
           C == Below(under, c)
<1>1. C \subseteq S /\ C \cap L = {}
  <2>1. C \subseteq S
    BY DEF Below, Forest
  <2>2. \A m \in S : <<m, m>> \notin R
    BY DEF Orders
  <2>3. \A m \in L, x \in C : <<m, x>> \in R
    OBVIOUS
  <2> HIDE DEF C
  <2>4. QED
    BY <2>1, <2>2, <2>3
<1>2. \A m \in S : m \in under[m]
  BY DEF Forest
<1>3. \A m \in C : under[m] \subseteq C
  BY DEF Below, Forest
<1>4. u \in [S -> SUBSET S] /\ h \in [S -> S \cup {0}] /\ h[e] = c /\ \A m \in S \ {e} : h[m] = hi[m]
  BY <1>1 DEF Forest
<1>5. \A m \in S : e \notin under[m] => u[m] = under[m]
  OBVIOUS
<1>6. \A m \in S : e \in under[m] => u[m] = under[m] \cup C
  OBVIOUS
<1>7. ASSUME NEW m \in S PROVE Below(u, lo[m]) = Below(under, lo[m])
  <2>1. ASSUME lo[m] # 0, e \in under[lo[m]] PROVE FALSE
    <3>1. <<e, m>> \in R /\ e \in under[m]
      BY <2>1 DEF Below, Forest
    <3>2. m \in L /\ e \in S
      BY <3>1
    <3>3. QED
      BY <3>1, <3>2 DEF Orders
  <2>2. lo[m] \in S \cup {0}
    BY DEF Forest
  <2>3. QED
    BY <2>1, <2>2, <1>5 DEF Below
<1>8. e \notin C
  BY <1>1
<1>9. Below(u, c) = C
  BY <1>8, <1>5 DEF Below
<1>10. ASSUME NEW m \in S \ {e}, e \in under[m] PROVE Below(u, h[m]) = Below(under, hi[m]) \cup C
  <2>1. e \notin Below(under, lo[m])
    <3>1. ASSUME e \in Below(under, lo[m]) PROVE FALSE
      <4>1. <<e, m>> \in R /\ m \in L /\ e \in S
        BY <3>1, <1>10 DEF Forest
      <4>2. QED
        BY <4>1 DEF Orders
    <3>2. QED
      BY <3>1
  <2>2. e \in Below(under, hi[m])
    BY <2>1, <1>10 DEF Forest
  <2>3. hi[m] \in S /\ hi[m] # 0 /\ e \in under[hi[m]]
    BY <2>2 DEF Below, Forest
  <2>4. h[m] = hi[m] /\ u[hi[m]] = under[hi[m]] \cup C
    BY <2>3, <1>4, <1>6
  <2>5. QED
    BY <2>3, <2>4 DEF Below
<1>11. ASSUME NEW m \in S, e \notin under[m] PROVE Below(u, h[m]) = Below(under, hi[m])
  <2>1. m # e /\ h[m] = hi[m] /\ hi[m] \in S \cup {0}
    BY <1>11, <1>2, <1>4 DEF Forest
  <2>2. hi[m] # 0 => e \notin under[hi[m]]
    BY <1>11, <2>1 DEF Forest, Below
  <2>3. QED
    BY <2>1, <2>2, <1>5 DEF Below
<1> HIDE DEF h, C, u
<1>12. ASSUME NEW m \in S PROVE u[m] = Below(u, lo[m]) \cup {m} \cup Below(u, h[m])
  <2>1. under[m] = Below(under, lo[m]) \cup {m} \cup Below(under, hi[m])
    BY DEF Forest
  <2>2. CASE m = e
    <3>1. Below(under, hi[e]) = {}
      BY DEF Below
    <3>2. QED
      BY <2>1, <2>2, <3>1, <1>7, <1>4, <1>6, <1>9, <1>2
  <2>3. CASE m # e /\ e \in under[m]
    BY <2>1, <2>3, <1>6, <1>7, <1>10
  <2>4. CASE e \notin under[m]
    BY <2>1, <2>4, <1>5, <1>7, <1>11
  <2>5. QED
    BY <2>2, <2>3, <2>4
<1>13. ASSUME NEW m \in S PROVE \A x \in Below(u, h[m]) : <<m, x>> \in R
  <2>1. \A x \in Below(under, hi[m]) : <<m, x>> \in R
    BY DEF Forest
  <2>2. e \in under[m] => m \in L /\ \A x \in C : <<m, x>> \in R
    BY DEF C
  <2>3. CASE m = e
    BY <2>2, <2>3, <1>2, <1>4, <1>9
  <2>4. CASE m # e /\ e \in under[m]
    BY <2>1, <2>2, <2>4, <1>10
  <2>5. CASE e \notin under[m]
    BY <2>1, <2>5, <1>11
  <2>6. QED
    BY <2>3, <2>4, <2>5
<1>14. ASSUME NEW m \in S PROVE \A x \in Below(u, lo[m]) : <<x, m>> \in R
  BY <1>7 DEF Forest
<1>15. ASSUME NEW m \in S, NEW x \in u[m] PROVE u[x] \subseteq u[m]
  <2>1. CASE x \in under[m]
    <3>1. x \in S /\ under[x] \subseteq under[m]
      BY <2>1 DEF Forest
    <3>2. QED
      BY <3>1, <1>5, <1>6
  <2>2. CASE x \notin under[m]
    <3>1. x \in C /\ u[m] = under[m] \cup C
      BY <2>2, <1>15, <1>5, <1>6
    <3>2. x \in S /\ under[x] \subseteq C
      BY <3>1, <1>1, <1>3
    <3>3. u[x] \subseteq C
      BY <3>2, <1>5, <1>6
    <3>4. QED
      BY <3>1, <3>3
  <2>3. QED
    BY <2>1, <2>2
<1>16. Forest(S, R, lo, h, u)
  BY <1>4, <1>12, <1>13, <1>14, <1>15 DEF Forest
<1>17. QED
  BY <1>16 DEF h, u

\* Two trees that have all nodes but one become that one's subtrees.
LEMMA JoinTrees ==
  ASSUME NEW S, NEW R, NEW lo, NEW hi, NEW under, NEW k, NEW a, NEW b,
         Orders(R, S), Forest(S, R, lo, hi, under), k \in S, a \in S \cup {0}, b \in S \cup {0},
         Below(under, a) \cup {k} \cup Below(under, b) = S,
         \A m \in Below(under, a) : <<m, k>> \in R, \A m \in Below(under, b) : <<k, m>> \in R
  PROVE  Forest(S, R, Put(lo, k, a), Put(hi, k, b), Put(under, k, S))
<1> USE DEF Put
<1> DEFINE u == Put(under, k, S)
           l == Put(lo, k, a)
           h == Put(hi, k, b)
<1>1. k \notin Below(under, a) /\ k \notin Below(under, b)
  BY DEF Orders
<1>2. \A m \in S : m \in under[m]
  BY DEF Forest
<1>3. a # k /\ b # k
  BY <1>1, <1>2 DEF Below, Forest
<1>4. ASSUME NEW m \in S \ {k} PROVE k \notin under[m]
  <2>1. m \in Below(under, a) \/ m \in Below(under, b)
    OBVIOUS
  <2>2. under[m] \subseteq Below(under, a) \/ under[m] \subseteq Below(under, b)
    BY <2>1 DEF Below, Forest
  <2>3. QED
    BY <2>2, <1>1
<1>5. /\ l \in [S -> S \cup {0}] /\ h \in [S -> S \cup {0}] /\ u \in [S -> SUBSET S]
      /\ l[k] = a /\ h[k] = b /\ u[k] = S
      /\ \A m \in S \ {k} : l[m] = lo[m] /\ h[m] = hi[m] /\ u[m] = under[m]
  BY DEF Forest
<1>6. ASSUME NEW m \in S \ {k} PROVE Below(u, l[m]) = Below(under, lo[m]) /\ Below(u, h[m]) = Below(under, hi[m])
  <2>1. lo[m] # k /\ hi[m] # k
    BY <1>4, <1>2 DEF Forest, Below
  <2>2. lo[m] \in S \cup {0} /\ hi[m] \in S \cup {0} /\ l[m] = lo[m] /\ h[m] = hi[m]
    BY <1>5 DEF Forest
  <2>3. QED
    BY <2>1, <2>2, <1>5 DEF Below
<1>7. Below(u, l[k]) = Below(under, a) /\ Below(u, h[k]) = Below(under, b)
  BY <1>3, <1>5 DEF Below
<1> HIDE DEF l, h, u
<1>8. ASSUME NEW m \in S PROVE u[m] = Below(u, l[m]) \cup {m} \cup Below(u, h[m])
  <2>1. CASE m = k
    BY <2>1, <1>5, <1>7
  <2>2. CASE m # k
    <3>1. under[m] = Below(under, lo[m]) \cup {m} \cup Below(under, hi[m])
      BY DEF Forest
    <3>2. m \in S \ {k}
      BY <2>2
    <3>3. QED
      BY <3>1, <3>2, <1>5, <1>6
  <2>3. QED
    BY <2>1, <2>2
<1>9. ASSUME NEW m \in S
      PROVE  /\ \A x \in Below(u, l[m]) : <<x, m>> \in R
             /\ \A x \in Below(u, h[m]) : <<m, x>> \in R
  BY <1>6, <1>7 DEF Forest
<1>10. ASSUME NEW m \in S, NEW x \in u[m] PROVE u[x] \subseteq u[m]
  <2>1. CASE m = k
    BY <2>1, <1>5
  <2>2. CASE m # k
    <3>1. x \in under[m] /\ x # k /\ x \in S /\ u[m] = under[m]
      BY <2>2, <1>4, <1>5, <1>10
    <3>2. u[x] = under[x]
      BY <3>1, <1>5
    <3>3. QED
      BY <3>1, <3>2 DEF Forest
  <2>3. QED
    BY <2>1, <2>2
<1>11. Forest(S, R, l, h, u)
  BY <1>5, <1>8, <1>9, <1>10 DEF Forest
<1>12. QED
  BY <1>11 DEF l, h, u

-----------------------------------------------------------------------------
(* The two sides of a search. *)

\* The low side ends in its last node, e, that has nothing on its high side.
Ends(R, hi, under, r, e) ==
  IF r = 0 THEN e = 0
  ELSE /\ e \in Below(under, r) /\ e # 0 /\ hi[e] = 0
       /\ \A m \in Below(under, r) : m = e \/ <<m, e>> \in R

\* All of A is before all of B.
Before(R, A, B) == \A a \in A, b \in B : <<a, b>> \in R

\* The parts of the tree: what was passed on the low side, what is still to be
\* looked at, what was passed on the high side.
Parts(S, R, lo, hi, under, lr, k, hr, le, he) ==
  /\ Forest(S, R, lo, hi, under)
  /\ lr \in S \cup {0} /\ k \in S \cup {0} /\ hr \in S \cup {0}
  /\ Below(under, lr) \cup Below(under, k) \cup Below(under, hr) = S
  /\ Before(R, Below(under, lr), Below(under, k))
  /\ Before(R, Below(under, lr), Below(under, hr))
  /\ Before(R, Below(under, k), Below(under, hr))
  /\ Ends(R, hi, under, lr, le)
  /\ Ends(Back(R), lo, under, hr, he)

LEMMA MirrorParts ==
  ASSUME NEW S, NEW R, NEW lo, NEW hi, NEW under, NEW lr, NEW k, NEW hr, NEW le, NEW he,
         R \subseteq S \X S, Orders(R, S), Parts(S, R, lo, hi, under, lr, k, hr, le, he)
  PROVE  Parts(S, Back(R), hi, lo, under, hr, k, lr, he, le)
<1>1. Forest(S, Back(R), hi, lo, under)
  BY Mirror DEF Parts
<1>2. Back(Back(R)) = R /\ \A a, b \in S : <<a, b>> \in R <=> <<b, a>> \in Back(R)
  BY MirrorOrder
<1>3. \A r \in {lr, k, hr} : Below(under, r) \subseteq S
  BY DEF Parts, Forest, Below
<1>4. \A A, B \in SUBSET S : Before(R, A, B) => Before(Back(R), B, A)
  BY <1>2 DEF Before
<1>5. /\ Before(Back(R), Below(under, k), Below(under, lr))
      /\ Before(Back(R), Below(under, hr), Below(under, lr))
      /\ Before(Back(R), Below(under, hr), Below(under, k))
  BY <1>3, <1>4 DEF Parts
<1>6. Below(under, hr) \cup Below(under, k) \cup Below(under, lr) = S
  BY DEF Parts
<1>7. Ends(Back(Back(R)), hi, under, lr, le)
  BY <1>2 DEF Parts
<1>8. QED
  BY <1>1, <1>5, <1>6, <1>7 DEF Parts

LEMMA Apart ==
  ASSUME NEW S, NEW R, NEW A, NEW B,
         Orders(R, S), A \subseteq S, Before(R, A, B)
  PROVE  A \cap B = {}
BY DEF Orders, Before

\* Something is put where the low side ends.
LEMMA CloseLow ==
  ASSUME NEW S, NEW R, NEW lo, NEW hi, NEW under, NEW r, NEW e, NEW c,
         Orders(R, S), Forest(S, R, lo, hi, under), r \in S \cup {0}, Ends(R, hi, under, r, e),
         \A p \in S : e \in under[p] => p \in Below(under, r), c \in S \cup {0},
         Before(R, Below(under, r), Below(under, c))
  PROVE  \E u : /\ Forest(S, R, lo, IF r = 0 THEN hi ELSE Put(hi, e, c), u)
                /\ Below(u, IF r = 0 THEN c ELSE r) = Below(under, r) \cup Below(under, c)
                /\ \A m \in S : e \notin under[m] => u[m] = under[m]
                /\ \A m \in S : u[m] \subseteq under[m] \cup Below(under, c)
<1>1. CASE r = 0
  <2>1. Below(under, IF r = 0 THEN c ELSE r) = Below(under, r) \cup Below(under, c)
    BY <1>1 DEF Below
  <2>2. QED
    BY <1>1, <2>1
<1>2. CASE r # 0
  <2> DEFINE L == Below(under, r)
             C == Below(under, c)
             u == Hung(S, under, e, c)
  <2>1. r \in S /\ L = under[r] /\ L \subseteq S /\ \A m \in L : under[m] \subseteq L
    BY <1>2 DEF Below, Forest
  <2>2. e \in L /\ hi[e] = 0 /\ \A m \in L : m = e \/ <<m, e>> \in R
    BY <1>2 DEF Ends
  <2>3. \A m \in L, x \in C : <<m, x>> \in R
    BY DEF Before
  <2>4. Forest(S, R, lo, Put(hi, e, c), u)
    <3>1. \A p \in S : e \in under[p] => p \in L
      OBVIOUS
    <3> HIDE DEF L
    <3>2. QED
      BY <2>1, <2>2, <2>3, <3>1, Attach
  <2>5. Below(u, r) = L \cup C
    BY <1>2, <2>1, <2>2 DEF Below, Hung
  <2>6. /\ \A m \in S : e \notin under[m] => u[m] = under[m]
        /\ \A m \in S : u[m] \subseteq under[m] \cup C
    BY DEF Hung
  <2> HIDE DEF u
  <2>7. QED
    BY <1>2, <2>4, <2>5, <2>6
<1>3. QED
  BY <1>1, <1>2

\* No other subtree has the root of one of the parts.
LEMMA Roots ==
  ASSUME NEW S, NEW R, NEW lo, NEW hi, NEW under, NEW lr, NEW k, NEW hr, NEW le, NEW he,
         Orders(R, S), Parts(S, R, lo, hi, under, lr, k, hr, le, he)
  PROVE  /\ \A p \in S, r \in {lr, k, hr} : p \in Below(under, r) => under[p] \subseteq Below(under, r)
         /\ Below(under, lr) \cap Below(under, k) = {}
         /\ Below(under, lr) \cap Below(under, hr) = {}
         /\ Below(under, k) \cap Below(under, hr) = {}
         /\ k # 0 => \A p \in S : k \in under[p] => p = k
<1>1. \A p \in S, r \in {lr, k, hr} : p \in Below(under, r) => under[p] \subseteq Below(under, r)
  BY DEF Parts, Forest, Below
<1>2. Below(under, lr) \subseteq S /\ Below(under, k) \subseteq S /\ Below(under, hr) \subseteq S
  BY DEF Parts
<1>3. Below(under, lr) \cap Below(under, k) = {} /\ Below(under, lr) \cap Below(under, hr) = {}
  BY <1>2, Apart DEF Parts
<1>4. Below(under, k) \cap Below(under, hr) = {}
  BY <1>2, Apart DEF Parts
<1>5. ASSUME k # 0, NEW p \in S, k \in under[p] PROVE p = k
  <2>1. k \in S /\ k \in under[k] /\ Below(under, k) = under[k]
    BY <1>5 DEF Parts, Forest, Below
  <2>2. p \in Below(under, lr) \/ p \in Below(under, k) \/ p \in Below(under, hr)
    BY DEF Parts
  <2>3. p \in Below(under, k)
    BY <1>1, <1>3, <1>4, <1>5, <2>1, <2>2
  <2>4. ASSUME p # k PROVE FALSE
    <3>1. p \in Below(under, lo[k]) \/ p \in Below(under, hi[k])
      BY <2>1, <2>3, <2>4 DEF Parts, Forest
    <3>2. k \in Below(under, lo[k]) \/ k \in Below(under, hi[k])
      BY <3>1, <1>5, <2>1 DEF Parts, Forest, Below
    <3>3. <<k, k>> \in R
      BY <3>2, <2>1 DEF Parts, Forest
    <3>4. QED
      BY <3>3, <2>1 DEF Orders
  <2>5. QED
    BY <2>4
<1>6. QED
  BY <1>1, <1>3, <1>4, <1>5

\* What is on either side of a node that is looked at.
LEMMA Sides ==
  ASSUME NEW S, NEW R, NEW lo, NEW hi, NEW under, NEW lr, NEW k, NEW hr, NEW le, NEW he,
         Orders(R, S), k \in S, Parts(S, R, lo, hi, under, lr, k, hr, le, he)
  PROVE  /\ Below(under, k) = Below(under, lo[k]) \cup {k} \cup Below(under, hi[k])
         /\ k \notin Below(under, lo[k]) /\ k \notin Below(under, hi[k])
         /\ lo[k] \in S \cup {0} /\ hi[k] \in S \cup {0} /\ lo[k] # k /\ hi[k] # k
         /\ \A m \in Below(under, lo[k]) : <<m, k>> \in R
         /\ \A m \in Below(under, hi[k]) : <<k, m>> \in R
         /\ Before(R, Below(under, lo[k]), Below(under, hi[k]))
         /\ k \in Below(under, k) /\ Below(under, k) \subseteq S
<1>1. Forest(S, R, lo, hi, under) /\ k # 0
  BY DEF Parts, Forest
<1>2. Below(under, k) = Below(under, lo[k]) \cup {k} \cup Below(under, hi[k])
  BY <1>1 DEF Forest, Below
<1>3. Below(under, k) \subseteq S
  BY <1>1 DEF Forest, Below
<1>4. /\ \A m \in Below(under, lo[k]) : <<m, k>> \in R
      /\ \A m \in Below(under, hi[k]) : <<k, m>> \in R
  BY <1>1 DEF Forest
<1>5. Before(R, Below(under, lo[k]), Below(under, hi[k]))
  BY <1>2, <1>3, <1>4 DEF Before, Orders
<1>6. k \notin Below(under, lo[k]) /\ k \notin Below(under, hi[k])
  BY <1>4 DEF Orders
<1>7. lo[k] \in S \cup {0} /\ hi[k] \in S \cup {0}
  BY <1>1 DEF Forest
<1>8. lo[k] # k /\ hi[k] # k
  BY <1>1, <1>6 DEF Below, Forest
<1>9. QED
  BY <1>2, <1>3, <1>4, <1>5, <1>6, <1>7, <1>8

\* One turn of the loop: the node that is looked at becomes the end of the low
\* side, with what is below it on the low side.
LEMMA ProbeParts ==
  ASSUME NEW S, NEW R, NEW lo, NEW hi, NEW under, NEW lr, NEW k, NEW hr, NEW le, NEW he,
         R \subseteq S \X S, Orders(R, S), k \in S,
         Parts(S, R, lo, hi, under, lr, k, hr, le, he)
  PROVE  LET cut == Put(hi, k, 0)
             low == IF lr = 0 THEN k ELSE lr
             new == IF lr = 0 THEN cut ELSE Put(cut, le, k)
         IN  \E u : /\ Parts(S, R, lo, new, u, low, hi[k], hr, k, he)
                    /\ Below(u, low) = Below(under, lr) \cup Below(under, lo[k]) \cup {k}
                    /\ Below(u, hr) = Below(under, hr)
<1> DEFINE cut == Put(hi, k, 0)
           low == IF lr = 0 THEN k ELSE lr
           new == IF lr = 0 THEN cut ELSE Put(cut, le, k)
           u1 == Shorn(under, lo, k)
           A == Below(under, lr)
           B == Below(under, lo[k])
           C == Below(under, hi[k])
           H == Below(under, hr)
<1>1. /\ Below(under, k) = B \cup {k} \cup C
      /\ k \notin B /\ k \notin C
      /\ lo[k] \in S \cup {0} /\ hi[k] \in S \cup {0} /\ lo[k] # k /\ hi[k] # k
      /\ (\A m \in B : <<m, k>> \in R) /\ (\A m \in C : <<k, m>> \in R) /\ Before(R, B, C)
      /\ k \in Below(under, k) /\ Below(under, k) \subseteq S
  BY Sides
<1>2. /\ \A p \in S, r \in {lr, k, hr} : p \in Below(under, r) => under[p] \subseteq Below(under, r)
      /\ A \cap Below(under, k) = {} /\ A \cap H = {} /\ Below(under, k) \cap H = {}
      /\ \A p \in S : k \in under[p] => p = k
  <2>1. k # 0
    BY DEF Parts, Forest
  <2>2. QED
    BY <2>1, Roots
<1>3. /\ Forest(S, R, lo, cut, u1)
      /\ \A p \in S : p # k => u1[p] = under[p]
      /\ u1[k] = B \cup {k}
  <2>1. Forest(S, R, lo, hi, under)
    BY DEF Parts
  <2>2. \A p \in S : k \in under[p] => p = k
    BY <1>2
  <2>3. Forest(S, R, lo, cut, u1)
    BY <2>1, <2>2, Detach
  <2>4. QED
    BY <2>1, <2>3 DEF Forest, Shorn, Put
<1>4. /\ Forest(S, R, lo, hi, under) /\ A \cup Below(under, k) \cup H = S
      /\ lr \in S \cup {0} /\ hr \in S \cup {0} /\ k # 0 /\ 0 \notin S
      /\ Before(R, A, Below(under, k)) /\ Before(R, A, H) /\ Before(R, Below(under, k), H)
      /\ Ends(R, hi, under, lr, le) /\ Ends(Back(R), lo, under, hr, he)
  BY DEF Parts, Forest
<1>5. lr # k /\ hr # k
  BY <1>1, <1>2
<1>6. /\ Below(u1, lr) = A /\ Below(u1, hr) = H /\ Below(u1, hi[k]) = C
      /\ Below(u1, k) = B \cup {k}
  BY <1>1, <1>3, <1>4, <1>5 DEF Below
<1>7. \A p \in S : u1[p] \subseteq under[p]
  BY <1>1, <1>3, <1>4 DEF Forest, Below
<1>8. Ends(R, cut, u1, lr, le)
  <2>1. CASE lr = 0
    BY <2>1, <1>4 DEF Ends
  <2>2. CASE lr # 0
    <3>1. le \in A /\ le # k /\ le \in S
      BY <2>2, <1>1, <1>2, <1>4 DEF Ends
    <3>2. cut[le] = hi[le]
      BY <3>1, <1>4 DEF Forest, Put
    <3>3. QED
      BY <2>2, <3>2, <1>4, <1>6 DEF Ends
  <2>3. QED
    BY <2>1, <2>2
<1> HIDE DEF cut, u1, A, B, C, H
<1>9. \A p \in S : le \in u1[p] => p \in Below(u1, lr)
  <2>1. SUFFICES ASSUME NEW p \in S, le \in u1[p], p \notin A PROVE FALSE
    BY <1>6
  <2>2. le \in under[p] /\ le \in S
    BY <2>1, <1>7, <1>4 DEF Forest
  <2>3. le \in A
    BY <2>2, <1>4 DEF Ends, A, Forest
  <2>4. p \in Below(under, k) \/ p \in H
    BY <2>1, <1>4
  <2>5. le \in Below(under, k) \/ le \in H
    BY <2>2, <2>4, <1>2 DEF H
  <2>6. QED
    BY <2>3, <2>5, <1>2
<1>10. Before(R, Below(u1, lr), Below(u1, k))
  BY <1>1, <1>4, <1>6 DEF Before
<1>11. PICK u : /\ Forest(S, R, lo, new, u)
                /\ Below(u, low) = A \cup B \cup {k}
                /\ \A m \in S : le \notin u1[m] => u[m] = u1[m]
  <2>1. PICK u : /\ Forest(S, R, lo, IF lr = 0 THEN cut ELSE Put(cut, le, k), u)
                 /\ Below(u, IF lr = 0 THEN k ELSE lr) = Below(u1, lr) \cup Below(u1, k)
                 /\ \A m \in S : le \notin u1[m] => u[m] = u1[m]
    BY <1>3, <1>4, <1>8, <1>9, <1>10, CloseLow
  <2>2. QED
    BY <2>1, <1>6
<1>12. \A r \in {hr, hi[k]} : Below(u, r) = Below(u1, r)
  <2>1. SUFFICES ASSUME NEW r \in {hr, hi[k]}, r # 0 PROVE u[r] = u1[r]
    BY DEF Below
  <2>2. r \in S /\ u1[r] = Below(u1, r) /\ Below(u1, r) \in {H, C}
    BY <2>1, <1>1, <1>4, <1>6 DEF Below
  <2>3. r \in Below(u1, r)
    BY <2>2, <1>3 DEF Forest
  <2>4. r \notin A
    BY <2>2, <2>3, <1>1, <1>2
  <2>5. le \notin u1[r]
    BY <2>2, <2>4, <1>6, <1>9
  <2>6. QED
    BY <2>2, <2>5, <1>11
<1>13. Below(u, hr) = H /\ Below(u, hi[k]) = C
  BY <1>6, <1>12
<1>14. low \in S \cup {0} /\ hi[k] \in S \cup {0} /\ hr \in S \cup {0}
  BY <1>1, <1>4
<1>15. Below(u, low) \cup Below(u, hi[k]) \cup Below(u, hr) = S
  BY <1>1, <1>4, <1>11, <1>13
<1>16. /\ Before(R, Below(u, low), Below(u, hi[k]))
       /\ Before(R, Below(u, low), Below(u, hr))
       /\ Before(R, Below(u, hi[k]), Below(u, hr))
  BY <1>1, <1>4, <1>11, <1>13 DEF Before
<1>17. Ends(R, new, u, low, k)
  <2>1. new[k] = 0
    <3>1. cut[k] = 0 /\ cut \in [S -> S \cup {0}]
      BY <1>3, <1>4 DEF cut, Forest, Put
    <3>2. lr # 0 => le # k
      BY <1>1, <1>2, <1>4 DEF Ends, A
    <3>3. QED
      BY <3>1, <3>2 DEF Put
  <2>2. low # 0
    BY <1>4
  <2>3. k \in Below(u, low)
    BY <1>11
  <2>4. \A m \in Below(u, low) : m = k \/ <<m, k>> \in R
    BY <1>1, <1>4, <1>11 DEF Before
  <2>5. QED
    BY <1>4, <2>1, <2>2, <2>3, <2>4 DEF Ends
<1>18. Ends(Back(R), lo, u, hr, he)
  <2>1. Below(u, hr) = Below(under, hr)
    BY <1>13 DEF H
  <2>2. QED
    BY <2>1, <1>4 DEF Ends
<1>19. Parts(S, R, lo, new, u, low, hi[k], hr, k, he)
  BY <1>11, <1>14, <1>15, <1>16, <1>17, <1>18 DEF Parts
<1>20. QED
  BY <1>11, <1>13, <1>19 DEF cut, A, B, H

\* The word is found: both sides are completed with what is below its node, and
\* become the subtrees of the node.
LEMMA FoundTree ==
  ASSUME NEW S, NEW R, NEW lo, NEW hi, NEW under, NEW lr, NEW k, NEW hr, NEW le, NEW he,
         R \subseteq S \X S, Orders(R, S), k \in S,
         Parts(S, R, lo, hi, under, lr, k, hr, le, he)
  PROVE  LET low == IF lr = 0 THEN lo[k] ELSE lr
             high == IF hr = 0 THEN hi[k] ELSE hr
             h == IF lr = 0 THEN hi ELSE Put(hi, le, lo[k])
             l == IF hr = 0 THEN lo ELSE Put(lo, he, hi[k])
         IN  \E u : Forest(S, R, Put(l, k, low), Put(h, k, high), u) /\ u[k] = S
<1> DEFINE low == IF lr = 0 THEN lo[k] ELSE lr
           high == IF hr = 0 THEN hi[k] ELSE hr
           h == IF lr = 0 THEN hi ELSE Put(hi, le, lo[k])
           l == IF hr = 0 THEN lo ELSE Put(lo, he, hi[k])
           A == Below(under, lr)
           B == Below(under, lo[k])
           C == Below(under, hi[k])
           H == Below(under, hr)
<1>1. /\ Below(under, k) = B \cup {k} \cup C
      /\ k \notin B /\ k \notin C
      /\ lo[k] \in S \cup {0} /\ hi[k] \in S \cup {0} /\ lo[k] # k /\ hi[k] # k
      /\ (\A m \in B : <<m, k>> \in R) /\ (\A m \in C : <<k, m>> \in R) /\ Before(R, B, C)
      /\ k \in Below(under, k) /\ Below(under, k) \subseteq S
  BY Sides
<1>2. /\ \A p \in S, r \in {lr, k, hr} : p \in Below(under, r) => under[p] \subseteq Below(under, r)
      /\ A \cap Below(under, k) = {} /\ A \cap H = {} /\ Below(under, k) \cap H = {}
  BY Roots
<1>3. /\ Forest(S, R, lo, hi, under) /\ A \cup Below(under, k) \cup H = S
      /\ lr \in S \cup {0} /\ hr \in S \cup {0} /\ k # 0 /\ 0 \notin S
      /\ Before(R, A, Below(under, k)) /\ Before(R, A, H) /\ Before(R, Below(under, k), H)
      /\ Ends(R, hi, under, lr, le) /\ Ends(Back(R), lo, under, hr, he)
  BY DEF Parts, Forest
<1>4. /\ \A p \in S : le \in under[p] => p \in A
      /\ \A p \in S : he \in under[p] => p \in H
  <2>1. \A p \in S : p \in under[p] /\ under[p] \subseteq S
    BY <1>3 DEF Forest
  <2>2. (le \in S => le \in A) /\ (he \in S => he \in H)
    BY <1>3 DEF Ends
  <2>3. \A p \in S : (p \in A => under[p] \subseteq A) /\ (p \in H => under[p] \subseteq H)
                     /\ (p \in Below(under, k) => under[p] \subseteq Below(under, k))
    BY <1>2
  <2> HIDE DEF A, H
  <2>4. QED
    BY <2>1, <2>2, <2>3, <1>2, <1>3
<1> HIDE DEF A, B, C, H
<1>5. Before(R, A, B)
  BY <1>1, <1>3 DEF Before
<1>6. PICK u1 : /\ Forest(S, R, lo, h, u1)
                /\ Below(u1, low) = A \cup B
                /\ \A m \in S : le \notin under[m] => u1[m] = under[m]
                /\ \A m \in S : u1[m] \subseteq under[m] \cup B
  <2>1. Before(R, Below(under, lr), Below(under, lo[k]))
    BY <1>5 DEF A, B
  <2>2. \A p \in S : le \in under[p] => p \in Below(under, lr)
    BY <1>4 DEF A
  <2>3. PICK u : /\ Forest(S, R, lo, IF lr = 0 THEN hi ELSE Put(hi, le, lo[k]), u)
                 /\ Below(u, IF lr = 0 THEN lo[k] ELSE lr) = Below(under, lr) \cup Below(under, lo[k])
                 /\ \A m \in S : le \notin under[m] => u[m] = under[m]
                 /\ \A m \in S : u[m] \subseteq under[m] \cup Below(under, lo[k])
    BY <1>1, <1>3, <2>1, <2>2, CloseLow
  <2>4. QED
    BY <2>3 DEF A, B
<1>7. Below(u1, hr) = H /\ Below(u1, hi[k]) = C
  <2>1. \A r \in S : r \in H \/ r \in C => u1[r] = under[r]
    BY <1>1, <1>2, <1>4, <1>6
  <2>2. hr # 0 => hr \in S /\ hr \in H
    BY <1>3 DEF Forest, Below, H
  <2>3. hi[k] # 0 => hi[k] \in S /\ hi[k] \in C
    BY <1>1, <1>3 DEF Forest, Below, C
  <2>4. QED
    BY <2>1, <2>2, <2>3 DEF Below, H, C
<1>8. Back(R) \subseteq S \X S /\ Orders(Back(R), S) /\ Back(Back(R)) = R
      /\ \A a, b \in S : <<a, b>> \in R <=> <<b, a>> \in Back(R)
  BY MirrorOrder
<1>9. Forest(S, Back(R), h, lo, u1)
  <2> HIDE DEF h
  <2>1. QED
    BY <1>6, Mirror
<1>10. Ends(Back(R), lo, u1, hr, he)
  BY <1>3, <1>7 DEF Ends, H
<1>11. \A p \in S : he \in u1[p] => p \in Below(u1, hr)
  <2>1. SUFFICES ASSUME NEW p \in S, he \in u1[p], he \notin under[p] PROVE FALSE
    BY <1>4, <1>7
  <2>2. he \in B
    BY <2>1, <1>6
  <2>3. he \in H
    BY <2>2, <1>1, <1>3 DEF Ends, H
  <2>4. QED
    BY <2>2, <2>3, <1>1, <1>2
<1>12. Before(Back(R), Below(u1, hr), Below(u1, hi[k]))
  <2>1. H \subseteq S /\ C \subseteq S
    BY <1>1, <1>3
  <2>2. \A x \in C, y \in H : <<x, y>> \in R
    BY <1>1, <1>3 DEF Before
  <2>3. QED
    BY <2>1, <2>2, <1>7, <1>8 DEF Before
<1>13. PICK u2 : /\ Forest(S, Back(R), h, l, u2)
                 /\ Below(u2, high) = H \cup C
                 /\ \A m \in S : he \notin u1[m] => u2[m] = u1[m]
  <2> HIDE DEF h
  <2>1. PICK u : /\ Forest(S, Back(R), h, IF hr = 0 THEN lo ELSE Put(lo, he, hi[k]), u)
                 /\ Below(u, IF hr = 0 THEN hi[k] ELSE hr) = Below(u1, hr) \cup Below(u1, hi[k])
                 /\ \A m \in S : he \notin u1[m] => u[m] = u1[m]
    BY <1>1, <1>3, <1>8, <1>9, <1>10, <1>11, <1>12, CloseLow
  <2>2. QED
    BY <2>1, <1>7
<1>14. Forest(S, R, l, h, u2)
  <2> HIDE DEF h, l
  <2>1. Forest(S, Back(Back(R)), l, h, u2)
    BY <1>8, <1>13, Mirror
  <2>2. QED
    BY <2>1, <1>8
<1>15. Below(u2, low) = A \cup B
  <2>1. CASE low = 0
    BY <2>1, <1>6 DEF Below
  <2>2. CASE low # 0
    <3>1. low \in S /\ u1[low] = A \cup B
      BY <2>2, <1>1, <1>3, <1>6 DEF Below
    <3>2. he \notin u1[low]
      <4>1. he \in S => he \in H
        BY <1>3 DEF Ends, H
      <4>2. QED
        BY <3>1, <4>1, <1>1, <1>2, <1>3
    <3>3. QED
      BY <2>2, <3>1, <3>2, <1>13 DEF Below
  <2>3. QED
    BY <2>1, <2>2
<1>16. /\ low \in S \cup {0} /\ high \in S \cup {0}
       /\ Below(u2, low) \cup {k} \cup Below(u2, high) = S
       /\ \A m \in Below(u2, low) : <<m, k>> \in R
       /\ \A m \in Below(u2, high) : <<k, m>> \in R
  <2>1. low \in S \cup {0} /\ high \in S \cup {0}
    BY <1>1, <1>3
  <2> HIDE DEF low, high
  <2>2. QED
    BY <2>1, <1>1, <1>3, <1>13, <1>15 DEF Before
<1> HIDE DEF low, high, l, h
<1>17. Forest(S, R, Put(l, k, low), Put(h, k, high), Put(u2, k, S))
  BY <1>14, <1>16, JoinTrees
<1>18. Put(u2, k, S)[k] = S
  BY <1>14 DEF Forest, Put
<1>19. QED
  BY <1>17, <1>18 DEF low, high, l, h

\* The word is new: both sides are as they were, and become the subtrees of its
\* node n.
LEMMA MadeTree ==
  ASSUME NEW S, NEW R, NEW lo, NEW hi, NEW under, NEW lr, NEW hr, NEW le, NEW he, NEW n, NEW T, NEW Q,
         Parts(S, R, lo, hi, under, lr, 0, hr, le, he),
         n \notin S, n # 0, T = S \cup {n}, R \subseteq Q, Orders(Q, T),
         \A m \in Below(under, lr) : <<m, n>> \in Q, \A m \in Below(under, hr) : <<n, m>> \in Q
  PROVE  \E u : Forest(T, Q, With(T, n, lr, lo), With(T, n, hr, hi), u) /\ u[n] = T
<1> USE DEF With
<1> DEFINE l == With(T, n, lr, lo)
           h == With(T, n, hr, hi)
           l0 == With(T, n, 0, lo)
           h0 == With(T, n, 0, hi)
           u0 == With(T, n, {n}, under)
<1>1. Forest(S, R, lo, hi, under) /\ lr \in S \cup {0} /\ hr \in S \cup {0}
      /\ Below(under, lr) \cup Below(under, hr) = S
  BY DEF Parts, Below
<1>2. \A m \in S \cup {0} : Below(u0, m) = Below(under, m)
  BY <1>1 DEF Below, Forest
<1>3. Forest(T, Q, l0, h0, u0)
  <2>1. /\ 0 \notin T
        /\ l0 \in [T -> T \cup {0}] /\ h0 \in [T -> T \cup {0}] /\ u0 \in [T -> SUBSET T]
    BY <1>1 DEF Forest
  <2>2. /\ l0[n] = 0 /\ h0[n] = 0 /\ u0[n] = {n}
        /\ \A m \in S : l0[m] = lo[m] /\ h0[m] = hi[m] /\ u0[m] = under[m]
    OBVIOUS
  <2>3. /\ lo \in [S -> S \cup {0}] /\ hi \in [S -> S \cup {0}] /\ under \in [S -> SUBSET S]
        /\ \A m \in S : under[m] = Below(under, lo[m]) \cup {m} \cup Below(under, hi[m])
        /\ \A m \in S : \A x \in Below(under, lo[m]) : <<x, m>> \in R
        /\ \A m \in S : \A x \in Below(under, hi[m]) : <<m, x>> \in R
        /\ \A m \in S : \A x \in under[m] : under[x] \subseteq under[m]
    BY <1>1 DEF Forest
  <2>4. Below(u0, 0) = {}
    BY DEF Below
  <2> HIDE DEF l0, h0, u0
  <2>5. ASSUME NEW m \in T PROVE u0[m] = Below(u0, l0[m]) \cup {m} \cup Below(u0, h0[m])
    <3>1. CASE m = n
      BY <3>1, <2>2, <2>4
    <3>2. CASE m \in S
      <4>1. Below(u0, lo[m]) = Below(under, lo[m]) /\ Below(u0, hi[m]) = Below(under, hi[m])
        BY <3>2, <2>3, <1>2
      <4>2. under[m] = Below(under, lo[m]) \cup {m} \cup Below(under, hi[m])
        BY <3>2, <2>3
      <4>3. QED
        BY <3>2, <4>1, <4>2, <2>2
    <3>3. QED
      BY <3>1, <3>2
  <2>6. \A m \in T : \A x \in Below(u0, l0[m]) : <<x, m>> \in Q
    BY <2>2, <2>3, <2>4, <1>2
  <2>7. \A m \in T : \A x \in Below(u0, h0[m]) : <<m, x>> \in Q
    BY <2>2, <2>3, <2>4, <1>2
  <2>8. \A m \in T : \A x \in u0[m] : u0[x] \subseteq u0[m]
    BY <2>2, <2>3
  <2>9. QED
    BY <2>1, <2>5, <2>6, <2>7, <2>8 DEF Forest
<1>4. /\ Below(u0, lr) = Below(under, lr) /\ Below(u0, hr) = Below(under, hr)
      /\ n \in T /\ lr \in T \cup {0} /\ hr \in T \cup {0}
  BY <1>1, <1>2
<1>5. l = Put(l0, n, lr) /\ h = Put(h0, n, hr)
  BY DEF Put
<1> HIDE DEF l, h, l0, h0, u0
<1>6. Below(u0, lr) \cup {n} \cup Below(u0, hr) = T
  BY <1>1, <1>4
<1>7. Forest(T, Q, Put(l0, n, lr), Put(h0, n, hr), Put(u0, n, T))
  <2>1. \A m \in Below(u0, lr) : <<m, n>> \in Q
    BY <1>4
  <2>2. \A m \in Below(u0, hr) : <<n, m>> \in Q
    BY <1>4
  <2>3. QED
    BY <1>3, <1>4, <1>6, <2>1, <2>2, JoinTrees
<1>8. Put(u0, n, T)[n] = T
  BY <1>3, <1>4 DEF Forest, Put
<1>9. QED
  BY <1>5, <1>7, <1>8 DEF l, h

-----------------------------------------------------------------------------
(* The order of the words. *)

LEMMA Comparing ==
  /\ \A u, v \in Words : IsIt(u, v) \in {-1, 0, 1}
  /\ \A u \in Words : IsIt(u, u) = 0
  /\ \A u, v \in Words : IsIt(u, v) < 0 <=> IsIt(v, u) > 0
  /\ \A u, v, w \in Words : IsIt(u, v) < 0 /\ IsIt(v, w) < 0 => IsIt(u, w) < 0
<1>1. \A w \in Words : Rank(w) \in Int
  <2>1. ASSUME NEW w \in Words PROVE Rank(w) \in DOMAIN Alphabet
    BY DEF Rank, Words
  <2>2. DOMAIN Alphabet \subseteq Int
    <3>1. Alphabet \in Seq(STRING)
      BY WordsAssumption DEF WordsAssumption
    <3>2. DOMAIN Alphabet = 1 .. Len(Alphabet) /\ Len(Alphabet) \in Nat
      BY <3>1
    <3>3. QED
      BY <3>2
  <2>3. QED
    BY <2>1, <2>2
<1>2. \A u, v \in Words : IsIt(u, v) \in {-1, 0, 1}
  BY <1>1 DEF IsIt, Sign
<1>3. \A u \in Words : IsIt(u, u) = 0
  BY <1>1 DEF IsIt, Sign
<1>4. \A u, v \in Words : IsIt(u, v) < 0 <=> IsIt(v, u) > 0
  BY <1>1 DEF IsIt, Sign
<1>5. ASSUME NEW u \in Words, NEW v \in Words, NEW w \in Words, IsIt(u, v) < 0, IsIt(v, w) < 0
      PROVE  IsIt(u, w) < 0
  BY <1>1, <1>5 DEF IsIt, Sign
<1>6. QED
  BY <1>2, <1>3, <1>4, <1>5

-----------------------------------------------------------------------------
(* The dictionary. *)

Nodes(d) == 1 .. Len(d.node)

IsNode(r) ==
  /\ r = [word |-> r.word, Lower |-> r.Lower, Higher |-> r.Higher, Prod |-> r.Prod,
          Temp |-> r.Temp, Hatch |-> r.Hatch, IsExit |-> r.IsExit,
          IsMsg |-> r.IsMsg, ProdPos |-> r.ProdPos, Num |-> r.Num]
  /\ r.word \in Words

IsTree(d) ==
  /\ d = [Root |-> d.Root, LowHeld |-> d.LowHeld, HighHeld |-> d.HighHeld, node |-> d.node]
  /\ Len(d.node) \in Nat /\ d.node = [n \in Nodes(d) |-> d.node[n]]
  /\ \A n \in Nodes(d) : IsNode(d.node[n])

\* The order of the nodes by their words.
Earlier(d) == {p \in Nodes(d) \X Nodes(d) : IsIt(d.node[p[1]].word, d.node[p[2]].word) < 0}

\* The fields, with nothing in the slots that are trash: Higher of the node le,
\* or LowHeld when le is 0, and Lower of he or HighHeld.
LoOf(d, he) == [n \in Nodes(d) |-> IF n = he THEN 0 ELSE d.node[n].Lower]
HiOf(d, le) == [n \in Nodes(d) |-> IF n = le THEN 0 ELSE d.node[n].Higher]
LowRoot(d, le) == IF le = 0 THEN 0 ELSE d.LowHeld
HighRoot(d, he) == IF he = 0 THEN 0 ELSE d.HighHeld
LowSlot(le) == IF le = 0 THEN HeadSlot("LowHeld") ELSE <<le, "Higher">>
HighSlot(he) == IF he = 0 THEN HeadSlot("HighHeld") ELSE <<he, "Lower">>

\* Between two calls of LookUp.
Whole(d) == \E u : /\ Forest(Nodes(d), Earlier(d), LoOf(d, 0), HiOf(d, 0), u)
                   /\ d.Root \in Nodes(d) \cup {0} /\ Below(u, d.Root) = Nodes(d)

\* Between two turns of its loop.
Taken(d, s, u) ==
  /\ Parts(Nodes(d), Earlier(d), LoOf(d, s.high[1]), HiOf(d, s.low[1]), u,
           LowRoot(d, s.low[1]), s.Look, HighRoot(d, s.high[1]), s.low[1], s.high[1])
  /\ \A n \in Below(u, LowRoot(d, s.low[1])) : IsIt(d.node[n].word, s.word) < 0
  /\ \A n \in Below(u, HighRoot(d, s.high[1])) : IsIt(d.node[n].word, s.word) > 0

IsSearch(d, s) ==
  /\ DOMAIN s = {"word", "Look", "low", "high"}
  /\ s.low = LowSlot(s.low[1]) /\ s.high = HighSlot(s.high[1])
  /\ s.word \in Words
  /\ s.low[1] \in Nodes(d) \cup {0} /\ s.high[1] \in Nodes(d) \cup {0}

LEMMA EarlierOrders ==
  ASSUME NEW d, IsTree(d)
  PROVE  /\ Earlier(d) \subseteq Nodes(d) \X Nodes(d) /\ Orders(Earlier(d), Nodes(d))
         /\ \A m, n \in Nodes(d) : <<m, n>> \in Earlier(d) <=> IsIt(d.node[m].word, d.node[n].word) < 0
<1>1. \A n \in Nodes(d) : d.node[n].word \in Words
  BY DEF IsTree, IsNode
<1>2. \A m, n \in Nodes(d) : <<m, n>> \in Earlier(d) <=> IsIt(d.node[m].word, d.node[n].word) < 0
  BY DEF Earlier
<1>3. Earlier(d) \subseteq Nodes(d) \X Nodes(d)
  BY DEF Earlier
<1>4. \A n \in Nodes(d) : <<n, n>> \notin Earlier(d)
  BY <1>1, <1>2, Comparing
<1>5. \A a, b, c \in Nodes(d) : <<a, b>> \in Earlier(d) /\ <<b, c>> \in Earlier(d) => <<a, c>> \in Earlier(d)
  BY <1>1, <1>2, Comparing
<1>6. QED
  BY <1>2, <1>3, <1>4, <1>5 DEF Orders

\* e has the words of d: same nodes, same order.
SameWords(d, e) ==
  /\ IsTree(e) /\ Len(e.node) = Len(d.node)
  /\ \A n \in Nodes(d) : e.node[n].word = d.node[n].word

LEMMA SameOrder ==
  ASSUME NEW d, NEW e, IsTree(d), SameWords(d, e)
  PROVE  Nodes(e) = Nodes(d) /\ Earlier(e) = Earlier(d)
<1>1. Nodes(e) = Nodes(d)
  BY DEF SameWords, Nodes
<1>2. \A p \in Nodes(d) \X Nodes(d) : p[1] \in Nodes(d) /\ p[2] \in Nodes(d)
  OBVIOUS
<1>3. \A p \in Nodes(d) \X Nodes(d) :
        IsIt(e.node[p[1]].word, e.node[p[2]].word) = IsIt(d.node[p[1]].word, d.node[p[2]].word)
  BY <1>2 DEF SameWords
<1>4. QED
  BY <1>1, <1>3 DEF Earlier

\* A node whose record is replaced.
LEMMA PutNode ==
  ASSUME NEW d, NEW n, NEW r, IsTree(d), n \in Nodes(d), IsNode(r)
  PROVE  /\ IsTree([d EXCEPT !.node[n] = r])
         /\ Len([d EXCEPT !.node[n] = r].node) = Len(d.node)
         /\ [d EXCEPT !.node[n] = r].node = [d.node EXCEPT ![n] = r]
<1> DEFINE e == [d EXCEPT !.node[n] = r]
           f == [d.node EXCEPT ![n] = r]
<1>1. /\ e = [Root |-> d.Root, LowHeld |-> d.LowHeld, HighHeld |-> d.HighHeld, node |-> f]
      /\ e.node = f
  BY DEF IsTree
<1>2. f = [m \in Nodes(d) |-> IF m = n THEN r ELSE d.node[m]]
  BY DEF IsTree
<1>3. f \in Seq({f[m] : m \in Nodes(d)}) /\ Len(f) = Len(d.node)
  <2>1. f \in [1 .. Len(d.node) -> {f[m] : m \in Nodes(d)}]
    BY <1>2 DEF Nodes
  <2> HIDE DEF f
  <2>2. QED
    BY <2>1 DEF IsTree
<1>4. Nodes(e) = Nodes(d) /\ f = [m \in Nodes(e) |-> f[m]]
  BY <1>1, <1>2, <1>3 DEF Nodes
<1>5. \A m \in Nodes(d) : IsNode(f[m])
  BY <1>2 DEF IsTree
<1> HIDE DEF f
<1>6. IsTree(e)
  BY <1>1, <1>3, <1>4, <1>5 DEF IsTree
<1>7. QED
  BY <1>1, <1>3, <1>6 DEF f

\* What a write to the trash slot of the low side does.
LEMMA WriteLow ==
  ASSUME NEW d, NEW e, NEW x, IsTree(d), e \in Nodes(d) \cup {0}
  PROVE  /\ SameWords(d, WriteSlot(d, LowSlot(e), x))
         /\ WriteSlot(d, LowSlot(e), x).Root = d.Root
         /\ WriteSlot(d, LowSlot(e), x).HighHeld = d.HighHeld
         /\ WriteSlot(d, LowSlot(e), x).LowHeld = IF e = 0 THEN x ELSE d.LowHeld
         /\ \A n \in Nodes(d) :
              /\ WriteSlot(d, LowSlot(e), x).node[n].Lower = d.node[n].Lower
              /\ WriteSlot(d, LowSlot(e), x).node[n].Higher = IF n = e THEN x ELSE d.node[n].Higher
<1>1. CASE e = 0
  <2> DEFINE f == [d EXCEPT !.LowHeld = x]
  <2>1. WriteSlot(d, LowSlot(e), x) = f
    BY <1>1 DEF WriteSlot, LowSlot, HeadSlot
  <2>2. f = [Root |-> d.Root, LowHeld |-> x, HighHeld |-> d.HighHeld, node |-> d.node]
    BY DEF IsTree
  <2>3. Nodes(f) = Nodes(d) /\ IsTree(f)
    BY <2>2 DEF IsTree, Nodes
  <2>4. \A n \in Nodes(d) : n # e
    BY <1>1 DEF Nodes
  <2> HIDE DEF f
  <2>5. QED
    BY <1>1, <2>1, <2>2, <2>3, <2>4 DEF SameWords
<1>2. CASE e # 0
  <2> DEFINE r == [d.node[e] EXCEPT !.Higher = x]
             f == [d EXCEPT !.node[e] = r]
  <2>1. e \in Nodes(d) /\ IsNode(d.node[e])
    BY <1>2 DEF IsTree
  <2>2. WriteSlot(d, LowSlot(e), x) = f
    <3>1. LowSlot(e) = <<e, "Higher">>
      BY <1>2 DEF LowSlot
    <3>2. WriteSlot(d, <<e, "Higher">>, x) = [d EXCEPT !.node[e]["Higher"] = x]
      BY <1>2 DEF WriteSlot
    <3>3. [d EXCEPT !.node[e]["Higher"] = x] = [d EXCEPT !.node[e] = r]
      BY <2>1 DEF IsTree
    <3>4. QED
      BY <3>1, <3>2, <3>3
  <2>3. IsNode(r) /\ r.word = d.node[e].word /\ r.Lower = d.node[e].Lower /\ r.Higher = x
    <3> DEFINE g == d.node[e]
    <3>1. r = [word |-> g.word, Lower |-> g.Lower, Higher |-> x, Prod |-> g.Prod,
               Temp |-> g.Temp, Hatch |-> g.Hatch, IsExit |-> g.IsExit,
               IsMsg |-> g.IsMsg, ProdPos |-> g.ProdPos, Num |-> g.Num]
      BY <2>1 DEF IsNode
    <3>2. g.word \in Words
      BY <2>1 DEF IsNode
    <3> HIDE DEF g, r
    <3>3. QED
      BY <3>1, <3>2 DEF IsNode, g
  <2> HIDE DEF r
  <2>4. IsTree(f) /\ Len(f.node) = Len(d.node) /\ f.node = [d.node EXCEPT ![e] = r]
    BY <2>1, <2>3, PutNode
  <2>5. f.Root = d.Root /\ f.LowHeld = d.LowHeld /\ f.HighHeld = d.HighHeld
    BY DEF IsTree
  <2> HIDE DEF f
  <2>6. \A n \in Nodes(d) : f.node[n] = IF n = e THEN r ELSE d.node[n]
    BY <2>1, <2>4 DEF IsTree
  <2>7. QED
    BY <1>2, <2>2, <2>3, <2>4, <2>5, <2>6 DEF SameWords
<1>3. QED
  BY <1>1, <1>2

LEMMA WriteHigh ==
  ASSUME NEW d, NEW e, NEW x, IsTree(d), e \in Nodes(d) \cup {0}
  PROVE  /\ SameWords(d, WriteSlot(d, HighSlot(e), x))
         /\ WriteSlot(d, HighSlot(e), x).Root = d.Root
         /\ WriteSlot(d, HighSlot(e), x).LowHeld = d.LowHeld
         /\ WriteSlot(d, HighSlot(e), x).HighHeld = IF e = 0 THEN x ELSE d.HighHeld
         /\ \A n \in Nodes(d) :
              /\ WriteSlot(d, HighSlot(e), x).node[n].Higher = d.node[n].Higher
              /\ WriteSlot(d, HighSlot(e), x).node[n].Lower = IF n = e THEN x ELSE d.node[n].Lower
<1>1. CASE e = 0
  <2> DEFINE f == [d EXCEPT !.HighHeld = x]
  <2>1. WriteSlot(d, HighSlot(e), x) = f
    BY <1>1 DEF WriteSlot, HighSlot, HeadSlot
  <2>2. f = [Root |-> d.Root, LowHeld |-> d.LowHeld, HighHeld |-> x, node |-> d.node]
    BY DEF IsTree
  <2>3. Nodes(f) = Nodes(d) /\ IsTree(f)
    BY <2>2 DEF IsTree, Nodes
  <2>4. \A n \in Nodes(d) : n # e
    BY <1>1 DEF Nodes
  <2> HIDE DEF f
  <2>5. QED
    BY <1>1, <2>1, <2>2, <2>3, <2>4 DEF SameWords
<1>2. CASE e # 0
  <2> DEFINE r == [d.node[e] EXCEPT !.Lower = x]
             f == [d EXCEPT !.node[e] = r]
  <2>1. e \in Nodes(d) /\ IsNode(d.node[e])
    BY <1>2 DEF IsTree
  <2>2. WriteSlot(d, HighSlot(e), x) = f
    <3>1. HighSlot(e) = <<e, "Lower">>
      BY <1>2 DEF HighSlot
    <3>2. WriteSlot(d, <<e, "Lower">>, x) = [d EXCEPT !.node[e]["Lower"] = x]
      BY <1>2 DEF WriteSlot
    <3>3. [d EXCEPT !.node[e]["Lower"] = x] = [d EXCEPT !.node[e] = r]
      BY <2>1 DEF IsTree
    <3>4. QED
      BY <3>1, <3>2, <3>3
  <2>3. IsNode(r) /\ r.word = d.node[e].word /\ r.Higher = d.node[e].Higher /\ r.Lower = x
    <3> DEFINE g == d.node[e]
    <3>1. r = [word |-> g.word, Lower |-> x, Higher |-> g.Higher, Prod |-> g.Prod,
               Temp |-> g.Temp, Hatch |-> g.Hatch, IsExit |-> g.IsExit,
               IsMsg |-> g.IsMsg, ProdPos |-> g.ProdPos, Num |-> g.Num]
      BY <2>1 DEF IsNode
    <3>2. g.word \in Words
      BY <2>1 DEF IsNode
    <3> HIDE DEF g, r
    <3>3. QED
      BY <3>1, <3>2 DEF IsNode, g
  <2> HIDE DEF r
  <2>4. IsTree(f) /\ Len(f.node) = Len(d.node) /\ f.node = [d.node EXCEPT ![e] = r]
    BY <2>1, <2>3, PutNode
  <2>5. f.Root = d.Root /\ f.LowHeld = d.LowHeld /\ f.HighHeld = d.HighHeld
    BY DEF IsTree
  <2> HIDE DEF f
  <2>6. \A n \in Nodes(d) : f.node[n] = IF n = e THEN r ELSE d.node[n]
    BY <2>1, <2>4 DEF IsTree
  <2>7. QED
    BY <1>2, <2>2, <2>3, <2>4, <2>5, <2>6 DEF SameWords
<1>3. QED
  BY <1>1, <1>2

\* A turn that passes a node on the low side.
LEMMA LowTurn ==
  ASSUME NEW d, NEW s, NEW u, IsTree(d), IsSearch(d, s), Taken(d, s, u),
         s.Look # 0, IsIt(d.node[s.Look].word, s.word) < 0
  PROVE  /\ IsTree(ProbeLow(d, s)[1]) /\ IsSearch(ProbeLow(d, s)[1], ProbeLow(d, s)[2])
         /\ \E v : Taken(ProbeLow(d, s)[1], ProbeLow(d, s)[2], v)
<1> DEFINE k == s.Look
           le == s.low[1]
           he == s.high[1]
           e == WriteSlot(d, s.low, k)
           x == e.node[k].Higher
           y == <<k, "Higher">>
           t == [s EXCEPT !.low = y, !.Look = x]
           S == Nodes(d)
           R == Earlier(d)
           lo == LoOf(d, he)
           hi == HiOf(d, le)
           lr == LowRoot(d, le)
           hr == HighRoot(d, he)
           new == IF lr = 0 THEN Put(hi, k, 0) ELSE Put(Put(hi, k, 0), le, k)
           low == IF lr = 0 THEN k ELSE lr
<1>1. Parts(S, R, lo, hi, u, lr, k, hr, le, he)
  BY DEF Taken
<1>2. /\ k \in S /\ le \in S \cup {0} /\ he \in S \cup {0} /\ k # 0 /\ s.low = LowSlot(le)
      /\ s.high = HighSlot(he) /\ (le = 0 <=> lr = 0) /\ (he = 0 <=> hr = 0)
  <2>1. k \in S /\ k # 0
    BY <1>1 DEF Parts
  <2>2. le \in S \cup {0} /\ he \in S \cup {0} /\ s.low = LowSlot(le) /\ s.high = HighSlot(he)
    BY DEF IsSearch
  <2>3. (le = 0 <=> lr = 0) /\ (he = 0 <=> hr = 0)
    BY <1>1 DEF Parts, Ends, LowRoot, HighRoot
  <2>4. QED
    BY <2>1, <2>2, <2>3
<1>3. le # k
  <2>1. k \in Below(u, k)
    BY <1>1, <1>2, Sides, EarlierOrders
  <2>2. lr # 0 => le \in Below(u, lr)
    BY <1>1 DEF Parts, Ends
  <2>3. Below(u, lr) \cap Below(u, k) = {}
    BY <1>1, Roots, EarlierOrders
  <2>4. QED
    BY <1>2, <2>1, <2>2, <2>3
<1>4. /\ SameWords(d, e) /\ e.Root = d.Root /\ e.HighHeld = d.HighHeld
      /\ e.LowHeld = IF le = 0 THEN k ELSE d.LowHeld
      /\ \A n \in S : /\ e.node[n].Lower = d.node[n].Lower
                      /\ e.node[n].Higher = IF n = le THEN k ELSE d.node[n].Higher
  <2>1. e = WriteSlot(d, LowSlot(le), k)
    BY <1>2
  <2> HIDE DEF e, k, le
  <2>2. QED
    BY <1>2, <2>1, WriteLow
<1>5. ProbeLow(d, s) = <<e, t>>
  BY <1>2 DEF ProbeLow, ReadSlot
<1>6. Nodes(e) = S /\ Earlier(e) = R /\ IsTree(e)
  <2> HIDE DEF e
  <2>1. QED
    BY <1>4, SameOrder DEF SameWords
<1> HIDE DEF e
<1>7. /\ DOMAIN t = {"word", "Look", "low", "high"} /\ t.low = <<k, "Higher">> /\ t.high = s.high
      /\ t.low[1] = k /\ t.high[1] = he /\ t.Look = hi[k] /\ t.word = s.word
  <2>1. DOMAIN s = {"word", "Look", "low", "high"}
    BY DEF IsSearch
  <2>2. e.node[k].Higher = hi[k]
    BY <1>2, <1>3, <1>4 DEF HiOf
  <2> HIDE DEF x, y, hi
  <2>3. /\ DOMAIN t = {"word", "Look", "low", "high"} /\ t.low = y /\ t.high = s.high
        /\ t.Look = x /\ t.word = s.word
    BY <2>1
  <2> HIDE DEF t
  <2>4. y[1] = k
    BY DEF y
  <2>5. QED
    BY <2>2, <2>3, <2>4 DEF x, y
<1>8. LoOf(e, he) = lo /\ HighRoot(e, he) = hr
  BY <1>4, <1>6 DEF LoOf, HighRoot
<1>9. LowRoot(e, k) = low
  BY <1>2, <1>4 DEF LowRoot
<1>10. HiOf(e, k) = new
  <2>1. hi = [n \in S |-> IF n = le THEN 0 ELSE d.node[n].Higher]
    BY DEF HiOf
  <2>2. HiOf(e, k) = [n \in S |-> IF n = k THEN 0 ELSE IF n = le THEN k ELSE d.node[n].Higher]
    BY <1>4, <1>6 DEF HiOf
  <2>3. CASE lr = 0
    <3>1. \A n \in S : n # le
      BY <2>3, <1>2 DEF Nodes
    <3>2. new = [hi EXCEPT ![k] = 0]
      BY <2>3 DEF Put
    <3>3. QED
      BY <2>1, <2>2, <3>1, <3>2
  <2>4. CASE lr # 0
    <3>1. new = [[hi EXCEPT ![k] = 0] EXCEPT ![le] = k]
      BY <2>4 DEF Put
    <3>2. QED
      BY <2>1, <2>2, <3>1, <1>2, <1>3
  <2>5. QED
    BY <2>3, <2>4
<1>11. R \subseteq S \X S /\ Orders(R, S)
       /\ \A m, n \in S : <<m, n>> \in R <=> IsIt(d.node[m].word, d.node[n].word) < 0
  BY EarlierOrders
<1>12. PICK v : /\ Parts(S, R, lo, new, v, low, hi[k], hr, k, he)
                /\ Below(v, low) = Below(u, lr) \cup Below(u, lo[k]) \cup {k}
                /\ Below(v, hr) = Below(u, hr)
  <2> HIDE DEF k, le, he, S, R, lo, hi, lr, hr
  <2>1. QED
    BY <1>1, <1>2, <1>11, ProbeParts
<1>13. \A n \in Below(u, lo[k]) : n \in S /\ IsIt(d.node[n].word, s.word) < 0
  <2>1. \A n \in Below(u, lo[k]) : n \in S /\ <<n, k>> \in R
    <3>1. \A n \in Below(u, lo[k]) : <<n, k>> \in R
      BY <1>1, <1>2 DEF Parts, Forest
    <3>2. \A n \in Below(u, lo[k]) : n \in S
      BY <1>1, <1>2, <1>11, <3>1
    <3>3. QED
      BY <3>1, <3>2
  <2>2. \A n \in S : d.node[n].word \in Words
    BY DEF IsTree, IsNode
  <2>3. s.word \in Words
    BY DEF IsSearch
  <2>4. QED
    BY <1>2, <1>11, <2>1, <2>2, <2>3, Comparing
<1>14. /\ \A n \in Below(u, lr) : IsIt(d.node[n].word, s.word) < 0
       /\ \A n \in Below(u, hr) : IsIt(d.node[n].word, s.word) > 0
  BY DEF Taken
<1>15. /\ \A n \in Below(v, low) : n \in S /\ IsIt(d.node[n].word, s.word) < 0
       /\ \A n \in Below(v, hr) : n \in S /\ IsIt(d.node[n].word, s.word) > 0
  <2>1. Below(v, low) \subseteq S /\ Below(v, hr) \subseteq S
    BY <1>12 DEF Parts
  <2> HIDE DEF k, low, lr, hr, lo, S
  <2>2. \A n \in Below(v, low) : IsIt(d.node[n].word, s.word) < 0
    BY <1>12, <1>13, <1>14 DEF k
  <2>3. \A n \in Below(v, hr) : IsIt(d.node[n].word, s.word) > 0
    BY <1>12, <1>14
  <2>4. QED
    BY <2>1, <2>2, <2>3
<1> HIDE DEF k, le, he, S, R, lo, hi, lr, hr, t, new, low
<1>16. \A n \in S : e.node[n].word = d.node[n].word
  BY <1>4 DEF SameWords, S
<1>17. Parts(Nodes(e), Earlier(e), LoOf(e, t.high[1]), HiOf(e, t.low[1]), v,
             LowRoot(e, t.low[1]), t.Look, HighRoot(e, t.high[1]), t.low[1], t.high[1])
  BY <1>6, <1>7, <1>8, <1>9, <1>10, <1>12
<1>18. Taken(e, t, v)
  <2>1. \A n \in Below(v, LowRoot(e, t.low[1])) : IsIt(e.node[n].word, t.word) < 0
    BY <1>7, <1>9, <1>15, <1>16
  <2>2. \A n \in Below(v, HighRoot(e, t.high[1])) : IsIt(e.node[n].word, t.word) > 0
    BY <1>7, <1>8, <1>15, <1>16
  <2>3. QED
    BY <1>17, <2>1, <2>2 DEF Taken
<1>19. IsSearch(e, t)
  <2>1. t.low = LowSlot(t.low[1]) /\ t.high = HighSlot(t.high[1])
    BY <1>2, <1>7 DEF LowSlot
  <2>2. t.word \in Words
    BY <1>7 DEF IsSearch
  <2>3. DOMAIN t = {"word", "Look", "low", "high"}
    BY <1>7
  <2>4. t.low[1] \in Nodes(e) \cup {0} /\ t.high[1] \in Nodes(e) \cup {0}
    BY <1>2, <1>6, <1>7
  <2>5. QED
    BY <2>1, <2>2, <2>3, <2>4 DEF IsSearch
<1>20. QED
  BY <1>5, <1>6, <1>18, <1>19

\* A turn that passes a node on the high side.
LEMMA HighTurn ==
  ASSUME NEW d, NEW s, NEW u, IsTree(d), IsSearch(d, s), Taken(d, s, u),
         s.Look # 0, IsIt(d.node[s.Look].word, s.word) > 0
  PROVE  /\ IsTree(ProbeHigh(d, s)[1]) /\ IsSearch(ProbeHigh(d, s)[1], ProbeHigh(d, s)[2])
         /\ \E v : Taken(ProbeHigh(d, s)[1], ProbeHigh(d, s)[2], v)
<1> DEFINE k == s.Look
           he == s.high[1]
           le == s.low[1]
           e == WriteSlot(d, s.high, k)
           x == e.node[k].Lower
           y == <<k, "Lower">>
           t == [s EXCEPT !.high = y, !.Look = x]
           S == Nodes(d)
           R == Earlier(d)
           hi == HiOf(d, le)
           lo == LoOf(d, he)
           hr == HighRoot(d, he)
           lr == LowRoot(d, le)
           new == IF hr = 0 THEN Put(lo, k, 0) ELSE Put(Put(lo, k, 0), he, k)
           high == IF hr = 0 THEN k ELSE hr
<1>1. Parts(S, R, lo, hi, u, lr, k, hr, le, he)
  BY DEF Taken
<1>2. /\ k \in S /\ he \in S \cup {0} /\ le \in S \cup {0} /\ k # 0 /\ s.high = HighSlot(he)
      /\ s.low = LowSlot(le) /\ (he = 0 <=> hr = 0) /\ (le = 0 <=> lr = 0)
  <2>1. k \in S /\ k # 0
    BY <1>1 DEF Parts
  <2>2. he \in S \cup {0} /\ le \in S \cup {0} /\ s.high = HighSlot(he) /\ s.low = LowSlot(le)
    BY DEF IsSearch
  <2>3. (he = 0 <=> hr = 0) /\ (le = 0 <=> lr = 0)
    BY <1>1 DEF Parts, Ends, HighRoot, LowRoot
  <2>4. QED
    BY <2>1, <2>2, <2>3
<1>3. he # k
  <2>1. k \in Below(u, k)
    BY <1>1, <1>2, Sides, EarlierOrders
  <2>2. hr # 0 => he \in Below(u, hr)
    BY <1>1 DEF Parts, Ends
  <2>3. Below(u, hr) \cap Below(u, k) = {}
    BY <1>1, Roots, EarlierOrders
  <2>4. QED
    BY <1>2, <2>1, <2>2, <2>3
<1>4. /\ SameWords(d, e) /\ e.Root = d.Root /\ e.LowHeld = d.LowHeld
      /\ e.HighHeld = IF he = 0 THEN k ELSE d.HighHeld
      /\ \A n \in S : /\ e.node[n].Higher = d.node[n].Higher
                      /\ e.node[n].Lower = IF n = he THEN k ELSE d.node[n].Lower
  <2>1. e = WriteSlot(d, HighSlot(he), k)
    BY <1>2
  <2> HIDE DEF e, k, he
  <2>2. QED
    BY <1>2, <2>1, WriteHigh
<1>5. ProbeHigh(d, s) = <<e, t>>
  BY <1>2 DEF ProbeHigh, ReadSlot
<1>6. Nodes(e) = S /\ Earlier(e) = R /\ IsTree(e)
  <2> HIDE DEF e
  <2>1. QED
    BY <1>4, SameOrder DEF SameWords
<1> HIDE DEF e
<1>7. /\ DOMAIN t = {"word", "Look", "low", "high"} /\ t.high = <<k, "Lower">> /\ t.low = s.low
      /\ t.high[1] = k /\ t.low[1] = le /\ t.Look = lo[k] /\ t.word = s.word
  <2>1. DOMAIN s = {"word", "Look", "low", "high"}
    BY DEF IsSearch
  <2>2. e.node[k].Lower = lo[k]
    BY <1>2, <1>3, <1>4 DEF LoOf
  <2> HIDE DEF x, y, lo
  <2>3. /\ DOMAIN t = {"word", "Look", "low", "high"} /\ t.high = y /\ t.low = s.low
        /\ t.Look = x /\ t.word = s.word
    BY <2>1
  <2> HIDE DEF t
  <2>4. y[1] = k
    BY DEF y
  <2>5. QED
    BY <2>2, <2>3, <2>4 DEF x, y
<1>8. HiOf(e, le) = hi /\ LowRoot(e, le) = lr
  BY <1>4, <1>6 DEF HiOf, LowRoot
<1>9. HighRoot(e, k) = high
  BY <1>2, <1>4 DEF HighRoot
<1>10. LoOf(e, k) = new
  <2>1. lo = [n \in S |-> IF n = he THEN 0 ELSE d.node[n].Lower]
    BY DEF LoOf
  <2>2. LoOf(e, k) = [n \in S |-> IF n = k THEN 0 ELSE IF n = he THEN k ELSE d.node[n].Lower]
    BY <1>4, <1>6 DEF LoOf
  <2>3. CASE hr = 0
    <3>1. \A n \in S : n # he
      BY <2>3, <1>2 DEF Nodes
    <3>2. new = [lo EXCEPT ![k] = 0]
      BY <2>3 DEF Put
    <3>3. QED
      BY <2>1, <2>2, <3>1, <3>2
  <2>4. CASE hr # 0
    <3>1. new = [[lo EXCEPT ![k] = 0] EXCEPT ![he] = k]
      BY <2>4 DEF Put
    <3>2. QED
      BY <2>1, <2>2, <3>1, <1>2, <1>3
  <2>5. QED
    BY <2>3, <2>4
<1>11. R \subseteq S \X S /\ Orders(R, S)
       /\ \A m, n \in S : <<m, n>> \in R <=> IsIt(d.node[m].word, d.node[n].word) < 0
  BY EarlierOrders
<1>12. PICK v : /\ Parts(S, R, new, hi, v, lr, lo[k], high, le, k)
                /\ Below(v, high) = Below(u, hr) \cup Below(u, hi[k]) \cup {k}
                /\ Below(v, lr) = Below(u, lr)
  <2> HIDE DEF k, he, le, S, R, hi, lo, hr, lr
  <2>1. /\ Back(R) \subseteq S \X S /\ Orders(Back(R), S) /\ Back(Back(R)) = R
    BY <1>11, MirrorOrder
  <2>2. Parts(S, Back(R), hi, lo, u, hr, k, lr, he, le)
    BY <1>1, <1>11, MirrorParts
  <2>3. PICK v : /\ Parts(S, Back(R), hi, new, v, high, lo[k], lr, k, le)
                 /\ Below(v, high) = Below(u, hr) \cup Below(u, hi[k]) \cup {k}
                 /\ Below(v, lr) = Below(u, lr)
    BY <1>2, <2>1, <2>2, ProbeParts
  <2> HIDE DEF new, high
  <2>4. Parts(S, Back(Back(R)), new, hi, v, lr, lo[k], high, le, k)
    BY <2>1, <2>3, MirrorParts
  <2>5. QED
    BY <2>1, <2>3, <2>4
<1>13. \A n \in Below(u, hi[k]) : n \in S /\ IsIt(d.node[n].word, s.word) > 0
  <2>1. \A n \in Below(u, hi[k]) : n \in S /\ <<k, n>> \in R
    <3>1. \A n \in Below(u, hi[k]) : <<k, n>> \in R
      BY <1>1, <1>2 DEF Parts, Forest
    <3>2. \A n \in Below(u, hi[k]) : n \in S
      BY <1>1, <1>2, <1>11, <3>1
    <3>3. QED
      BY <3>1, <3>2
  <2>2. \A n \in S : d.node[n].word \in Words
    BY DEF IsTree, IsNode
  <2>3. s.word \in Words
    BY DEF IsSearch
  <2>4. \A n \in Below(u, hi[k]) : IsIt(d.node[k].word, d.node[n].word) < 0
    BY <1>2, <1>11, <2>1
  <2>5. IsIt(s.word, d.node[k].word) < 0
    BY <1>2, <2>2, <2>3, Comparing
  <2>6. ASSUME NEW n \in Below(u, hi[k]) PROVE IsIt(s.word, d.node[n].word) < 0
    <3> DEFINE a == s.word
               b == d.node[k].word
               c == d.node[n].word
    <3>1. a \in Words /\ b \in Words /\ c \in Words /\ IsIt(a, b) < 0 /\ IsIt(b, c) < 0
      BY <1>2, <2>1, <2>2, <2>3, <2>4, <2>5
    <3> HIDE DEF a, b, c
    <3>2. IsIt(a, c) < 0
      BY <3>1, Comparing
    <3>3. QED
      BY <3>2 DEF a, c
  <2>7. QED
    BY <2>1, <2>2, <2>3, <2>6, Comparing
<1>14. /\ \A n \in Below(u, hr) : IsIt(d.node[n].word, s.word) > 0
       /\ \A n \in Below(u, lr) : IsIt(d.node[n].word, s.word) < 0
  BY DEF Taken
<1>15. /\ \A n \in Below(v, high) : n \in S /\ IsIt(d.node[n].word, s.word) > 0
       /\ \A n \in Below(v, lr) : n \in S /\ IsIt(d.node[n].word, s.word) < 0
  <2>1. Below(v, high) \subseteq S /\ Below(v, lr) \subseteq S
    BY <1>12 DEF Parts
  <2> HIDE DEF k, high, hr, lr, hi, S
  <2>2. \A n \in Below(v, high) : IsIt(d.node[n].word, s.word) > 0
    BY <1>12, <1>13, <1>14 DEF k
  <2>3. \A n \in Below(v, lr) : IsIt(d.node[n].word, s.word) < 0
    BY <1>12, <1>14
  <2>4. QED
    BY <2>1, <2>2, <2>3
<1> HIDE DEF k, he, le, S, R, hi, lo, hr, lr, t, new, high
<1>16. \A n \in S : e.node[n].word = d.node[n].word
  BY <1>4 DEF SameWords, S
<1>17. Parts(Nodes(e), Earlier(e), LoOf(e, t.high[1]), HiOf(e, t.low[1]), v,
             LowRoot(e, t.low[1]), t.Look, HighRoot(e, t.high[1]), t.low[1], t.high[1])
  BY <1>6, <1>7, <1>8, <1>9, <1>10, <1>12
<1>18. Taken(e, t, v)
  <2>1. \A n \in Below(v, HighRoot(e, t.high[1])) : IsIt(e.node[n].word, t.word) > 0
    BY <1>7, <1>9, <1>15, <1>16
  <2>2. \A n \in Below(v, LowRoot(e, t.low[1])) : IsIt(e.node[n].word, t.word) < 0
    BY <1>7, <1>8, <1>15, <1>16
  <2>3. QED
    BY <1>17, <2>1, <2>2 DEF Taken
<1>19. IsSearch(e, t)
  <2>1. t.high = HighSlot(t.high[1]) /\ t.low = LowSlot(t.low[1])
    BY <1>2, <1>7 DEF HighSlot
  <2>2. t.word \in Words
    BY <1>7 DEF IsSearch
  <2>3. DOMAIN t = {"word", "Look", "low", "high"}
    BY <1>7
  <2>4. t.high[1] \in Nodes(e) \cup {0} /\ t.low[1] \in Nodes(e) \cup {0}
    BY <1>2, <1>6, <1>7
  <2>5. QED
    BY <2>1, <2>2, <2>3, <2>4 DEF IsSearch
<1>20. QED
  BY <1>5, <1>6, <1>18, <1>19

\* What Join does.
\* Join as three writes.
LEMMA JoinSlots ==
  ASSUME NEW d, NEW n, IsTree(d), n \in Nodes(d)
  PROVE  Join(d, n) =
           [WriteSlot(WriteSlot(d, HighSlot(n), d.LowHeld), LowSlot(n), d.HighHeld) EXCEPT !.Root = n]
<1> DEFINE e == WriteSlot(d, HighSlot(n), d.LowHeld)
           f == WriteSlot(e, LowSlot(n), d.HighHeld)
           g == [f EXCEPT !.Root = n]
<1>1. n # 0 /\ HighSlot(n) = <<n, "Lower">> /\ LowSlot(n) = <<n, "Higher">>
  BY DEF Nodes, HighSlot, LowSlot
<1>2. e = [d EXCEPT !.node[n].Lower = d.LowHeld]
  BY <1>1 DEF WriteSlot
<1>3. f = [e EXCEPT !.node[n].Higher = d.HighHeld]
  <2> HIDE DEF e
  <2>1. QED
    BY <1>1 DEF WriteSlot
<1>4. Join(d, n) = g
  <2> DEFINE e2 == [d EXCEPT !.node[n].Lower = d.LowHeld]
             f2 == [e2 EXCEPT !.node[n].Higher = d.HighHeld]
  <2>1. Join(d, n) = [f2 EXCEPT !.Root = n]
    BY DEF Join
  <2>2. e2 = e
    BY <1>2
  <2> HIDE DEF e, e2
  <2>3. f2 = f
    BY <1>3, <2>2
  <2> HIDE DEF f, f2
  <2>4. QED
    BY <2>1, <2>3
<1>5. QED
  BY <1>4

LEMMA JoinWrites ==
  ASSUME NEW d, NEW n, IsTree(d), n \in Nodes(d)
  PROVE  /\ SameWords(d, Join(d, n)) /\ Join(d, n).Root = n
         /\ \A m \in Nodes(d) :
              /\ Join(d, n).node[m].Lower = IF m = n THEN d.LowHeld ELSE d.node[m].Lower
              /\ Join(d, n).node[m].Higher = IF m = n THEN d.HighHeld ELSE d.node[m].Higher
<1> DEFINE e == WriteSlot(d, HighSlot(n), d.LowHeld)
           f == WriteSlot(e, LowSlot(n), d.HighHeld)
           g == [f EXCEPT !.Root = n]
<1>1. Join(d, n) = g
  BY JoinSlots
<1>2. /\ SameWords(d, e)
      /\ \A m \in Nodes(d) : /\ e.node[m].Higher = d.node[m].Higher
                             /\ e.node[m].Lower = IF m = n THEN d.LowHeld ELSE d.node[m].Lower
  <2>1. \A x : LET w == WriteSlot(d, HighSlot(n), x)
               IN  /\ SameWords(d, w)
                   /\ \A m \in Nodes(d) : /\ w.node[m].Higher = d.node[m].Higher
                                          /\ w.node[m].Lower = IF m = n THEN x ELSE d.node[m].Lower
    BY WriteHigh
  <2>2. QED
    BY <2>1
<1>3. IsTree(e) /\ Nodes(e) = Nodes(d)
  BY <1>2, SameOrder DEF SameWords
<1> HIDE DEF e
<1>4. /\ SameWords(e, f)
      /\ \A m \in Nodes(d) : /\ f.node[m].Lower = e.node[m].Lower
                             /\ f.node[m].Higher = IF m = n THEN d.HighHeld ELSE e.node[m].Higher
  <2>1. \A x : LET w == WriteSlot(e, LowSlot(n), x)
               IN  /\ SameWords(e, w)
                   /\ \A m \in Nodes(e) : /\ w.node[m].Lower = e.node[m].Lower
                                          /\ w.node[m].Higher = IF m = n THEN x ELSE e.node[m].Higher
    BY <1>3, WriteLow
  <2>2. QED
    BY <1>3, <2>1
<1> HIDE DEF f
<1>5. IsTree(f) /\ Len(f.node) = Len(d.node)
  BY <1>2, <1>4 DEF SameWords
<1>6. /\ g = [Root |-> n, LowHeld |-> f.LowHeld, HighHeld |-> f.HighHeld, node |-> f.node]
      /\ g.node = f.node /\ g.Root = n
  <2>1. PICK r, l, h, b : f = [Root |-> r, LowHeld |-> l, HighHeld |-> h, node |-> b]
    BY <1>5 DEF IsTree
  <2>2. g = [Root |-> n, LowHeld |-> l, HighHeld |-> h, node |-> b]
    BY <2>1
  <2>3. f.LowHeld = l /\ f.HighHeld = h /\ f.node = b
    BY <2>1
  <2>4. QED
    BY <2>2, <2>3
<1>7. IsTree(g)
  BY <1>5, <1>6 DEF IsTree, Nodes
<1> HIDE DEF g
<1>8. \A m \in Nodes(d) : g.node[m].word = d.node[m].word
  BY <1>2, <1>3, <1>4, <1>6 DEF SameWords
<1>9. QED
  BY <1>1, <1>2, <1>4, <1>5, <1>6, <1>7, <1>8 DEF SameWords

\* A search that has found the word leaves one tree with all nodes.
LEMMA FoundWhole ==
  ASSUME NEW d, NEW s, NEW u, IsTree(d), IsSearch(d, s), Taken(d, s, u),
         s.Look # 0, d.node[s.Look].word = s.word
  PROVE  SameWords(d, Found(d, s)) /\ Whole(Found(d, s)) /\ s.Look \in Nodes(d)
<1> DEFINE k == s.Look
           le == s.low[1]
           he == s.high[1]
           x == d.node[k].Lower
           e == WriteSlot(d, s.low, x)
           y == e.node[k].Higher
           f == WriteSlot(e, s.high, y)
           g == Join(f, k)
           S == Nodes(d)
           R == Earlier(d)
           lo == LoOf(d, he)
           hi == HiOf(d, le)
           lr == LowRoot(d, le)
           hr == HighRoot(d, he)
           low == IF lr = 0 THEN lo[k] ELSE lr
           high == IF hr = 0 THEN hi[k] ELSE hr
           h == IF lr = 0 THEN hi ELSE Put(hi, le, lo[k])
           l == IF hr = 0 THEN lo ELSE Put(lo, he, hi[k])
<1>1. Parts(S, R, lo, hi, u, lr, k, hr, le, he)
  BY DEF Taken
<1>2. /\ k \in S /\ le \in S \cup {0} /\ he \in S \cup {0} /\ k # 0 /\ s.low = LowSlot(le)
      /\ s.high = HighSlot(he) /\ (le = 0 <=> lr = 0) /\ (he = 0 <=> hr = 0)
  <2>1. k \in S /\ k # 0
    BY <1>1 DEF Parts
  <2>2. le \in S \cup {0} /\ he \in S \cup {0} /\ s.low = LowSlot(le) /\ s.high = HighSlot(he)
    BY DEF IsSearch
  <2>3. (le = 0 <=> lr = 0) /\ (he = 0 <=> hr = 0)
    BY <1>1 DEF Parts, Ends, LowRoot, HighRoot
  <2>4. QED
    BY <2>1, <2>2, <2>3
<1>3. le # k /\ he # k
  <2>1. k \in Below(u, k)
    BY <1>1, <1>2, Sides, EarlierOrders
  <2>2. (lr # 0 => le \in Below(u, lr)) /\ (hr # 0 => he \in Below(u, hr))
    BY <1>1 DEF Parts, Ends
  <2>3. Below(u, lr) \cap Below(u, k) = {} /\ Below(u, k) \cap Below(u, hr) = {}
    BY <1>1, Roots, EarlierOrders
  <2>4. QED
    BY <1>2, <2>1, <2>2, <2>3
<1>4. /\ SameWords(d, e) /\ e.HighHeld = d.HighHeld
      /\ e.LowHeld = IF le = 0 THEN x ELSE d.LowHeld
      /\ \A n \in S : /\ e.node[n].Lower = d.node[n].Lower
                      /\ e.node[n].Higher = IF n = le THEN x ELSE d.node[n].Higher
  <2>1. e = WriteSlot(d, LowSlot(le), x)
    BY <1>2
  <2> HIDE DEF e, k, le, x
  <2>2. QED
    BY <1>2, <2>1, WriteLow
<1>5. Nodes(e) = S /\ Earlier(e) = R /\ IsTree(e)
  <2> HIDE DEF e
  <2>1. QED
    BY <1>4, SameOrder DEF SameWords
<1> HIDE DEF e
<1>6. /\ SameWords(e, f) /\ f.LowHeld = e.LowHeld
      /\ f.HighHeld = IF he = 0 THEN y ELSE e.HighHeld
      /\ \A n \in S : /\ f.node[n].Higher = e.node[n].Higher
                      /\ f.node[n].Lower = IF n = he THEN y ELSE e.node[n].Lower
  <2>1. f = WriteSlot(e, HighSlot(he), y)
    BY <1>2
  <2> HIDE DEF f, k, he, y
  <2>2. QED
    BY <1>2, <1>5, <2>1, WriteHigh
<1>7. Nodes(f) = S /\ Earlier(f) = R /\ IsTree(f)
  <2> HIDE DEF f
  <2>1. QED
    BY <1>5, <1>6, SameOrder DEF SameWords
<1> HIDE DEF f
<1>8. /\ SameWords(f, g) /\ g.Root = k
      /\ \A n \in S : /\ g.node[n].Lower = IF n = k THEN f.LowHeld ELSE f.node[n].Lower
                      /\ g.node[n].Higher = IF n = k THEN f.HighHeld ELSE f.node[n].Higher
  <2> HIDE DEF k
  <2>1. QED
    BY <1>2, <1>7, JoinWrites
<1>9. Nodes(g) = S /\ Earlier(g) = R /\ IsTree(g)
  <2> HIDE DEF g
  <2>1. QED
    BY <1>7, <1>8, SameOrder DEF SameWords
<1>10. Found(d, s) = g
  BY DEF Found, e, f
<1>11. SameWords(d, g)
  BY <1>4, <1>5, <1>6, <1>7, <1>8 DEF SameWords
<1> HIDE DEF g
<1>12. x = lo[k] /\ y = hi[k]
  BY <1>2, <1>3, <1>4 DEF LoOf, HiOf
<1>13. f.LowHeld = low /\ f.HighHeld = high
  BY <1>2, <1>4, <1>6, <1>12 DEF LowRoot, HighRoot
<1>14. \A n \in S : n # 0
  BY DEF Nodes
<1>15. LoOf(g, 0) = Put(l, k, low)
  <2>1. LoOf(g, 0) = [n \in S |-> IF n = k THEN low ELSE IF n = he THEN y ELSE d.node[n].Lower]
    <3>1. \A n \in S : g.node[n].Lower = IF n = k THEN low ELSE IF n = he THEN y ELSE d.node[n].Lower
      BY <1>4, <1>6, <1>8, <1>13
    <3> HIDE DEF k, he, y, low, S
    <3>2. QED
      BY <3>1, <1>9, <1>14 DEF LoOf
  <2>2. l = [n \in S |-> IF n = he THEN y ELSE d.node[n].Lower]
    BY <1>2, <1>12, <1>14 DEF Put, LoOf
  <2> HIDE DEF k, he, y, low, l, S
  <2>3. QED
    BY <2>1, <2>2, <1>2 DEF Put
<1>16. HiOf(g, 0) = Put(h, k, high)
  <2>1. HiOf(g, 0) = [n \in S |-> IF n = k THEN high ELSE IF n = le THEN x ELSE d.node[n].Higher]
    <3>1. \A n \in S : g.node[n].Higher = IF n = k THEN high ELSE IF n = le THEN x ELSE d.node[n].Higher
      BY <1>4, <1>6, <1>8, <1>13
    <3> HIDE DEF k, le, x, high, S
    <3>2. QED
      BY <3>1, <1>9, <1>14 DEF HiOf
  <2>2. h = [n \in S |-> IF n = le THEN x ELSE d.node[n].Higher]
    BY <1>2, <1>12, <1>14 DEF Put, HiOf
  <2> HIDE DEF k, le, x, high, h, S
  <2>3. QED
    BY <2>1, <2>2, <1>2 DEF Put
<1>17. R \subseteq S \X S /\ Orders(R, S)
  BY EarlierOrders
<1> HIDE DEF k, le, he, S, R, lo, hi, lr, hr, x, y
<1>18. PICK v : Forest(S, R, Put(l, k, low), Put(h, k, high), v) /\ v[k] = S
  BY <1>1, <1>2, <1>17, FoundTree
<1>19. Below(v, k) = S
  BY <1>2, <1>18 DEF Below
<1> HIDE DEF l, h, low, high
<1>20. Forest(Nodes(g), Earlier(g), LoOf(g, 0), HiOf(g, 0), v) /\ g.Root \in Nodes(g) /\ Below(v, g.Root) = Nodes(g)
  BY <1>2, <1>8, <1>9, <1>15, <1>16, <1>18, <1>19
<1>21. QED
  BY <1>2, <1>10, <1>11, <1>20 DEF Whole, k, S

\* A node that is appended.
Grown(d, r) == [d EXCEPT !.node = Append(@, r)]

LEMMA AppendNode ==
  ASSUME NEW d, NEW r, IsTree(d), IsNode(r)
  PROVE  /\ IsTree(Grown(d, r)) /\ Len(Grown(d, r).node) = Len(d.node) + 1
         /\ Grown(d, r).LowHeld = d.LowHeld /\ Grown(d, r).HighHeld = d.HighHeld
         /\ Grown(d, r).node[Len(d.node) + 1] = r
         /\ \A n \in Nodes(d) : Grown(d, r).node[n] = d.node[n]
<1> DEFINE f == Append(d.node, r)
           e == Grown(d, r)
           N == Len(d.node)
           T == {d.node[n] : n \in Nodes(d)} \cup {r}
<1>1. N \in Nat /\ d.node \in Seq(T) /\ r \in T
  <2>1. d.node \in [1 .. N -> T]
    BY DEF IsTree, Nodes
  <2>2. N \in Nat
    BY DEF IsTree
  <2> HIDE DEF N, T
  <2>3. QED
    BY <2>1, <2>2 DEF T
<1>2. /\ f \in Seq(T) /\ Len(f) = N + 1 /\ f[N + 1] = r /\ \A n \in 1 .. N : f[n] = d.node[n]
      /\ f = [n \in 1 .. N + 1 |-> f[n]]
  <2> HIDE DEF T
  <2>1. QED
    BY <1>1
<1>3. /\ e = [Root |-> d.Root, LowHeld |-> d.LowHeld, HighHeld |-> d.HighHeld, node |-> f]
      /\ e.node = f
  <2>1. e = [d EXCEPT !.node = f]
    BY DEF Grown
  <2>2. PICK a, b, c, w : d = [Root |-> a, LowHeld |-> b, HighHeld |-> c, node |-> w]
    BY DEF IsTree
  <2> HIDE DEF f
  <2>3. e = [Root |-> a, LowHeld |-> b, HighHeld |-> c, node |-> f]
    BY <2>1, <2>2
  <2>4. d.Root = a /\ d.LowHeld = b /\ d.HighHeld = c
    BY <2>2
  <2> HIDE DEF e
  <2>5. QED
    BY <2>3, <2>4
<1> HIDE DEF f, e
<1>4. \A n \in 1 .. N + 1 : IsNode(f[n])
  BY <1>1, <1>2 DEF IsTree, Nodes
<1>5. Nodes(e) = 1 .. N + 1
  BY <1>2, <1>3 DEF Nodes
<1>6. IsTree(e)
  <2>1. Len(e.node) \in Nat
    BY <1>1, <1>2, <1>3
  <2>2. e.node = [n \in Nodes(e) |-> e.node[n]]
    BY <1>2, <1>3, <1>5
  <2>3. \A n \in Nodes(e) : IsNode(e.node[n])
    BY <1>3, <1>4, <1>5
  <2>4. e = [Root |-> e.Root, LowHeld |-> e.LowHeld, HighHeld |-> e.HighHeld, node |-> e.node]
    BY <1>3
  <2>5. QED
    BY <2>1, <2>2, <2>3, <2>4 DEF IsTree
<1>7. e.LowHeld = d.LowHeld /\ e.HighHeld = d.HighHeld
  BY <1>3
<1>8. QED
  BY <1>2, <1>3, <1>6, <1>7 DEF Nodes, e

\* A search that has not found the word makes its node the root of one tree.
LEMMA MadeWhole ==
  ASSUME NEW d, NEW s, NEW u, IsTree(d), IsSearch(d, s), Taken(d, s, u), s.Look = 0
  PROVE  /\ IsTree(Make(d, s)) /\ Whole(Make(d, s))
         /\ Make(d, s).Root \in Nodes(Make(d, s))
<1> DEFINE le == s.low[1]
           he == s.high[1]
           e == WriteSlot(d, s.low, 0)
           f == WriteSlot(e, s.high, 0)
           r == Node(s.word)
           c == Grown(f, r)
           n == Len(d.node) + 1
           g == Join(c, n)
           S == Nodes(d)
           T == S \cup {n}
           R == Earlier(d)
           Q == Earlier(g)
           lo == LoOf(d, he)
           hi == HiOf(d, le)
           lr == LowRoot(d, le)
           hr == HighRoot(d, he)
<1>1. Parts(S, R, lo, hi, u, lr, 0, hr, le, he)
  BY DEF Taken
<1>2. /\ le \in S \cup {0} /\ he \in S \cup {0} /\ s.low = LowSlot(le) /\ s.high = HighSlot(he)
      /\ s.word \in Words
  BY DEF IsSearch
<1>3. Len(d.node) \in Nat /\ n \notin S /\ n # 0 /\ T = 1 .. n /\ \A m \in S : m # 0
  BY DEF Nodes, IsTree
<1>4. /\ SameWords(d, e) /\ e.HighHeld = d.HighHeld
      /\ e.LowHeld = IF le = 0 THEN 0 ELSE d.LowHeld
      /\ \A m \in S : /\ e.node[m].Lower = d.node[m].Lower
                      /\ e.node[m].Higher = IF m = le THEN 0 ELSE d.node[m].Higher
  <2>1. e = WriteSlot(d, LowSlot(le), 0)
    BY <1>2
  <2> HIDE DEF e, le
  <2>2. QED
    BY <1>2, <2>1, WriteLow
<1>5. Nodes(e) = S /\ IsTree(e)
  <2> HIDE DEF e
  <2>1. QED
    BY <1>4, SameOrder DEF SameWords
<1> HIDE DEF e
<1>6. /\ SameWords(e, f) /\ f.LowHeld = e.LowHeld
      /\ f.HighHeld = IF he = 0 THEN 0 ELSE e.HighHeld
      /\ \A m \in S : /\ f.node[m].Higher = e.node[m].Higher
                      /\ f.node[m].Lower = IF m = he THEN 0 ELSE e.node[m].Lower
  <2>1. f = WriteSlot(e, HighSlot(he), 0)
    BY <1>2
  <2> HIDE DEF f, he
  <2>2. QED
    BY <1>2, <1>5, <2>1, WriteHigh
<1>7. Nodes(f) = S /\ IsTree(f) /\ Len(f.node) = Len(d.node)
  <2> HIDE DEF f
  <2>1. QED
    BY <1>4, <1>5, <1>6, SameOrder DEF SameWords
<1> HIDE DEF f
<1>8. IsNode(r) /\ r.word = s.word
  BY <1>2 DEF IsNode, Node
<1> HIDE DEF r
<1>9. /\ IsTree(c) /\ Len(c.node) = n
      /\ c.LowHeld = f.LowHeld /\ c.HighHeld = f.HighHeld
      /\ c.node[n] = r /\ \A m \in S : c.node[m] = f.node[m]
  <2>1. Len(f.node) + 1 = n /\ Nodes(f) = S
    BY <1>7
  <2> HIDE DEF S, n
  <2>2. QED
    BY <1>7, <1>8, <2>1, AppendNode
<1>10. Make(d, s) = g
  <2>1. Len(c.node) = n
    BY <1>9
  <2>2. Make(d, s) = Join(c, Len(c.node))
    BY DEF Make, e, f, r, Grown
  <2> HIDE DEF c, n
  <2>3. QED
    BY <2>1, <2>2
<1> HIDE DEF c
<1>11. Nodes(c) = T /\ n \in Nodes(c)
  <2>1. Nodes(c) = 1 .. n
    BY <1>9 DEF Nodes
  <2>2. QED
    BY <2>1, <1>3
<1>12. /\ SameWords(c, g) /\ g.Root = n
       /\ \A m \in T : /\ g.node[m].Lower = IF m = n THEN c.LowHeld ELSE c.node[m].Lower
                       /\ g.node[m].Higher = IF m = n THEN c.HighHeld ELSE c.node[m].Higher
  <2> HIDE DEF n, T
  <2>1. QED
    BY <1>9, <1>11, JoinWrites
<1>13. IsTree(g) /\ Nodes(g) = T
  <2> HIDE DEF g
  <2>1. QED
    BY <1>9, <1>11, <1>12, SameOrder DEF SameWords
<1> HIDE DEF g
<1>14. c.LowHeld = lr /\ c.HighHeld = hr
  BY <1>4, <1>6, <1>9 DEF LowRoot, HighRoot
<1>15. LoOf(g, 0) = With(T, n, lr, lo)
  <2>1. \A m \in T : g.node[m].Lower = IF m = n THEN lr ELSE lo[m]
    BY <1>3, <1>4, <1>6, <1>9, <1>12, <1>14 DEF LoOf
  <2>2. \A m \in T : m # 0
    BY <1>3
  <2> HIDE DEF n, lo, lr, T
  <2>3. QED
    BY <2>1, <2>2, <1>13 DEF LoOf, With
<1>16. HiOf(g, 0) = With(T, n, hr, hi)
  <2>1. \A m \in T : g.node[m].Higher = IF m = n THEN hr ELSE hi[m]
    BY <1>3, <1>4, <1>6, <1>9, <1>12, <1>14 DEF HiOf
  <2>2. \A m \in T : m # 0
    BY <1>3
  <2> HIDE DEF n, hi, hr, T
  <2>3. QED
    BY <2>1, <2>2, <1>13 DEF HiOf, With
<1>17. /\ Q \subseteq T \X T /\ Orders(Q, T)
       /\ \A a, b \in T : <<a, b>> \in Q <=> IsIt(g.node[a].word, g.node[b].word) < 0
  <2>1. /\ Earlier(g) \subseteq Nodes(g) \X Nodes(g) /\ Orders(Earlier(g), Nodes(g))
        /\ \A a, b \in Nodes(g) : <<a, b>> \in Earlier(g) <=> IsIt(g.node[a].word, g.node[b].word) < 0
    BY <1>13, EarlierOrders
  <2>2. QED
    BY <1>13, <2>1
<1>18. g.node[n].word = s.word /\ \A m \in S : g.node[m].word = d.node[m].word
  <2>1. \A m \in T : g.node[m].word = c.node[m].word
    BY <1>11, <1>12 DEF SameWords
  <2>2. \A m \in S : f.node[m].word = d.node[m].word
    BY <1>4, <1>5, <1>6 DEF SameWords
  <2>3. QED
    BY <2>1, <2>2, <1>8, <1>9
<1>19. R \subseteq Q
  <2>1. SUFFICES ASSUME NEW p \in R PROVE p \in Q
    OBVIOUS
  <2>2. p \in S \X S /\ IsIt(d.node[p[1]].word, d.node[p[2]].word) < 0
    BY DEF Earlier
  <2>3. p \in T \X T /\ IsIt(g.node[p[1]].word, g.node[p[2]].word) < 0
    BY <2>2, <1>18
  <2>4. QED
    BY <2>3, <1>13 DEF Earlier
<1>20. /\ \A m \in Below(u, lr) : m \in S /\ IsIt(d.node[m].word, s.word) < 0
       /\ \A m \in Below(u, hr) : m \in S /\ IsIt(d.node[m].word, s.word) > 0
  <2>1. Below(u, lr) \subseteq S /\ Below(u, hr) \subseteq S
    BY <1>1 DEF Parts
  <2>2. QED
    BY <2>1 DEF Taken
<1>21. \A m \in S : d.node[m].word \in Words
  BY DEF IsTree, IsNode
<1>22. \A m \in Below(u, lr) : <<m, n>> \in Q
  BY <1>17, <1>18, <1>20
<1>23. ASSUME NEW m \in Below(u, hr) PROVE <<n, m>> \in Q
  <2>1. m \in S /\ d.node[m].word \in Words /\ IsIt(d.node[m].word, s.word) > 0
    BY <1>20, <1>21
  <2>2. IsIt(s.word, d.node[m].word) < 0
    BY <2>1, <1>2, Comparing
  <2>3. QED
    BY <2>1, <2>2, <1>17, <1>18
<1> HIDE DEF le, he, n, S, R, Q, lo, hi, lr, hr
<1>24. PICK v : Forest(T, Q, LoOf(g, 0), HiOf(g, 0), v) /\ v[n] = T
  <2>1. \E v : Forest(T, Q, With(T, n, lr, lo), With(T, n, hr, hi), v) /\ v[n] = T
    <3>1. T = S \cup {n} /\ n \notin S /\ n # 0
      BY <1>3
    <3> HIDE DEF T
    <3>2. QED
      BY <3>1, <1>1, <1>17, <1>19, <1>22, <1>23, MadeTree
  <2>2. QED
    BY <2>1, <1>15, <1>16
<1>25. Below(v, n) = T
  BY <1>3, <1>24 DEF Below
<1>26. Whole(g)
  <2>1. g.Root = n /\ n \in T
    BY <1>12
  <2> HIDE DEF T
  <2>2. QED
    BY <2>1, <1>13, <1>24, <1>25 DEF Whole, Q
<1>27. QED
  BY <1>10, <1>12, <1>13, <1>26

-----------------------------------------------------------------------------
(* The walk. *)

\* q has each node of B once, in order.
Lists(q, B, S, R) ==
  /\ q \in Seq(S) /\ Len(q) = Cardinality(B) /\ {q[i] : i \in DOMAIN q} = B
  /\ \A i, j \in DOMAIN q : i < j => <<q[i], q[j]>> \in R

LEMMA ListsJoined ==
  ASSUME NEW S, NEW R, NEW a, NEW b, NEW A, NEW B,
         IsFiniteSet(S), Orders(R, S), A \subseteq S, B \subseteq S,
         Lists(a, A, S, R), Lists(b, B, S, R), Before(R, A, B)
  PROVE  Lists(a \o b, A \cup B, S, R)
<1> DEFINE c == a \o b
<1>1. a \in Seq(S) /\ b \in Seq(S) /\ Len(a) \in Nat /\ Len(b) \in Nat
  BY DEF Lists
<1>2. /\ c \in Seq(S) /\ Len(c) = Len(a) + Len(b) /\ DOMAIN c = 1 .. Len(a) + Len(b)
      /\ DOMAIN a = 1 .. Len(a) /\ DOMAIN b = 1 .. Len(b)
      /\ \A i \in 1 .. Len(a) : c[i] = a[i]
      /\ \A i \in 1 .. Len(a) + Len(b) : i > Len(a) => c[i] = b[i - Len(a)]
  BY <1>1
<1> HIDE DEF c
<1>3. Len(c) = Cardinality(A \cup B)
  <2>1. IsFiniteSet(A) /\ IsFiniteSet(B)
    BY FS_Subset
  <2>2. A \cap B = {}
    BY Apart
  <2>3. Cardinality(A \cap B) = 0
    BY <2>2, FS_EmptySet
  <2>4. Cardinality(A \cup B) = Cardinality(A) + Cardinality(B) - Cardinality(A \cap B)
    BY <2>1, FS_Union
  <2>5. QED
    BY <2>1, <2>3, <2>4, <1>1, <1>2, FS_CardinalityType DEF Lists
<1>4. (\A i \in DOMAIN a : a[i] \in A) /\ (\A i \in DOMAIN b : b[i] \in B)
  BY DEF Lists
<1>5. {c[i] : i \in DOMAIN c} = A \cup B
  <2>1. ASSUME NEW i \in DOMAIN c PROVE c[i] \in A \cup B
    <3>1. CASE i <= Len(a)
      BY <3>1, <1>2, <1>4
    <3>2. CASE i > Len(a)
      <4>1. i - Len(a) \in DOMAIN b
        BY <3>2, <1>1, <1>2
      <4>2. QED
        BY <4>1, <3>2, <1>2, <1>4
    <3>3. QED
      BY <3>1, <3>2, <1>1, <1>2
  <2>2. ASSUME NEW x \in A PROVE \E i \in DOMAIN c : c[i] = x
    <3>1. PICK i \in DOMAIN a : a[i] = x
      BY DEF Lists
    <3>2. QED
      BY <3>1, <1>1, <1>2
  <2>3. ASSUME NEW x \in B PROVE \E i \in DOMAIN c : c[i] = x
    <3>1. PICK i \in DOMAIN b : b[i] = x
      BY DEF Lists
    <3>2. i + Len(a) \in DOMAIN c /\ i + Len(a) > Len(a) /\ (i + Len(a)) - Len(a) = i
      BY <1>1, <1>2
    <3>3. c[i + Len(a)] = x
      BY <3>1, <3>2, <1>2
    <3>4. QED
      BY <3>2, <3>3
  <2>4. QED
    BY <2>1, <2>2, <2>3
<1>6. ASSUME NEW i \in DOMAIN c, NEW j \in DOMAIN c, i < j PROVE <<c[i], c[j]>> \in R
  <2>1. i \in Int /\ j \in Int /\ i >= 1 /\ j <= Len(a) + Len(b)
    BY <1>1, <1>2
  <2>2. CASE j <= Len(a)
    <3>1. i \in DOMAIN a /\ j \in DOMAIN a
      BY <1>1, <1>2, <1>6, <2>1, <2>2
    <3>2. <<a[i], a[j]>> \in R
      BY <3>1, <1>6 DEF Lists
    <3>3. QED
      BY <3>1, <3>2, <1>2
  <2>3. CASE i > Len(a)
    <3>1. i - Len(a) \in DOMAIN b /\ j - Len(a) \in DOMAIN b /\ i - Len(a) < j - Len(a) /\ j > Len(a)
      BY <1>1, <1>2, <1>6, <2>1, <2>3
    <3>2. <<b[i - Len(a)], b[j - Len(a)]>> \in R
      BY <3>1 DEF Lists
    <3>3. QED
      BY <3>1, <3>2, <2>3, <1>2
  <2>4. CASE i <= Len(a) /\ j > Len(a)
    <3>1. i \in DOMAIN a /\ j - Len(a) \in DOMAIN b
      BY <1>1, <1>2, <2>1, <2>4
    <3>2. a[i] \in A /\ b[j - Len(a)] \in B
      BY <3>1, <1>4
    <3>3. QED
      BY <3>1, <3>2, <2>4, <1>2 DEF Before
  <2>5. QED
    BY <1>1, <2>1, <2>2, <2>3, <2>4
<1>7. QED
  BY <1>2, <1>3, <1>5, <1>6 DEF Lists, c

\* One turn of the walk, for all nodes.
Turn(d, w) ==
  [m \in 0 .. Len(d.node) |->
     IF m = 0 THEN <<>> ELSE w[d.node[m].Lower] \o <<m>> \o w[d.node[m].Higher]]

\* What is walked from each node to the depth k.
WalkAt(d, w, k) ==
  [m \in 0 .. Len(d.node) |->
     IF k = 0 \/ m = 0 THEN <<>>
     ELSE w[k - 1][d.node[m].Lower] \o <<m>> \o w[k - 1][d.node[m].Higher]]

Walks(d, w, n) == w = [k \in 0 .. n |-> WalkAt(d, w, k)]

LEMMA WalkExists ==
  ASSUME NEW d, NEW n \in Nat
  PROVE  \E w : Walks(d, w, n)
<1> DEFINE T == {k \in Nat : \E w : Walks(d, w, k)}
<1>1. 0 \in T
  <2> DEFINE w == [k \in 0 .. 0 |-> WalkAt(d, <<>>, 0)]
  <2>1. WalkAt(d, w, 0) = WalkAt(d, <<>>, 0)
    BY DEF WalkAt
  <2>2. Walks(d, w, 0)
    BY <2>1 DEF Walks
  <2>3. QED
    BY <2>2
<1>2. ASSUME NEW k \in Nat, k \in T PROVE k + 1 \in T
  <2>1. PICK v : Walks(d, v, k)
    BY <1>2
  <2> DEFINE w == [i \in 0 .. k + 1 |-> IF i <= k THEN v[i] ELSE Turn(d, v[k])]
  <2>2. ASSUME NEW i \in 0 .. k + 1 PROVE w[i] = WalkAt(d, w, i)
    <3>1. CASE i <= k
      <4>1. i \in 0 .. k /\ w[i] = v[i] /\ (i # 0 => w[i - 1] = v[i - 1])
        BY <3>1
      <4>2. v[i] = WalkAt(d, v, i)
        BY <2>1, <4>1 DEF Walks
      <4> HIDE DEF w
      <4>3. WalkAt(d, w, i) = WalkAt(d, v, i)
        BY <4>1 DEF WalkAt
      <4>4. QED
        BY <4>1, <4>2, <4>3
    <3>2. CASE i = k + 1
      <4>1. w[i] = Turn(d, v[k]) /\ w[i - 1] = v[k] /\ i # 0
        BY <3>2
      <4> HIDE DEF w
      <4>2. WalkAt(d, w, i) = Turn(d, w[i - 1])
        BY <4>1 DEF WalkAt, Turn
      <4>3. QED
        BY <4>1, <4>2
    <3> HIDE DEF w
    <3>3. QED
      BY <3>1, <3>2
  <2>3. w = [i \in 0 .. k + 1 |-> w[i]]
    OBVIOUS
  <2> HIDE DEF w
  <2>4. Walks(d, w, k + 1)
    BY <2>2, <2>3 DEF Walks
  <2>5. QED
    BY <2>4
<1>3. n \in T
  <2> HIDE DEF T
  <2>1. QED
    BY <1>1, <1>2, Induct
<1>4. QED
  BY <1>3

LEMMA WalkTurns ==
  ASSUME NEW d, Len(d.node) \in Nat
  PROVE  \E w : /\ w[0] = [m \in 0 .. Len(d.node) |-> <<>>]
                /\ \A k \in 1 .. Len(d.node) : w[k] = Turn(d, w[k - 1])
                /\ \A n \in 0 .. Len(d.node) : Walk2(d, n) = w[Len(d.node)][n]
<1> DEFINE N == Len(d.node)
           w == CHOOSE w : Walks(d, w, N)
<1>1. Walks(d, w, N)
  BY WalkExists
<1>2. ASSUME NEW n \in 0 .. N PROVE Walk2(d, n) = w[N][n]
  BY DEF Walk2, Walks, WalkAt
<1> HIDE DEF w
<1>3. \A k \in 0 .. N : w[k] = WalkAt(d, w, k)
  BY <1>1 DEF Walks
<1>4. w[0] = [m \in 0 .. N |-> <<>>]
  <2>1. w[0] = WalkAt(d, w, 0)
    BY <1>3
  <2>2. WalkAt(d, w, 0) = [m \in 0 .. N |-> <<>>]
    BY DEF WalkAt
  <2>3. QED
    BY <2>1, <2>2
<1>5. ASSUME NEW k \in 1 .. N PROVE w[k] = Turn(d, w[k - 1])
  <2>1. k \in 0 .. N /\ k # 0
    OBVIOUS
  <2>2. WalkAt(d, w, k) = Turn(d, w[k - 1])
    BY <2>1 DEF WalkAt, Turn
  <2>3. QED
    BY <1>3, <2>1, <2>2
<1>6. QED
  BY <1>2, <1>4, <1>5

\* The walk of a subtree has its nodes, once each and in order.
LEMMA WalkLists ==
  ASSUME NEW d, NEW u, NEW p, IsTree(d),
         Forest(Nodes(d), Earlier(d), LoOf(d, 0), HiOf(d, 0), u), p \in Nodes(d) \cup {0}
  PROVE  Lists(Walk2(d, p), Below(u, p), Nodes(d), Earlier(d))
<1> DEFINE S == Nodes(d)
           R == Earlier(d)
           N == Len(d.node)
           L(q, B) == Lists(q, B, S, R)
<1>1. N \in Nat /\ IsFiniteSet(S) /\ Cardinality(S) = N /\ 0 .. N = S \cup {0} /\ 0 \notin S
  <2>1. N \in Nat
    BY DEF IsTree
  <2>2. IsFiniteSet(1 .. N) /\ Cardinality(1 .. N) = N
    BY <2>1, FS_Interval
  <2>3. QED
    BY <2>1, <2>2 DEF Nodes
<1>2. Orders(R, S)
  BY EarlierOrders
<1>3. \A n \in S : /\ d.node[n].Lower \in S \cup {0} /\ d.node[n].Higher \in S \cup {0}
                   /\ u[n] = Below(u, d.node[n].Lower) \cup {n} \cup Below(u, d.node[n].Higher)
                   /\ \A m \in Below(u, d.node[n].Lower) : <<m, n>> \in R
                   /\ \A m \in Below(u, d.node[n].Higher) : <<n, m>> \in R
                   /\ Below(u, n) = u[n] /\ u[n] \subseteq S
  BY <1>1 DEF Forest, LoOf, HiOf, Below
<1>4. PICK w : /\ w[0] = [m \in 0 .. N |-> <<>>]
               /\ \A k \in 1 .. N : w[k] = Turn(d, w[k - 1])
               /\ \A n \in 0 .. N : Walk2(d, n) = w[N][n]
  BY <1>1, WalkTurns
<1>5. L(<<>>, {})
  BY FS_EmptySet DEF Lists
<1>6. Below(u, 0) = {}
  BY DEF Below
<1> DEFINE T == {k \in Nat : k <= N => \A m \in S \cup {0} : Cardinality(Below(u, m)) <= k => L(w[k][m], Below(u, m))}
<1>7. 0 \in T
  <2>1. SUFFICES ASSUME NEW m \in S \cup {0}, Cardinality(Below(u, m)) <= 0
                 PROVE  L(w[0][m], Below(u, m))
    OBVIOUS
  <2>2. Below(u, m) \subseteq S
    BY <1>3, <1>6
  <2>3. IsFiniteSet(Below(u, m))
    BY <2>2, <1>1, FS_Subset
  <2>4. Cardinality(Below(u, m)) = 0
    BY <2>1, <2>3, FS_CardinalityType
  <2>5. Below(u, m) = {}
    BY <2>3, <2>4, FS_EmptySet
  <2>6. w[0][m] = <<>>
    BY <1>1, <1>4
  <2>7. QED
    BY <2>5, <2>6, <1>5
<1>8. ASSUME NEW k \in Nat, k \in T PROVE k + 1 \in T
  <2>1. SUFFICES ASSUME k + 1 <= N, NEW m \in S \cup {0}, Cardinality(Below(u, m)) <= k + 1
                 PROVE  L(w[k + 1][m], Below(u, m))
    OBVIOUS
  <2>2. w[k + 1] = Turn(d, w[k])
    <3>1. k + 1 \in 1 .. N /\ (k + 1) - 1 = k
      BY <2>1, <1>1
    <3>2. QED
      BY <3>1, <1>4
  <2>3. CASE m = 0
    <3>1. w[k + 1][m] = <<>>
      BY <2>2, <2>3, <1>1 DEF Turn
    <3>2. QED
      BY <2>3, <3>1, <1>5, <1>6
  <2>4. CASE m \in S
    <3> DEFINE a == d.node[m].Lower
               b == d.node[m].Higher
               A == Below(u, a)
               B == Below(u, b)
    <3>1. w[k + 1][m] = w[k][a] \o <<m>> \o w[k][b]
      BY <2>2, <2>4, <1>1 DEF Turn
    <3>2. /\ a \in S \cup {0} /\ b \in S \cup {0} /\ Below(u, m) = A \cup {m} \cup B
          /\ (\A x \in A : <<x, m>> \in R) /\ (\A x \in B : <<m, x>> \in R)
          /\ A \subseteq S /\ B \subseteq S /\ Below(u, m) \subseteq S
      BY <2>4, <1>3
    <3>3. m \notin A /\ m \notin B
      BY <2>4, <3>2, <1>2 DEF Orders
    <3> HIDE DEF a, b, A, B, L, S, R, N
    <3>4. IsFiniteSet(Below(u, m)) /\ Cardinality(Below(u, m)) \in Nat
      BY <3>2, <1>1, FS_Subset, FS_CardinalityType
    <3>5. /\ IsFiniteSet(A) /\ Cardinality(A) \in Nat /\ Cardinality(A) < Cardinality(Below(u, m))
          /\ IsFiniteSet(B) /\ Cardinality(B) \in Nat /\ Cardinality(B) < Cardinality(Below(u, m))
      <4>1. A \subseteq Below(u, m) /\ A # Below(u, m) /\ B \subseteq Below(u, m) /\ B # Below(u, m)
        BY <3>2, <3>3
      <4>2. IsFiniteSet(A) /\ IsFiniteSet(B)
        BY <3>4, <4>1, FS_Subset
      <4>3. Cardinality(A) \in Nat /\ Cardinality(B) \in Nat
        BY <4>2, FS_CardinalityType
      <4>4. Cardinality(A) <= Cardinality(Below(u, m)) /\ Cardinality(B) <= Cardinality(Below(u, m))
        BY <3>4, <4>1, FS_Subset
      <4>5. Cardinality(A) # Cardinality(Below(u, m)) /\ Cardinality(B) # Cardinality(Below(u, m))
        BY <3>4, <4>1, FS_Subset
      <4>6. QED
        BY <4>2, <4>3, <4>4, <4>5, <3>4
    <3>6. Cardinality(A) <= k /\ Cardinality(B) <= k /\ k <= N
      BY <2>1, <3>4, <3>5, <1>1
    <3>7. L(w[k][a], A) /\ L(w[k][b], B)
      BY <1>8, <3>2, <3>6 DEF A, B
    <3>8. Lists(<<m>>, {m}, S, R)
      <4>1. <<m>> \in Seq(S) /\ Len(<<m>>) = 1 /\ DOMAIN <<m>> = {1} /\ <<m>>[1] = m
        BY <2>4
      <4>2. Cardinality({m}) = 1
        BY FS_Singleton
      <4>3. QED
        BY <4>1, <4>2 DEF Lists
    <3>9. Before(R, A, {m}) /\ Before(R, A \cup {m}, B)
      BY <2>4, <3>2, <1>2 DEF Before, Orders
    <3>10. {m} \subseteq S /\ A \cup {m} \subseteq S
      BY <2>4, <3>2
    <3>11. Lists(w[k][a] \o <<m>>, A \cup {m}, S, R)
      <4> DEFINE c == {m}
                 q == <<m>>
      <4>1. Lists(q, c, S, R) /\ c \subseteq S /\ Before(R, A, c) /\ Lists(w[k][a], A, S, R)
        BY <3>7, <3>8, <3>9, <3>10 DEF L
      <4> HIDE DEF c, q
      <4>2. Lists(w[k][a] \o q, A \cup c, S, R)
        BY <4>1, <3>2, <1>1, <1>2, ListsJoined
      <4>3. QED
        BY <4>2 DEF c, q
    <3>12. Lists((w[k][a] \o <<m>>) \o w[k][b], (A \cup {m}) \cup B, S, R)
      <4> DEFINE c == A \cup {m}
                 q == w[k][a] \o <<m>>
      <4>1. Lists(q, c, S, R) /\ c \subseteq S /\ Before(R, c, B) /\ Lists(w[k][b], B, S, R)
        BY <3>7, <3>9, <3>10, <3>11 DEF L
      <4> HIDE DEF c, q
      <4>2. Lists(q \o w[k][b], c \cup B, S, R)
        BY <4>1, <3>2, <1>1, <1>2, ListsJoined
      <4>3. QED
        BY <4>2 DEF c, q
    <3>13. QED
      BY <3>1, <3>2, <3>12 DEF L
  <2>5. QED
    BY <2>3, <2>4
<1>9. N \in T
  <2> HIDE DEF T, N
  <2>1. QED
    BY <1>1, <1>7, <1>8, Induct
<1>10. Below(u, p) \subseteq S
  BY <1>3, <1>6
<1>11. Cardinality(Below(u, p)) <= N
  BY <1>1, <1>10, FS_Subset
<1>12. L(w[N][p], Below(u, p))
  BY <1>1, <1>9, <1>11
<1>13. QED
  BY <1>1, <1>4, <1>12

-----------------------------------------------------------------------------
(* The invariant. *)

TreeInv ==
  /\ IsTree(dict)
  /\ input \in Grammars /\ at \in Nat \ {0} /\ named \in Seq(Nat)
  /\ Searching => IsSearch(dict, search) /\ \E u : Taken(dict, search, u)
  /\ ~Searching => Whole(dict)

\* The nodes of a list that has all of them stand in the order of IsIt.
LEMMA ListsAll ==
  ASSUME NEW q, IsTree(dict), Lists(q, Nodes(dict), Nodes(dict), Earlier(dict))
  PROVE  Len(q) = Len(dict.node) /\ {q[i] : i \in DOMAIN q} = DOMAIN dict.node /\ InOrder(q)
<1>1. Len(dict.node) \in Nat /\ DOMAIN dict.node = Nodes(dict)
  BY DEF IsTree
<1>2. Cardinality(Nodes(dict)) = Len(dict.node)
  BY <1>1, FS_Interval DEF Nodes
<1>3. DOMAIN q = 1 .. Len(q) /\ Len(q) \in Nat /\ \A i \in DOMAIN q : q[i] \in Nodes(dict)
  BY DEF Lists
<1>4. ASSUME NEW i \in 1 .. Len(q) - 1
      PROVE  IsIt(dict.node[q[i]].word, dict.node[q[i + 1]].word) < 0
  <2>1. i \in DOMAIN q /\ i + 1 \in DOMAIN q /\ i < i + 1
    BY <1>3
  <2>2. <<q[i], q[i + 1]>> \in Earlier(dict)
    BY <2>1 DEF Lists
  <2>3. QED
    BY <2>1, <2>2, <1>3, EarlierOrders
<1>5. QED
  BY <1>1, <1>2, <1>4 DEF Lists, InOrder

LEMMA InvOrdered ==
  ASSUME TreeInv
  PROVE  TreesOrdered
<1>1. CASE ~Searching
  <2>1. PICK u : /\ Forest(Nodes(dict), Earlier(dict), LoOf(dict, 0), HiOf(dict, 0), u)
                 /\ dict.Root \in Nodes(dict) \cup {0} /\ Below(u, dict.Root) = Nodes(dict)
    BY <1>1 DEF TreeInv, Whole
  <2>2. Lists(Walk(dict), Nodes(dict), Nodes(dict), Earlier(dict))
    BY <2>1, WalkLists DEF TreeInv, Walk
  <2>3. QED
    BY <1>1, <2>2, ListsAll DEF TreeInv, TreesOrdered
<1>2. CASE Searching
  <2> DEFINE d == dict
             s == search
             le == s.low[1]
             he == s.high[1]
             e == WriteSlot(d, s.low, 0)
             S == Nodes(d)
             R == Earlier(d)
             lr == LowRoot(d, le)
             hr == HighRoot(d, he)
             k == s.Look
  <2>1. PICK u : Taken(d, s, u)
    BY <1>2 DEF TreeInv
  <2>2. /\ IsTree(d) /\ le \in S \cup {0} /\ he \in S \cup {0}
        /\ s.low = LowSlot(le) /\ s.high = HighSlot(he)
    BY <1>2 DEF TreeInv, IsSearch
  <2>3. Parts(S, R, LoOf(d, he), HiOf(d, le), u, lr, k, hr, le, he)
    BY <2>1 DEF Taken
  <2>4. /\ SameWords(d, e) /\ e.HighHeld = d.HighHeld
        /\ e.LowHeld = IF le = 0 THEN 0 ELSE d.LowHeld
        /\ \A n \in S : /\ e.node[n].Lower = d.node[n].Lower
                        /\ e.node[n].Higher = IF n = le THEN 0 ELSE d.node[n].Higher
    <3>1. e = WriteSlot(d, LowSlot(le), 0)
      BY <2>2
    <3> HIDE DEF e, le, d
    <3>2. QED
      BY <2>2, <3>1, WriteLow
  <2>5. Nodes(e) = S /\ Earlier(e) = R /\ IsTree(e)
    <3> HIDE DEF e, d
    <3>1. QED
      BY <2>2, <2>4, SameOrder DEF SameWords
  <2>6. Cut = WriteSlot(e, HighSlot(he), 0)
    BY <2>2 DEF Cut
  <2> HIDE DEF e, d, s
  <2>7. /\ SameWords(e, Cut) /\ Cut.LowHeld = e.LowHeld
        /\ Cut.HighHeld = IF he = 0 THEN 0 ELSE e.HighHeld
        /\ \A n \in S : /\ Cut.node[n].Higher = e.node[n].Higher
                        /\ Cut.node[n].Lower = IF n = he THEN 0 ELSE e.node[n].Lower
    <3> HIDE DEF he
    <3>1. QED
      BY <2>2, <2>5, <2>6, WriteHigh
  <2>8. Nodes(Cut) = S /\ Earlier(Cut) = R /\ IsTree(Cut)
    BY <2>5, <2>7, SameOrder DEF SameWords
  <2>9. Cut.LowHeld = lr /\ Cut.HighHeld = hr
    BY <2>4, <2>7 DEF LowRoot, HighRoot
  <2>10. LoOf(Cut, 0) = LoOf(d, he) /\ HiOf(Cut, 0) = HiOf(d, le)
    <3>1. \A n \in S : n # 0
      BY DEF Nodes
    <3>2. /\ \A n \in S : Cut.node[n].Lower = IF n = he THEN 0 ELSE d.node[n].Lower
          /\ \A n \in S : Cut.node[n].Higher = IF n = le THEN 0 ELSE d.node[n].Higher
      BY <2>4, <2>7
    <3> HIDE DEF S, he, le
    <3>3. QED
      BY <2>8, <3>1, <3>2 DEF LoOf, HiOf, S
  <2> HIDE DEF le, he, S, R, lr, hr, k
  <2>11. Orders(R, S) /\ IsFiniteSet(S)
    <3>1. Orders(R, S)
      BY <2>2, EarlierOrders DEF R, S
    <3>2. IsFiniteSet(1 .. Len(d.node))
      <4>1. Len(d.node) \in Int /\ 1 \in Int
        BY <2>2 DEF IsTree
      <4>2. QED
        BY <4>1, FS_Interval
    <3>3. QED
      BY <3>1, <3>2 DEF S, Nodes
  <2>12. /\ Forest(S, R, LoOf(d, he), HiOf(d, le), u)
         /\ lr \in S \cup {0} /\ k \in S \cup {0} /\ hr \in S \cup {0}
         /\ Below(u, lr) \cup Below(u, k) \cup Below(u, hr) = S
         /\ Before(R, Below(u, lr), Below(u, k))
         /\ Before(R, Below(u, lr), Below(u, hr))
         /\ Before(R, Below(u, k), Below(u, hr))
    BY <2>3 DEF Parts
  <2>13. \A p \in S \cup {0} : Lists(Walk2(Cut, p), Below(u, p), S, R)
    BY <2>8, <2>10, <2>12, WalkLists
  <2>14. /\ Lists(LowSide, Below(u, lr), S, R)
         /\ Lists(Looked, Below(u, k), S, R)
         /\ Lists(HighSide, Below(u, hr), S, R)
    BY <2>9, <2>12, <2>13 DEF LowSide, HighSide, Looked, k, s
  <2> DEFINE A == Below(u, lr)
             B == Below(u, k)
             C == Below(u, hr)
  <2>15. A \subseteq S /\ B \subseteq S /\ C \subseteq S /\ A \cup B \subseteq S /\ (A \cup B) \cup C = S
         /\ Before(R, A \cup B, C)
    BY <2>12 DEF Before
  <2>16. Lists(LowSide \o Looked, A \cup B, S, R)
    BY <2>11, <2>12, <2>14, <2>15, ListsJoined
  <2>17. Lists((LowSide \o Looked) \o HighSide, S, S, R)
    <3> DEFINE D == A \cup B
               q == LowSide \o Looked
    <3>1. Lists(q, D, S, R) /\ D \subseteq S /\ Before(R, D, C) /\ D \cup C = S
      BY <2>15, <2>16
    <3> HIDE DEF D, q
    <3>2. Lists(q \o HighSide, D \cup C, S, R)
      BY <3>1, <2>11, <2>14, <2>15, ListsJoined
    <3>3. QED
      BY <3>1, <3>2 DEF q
  <2>18. Lists(LowSide \o Looked \o HighSide, Nodes(dict), Nodes(dict), Earlier(dict))
    BY <2>17 DEF S, R, d
  <2>19. /\ \A n \in A : IsIt(dict.node[n].word, search.word) < 0
         /\ \A n \in C : IsIt(dict.node[n].word, search.word) > 0
    BY <2>1 DEF Taken, lr, hr, le, he, d, s
  <2>20. (\A i \in DOMAIN LowSide : LowSide[i] \in A) /\ (\A i \in DOMAIN HighSide : HighSide[i] \in C)
    BY <2>14 DEF Lists
  <2>21. IsTree(dict)
    BY <2>2 DEF d
  <2> HIDE DEF A, B, C
  <2>22. QED
    BY <1>2, <2>18, <2>19, <2>20, <2>21, ListsAll DEF TreesOrdered
<1>3. QED
  BY <1>1, <1>2

-----------------------------------------------------------------------------
(* The steps. *)

\* e has the tree of d.
SameTree(d, e) ==
  /\ SameWords(d, e) /\ e.Root = d.Root
  /\ \A n \in Nodes(d) : e.node[n].Lower = d.node[n].Lower /\ e.node[n].Higher = d.node[n].Higher

LEMMA SameWhole ==
  ASSUME NEW d, NEW e, IsTree(d), Whole(d), SameTree(d, e)
  PROVE  IsTree(e) /\ Whole(e)
<1>1. Nodes(e) = Nodes(d) /\ Earlier(e) = Earlier(d)
  BY SameOrder DEF SameTree
<1>2. LoOf(e, 0) = LoOf(d, 0) /\ HiOf(e, 0) = HiOf(d, 0)
  BY <1>1 DEF SameTree, LoOf, HiOf
<1>3. QED
  BY <1>1, <1>2 DEF Whole, SameTree, SameWords

\* r is a node as g as far as the tree is concerned.
Kin(g, r) == IsNode(r) /\ r.word = g.word /\ r.Lower = g.Lower /\ r.Higher = g.Higher

LEMMA KinFields ==
  ASSUME NEW g, NEW x, IsNode(g)
  PROVE  /\ Kin(g, [g EXCEPT !.Prod = x]) /\ Kin(g, [g EXCEPT !.ProdPos = x])
         /\ Kin(g, [g EXCEPT !.Temp = x])
         /\ Kin(g, [g EXCEPT !.Hatch = x]) /\ Kin(g, [g EXCEPT !.IsExit = x])
         /\ Kin(g, [g EXCEPT !.IsMsg = x]) /\ Kin(g, [g EXCEPT !.Num = x])
<1> DEFINE all(prod, temp, hatch, exit, pos, msg, num) ==
             [word |-> g.word, Lower |-> g.Lower, Higher |-> g.Higher, Prod |-> prod,
              Temp |-> temp, Hatch |-> hatch, IsExit |-> exit,
              IsMsg |-> msg, ProdPos |-> pos, Num |-> num]
<1>1. g = all(g.Prod, g.Temp, g.Hatch, g.IsExit, g.ProdPos, g.IsMsg, g.Num) /\ g.word \in Words
  BY DEF IsNode
<1>2. ASSUME NEW a, NEW b, NEW c, NEW e, NEW f, NEW m, NEW n
      PROVE  Kin(g, all(a, b, c, e, f, m, n))
  <2> DEFINE r == all(a, b, c, e, f, m, n)
  <2>1. r.word = g.word /\ r.Lower = g.Lower /\ r.Higher = g.Higher
    OBVIOUS
  <2>2. r = [word |-> r.word, Lower |-> r.Lower, Higher |-> r.Higher, Prod |-> r.Prod,
             Temp |-> r.Temp, Hatch |-> r.Hatch, IsExit |-> r.IsExit,
             IsMsg |-> r.IsMsg, ProdPos |-> r.ProdPos, Num |-> r.Num]
    OBVIOUS
  <2> HIDE DEF r
  <2>3. QED
    BY <1>1, <2>1, <2>2 DEF Kin, IsNode
<1>3. [g EXCEPT !.Prod = x] = all(x, g.Temp, g.Hatch, g.IsExit, g.ProdPos, g.IsMsg, g.Num)
  BY <1>1
<1>4. [g EXCEPT !.Temp = x] = all(g.Prod, x, g.Hatch, g.IsExit, g.ProdPos, g.IsMsg, g.Num)
  BY <1>1
<1>5. [g EXCEPT !.Hatch = x] = all(g.Prod, g.Temp, x, g.IsExit, g.ProdPos, g.IsMsg, g.Num)
  BY <1>1
<1>6. [g EXCEPT !.IsExit = x] = all(g.Prod, g.Temp, g.Hatch, x, g.ProdPos, g.IsMsg, g.Num)
  BY <1>1
<1>7. [g EXCEPT !.ProdPos = x] = all(g.Prod, g.Temp, g.Hatch, g.IsExit, x, g.IsMsg, g.Num)
  BY <1>1
<1>8. [g EXCEPT !.IsMsg = x] = all(g.Prod, g.Temp, g.Hatch, g.IsExit, g.ProdPos, x, g.Num)
  BY <1>1
<1>9. [g EXCEPT !.Num = x] = all(g.Prod, g.Temp, g.Hatch, g.IsExit, g.ProdPos, g.IsMsg, x)
  BY <1>1
<1> HIDE DEF all
<1>10. QED
  BY <1>2, <1>3, <1>4, <1>5, <1>6, <1>7, <1>8, <1>9

\* A node is replaced by such a one.
Mark(d, n, r) == [d EXCEPT !.node[n] = r]

LEMMA Marked ==
  ASSUME NEW d, NEW n, NEW r, IsTree(d), n \in Nodes(d) => Kin(d.node[n], r)
  PROVE  SameTree(d, Mark(d, n, r))
<1>1. CASE n \in Nodes(d)
  <2>1. /\ IsTree(Mark(d, n, r)) /\ Len(Mark(d, n, r).node) = Len(d.node)
        /\ Mark(d, n, r).node = [d.node EXCEPT ![n] = r]
    BY <1>1, PutNode DEF Mark, Kin
  <2>2. Mark(d, n, r).Root = d.Root
    BY DEF IsTree, Mark
  <2>3. \A m \in Nodes(d) : [d.node EXCEPT ![n] = r][m] = IF m = n THEN r ELSE d.node[m]
    BY DEF IsTree
  <2>4. QED
    BY <1>1, <2>1, <2>2, <2>3 DEF SameTree, SameWords, Kin
<1>2. CASE n \notin Nodes(d)
  <2>1. [d.node EXCEPT ![n] = r] = d.node
    BY <1>2 DEF IsTree
  <2>2. Mark(d, n, r) = [d EXCEPT !.node = [d.node EXCEPT ![n] = r]]
    BY DEF Mark
  <2>3. Mark(d, n, r) = d
    BY <2>1, <2>2 DEF IsTree
  <2>4. QED
    BY <2>3 DEF SameTree, SameWords
<1>3. QED
  BY <1>1, <1>2

LEMMA SameTreeTwice ==
  ASSUME NEW d, NEW e, NEW f, SameTree(d, e), SameTree(e, f)
  PROVE  SameTree(d, f)
<1>1. Nodes(e) = Nodes(d)
  BY DEF SameTree, SameWords, Nodes
<1>2. QED
  BY <1>1 DEF SameTree, SameWords

\* A search begins: what is to be looked at is the whole tree.
LEMMA Begun ==
  ASSUME NEW d, NEW w, IsTree(d), Whole(d), w \in Words
  PROVE  /\ IsSearch(d, Begin(d, w)) /\ \E u : Taken(d, Begin(d, w), u)
         /\ Begin(d, w) # NoSearch
<1> DEFINE s == Begin(d, w)
<1>1. /\ DOMAIN s = {"word", "Look", "low", "high"} /\ s.word = w /\ s.Look = d.Root
      /\ s.low = NoSearch.low /\ s.high = NoSearch.high
  <2>1. DOMAIN NoSearch = {"word", "Look", "low", "high"}
    BY DEF NoSearch
  <2>2. QED
    BY <2>1 DEF Begin
<1> HIDE DEF s
<1>2. /\ s.low = <<0, "LowHeld">> /\ s.high = <<0, "HighHeld">>
      /\ s.low[1] = 0 /\ s.high[1] = 0
  BY <1>1 DEF NoSearch, HeadSlot
<1>3. IsSearch(d, s)
  <2>1. LowSlot(0) = <<0, "LowHeld">> /\ HighSlot(0) = <<0, "HighHeld">>
    BY DEF LowSlot, HighSlot, HeadSlot
  <2>2. QED
    BY <1>1, <1>2, <2>1 DEF IsSearch
<1>4. PICK u : /\ Forest(Nodes(d), Earlier(d), LoOf(d, 0), HiOf(d, 0), u)
               /\ d.Root \in Nodes(d) \cup {0} /\ Below(u, d.Root) = Nodes(d)
  BY DEF Whole
<1>5. Below(u, 0) = {} /\ LowRoot(d, 0) = 0 /\ HighRoot(d, 0) = 0
  BY DEF Below, LowRoot, HighRoot
<1>6. Parts(Nodes(d), Earlier(d), LoOf(d, 0), HiOf(d, 0), u, 0, d.Root, 0, 0, 0)
  BY <1>4, <1>5 DEF Parts, Before, Ends
<1>7. Taken(d, s, u)
  BY <1>1, <1>2, <1>5, <1>6 DEF Taken
<1>8. s # NoSearch
  <2>1. w # ""
    BY WordsAssumption DEF WordsAssumption
  <2>2. NoSearch.word = ""
    BY DEF NoSearch
  <2>3. QED
    BY <1>1, <2>1, <2>2
<1>9. QED
  BY <1>3, <1>7, <1>8 DEF s

LEMMA Start == Init => TreeInv
<1> SUFFICES ASSUME Init PROVE TreeInv
  OBVIOUS
<1>1. dict = [Root |-> 0, LowHeld |-> 0, HighHeld |-> 0, node |-> <<>>]
  BY DEF Init, EmptyTree
<1>2. dict.Root = 0 /\ dict.LowHeld = 0 /\ dict.HighHeld = 0 /\ dict.node = <<>>
  BY <1>1
<1>3. Len(dict.node) = 0 /\ Nodes(dict) = {} /\ dict.node = [n \in {} |-> dict.node[n]]
  BY <1>2 DEF Nodes
<1>4. IsTree(dict)
  BY <1>1, <1>2, <1>3 DEF IsTree
<1>5. Whole(dict)
  <2> DEFINE u == [n \in {} |-> {}]
  <2>1. Forest(Nodes(dict), Earlier(dict), LoOf(dict, 0), HiOf(dict, 0), u)
    BY <1>3 DEF Forest, LoOf, HiOf
  <2>2. Below(u, dict.Root) = Nodes(dict)
    BY <1>2, <1>3 DEF Below
  <2> HIDE DEF u
  <2>3. QED
    BY <1>2, <2>1, <2>2 DEF Whole
<1>6. input \in Grammars /\ at \in Nat \ {0} /\ named \in Seq(Nat) /\ ~Searching
  BY DEF Init, Searching
<1>7. QED
  BY <1>4, <1>5, <1>6 DEF TreeInv

\* A step that leaves the dictionary alone.
LEMMA Kept ==
  ASSUME TreeInv, dict' = dict, search' = search, input' = input, named' = named, at' \in {at, at + 1}
  PROVE  TreeInv'
<1>1. at' \in Nat \ {0}
  BY DEF TreeInv
<1>2. QED
  BY <1>1 DEF TreeInv, Searching

\* A step that leaves the tree alone, between two calls of LookUp.
LEMMA KeptTree ==
  ASSUME TreeInv, SameTree(dict, dict'), ~Searching, search' = search,
         input' = input, at' = at, named' = named
  PROVE  TreeInv'
<1>1. IsTree(dict) /\ Whole(dict)
  BY DEF TreeInv
<1>2. IsTree(dict') /\ Whole(dict')
  BY <1>1, SameWhole
<1>3. ~Searching'
  BY DEF Searching
<1>4. QED
  BY <1>2, <1>3 DEF TreeInv

\* LookUp is called.
LEMMA Called ==
  ASSUME TreeInv, ~Searching, NEW w \in Words, search' = Begin(dict, w), dict' = dict,
         input' = input, at' \in {at, at + 1}, named' = named
  PROVE  TreeInv'
<1>1. IsTree(dict) /\ Whole(dict)
  BY DEF TreeInv
<1>2. IsSearch(dict, search') /\ (\E u : Taken(dict, search', u)) /\ search' # NoSearch
  BY <1>1, Begun
<1>3. at' \in Nat \ {0}
  BY DEF TreeInv
<1>4. QED
  BY <1>1, <1>2, <1>3 DEF TreeInv, Searching

\* LookUp returns.
LEMMA Returned ==
  ASSUME TreeInv
  PROVE  \A d, n : IsTree(d) /\ Whole(d) /\ n \in Nodes(d) /\ Return(d, n) => TreeInv'
<1> SUFFICES ASSUME NEW d, NEW n, IsTree(d), Whole(d), n \in Nodes(d), Return(d, n)
             PROVE  TreeInv'
  OBVIOUS
<1>1. ~Searching' /\ input' = input /\ at' = at
  BY DEF Return, Searching, reading
<1>2. n \in Nat /\ IsNode(d.node[n])
  BY DEF Nodes, IsTree
<1>3. SameTree(d, dict')
  <2>1. CASE wanted /\ input[at - 1].kind = "word"
    <3> DEFINE x == d.node[n].Hatch \/ TrapReduce
               y == d.node[n].word \in Dotted
               r == [d.node[n] EXCEPT !.Hatch = x]
               e == Mark(d, n, r)
               q == [e.node[n] EXCEPT !.IsExit = d.node[n].IsExit \/ y]
    <3>1. dict' = [d EXCEPT !.node[n].Hatch = @ \/ TrapReduce, !.node[n].IsExit = @ \/ y]
      BY <2>1 DEF Return, FinishWord
    <3>2. dict' = [[d EXCEPT !.node[n].Hatch = x] EXCEPT !.node[n].IsExit = d.node[n].IsExit \/ y]
      <4> HIDE DEF y
      <4>1. QED
        BY <3>1
    <3>3. dict' = Mark(e, n, q)
      <4> HIDE DEF y
      <4>1. e = [d EXCEPT !.node[n].Hatch = x]
        BY DEF Mark
      <4> HIDE DEF e
      <4>2. QED
        BY <3>2, <4>1 DEF Mark
    <3>4. SameTree(d, e) /\ IsTree(e) /\ Nodes(e) = Nodes(d)
      <4>1. Kin(d.node[n], r)
        BY <1>2, KinFields
      <4> HIDE DEF r
      <4>2. SameTree(d, e)
        BY <4>1, Marked
      <4>3. QED
        BY <4>2 DEF SameTree, SameWords, Nodes
    <3>5. Kin(e.node[n], q)
      <4> HIDE DEF e
      <4>1. IsNode(e.node[n])
        BY <3>4 DEF IsTree
      <4>2. QED
        BY <4>1, KinFields
    <3> HIDE DEF e, q
    <3>6. SameTree(e, dict')
      BY <3>3, <3>4, <3>5, Marked
    <3>7. QED
      BY <3>4, <3>6, SameTreeTwice
  <2>2. CASE wanted /\ input[at - 1].kind # "word"
    BY <2>2 DEF Return, FinishQuoted, SameTree, SameWords
  <2>3. CASE ~wanted
    <3> DEFINE r == [d.node[n] EXCEPT !.Temp = TRUE]
    <3>1. dict' = Mark(d, n, r)
      BY <2>3 DEF Return, FinishName, Mark
    <3>2. Kin(d.node[n], r)
      BY <1>2, KinFields
    <3> HIDE DEF r
    <3>3. QED
      BY <3>1, <3>2, Marked
  <2>4. QED
    BY <2>1, <2>2, <2>3
<1>4. IsTree(dict') /\ Whole(dict')
  BY <1>3, SameWhole
<1>5. named' \in Seq(Nat)
  <2>1. named \in Seq(Nat)
    BY DEF TreeInv
  <2>2. named' = named \/ named' = Append(named, n)
    BY DEF Return, FinishName
  <2>3. QED
    BY <1>2, <2>1, <2>2
<1>6. QED
  BY <1>1, <1>4, <1>5 DEF TreeInv

\* Every node is replaced by such a one.
LEMMA Renumbered ==
  ASSUME NEW d, NEW f, NEW e, NEW R, IsTree(d), e = [d EXCEPT !.node = f],
         f \in [Nodes(d) -> R],
         \A n \in Nodes(d) : Kin(d.node[n], f[n])
  PROVE  SameTree(d, e)
<1>1. /\ e = [Root |-> d.Root, LowHeld |-> d.LowHeld, HighHeld |-> d.HighHeld, node |-> f]
      /\ e.node = f /\ e.Root = d.Root
  BY DEF IsTree
<1>2. f \in Seq(R) /\ Len(f) = Len(d.node)
  <2>1. Len(d.node) \in Nat /\ f \in [1 .. Len(d.node) -> R]
    BY DEF IsTree, Nodes
  <2>2. QED
    BY <2>1
<1>3. Nodes(e) = Nodes(d)
  BY <1>1, <1>2 DEF Nodes
<1>4. IsTree(e)
  BY <1>1, <1>2, <1>3 DEF IsTree, Kin
<1>5. QED
  BY <1>1, <1>2, <1>3, <1>4 DEF SameTree, SameWords, Kin

LEMMA CountKeeps ==
  ASSUME TreeInv, CountThem
  PROVE  SameTree(dict, dict')
<1> DEFINE f == [n \in DOMAIN dict.node |-> Numbered(n)]
<1>1. IsTree(dict) /\ DOMAIN dict.node = Nodes(dict)
  BY DEF TreeInv, IsTree
<1>2. dict' = [dict EXCEPT !.node = f]
  BY DEF CountThem
<1>3. ASSUME NEW n \in Nodes(dict) PROVE Kin(dict.node[n], Numbered(n))
  <2> DEFINE g == dict.node[n]
             num == Number(n)
             msg == IsMessage(n)
             x == g.IsExit /\ ~msg
             a == [g EXCEPT !.Num = num]
             b == [a EXCEPT !.IsMsg = msg]
             c == [b EXCEPT !.IsExit = x]
  <2>1. IsNode(g)
    BY <1>1 DEF IsTree
  <2>2. Numbered(n) = c
    <3> HIDE DEF num, msg, g
    <3>1. [g EXCEPT !.Num = num, !.IsMsg = msg, !.IsExit = @ /\ ~msg] = c
      OBVIOUS
    <3>2. QED
      BY <3>1 DEF g, num, msg, Numbered
  <2> HIDE DEF num, msg, x, g
  <2>3. Kin(g, a)
    BY <2>1, KinFields
  <2> HIDE DEF a
  <2>4. Kin(a, b)
    BY <2>3, KinFields DEF Kin
  <2> HIDE DEF b
  <2>5. Kin(b, c)
    BY <2>4, KinFields DEF Kin
  <2> HIDE DEF c
  <2>6. QED
    BY <2>2, <2>3, <2>4, <2>5 DEF Kin, g
<1>4. f \in [Nodes(dict) -> {f[n] : n \in Nodes(dict)}]
  BY <1>1
<1>5. \A n \in Nodes(dict) : Kin(dict.node[n], f[n])
  BY <1>1, <1>3
<1> HIDE DEF f
<1>6. QED
  BY <1>1, <1>2, <1>4, <1>5, Renumbered
LEMMA LhsKeeps ==
  ASSUME TreeInv, Lhs
  PROVE  SameTree(dict, dict')
<1>1. IsTree(dict)
  BY DEF TreeInv
<1>2. CASE dict' = dict
  BY <1>1, <1>2 DEF SameTree, SameWords
<1>3. CASE dict' # dict
  <2> DEFINE n == Token
             x == IF dict.node[n].ProdPos = 0 THEN Len(Text) ELSE dict.node[n].ProdPos
             r == [dict.node[n] EXCEPT !.Prod = TRUE]
             e == Mark(dict, n, r)
             q == [e.node[n] EXCEPT !.ProdPos = x]
  <2>1. dict' = [dict EXCEPT !.node[n].Prod = TRUE,
                             !.node[n].ProdPos = IF @ = 0 THEN Len(Text) ELSE @]
    BY <1>3 DEF Lhs
  <2>2. dict' = [[dict EXCEPT !.node[n].Prod = TRUE] EXCEPT !.node[n].ProdPos = x]
    BY <2>1
  <2>3. dict' = Mark(e, n, q)
    <3>1. e = [dict EXCEPT !.node[n].Prod = TRUE]
      BY DEF Mark
    <3> HIDE DEF e
    <3>2. QED
      BY <2>2, <3>1 DEF Mark
  <2>4. SameTree(dict, e) /\ IsTree(e) /\ Nodes(e) = Nodes(dict)
    <3>1. n \in Nodes(dict) => Kin(dict.node[n], r)
      <4>1. n \in Nodes(dict) => IsNode(dict.node[n])
        BY <1>1 DEF IsTree
      <4>2. QED
        BY <4>1, KinFields
    <3> HIDE DEF r
    <3>2. SameTree(dict, e)
      BY <1>1, <3>1, Marked
    <3>3. QED
      BY <3>2 DEF SameTree, SameWords, Nodes
  <2>5. n \in Nodes(e) => Kin(e.node[n], q)
    <3> HIDE DEF e
    <3>1. n \in Nodes(e) => IsNode(e.node[n])
      BY <2>4 DEF IsTree
    <3>2. QED
      BY <3>1, KinFields
  <2> HIDE DEF e, q
  <2>6. SameTree(e, dict')
    BY <2>3, <2>4, <2>5, Marked
  <2>7. QED
    BY <2>4, <2>6, SameTreeTwice
<1>4. QED
  BY <1>2, <1>3

\* One turn of LookUp's loop.
LEMMA Turned ==
  ASSUME TreeInv, Probe
  PROVE  TreeInv'
<1>1. Searching /\ search.Look # 0 /\ IsTree(dict) /\ IsSearch(dict, search)
  BY DEF Probe, TreeInv
<1>2. PICK u : Taken(dict, search, u)
  BY <1>1 DEF TreeInv
<1> DEFINE order == IsIt(dict.node[search.Look].word, search.word)
<1>3. order \in {-1, 1}
  <2>1. search.Look \in Nodes(dict)
    BY <1>1, <1>2 DEF Taken, Parts
  <2>2. dict.node[search.Look].word \in Words /\ search.word \in Words
    BY <1>1, <2>1 DEF IsTree, IsNode, IsSearch
  <2>3. order # 0
    BY DEF Probe
  <2>4. QED
    BY <2>2, <2>3, Comparing
<1>4. IsTree(dict') /\ IsSearch(dict', search') /\ \E v : Taken(dict', search', v)
  <2>1. CASE order < 0
    <3>1. dict' = ProbeLow(dict, search)[1] /\ search' = ProbeLow(dict, search)[2]
      BY <2>1 DEF Probe
    <3>2. QED
      BY <1>1, <1>2, <2>1, <3>1, LowTurn
  <2>2. CASE order > 0
    <3>1. dict' = ProbeHigh(dict, search)[1] /\ search' = ProbeHigh(dict, search)[2]
      BY <1>3, <2>2 DEF Probe
    <3>2. QED
      BY <1>1, <1>2, <2>2, <3>1, HighTurn
  <2> HIDE DEF order
  <2>3. QED
    BY <1>3, <2>1, <2>2
<1>5. search' # NoSearch
  <2>1. search'.word \in Words /\ "" \notin Words
    BY <1>4, WordsAssumption DEF IsSearch, WordsAssumption
  <2>2. NoSearch.word = ""
    BY DEF NoSearch
  <2>3. QED
    BY <2>1, <2>2
<1>6. input' = input /\ at' = at /\ named' = named
  BY DEF Probe, reading, scanner, results
<1>7. QED
  BY <1>4, <1>5, <1>6 DEF TreeInv, Searching

LEMMA FoundKeeps ==
  ASSUME TreeInv, FindIt
  PROVE  TreeInv'
<1>1. Searching /\ search.Look # 0 /\ IsTree(dict) /\ IsSearch(dict, search)
  BY DEF FindIt, TreeInv
<1>2. PICK u : Taken(dict, search, u)
  BY <1>1 DEF TreeInv
<1>3. dict.node[search.Look].word = search.word /\ Return(Found(dict, search), search.Look)
  BY DEF FindIt
<1>4. /\ SameWords(dict, Found(dict, search)) /\ Whole(Found(dict, search))
      /\ search.Look \in Nodes(dict)
  BY <1>1, <1>2, <1>3, FoundWhole
<1>5. IsTree(Found(dict, search)) /\ search.Look \in Nodes(Found(dict, search))
  BY <1>4 DEF SameWords, Nodes
<1>6. QED
  BY <1>3, <1>4, <1>5, Returned

LEMMA MadeKeeps ==
  ASSUME TreeInv, MakeIt
  PROVE  TreeInv'
<1>1. Searching /\ search.Look = 0 /\ IsTree(dict) /\ IsSearch(dict, search)
  BY DEF MakeIt, TreeInv
<1>2. PICK u : Taken(dict, search, u)
  BY <1>1 DEF TreeInv
<1>3. Return(Make(dict, search), Make(dict, search).Root)
  BY DEF MakeIt
<1>4. /\ IsTree(Make(dict, search)) /\ Whole(Make(dict, search))
      /\ Make(dict, search).Root \in Nodes(Make(dict, search))
  BY <1>1, <1>2, MadeWhole
<1>5. QED
  BY <1>3, <1>4, Returned

LEMMA InputTyped ==
  \A g \in Grammars :
    /\ g \in Seq([kind : Kinds, text : STRING])
    /\ \A i \in DOMAIN g : g[i].kind \in {"word", "quoted"} => g[i].text \in Words
    /\ \A i \in DOMAIN g : g[i].kind = "sign" => \E k \in DOMAIN Special : Special[k] = g[i].text
BY ReadInAssumption DEF ReadInAssumption

LEMMA SymbolTaken ==
  ASSUME TreeInv, TakeSymbol
  PROVE  TreeInv'
<1>1. ~Searching /\ Lexeme.kind \in {"word", "quoted"}
  BY DEF TakeSymbol, Scanning
<1>2. at <= Len(input) /\ Lexeme = input[at]
  BY <1>1 DEF Lexeme
<1>3. /\ input \in Seq([kind : Kinds, text : STRING])
      /\ \A i \in DOMAIN input : input[i].kind \in {"word", "quoted"} => input[i].text \in Words
  BY InputTyped DEF TreeInv
<1>4. at \in DOMAIN input
  BY <1>2, <1>3 DEF TreeInv
<1>5. Lexeme.text \in Words
  BY <1>1, <1>2, <1>3, <1>4
<1>6. /\ search' = Begin(dict, Lexeme.text) /\ dict' = dict /\ input' = input
      /\ at' = at + 1 /\ named' = named
  BY DEF TakeSymbol, reading, results
<1>7. QED
  BY <1>1, <1>5, <1>6, Called

LEMMA NameAsked ==
  ASSUME TreeInv, NewName
  PROVE  TreeInv'
<1>1. ~Searching /\ Len(named) < Len(Names)
  BY DEF NewName, Parsing
<1>2. Names \in Seq(Words) /\ Len(named) \in Nat /\ Len(Names) \in Nat
  BY ReadInAssumption DEF TreeInv, ReadInAssumption
<1>3. Len(named) + 1 \in 1 .. Len(Names)
  BY <1>1, <1>2
<1>4. Names[Len(named) + 1] \in Words
  BY <1>2, <1>3
<1>5. /\ search' = Begin(dict, Names[Len(named) + 1]) /\ dict' = dict /\ input' = input
      /\ at' = at /\ named' = named
  BY DEF NewName, reading, scanner, results
<1>6. QED
  BY <1>1, <1>4, <1>5, Called

\* The actions of the scanner and of the parser that leave the tree alone.
Aside ==
  \/ Skip \/ TakeSign \/ TakeNul \/ TakeHeld \/ TakeOdd
  \/ Bnf \/ AssignSign \/ Rhs \/ Prim \/ AfterPrim \/ Cats \/ Ors
  \/ EndOfProduction \/ More

LEMMA AsideKept ==
  ASSUME Aside
  PROVE  /\ dict' = dict /\ search' = search /\ input' = input
         /\ named' = named /\ at' \in {at, at + 1}
<1>1. CASE Skip
  BY <1>1 DEF Skip, reading, results
<1>2. CASE TakeSign
  BY <1>2 DEF TakeSign, reading, results
<1>3. CASE TakeNul
  BY <1>3 DEF TakeNul, reading, results
<1>4. CASE TakeHeld
  BY <1>4 DEF TakeHeld, reading, results
<1>5. CASE TakeOdd
  BY <1>5 DEF TakeOdd, reading, scanner, results
<1>6. CASE Bnf
  BY <1>6 DEF Bnf, Unparsed, reading, scanner, results
<1>7. CASE AssignSign
  BY <1>7 DEF AssignSign, Unparsed, reading, scanner, results
<1>8. CASE Rhs
  BY <1>8 DEF Rhs, Unparsed, reading, scanner, results
<1>9. CASE Prim
  BY <1>9 DEF Prim, Unparsed, reading, scanner, results
<1>10. CASE AfterPrim
  BY <1>10 DEF AfterPrim, Unparsed, reading, scanner, results
<1>11. CASE Cats
  BY <1>11 DEF Cats, Unparsed, reading, scanner, results
<1>12. CASE Ors
  BY <1>12 DEF Ors, Unparsed, reading, scanner, results
<1>13. CASE EndOfProduction
  BY <1>13 DEF EndOfProduction, Unparsed, reading, scanner, results
<1>14. CASE More
  BY <1>14 DEF More, Unparsed, reading, scanner, results
<1>15. QED
  BY <1>1, <1>2, <1>3, <1>4, <1>5, <1>6, <1>7, <1>8, <1>9, <1>10, <1>11, <1>12, <1>13, <1>14
     DEF Aside

LEMMA Steps == TreeInv /\ [Next]_vars => TreeInv'
<1> SUFFICES ASSUME TreeInv, [Next]_vars PROVE TreeInv'
  OBVIOUS
<1>1. CASE Aside
  BY <1>1, AsideKept, Kept
<1>2. CASE TakeSymbol
  BY <1>2, SymbolTaken
<1>3. CASE Probe
  BY <1>3, Turned
<1>4. CASE FindIt
  BY <1>4, FoundKeeps
<1>5. CASE MakeIt
  BY <1>5, MadeKeeps
<1>6. CASE Lhs
  <2>1. SameTree(dict, dict')
    BY <1>6, LhsKeeps
  <2>2. ~Searching /\ search' = search /\ input' = input /\ at' = at /\ named' = named
    BY <1>6 DEF Lhs, Parsing, Unparsed, reading, scanner, results
  <2>3. QED
    BY <2>1, <2>2, KeptTree
<1>7. CASE CountThem
  <2>1. SameTree(dict, dict')
    BY <1>7, CountKeeps
  <2>2. ~Searching /\ search' = search /\ input' = input /\ at' = at /\ named' = named
    BY <1>7 DEF CountThem, Parsing, reading, scanner
  <2>3. QED
    BY <2>1, <2>2, KeptTree
<1>8. CASE NewName
  BY <1>8, NameAsked
<1>9. CASE UNCHANGED vars
  <2>1. dict' = dict /\ search' = search /\ input' = input /\ named' = named /\ at' = at
    BY <1>9 DEF vars, reading, scanner, results
  <2>2. QED
    BY <2>1, Kept
<1>10. QED
  BY <1>1, <1>2, <1>3, <1>4, <1>5, <1>6, <1>7, <1>8, <1>9 DEF Next, Aside

\* Between two calls of LookUp the dictionary is one search tree that has every
\* node, and between two turns of its loop three that share the nodes out, with
\* the slots that are trash the ends of the two sides.  This is what LookUp
\* (WAL.C) relies on at each turn.
THEOREM TreesHold == Spec => []TreeInv
<1>1. QED
  BY Start, Steps, PTL DEF Spec

\* No symbol is lost or gets two offsets, however the searches of ReadIn and of
\* NewName take the tree apart: it lists every node once, in the order of IsIt.
THEOREM TreesStayOrdered == Spec => []TreesOrdered
<1>1. TreeInv => TreesOrdered
  BY InvOrdered
<1>2. QED
  BY <1>1, TreesHold, PTL
=============================================================================
