---------------------------- MODULE WalletsProofs ----------------------------
(***************************************************************************)
(* Proofs about the wallets: IInv is inductive, so that for any number of  *)
(* wallets, of any sizes, the numbers that are handed out are free and the *)
(* contents of the wallets are kept.                                       *)
(***************************************************************************)
EXTENDS Wallets, FiniteSetTheorems, SequenceTheorems, TLAPS

-----------------------------------------------------------------------------
(* The operators. *)

\* How an array that grows and shrinks keeps what it has.
LEMMA ReallocFacts ==
  ASSUME NEW s \in Seq(Values), NEW n \in Nat
  PROVE  /\ Realloc(s, n) \in Seq(Values) /\ Len(Realloc(s, n)) = n
         /\ \A i \in 1 .. n : i <= Len(s) => Realloc(s, n)[i] = s[i]
<1>1. Len(s) \in Nat /\ \A i \in 1 .. Len(s) : s[i] \in Values
  OBVIOUS
<1>2. \A i \in 1 .. n : (IF i <= Len(s) THEN s[i] ELSE Clear) \in Values
  BY <1>1, WalletsAssumption
<1>3. QED
  BY <1>2 DEF Realloc

LEMMA NextNumber ==
  ASSUME NEW n \in Nat, NEW m \in Nat, n + 1 <= m, m > 0
  PROVE  (n + 1) % m = n + 1 \/ (n + 1) % m = 0
<1>1. CASE n + 1 = m
  BY <1>1
<1>2. CASE n + 1 < m
  BY <1>2
<1>3. QED
  BY <1>1, <1>2

LEMMA GrownType ==
  ASSUME NEW n \in Nat
  PROVE  Grown(n) \in 0 .. Modulus - 1
<1>1. n \div 4 \in Nat
  OBVIOUS
<1> DEFINE m == (n \div 4) + n + 1
<1>2. m \in Nat
  BY <1>1
<1> HIDE DEF m
<1>3. Modulus \in Nat /\ Modulus > 0
  BY WalletsAssumption
<1>4. m % Modulus \in 0 .. Modulus - 1
  BY <1>2, <1>3
<1>5. QED
  BY <1>4 DEF Grown, m

\* What WalletEx does to a wallet.
LEMMA WalletCheckFacts ==
  ASSUME NEW w \in Wallet
  PROVE  LET v == WalletCheck(w)
         IN  /\ v \in Wallet /\ v.Needs = w.Needs /\ v.Exact = w.Exact
             /\ ~w.Exact /\ w.Has < Modulus => v.Has < Modulus
             /\ \A i \in 1 .. Len(v.slots) : i <= Len(w.slots) => v.slots[i] = w.slots[i]
<1>1. /\ w.Has \in Nat /\ w.Needs \in Nat /\ w.Exact \in BOOLEAN /\ w.slots \in Seq(Values)
      /\ Len(w.slots) \in Nat
  BY DEF Wallet
<1>2. CASE ~(w.Has < w.Needs)
  BY <1>1, <1>2 DEF WalletCheck
<1>3. CASE w.Has < w.Needs
  <2> DEFINE h == NewHas(w)
  <2>1. h \in Nat /\ (~w.Exact => h < Modulus)
    <3>1. Grown(w.Needs) \in 0 .. Modulus - 1 /\ Modulus \in Nat
      BY <1>1, GrownType, WalletsAssumption
    <3>2. h = IF w.Exact THEN w.Needs ELSE Grown(w.Needs)
      BY DEF NewHas
    <3> HIDE DEF h
    <3>3. QED
      BY <1>1, <3>1, <3>2
  <2>2. WalletCheck(w) = [w EXCEPT !.Has = h, !.slots = Realloc(@, h)]
    BY <1>1, <1>3 DEF WalletCheck, WalletEx
  <2> HIDE DEF h
  <2> DEFINE v == [w EXCEPT !.Has = h, !.slots = Realloc(@, h)]
  <2>3. /\ v.Has = h /\ v.Needs = w.Needs /\ v.Exact = w.Exact /\ v.slots = Realloc(w.slots, h)
        /\ (Realloc(w.slots, h) \in Seq(Values) => v \in Wallet)
    BY <2>1 DEF Wallet
  <2>4. /\ Realloc(w.slots, h) \in Seq(Values) /\ Len(Realloc(w.slots, h)) = h
        /\ \A i \in 1 .. h : i <= Len(w.slots) => Realloc(w.slots, h)[i] = w.slots[i]
    BY <1>1, <2>1, ReallocFacts
  <2> HIDE DEF v
  <2>5. QED
    BY <2>1, <2>2, <2>3, <2>4 DEF v
<1>4. QED
  BY <1>2, <1>3

\* What is on the file of a wallet that has the slots it needs.
LEMMA ImageFacts ==
  ASSUME NEW w, NEW a \in Seq(Values), InMemory(w, a)
  PROVE  /\ Image(w) \in Seq(Values \cup Headers) /\ Len(Image(w)) = 1 + Len(a)
         /\ Image(w)[1] \in Headers /\ Image(w)[1].Needs = Len(a)
         /\ \A i \in 1 .. Len(a) : Image(w)[1 + i] = a[i]
<1> DEFINE used == [i \in 1 .. w.Needs |-> IF i <= Len(w.slots) THEN w.slots[i] ELSE Clear]
<1>1. /\ w \in Wallet /\ w.Needs = Len(a) /\ Len(a) <= Len(w.slots) /\ Len(a) \in Nat
      /\ w.slots \in Seq(Values) /\ Len(w.slots) \in Nat
      /\ \A i \in 1 .. Len(a) : w.slots[i] = a[i] /\ a[i] \in Values
  BY DEF InMemory, Wallet
<1>2. used \in Seq(Values) /\ Len(used) = Len(a) /\ \A i \in 1 .. Len(a) : used[i] = a[i]
  <2>1. \A i \in 1 .. Len(a) : used[i] = a[i] /\ used[i] \in Values
    BY <1>1
  <2>2. QED
    BY <1>1, <2>1
<1>3. Header(w) \in Headers /\ Header(w).Needs = Len(a)
  BY <1>1 DEF Header, Headers, Wallet
<1>4. Image(w) = <<Header(w)>> \o used
  BY DEF Image
<1> HIDE DEF used
<1> DEFINE h == <<Header(w)>>
<1>5. h \in Seq(Values \cup Headers) /\ Len(h) = 1 /\ h[1] = Header(w)
  BY <1>3
<1>6. used \in Seq(Values \cup Headers)
  <2>1. \A i \in 1 .. Len(used) : used[i] \in Values \cup Headers
    BY <1>2
  <2>2. QED
    BY <1>2, <2>1
<1> HIDE DEF h
<1>7. /\ h \o used \in Seq(Values \cup Headers) /\ Len(h \o used) = 1 + Len(a)
      /\ (h \o used)[1] = h[1]
      /\ \A i \in 1 .. Len(a) : (h \o used)[1 + i] = used[i]
  <2>1. /\ h \o used \in Seq(Values \cup Headers) /\ Len(h \o used) = Len(h) + Len(used)
        /\ \A i \in 1 .. Len(h) + Len(used) :
             (h \o used)[i] = IF i <= Len(h) THEN h[i] ELSE used[i - Len(h)]
    BY <1>5, <1>6, ConcatProperties
  <2>2. (h \o used)[1] = h[1]
    BY <1>1, <1>2, <1>5, <2>1
  <2>3. ASSUME NEW i \in 1 .. Len(a) PROVE (h \o used)[1 + i] = used[i]
    <3>1. 1 + i \in 1 .. Len(h) + Len(used) /\ ~(1 + i <= Len(h)) /\ (1 + i) - Len(h) = i
      BY <1>1, <1>2, <1>5
    <3>2. QED
      BY <2>1, <3>1
  <2>4. QED
    BY <1>2, <1>5, <2>1, <2>2, <2>3
<1>8. QED
  BY <1>2, <1>3, <1>4, <1>5, <1>7 DEF h

\* What can be in a cell of the file.
Cells == Values \cup Headers

\* What is written at the end of the file leaves the rest as it is.
LEMMA OverlayFacts ==
  ASSUME NEW f \in Seq(Cells), NEW cells \in Seq(Cells)
  PROVE  /\ Overlay(f, Len(f), cells) \in Seq(Cells)
         /\ Len(Overlay(f, Len(f), cells)) = Len(f) + Len(cells)
         /\ \A i \in 1 .. Len(f) : Overlay(f, Len(f), cells)[i] = f[i]
         /\ \A i \in 1 .. Len(cells) : Overlay(f, Len(f), cells)[Len(f) + i] = cells[i]
<1> DEFINE n == Len(f)
           m == Len(cells)
           g == [i \in 1 .. (n + m) |-> IF i \in n + 1 .. n + m THEN cells[i - n] ELSE f[i]]
<1>1. n \in Nat /\ m \in Nat /\ (\A i \in 1 .. n : f[i] \in Cells) /\ \A i \in 1 .. m : cells[i] \in Cells
  OBVIOUS
<1>2. Overlay(f, n, cells) = g
  <2>1. (IF n + m > n THEN n + m ELSE n) = n + m
    BY <1>1
  <2>2. QED
    BY <2>1 DEF Overlay
<1>3. \A i \in 1 .. (n + m) : (IF i \in n + 1 .. n + m THEN cells[i - n] ELSE f[i]) \in Cells
  <2> SUFFICES ASSUME NEW i \in 1 .. (n + m)
               PROVE  (IF i \in n + 1 .. n + m THEN cells[i - n] ELSE f[i]) \in Cells
    OBVIOUS
  <2>1. CASE i \in n + 1 .. n + m
    <3>1. i - n \in 1 .. m
      BY <1>1, <2>1
    <3>2. QED
      BY <1>1, <2>1, <3>1
  <2>2. CASE i \notin n + 1 .. n + m
    <3>1. i \in 1 .. n
      BY <1>1, <2>2
    <3>2. QED
      BY <1>1, <2>2, <3>1
  <2>3. QED
    BY <2>1, <2>2
<1>4. g \in Seq(Cells) /\ Len(g) = n + m
  BY <1>1, <1>3
<1>5. \A i \in 1 .. n : g[i] = f[i]
  BY <1>1
<1>6. \A i \in 1 .. m : g[n + i] = cells[i]
  <2> SUFFICES ASSUME NEW i \in 1 .. m PROVE g[n + i] = cells[i]
    OBVIOUS
  <2>1. n + i \in 1 .. (n + m) /\ n + i \in n + 1 .. n + m /\ (n + i) - n = i
    BY <1>1
  <2>2. QED
    BY <2>1
<1> HIDE DEF g
<1>7. QED
  BY <1>2, <1>4, <1>5, <1>6

\* No more different numbers than there are.
LEMMA Pigeonhole ==
  ASSUME NEW k \in Nat, NEW n \in Nat, NEW c \in [1 .. k -> 1 .. n],
         \A i, l \in 1 .. k : c[i] = c[l] => i = l
  PROVE  k <= n
<1>1. /\ IsFiniteSet(1 .. k) /\ Cardinality(1 .. k) = k
      /\ IsFiniteSet(1 .. n) /\ Cardinality(1 .. n) = n
  BY FS_Interval, 1 \in Int, k \in Int, n \in Int
<1>2. c \in Injection(1 .. k, 1 .. n)
  BY DEF Injection, IsInjective
<1>3. Cardinality(1 .. k) <= Cardinality(1 .. n)
  BY <1>1, <1>2, FS_Injection
<1>4. QED
  BY <1>1, <1>3

\* The places where a wallet of values can be.
LEMMA PlaceTypes ==
  ASSUME TypeOK
  PROVE  /\ Live = DOMAIN array /\ \A n \in Live : array[n] \in Seq(Values) /\ Len(array[n]) \in Nat
         /\ index.Needs \in Nat /\ index.Needs >= 1 /\ Modulus \in Nat /\ Modulus > 0 /\ MaxNumber \in Nat
         /\ Len(file) \in Nat /\ pos \in Nat
BY WalletsAssumption DEF TypeOK, Live

-----------------------------------------------------------------------------
(* The steps. *)

\* A number deleted comes off the chain, or the next number is new.
LEMMA NumberedStep ==
  ASSUME TypeOK, CallOK, PlacesOK, NumbersApart, ~harm,
         anchor # 0 \/ index.Needs <= MaxNumber,
         NEW exact \in BOOLEAN, Numbered(exact), ~harm'
  PROVE  (TypeOK /\ CallOK /\ PlacesOK /\ NumbersApart)'
<1> DEFINE N == index.Needs
<1>1. /\ N \in Nat /\ N >= 1 /\ N <= MaxNumber + 1 /\ MaxNumber \in Nat
      /\ DOMAIN p = 0 .. MaxNumber /\ DOMAIN array = Live /\ array \in [Live -> Seq(Values)]
      /\ Live \subseteq 1 .. N - 1
  BY PlaceTypes DEF TypeOK, NumbersApart
<1>0. PICK k \in 0 .. N - 1 : \E c \in [1 .. k -> 1 .. N - 1] : Chained(k, c)
  BY DEF NumbersApart
<1>2. PICK c \in [1 .. k -> 1 .. N - 1] : Chained(k, c)
  BY <1>0
<1>3. /\ \A i, l \in 1 .. k : c[i] = c[l] => i = l
      /\ anchor = IF k = 0 THEN 0 ELSE c[1]
      /\ \A i \in 1 .. k : u[c[i]] = IF i = k THEN 0 ELSE c[i + 1]
      /\ \A n \in 1 .. N - 1 : n \in Live <=> \A i \in 1 .. k : c[i] # n
  BY <1>2 DEF Chained
<1>4. k \in Nat /\ \A i \in 1 .. k : c[i] \in 1 .. N - 1
  BY <1>1
<1>5. Fresh(exact) \in Wallet /\ InMemory(Fresh(exact), <<>>) /\ Fresh(exact) # NULL
  <2>1. Fresh(exact) \in Wallet /\ Fresh(exact).Needs = 0 /\ Fresh(exact).slots = <<>>
    BY DEF Fresh, Wallet
  <2>2. QED
    BY <2>1, NullAssumption DEF InMemory
<1> SUFFICES ASSUME NEW n, n = IF anchor # 0 THEN anchor ELSE N
             PROVE  (TypeOK /\ CallOK /\ PlacesOK /\ NumbersApart)'
  OBVIOUS
<1>6. /\ p' = [p EXCEPT ![n] = Fresh(exact)]
      /\ array' = [m \in Live \cup {n} |-> IF m = n THEN <<>> ELSE array[m]]
      /\ call' = NULL /\ j' = 0 /\ UNCHANGED <<u, file, pos, accum, inGet>>
  BY DEF Numbered, spill
<1>7. Live' = Live \cup {n} /\ array' \in [Live' -> Seq(Values)]
  <2>1. Live' = Live \cup {n}
    BY <1>6 DEF Live
  <2>2. \A m \in Live \cup {n} : (IF m = n THEN <<>> ELSE array[m]) \in Seq(Values)
    BY <1>1
  <2>3. QED
    BY <1>6, <2>1, <2>2
<1>8. n \in 1 .. MaxNumber /\ n \notin Live
  <2>1. CASE anchor # 0
    <3>1. k > 0 /\ n = c[1] /\ 1 \in 1 .. k
      BY <1>3, <1>4, <2>1
    <3>2. QED
      BY <1>1, <1>3, <1>4, <3>1
  <2>2. CASE anchor = 0
    BY <1>1, <2>2
  <2>3. QED
    BY <2>1, <2>2
<1>9. PlacesOK'
  <2>1. \A m \in 0 .. MaxNumber : p'[m] = IF m = n THEN Fresh(exact) ELSE p[m]
    BY <1>1, <1>6
  <2>2. \A m \in Live' : m \in 0 .. MaxNumber
    BY <1>1, <1>7, <1>8
  <2>3. \A m \in 0 .. MaxNumber : p'[m] # NULL => m \in Live'
    BY <1>7, <2>1 DEF PlacesOK
  <2>4. ASSUME NEW m \in Live'
        PROVE  IF p'[m] # NULL THEN InMemory(p'[m], array'[m]) ELSE OnFile(file', u'[m], array'[m])
    <3>1. CASE m = n
      <4>1. array'[m] = <<>> /\ p'[m] = Fresh(exact)
        BY <1>6, <1>7, <2>1, <2>2, <3>1
      <4>2. QED
        BY <1>5, <4>1
    <3>2. CASE m # n
      <4>1. m \in Live /\ array'[m] = array[m] /\ p'[m] = p[m]
        BY <1>6, <1>7, <2>1, <2>2, <3>2
      <4>2. QED
        BY <1>6, <4>1 DEF PlacesOK
    <3>3. QED
      BY <3>1, <3>2
  <2>5. QED
    BY <2>3, <2>4 DEF PlacesOK
<1>10. CallOK'
  BY <1>6 DEF CallOK
<1>11. /\ DOMAIN p' = 0 .. MaxNumber /\ (u \in [0 .. MaxNumber -> Nat])'
       /\ (file \in Seq(Values \cup Headers))' /\ (pos \in 0 .. Len(file))' /\ (accum \in Nat)' /\ j' \in Nat
       /\ (inGet \in BOOLEAN)'
  BY <1>6 DEF TypeOK
<1>12. CASE anchor # 0
  <2>1. anchor' = u[anchor] /\ index' = index
    BY <1>12 DEF Numbered
  <2>2. k > 0 /\ n = c[1] /\ 1 \in 1 .. k /\ k - 1 \in 0 .. N - 1
    BY <1>1, <1>3, <1>4, <1>12
  <2>3. TypeOK'
    <3>1. anchor' \in Nat
      BY <1>1, <1>8, <1>12, <2>1 DEF TypeOK
    <3>2. QED
      BY <1>7, <1>11, <2>1, <3>1 DEF TypeOK
  <2> DEFINE d == [i \in 1 .. (k - 1) |-> c[i + 1]]
  <2>4. \A i \in 1 .. (k - 1) : i \in 1 .. k /\ i + 1 \in 1 .. k /\ d[i] = c[i + 1] /\ i # 0
    BY <1>4, <2>2
  <2>5. d \in [1 .. (k - 1) -> 1 .. N - 1]
    BY <1>4, <2>4
  <2> HIDE DEF d
  <2>6. Chained(k - 1, d)'
    <3>1. \A i, l \in 1 .. (k - 1) : d[i] = d[l] => i = l
      BY <1>3, <1>4, <2>4
    <3>2. anchor' = IF k - 1 = 0 THEN 0 ELSE d[1]
      <4>1. CASE k = 1
        BY <1>3, <1>12, <2>1, <2>2, <4>1
      <4>2. CASE k # 1
        <5>1. 1 \in 1 .. (k - 1) /\ 1 + 1 = 2
          BY <1>4, <2>2, <4>2
        <5>2. d[1] = c[2]
          BY <2>4, <5>1
        <5>3. anchor' = c[2]
          BY <1>3, <1>12, <2>1, <2>2, <4>2
        <5>4. QED
          BY <1>4, <4>2, <5>2, <5>3
      <4>3. QED
        BY <4>1, <4>2
    <3>3. ASSUME NEW i \in 1 .. (k - 1)
          PROVE  u'[d[i]] = IF i = k - 1 THEN 0 ELSE d[i + 1]
      <4>1. u'[d[i]] = IF i + 1 = k THEN 0 ELSE c[i + 1 + 1]
        BY <1>3, <1>6, <2>4
      <4>2. CASE i + 1 = k
        BY <1>4, <4>1, <4>2
      <4>3. CASE i + 1 # k
        <5>1. i + 1 \in 1 .. (k - 1) /\ i # k - 1
          BY <1>4, <4>3
        <5>2. QED
          BY <2>4, <4>1, <4>3, <5>1
      <4>4. QED
        BY <4>2, <4>3
    <3>4. ASSUME NEW m \in 1 .. N - 1
          PROVE  m \in Live' <=> \A i \in 1 .. (k - 1) : d[i] # m
      <4>1. CASE m = n
        <5>1. ASSUME NEW i \in 1 .. (k - 1) PROVE d[i] # m
          <6>1. d[i] = c[i + 1] /\ i + 1 \in 1 .. k /\ i + 1 # 1
            BY <2>4
          <6>2. QED
            BY <1>3, <2>2, <4>1, <6>1
        <5>2. QED
          BY <1>7, <4>1, <5>1
      <4>2. CASE m # n
        <5>1. (\A i \in 1 .. k : c[i] # m) <=> \A i \in 1 .. (k - 1) : d[i] # m
          <6>1. ASSUME NEW i \in 1 .. k, c[i] = m PROVE \E l \in 1 .. (k - 1) : d[l] = m
            <7>1. i # 1
              BY <2>2, <4>2, <6>1
            <7>2. i - 1 \in 1 .. (k - 1) /\ (i - 1) + 1 = i
              BY <1>4, <7>1
            <7>3. d[i - 1] = m
              BY <2>4, <6>1, <7>2
            <7>4. QED
              BY <7>2, <7>3
          <6>2. QED
            BY <2>4, <6>1
        <5>2. QED
          BY <1>3, <1>7, <4>2, <5>1
      <4>3. QED
        BY <4>1, <4>2
    <3>5. QED
      BY <2>1, <3>1, <3>2, <3>3, <3>4 DEF Chained
  <2>7. NumbersApart'
    <3>1. n \in 1 .. N - 1
      BY <1>4, <2>2
    <3>2. Live' \subseteq 1 .. N - 1
      BY <1>1, <1>7, <3>1
    <3>3. index.Needs <= index.Has \/ index.Needs = 1
      BY DEF TypeOK
    <3>4. QED
      BY <2>1, <2>2, <2>5, <2>6, <3>2, <3>3 DEF NumbersApart
  <2>8. QED
    BY <1>9, <1>10, <2>3, <2>7
<1>13. CASE anchor = 0
  <2>1. k = 0
    BY <1>3, <1>4, <1>13
  <2> DEFINE w == [index EXCEPT !.Needs = (@ + 1) % Modulus]
  <2>2. index' = WalletCheck(w) /\ index'.Has >= index'.Needs /\ index'.Needs # 0 /\ anchor' = 0
    <3>1. /\ index' = WalletCheck(w) /\ anchor' = anchor
          /\ harm' = (index'.Has < index'.Needs \/ index'.Needs = 0)
      BY <1>13 DEF Numbered
    <3>2. (N + 1) % Modulus \in Nat
      BY <1>1, PlaceTypes
    <3>3. w \in Wallet
      BY <3>2 DEF TypeOK, Wallet
    <3> HIDE DEF w
    <3>4. index' \in Wallet
      BY <3>1, <3>3, WalletCheckFacts
    <3>5. index'.Has \in Nat /\ index'.Needs \in Nat
      BY <3>4 DEF Wallet
    <3>6. ~(index'.Has < index'.Needs \/ index'.Needs = 0)
      BY <3>1
    <3>7. index'.Has >= index'.Needs /\ index'.Needs # 0
      BY <3>5, <3>6
    <3>8. QED
      BY <1>13, <3>1, <3>7
  <2>3. N + 1 <= Modulus
    <3>1. index.Has \in Nat /\ index.Has < Modulus /\ (N <= index.Has \/ N = 1)
      BY DEF TypeOK, Wallet
    <3>2. Modulus \in Nat /\ Modulus > 1
      BY WalletsAssumption
    <3> HIDE DEF N
    <3>3. QED
      BY <1>1, <3>1, <3>2
  <2>4. (N + 1) % Modulus = N + 1 \/ (N + 1) % Modulus = 0
    BY <1>1, <2>3, NextNumber, PlaceTypes
  <2>5. /\ w \in Wallet /\ w.Needs = (N + 1) % Modulus /\ w.Exact = index.Exact /\ w.Has = index.Has
    <3>1. (N + 1) % Modulus \in Nat /\ index \in Wallet
      BY <1>1, <2>4 DEF TypeOK
    <3>2. QED
      BY <3>1 DEF Wallet
  <2> HIDE DEF w
  <2>6. /\ index' \in Wallet /\ index'.Needs = w.Needs /\ ~index'.Exact /\ index'.Has < Modulus
    BY <2>2, <2>5, WalletCheckFacts DEF TypeOK
  <2>7. index'.Needs = N + 1 /\ n = N /\ N <= MaxNumber
    BY <1>13, <2>2, <2>4, <2>5, <2>6
  <2>8. TypeOK'
    <3>1. (index.Needs \in 1 .. MaxNumber + 1)' /\ (index.Needs <= index.Has)'
      BY <1>1, <2>2, <2>6, <2>7 DEF Wallet
    <3>2. QED
      BY <1>7, <1>11, <2>2, <2>6, <3>1 DEF TypeOK
  <2>9. Live' = 1 .. N
    <3>1. Live = 1 .. N - 1
      BY <1>1, <1>3, <2>1
    <3>2. QED
      BY <1>1, <1>7, <2>7, <3>1
  <2>10. NumbersApart'
    <3> DEFINE e == [i \in 1 .. 0 |-> 1]
    <3>1. e \in [1 .. 0 -> 1 .. N] /\ 0 \in 0 .. N
      BY <1>1
    <3>2. index'.Needs - 1 = N
      BY <1>1, <2>7
    <3>3. Chained(0, e)'
      BY <2>2, <2>9, <3>2 DEF Chained
    <3>4. (index.Needs <= index.Has \/ index.Needs = 1)'
      BY <2>8 DEF TypeOK
    <3>5. QED
      BY <2>9, <3>1, <3>2, <3>3, <3>4 DEF NumbersApart
  <2>11. QED
    BY <1>9, <1>10, <2>8, <2>10
<1>14. QED
  BY <1>12, <1>13

\* A chain that the steps leave as it is.
LEMMA ChainStays ==
  ASSUME TypeOK, NumbersApart, ~harm, UNCHANGED <<index, anchor>>, Live' = Live,
         \A n \in 1 .. index.Needs - 1 : n \notin Live => u'[n] = u[n]
  PROVE  NumbersApart'
<1> DEFINE N == index.Needs
<1>1. PICK k \in 0 .. N - 1 : \E c \in [1 .. k -> 1 .. N - 1] : Chained(k, c)
  BY DEF NumbersApart
<1>2. PICK c \in [1 .. k -> 1 .. N - 1] : Chained(k, c)
  BY <1>1
<1>3. \A i \in 1 .. k : c[i] \in 1 .. N - 1 /\ c[i] \notin Live
  BY <1>2 DEF Chained
<1>4. Chained(k, c)'
  BY <1>2, <1>3 DEF Chained
<1>5. QED
  BY <1>4 DEF NumbersApart

\* A number deleted goes to the front of the chain.
LEMMA WalletDelStep ==
  ASSUME TypeOK, CallOK, PlacesOK, NumbersApart, ~harm, NEW n \in 1 .. MaxNumber, WalletDel(n)
  PROVE  (TypeOK /\ CallOK /\ PlacesOK /\ NumbersApart)'
<1> DEFINE N == index.Needs
<1>1. /\ N \in Nat /\ N >= 1 /\ N <= MaxNumber + 1 /\ MaxNumber \in Nat
      /\ DOMAIN p = 0 .. MaxNumber /\ u \in [0 .. MaxNumber -> Nat] /\ anchor \in Nat
      /\ array \in [Live -> Seq(Values)] /\ Live \subseteq 1 .. N - 1
  BY PlaceTypes DEF TypeOK, NumbersApart
<1>2. PICK k \in 0 .. N - 1 : \E c \in [1 .. k -> 1 .. N - 1] : Chained(k, c)
  BY DEF NumbersApart
<1>3. PICK c \in [1 .. k -> 1 .. N - 1] : Chained(k, c)
  BY <1>2
<1>4. /\ n \in Live /\ call = NULL
      /\ p' = [p EXCEPT ![n] = NULL] /\ u' = [u EXCEPT ![n] = anchor] /\ anchor' = n
      /\ array' = [m \in Live \ {n} |-> array[m]]
      /\ UNCHANGED <<index, file, pos, accum, FPos, call, j, harm, inGet>>
  BY DEF WalletDel, spill
<1>5. Live' = Live \ {n} /\ array' \in [Live' -> Seq(Values)]
  BY <1>1, <1>4 DEF Live
<1>6. \A m \in 0 .. MaxNumber : /\ p'[m] = IF m = n THEN NULL ELSE p[m]
                                /\ u'[m] = IF m = n THEN anchor ELSE u[m]
  BY <1>1, <1>4
<1>7. PlacesOK'
  <2>1. \A m \in Live' : m \in Live /\ m # n /\ m \in 0 .. MaxNumber /\ array'[m] = array[m]
    BY <1>1, <1>4, <1>5
  <2>2. \A m \in 0 .. MaxNumber : p'[m] # NULL => m \in Live'
    BY <1>5, <1>6 DEF PlacesOK
  <2>3. \A m \in Live' : p'[m] = p[m] /\ u'[m] = u[m] /\ file' = file
    BY <1>4, <1>6, <2>1
  <2>4. QED
    BY <2>1, <2>2, <2>3 DEF PlacesOK
<1>8. TypeOK'
  <2>1. u' \in [0 .. MaxNumber -> Nat] /\ DOMAIN p' = 0 .. MaxNumber /\ anchor' \in Nat
    BY <1>1, <1>4
  <2>2. QED
    BY <1>4, <1>5, <2>1 DEF TypeOK
<1>9. CallOK'
  BY <1>4 DEF CallOK
<1>10. NumbersApart'
  <2>1. /\ \A i, l \in 1 .. k : c[i] = c[l] => i = l
        /\ anchor = IF k = 0 THEN 0 ELSE c[1]
        /\ \A i \in 1 .. k : u[c[i]] = IF i = k THEN 0 ELSE c[i + 1]
        /\ \A m \in 1 .. N - 1 : m \in Live <=> \A i \in 1 .. k : c[i] # m
    BY <1>3 DEF Chained
  <2>2. k \in Nat /\ n \in 1 .. N - 1 /\ \A i \in 1 .. k : c[i] \in 1 .. N - 1 /\ c[i] # n
    BY <1>1, <1>4, <2>1
  <2> DEFINE d == [i \in 1 .. (k + 1) |-> IF i = 1 THEN n ELSE c[i - 1]]
  <2>3. \A i \in 1 .. (k + 1) : i # 1 => i - 1 \in 1 .. k /\ i \in Nat
    BY <2>2
  <2>4. d \in [1 .. (k + 1) -> 1 .. N - 1] /\ d[1] = n /\ 1 \in 1 .. (k + 1)
        /\ \A i \in 1 .. (k + 1) : i # 1 => d[i] = c[i - 1]
    BY <2>2, <2>3
  <2> HIDE DEF d
  <2>5. \A i, l \in 1 .. (k + 1) : d[i] = d[l] => i = l
    <3> SUFFICES ASSUME NEW i \in 1 .. (k + 1), NEW l \in 1 .. (k + 1), d[i] = d[l] PROVE i = l
      OBVIOUS
    <3>1. CASE i = 1 /\ l = 1
      BY <3>1
    <3>2. CASE i = 1 /\ l # 1
      BY <2>2, <2>3, <2>4, <3>2
    <3>3. CASE i # 1 /\ l = 1
      BY <2>2, <2>3, <2>4, <3>3
    <3>4. CASE i # 1 /\ l # 1
      <4>1. c[i - 1] = c[l - 1] /\ i - 1 \in 1 .. k /\ l - 1 \in 1 .. k
        BY <2>3, <2>4, <3>4
      <4>2. i - 1 = l - 1
        BY <2>1, <4>1
      <4>3. QED
        BY <2>2, <4>2
    <3>5. QED
      BY <3>1, <3>2, <3>3, <3>4
  <2>6. k + 1 \in 0 .. N - 1
    <3>1. k + 1 \in Nat /\ N - 1 \in Nat
      BY <1>1, <2>2
    <3> HIDE DEF N
    <3>3. k + 1 <= N - 1
      BY <2>4, <2>5, <3>1, Pigeonhole
    <3>2. QED
      BY <3>1, <3>3
  <2>7. anchor' = IF k + 1 = 0 THEN 0 ELSE d[1]
    BY <1>4, <2>2, <2>4
  <2>8. ASSUME NEW i \in 1 .. (k + 1)
        PROVE  u'[d[i]] = IF i = k + 1 THEN 0 ELSE d[i + 1]
    <3>1. \A m \in 1 .. N - 1 : m \in 0 .. MaxNumber
      BY <1>1
    <3>2. CASE i = 1
      <4>1. u'[d[i]] = anchor
        BY <1>6, <2>2, <2>4, <3>1, <3>2
      <4>2. CASE k = 0
        BY <2>1, <3>2, <4>1, <4>2
      <4>3. CASE k # 0
        <5>1. i + 1 \in 1 .. (k + 1) /\ i + 1 # 1 /\ (i + 1) - 1 = 1 /\ i # k + 1
          BY <2>2, <3>2, <4>3
        <5>2. d[i + 1] = c[1]
          BY <2>4, <5>1
        <5>3. QED
          BY <2>1, <4>1, <4>3, <5>1, <5>2
      <4>4. QED
        BY <4>2, <4>3
    <3>3. CASE i # 1
      <4>1. d[i] = c[i - 1] /\ i - 1 \in 1 .. k /\ i \in Nat
        BY <2>3, <2>4, <3>3
      <4>2. u'[d[i]] = u[c[i - 1]]
        BY <1>6, <2>2, <3>1, <4>1
      <4>3. u[c[i - 1]] = IF i - 1 = k THEN 0 ELSE c[(i - 1) + 1]
        BY <2>1, <4>1
      <4>4. CASE i = k + 1
        BY <2>2, <4>2, <4>3, <4>4
      <4>5. CASE i # k + 1
        <5>1. i + 1 \in 1 .. (k + 1) /\ i + 1 # 1 /\ (i + 1) - 1 = (i - 1) + 1 /\ i - 1 # k
          BY <2>2, <4>1, <4>5
        <5>2. d[i + 1] = c[(i - 1) + 1]
          BY <2>4, <5>1
        <5>3. QED
          BY <4>2, <4>3, <4>5, <5>1, <5>2
      <4>6. QED
        BY <4>4, <4>5
    <3>4. QED
      BY <3>2, <3>3
  <2>9. ASSUME NEW m \in 1 .. N - 1
        PROVE  m \in Live' <=> \A i \in 1 .. (k + 1) : d[i] # m
    <3>1. (\A i \in 1 .. (k + 1) : d[i] # m) <=> m # n /\ \A i \in 1 .. k : c[i] # m
      <4>1. ASSUME NEW i \in 1 .. k PROVE \E l \in 1 .. (k + 1) : d[l] = c[i]
        <5>1. i + 1 \in 1 .. (k + 1) /\ i + 1 # 1 /\ (i + 1) - 1 = i
          BY <2>2
        <5>2. d[i + 1] = c[i]
          BY <2>4, <5>1
        <5>3. QED
          BY <5>1, <5>2
      <4>2. ASSUME NEW l \in 1 .. (k + 1) PROVE d[l] = n \/ \E i \in 1 .. k : d[l] = c[i]
        <5>1. CASE l = 1
          BY <2>4, <5>1
        <5>2. CASE l # 1
          BY <2>3, <2>4, <5>2
        <5>3. QED
          BY <5>1, <5>2
      <4>3. ASSUME \A l \in 1 .. (k + 1) : d[l] # m PROVE m # n /\ \A i \in 1 .. k : c[i] # m
        BY <2>4, <4>1, <4>3
      <4>4. ASSUME m # n, \A i \in 1 .. k : c[i] # m PROVE \A l \in 1 .. (k + 1) : d[l] # m
        BY <4>2, <4>4
      <4>5. QED
        BY <4>3, <4>4
    <3>2. QED
      BY <1>5, <2>1, <3>1
  <2>10. Chained(k + 1, d)'
    BY <1>4, <2>5, <2>7, <2>8, <2>9 DEF Chained
  <2>11. Live' \subseteq 1 .. N - 1 /\ (index.Needs <= index.Has \/ index.Needs = 1)
    BY <1>1, <1>5 DEF TypeOK
  <2>12. QED
    BY <1>4, <2>4, <2>6, <2>10, <2>11 DEF NumbersApart
<1>11. QED
  BY <1>7, <1>8, <1>9, <1>10

\* A file that grows holds what it held.
LEMMA LongerFile ==
  ASSUME NEW f, NEW g, Len(f) \in Nat, Len(g) \in Nat, Len(f) <= Len(g),
         \A i \in 1 .. Len(f) : g[i] = f[i],
         NEW at, NEW a, Len(a) \in Nat, OnFile(f, at, a)
  PROVE  OnFile(g, at, a)
<1>1. at \in Nat /\ at + 1 + Len(a) <= Len(f) /\ f[at + 1] \in Headers /\ f[at + 1].Needs = Len(a)
      /\ \A i \in 1 .. Len(a) : f[at + 1 + i] = a[i]
  BY DEF OnFile
<1>2. at + 1 \in 1 .. Len(f) /\ at + 1 + Len(a) <= Len(g)
  BY <1>1
<1>3. ASSUME NEW i \in 1 .. Len(a) PROVE g[at + 1 + i] = a[i]
  <2>1. at + 1 + i \in 1 .. Len(f)
    BY <1>1
  <2>2. QED
    BY <1>1, <2>1
<1>4. QED
  BY <1>1, <1>2, <1>3 DEF OnFile

\* A wallet that is written to the end of the file.
LEMMA SpilledFacts ==
  ASSUME NEW f \in Seq(Values \cup Headers), NEW w, NEW a \in Seq(Values), InMemory(w, a),
         NEW g, g = Overlay(f, Len(f), Image(w))
  PROVE  /\ g \in Seq(Values \cup Headers) /\ Len(g) = Len(f) + (1 + Len(a))
         /\ \A i \in 1 .. Len(f) : g[i] = f[i]
         /\ OnFile(g, Len(f), a)
<1>1. Len(f) \in Nat /\ Len(a) \in Nat
  OBVIOUS
<1> DEFINE cells == Image(w)
<1>2. /\ cells \in Seq(Values \cup Headers) /\ Len(cells) = 1 + Len(a)
      /\ cells[1] \in Headers /\ cells[1].Needs = Len(a)
      /\ \A i \in 1 .. Len(a) : cells[1 + i] = a[i]
  BY ImageFacts
<1>3. g = Overlay(f, Len(f), cells)
  OBVIOUS
<1> HIDE DEF cells
<1>4. /\ g \in Seq(Values \cup Headers) /\ Len(g) = Len(f) + Len(cells)
      /\ \A i \in 1 .. Len(f) : g[i] = f[i]
      /\ \A i \in 1 .. Len(cells) : g[Len(f) + i] = cells[i]
  <2>1. f \in Seq(Cells) /\ cells \in Seq(Cells)
    BY <1>2 DEF Cells
  <2>2. /\ Overlay(f, Len(f), cells) \in Seq(Cells)
        /\ Len(Overlay(f, Len(f), cells)) = Len(f) + Len(cells)
        /\ \A i \in 1 .. Len(f) : Overlay(f, Len(f), cells)[i] = f[i]
        /\ \A i \in 1 .. Len(cells) : Overlay(f, Len(f), cells)[Len(f) + i] = cells[i]
    BY <2>1, OverlayFacts
  <2>3. QED
    BY <1>3, <2>2 DEF Cells
<1>5. OnFile(g, Len(f), a)
  <2>1. Len(f) + 1 + Len(a) <= Len(g)
    BY <1>1, <1>2, <1>4
  <2>2. g[Len(f) + 1] = cells[1]
    BY <1>1, <1>2, <1>4
  <2>3. ASSUME NEW i \in 1 .. Len(a) PROVE g[Len(f) + 1 + i] = a[i]
    <3>1. 1 + i \in 1 .. Len(cells) /\ Len(f) + 1 + i = Len(f) + (1 + i)
      BY <1>1, <1>2
    <3>2. QED
      BY <1>2, <1>4, <3>1
  <2>4. QED
    BY <1>1, <1>2, <2>1, <2>2, <2>3 DEF OnFile
<1>6. QED
  BY <1>1, <1>2, <1>4, <1>5

\* One wallet is written to the end of the file.
LEMMA WalletPurgeStep ==
  ASSUME TypeOK, CallOK, PlacesOK, NumbersApart, ~harm, WalletPurge, ~harm'
  PROVE  (TypeOK /\ CallOK /\ PlacesOK /\ NumbersApart)'
<1>1. UNCHANGED <<index, anchor, call, array>> /\ Live' = Live
  BY DEF WalletPurge, Live
<1>2. CASE UNCHANGED <<p, u, file, pos, accum, FPos, inGet>> /\ j' = j + 1
  <2>1. j' \in Nat
    BY <1>2 DEF TypeOK
  <2>3. TypeOK' /\ CallOK' /\ PlacesOK'
    BY <1>1, <1>2, <2>1 DEF TypeOK, CallOK, PlacesOK
  <2>2. NumbersApart'
    BY <1>1, <1>2, ChainStays
  <2>4. QED
    BY <2>2, <2>3
<1>5. CASE UNCHANGED <<p, u, file, pos, accum, FPos, inGet, j>>
  <2>1. TypeOK' /\ CallOK' /\ PlacesOK'
    BY <1>1, <1>5 DEF TypeOK, CallOK, PlacesOK
  <2>2. NumbersApart'
    BY <1>1, <1>5, ChainStays
  <2>3. QED
    BY <2>1, <2>2
<1>3. CASE /\ p[j] # NULL /\ j < index.Needs /\ accum' = accum + Len(Image(p[j]))
           /\ u' = [u EXCEPT ![j] = pos] /\ file' = Overlay(file, pos, Image(p[j]))
           /\ pos' = pos + Len(Image(p[j])) /\ p' = [p EXCEPT ![j] = NULL]
           /\ harm' = (pos < Len(file)) /\ inGet' = (call.op = "get") /\ j' = j + 1
  <2>1. /\ DOMAIN p = 0 .. MaxNumber /\ u \in [0 .. MaxNumber -> Nat] /\ MaxNumber \in Nat
        /\ pos \in 0 .. Len(file) /\ Len(file) \in Nat /\ accum \in Nat /\ file \in Seq(Values \cup Headers)
        /\ Live \subseteq 0 .. MaxNumber
    <3>1. Live \subseteq 1 .. index.Needs - 1 /\ index.Needs - 1 <= MaxNumber
      BY PlaceTypes DEF NumbersApart, TypeOK
    <3>2. QED
      BY <3>1, PlaceTypes DEF TypeOK
  <2>2. pos = Len(file)
    <3>1. ~(pos < Len(file))
      BY <1>3
    <3>2. QED
      BY <2>1, <3>1
  <2>3. \E n \in 0 .. MaxNumber : n = j
    <3>1. j \in Nat
      BY DEF TypeOK
    <3>2. QED
      BY <1>3, <2>1, <3>1, PlaceTypes DEF TypeOK
  <2>4. j \in Live /\ InMemory(p[j], array[j]) /\ array[j] \in Seq(Values) /\ Len(array[j]) \in Nat
    BY <1>3, <2>3, PlaceTypes DEF PlacesOK
  <2>5. Len(Image(p[j])) = 1 + Len(array[j])
    BY <2>4, ImageFacts
  <2>6. file' = Overlay(file, Len(file), Image(p[j])) /\ pos' = Len(file) + (1 + Len(array[j]))
        /\ accum' = accum + (1 + Len(array[j]))
    BY <1>3, <2>2, <2>5
  <2>7. /\ file' \in Seq(Values \cup Headers) /\ Len(file') = Len(file) + (1 + Len(array[j]))
        /\ \A i \in 1 .. Len(file) : file'[i] = file[i]
        /\ OnFile(file', Len(file), array[j])
    <3>1. \A g : g = Overlay(file, Len(file), Image(p[j])) =>
                 /\ g \in Seq(Values \cup Headers) /\ Len(g) = Len(file) + (1 + Len(array[j]))
                 /\ \A i \in 1 .. Len(file) : g[i] = file[i]
                 /\ OnFile(g, Len(file), array[j])
      BY <2>1, <2>4, SpilledFacts
    <3>2. QED
      BY <2>6, <3>1
  <2>9. \A m \in 0 .. MaxNumber : /\ p'[m] = IF m = j THEN NULL ELSE p[m]
                                  /\ u'[m] = IF m = j THEN pos ELSE u[m]
    BY <1>3, <2>1, <2>3
  <2>10. PlacesOK'
    <3>1. \A m \in 0 .. MaxNumber : p'[m] # NULL => m \in Live
      BY <2>9 DEF PlacesOK
    <3>2. ASSUME NEW m \in Live
          PROVE  IF p'[m] # NULL THEN InMemory(p'[m], array[m]) ELSE OnFile(file', u'[m], array[m])
      <4>1. CASE m = j
        BY <2>1, <2>2, <2>7, <2>9, <4>1
      <4>2. CASE m # j
        <5>1. p'[m] = p[m] /\ u'[m] = u[m]
          BY <2>1, <2>9, <4>2
        <5>2. p[m] = NULL => OnFile(file, u[m], array[m])
          BY DEF PlacesOK
        <5>3. p[m] = NULL => OnFile(file', u[m], array[m])
          <6>1. Len(file') \in Nat /\ Len(file) <= Len(file') /\ Len(array[m]) \in Nat
            BY <2>1, <2>4, <2>5, <2>7, PlaceTypes
          <6>2. QED
            BY <2>1, <2>7, <5>2, <6>1, LongerFile
        <5>4. QED
          BY <5>1, <5>3 DEF PlacesOK
      <4>3. QED
        BY <4>1, <4>2
    <3>3. QED
      BY <1>1, <3>1, <3>2 DEF PlacesOK
  <2>11. TypeOK'
    <3>1. /\ pos' \in 0 .. Len(file') /\ accum' \in Nat
      BY <2>1, <2>4, <2>5, <2>6, <2>7
    <3>2. DOMAIN p' = 0 .. MaxNumber /\ u' \in [0 .. MaxNumber -> Nat]
      <4>1. pos \in Nat
        BY <2>1
      <4>2. QED
        BY <1>3, <2>1, <4>1
    <3>3. j' \in Nat /\ inGet' \in BOOLEAN
      BY <1>3 DEF TypeOK
    <3>4. QED
      BY <1>1, <2>7, <3>1, <3>2, <3>3 DEF TypeOK
  <2>12. CallOK'
    <3>1. ASSUME call.n \in Live, p[call.n] = NULL PROVE p'[call.n] = NULL
      BY <2>1, <2>9, <3>1
    <3>2. call.op = "get" => inGet'
      BY <1>3
    <3>3. QED
      BY <1>1, <3>1, <3>2 DEF CallOK
  <2>13. NumbersApart'
    <3>1. \A n \in 1 .. index.Needs - 1 : n \in 0 .. MaxNumber
      BY PlaceTypes DEF TypeOK
    <3>2. QED
      BY <1>1, <2>4, <2>9, <3>1, ChainStays
  <2>14. QED
    BY <2>10, <2>11, <2>12, <2>13
<1>4. QED
  BY <1>2, <1>3, <1>5 DEF WalletPurge, spill

\* A request that memory is made for.
LEMMA PurgingStep ==
  ASSUME TypeOK, PlacesOK, NumbersApart, ~harm, NEW request, Purging(request),
         pos' \in 0 .. Len(file), CallOK'
  PROVE  (TypeOK /\ CallOK /\ PlacesOK /\ NumbersApart)'
<1>1. j' = 0 /\ UNCHANGED <<index, p, u, anchor, file, accum, inGet, array>> /\ Live' = Live
  BY DEF Purging, Live
<1>2. TypeOK' /\ PlacesOK'
  BY <1>1 DEF TypeOK, PlacesOK
<1>3. NumbersApart'
  BY <1>1, ChainStays
<1>4. QED
  BY <1>2, <1>3

\* What is read of a wallet on the file.
LEMMA RereadFacts ==
  ASSUME NEW f \in Seq(Cells), NEW at, NEW a \in Seq(Values), OnFile(f, at, a),
         NEW w, w = [Has |-> f[at + 1].Has, Needs |-> f[at + 1].Needs, Exact |-> f[at + 1].Exact,
                     slots |-> SubSeq(f, at + 2, at + 1 + Len(a))]
  PROVE  InMemory(w, a) /\ w # NULL /\ at + 1 + Len(a) \in 0 .. Len(f)
<1>1. /\ Len(f) \in Nat /\ Len(a) \in Nat /\ at \in Nat /\ at + 1 + Len(a) <= Len(f)
      /\ f[at + 1] \in Headers /\ f[at + 1].Needs = Len(a)
      /\ \A i \in 1 .. Len(a) : f[at + 1 + i] = a[i] /\ a[i] \in Values
  BY DEF OnFile
<1> DEFINE r == SubSeq(f, at + 2, at + 1 + Len(a))
<1>2. \A i \in at + 2 .. at + 1 + Len(a) : f[i] \in Values
  <2> SUFFICES ASSUME NEW i \in at + 2 .. at + 1 + Len(a) PROVE f[i] \in Values
    OBVIOUS
  <2>1. at \in Nat /\ Len(a) \in Nat
    BY <1>1
  <2>2. i - at - 1 \in 1 .. Len(a) /\ at + 1 + (i - at - 1) = i
    BY <2>1
  <2>3. QED
    BY <1>1, <2>2
<1>3. /\ at + 2 \in Int /\ at + 1 + Len(a) \in Int
      /\ (at + 1 + Len(a)) - (at + 2) + 1 = Len(a)
      /\ \A i \in 1 .. Len(a) : (at + 2) + i - 1 = at + 1 + i
  BY <1>1
<1>4. /\ r \in Seq(Values)
      /\ Len(r) = IF at + 2 <= at + 1 + Len(a) THEN (at + 1 + Len(a)) - (at + 2) + 1 ELSE 0
      /\ \A i \in 1 .. (at + 1 + Len(a)) - (at + 2) + 1 : r[i] = f[(at + 2) + i - 1]
  <2> SUFFICES ASSUME NEW m \in Int, NEW l \in Int, m = at + 2, l = at + 1 + Len(a)
               PROVE  /\ SubSeq(f, m, l) \in Seq(Values)
                      /\ Len(SubSeq(f, m, l)) = IF m <= l THEN l - m + 1 ELSE 0
                      /\ \A i \in 1 .. l - m + 1 : SubSeq(f, m, l)[i] = f[m + i - 1]
    BY <1>3
  <2>1. \A i \in m .. l : f[i] \in Values
    BY <1>2
  <2>2. QED
    BY <2>1, SubSeqProperties
<1> HIDE DEF r
<1>5. Len(r) = Len(a)
  BY <1>1, <1>3, <1>4
<1>6. \A i \in 1 .. Len(a) : r[i] = a[i]
  BY <1>1, <1>3, <1>4
<1>8. w \in Wallet /\ w.Needs = Len(a) /\ w.slots = r
  <2> SUFFICES ASSUME NEW h \in Headers, h = f[at + 1]
               PROVE  w \in Wallet /\ w.Needs = Len(a) /\ w.slots = r
    BY <1>1
  <2>1. w = [Has |-> h.Has, Needs |-> h.Needs, Exact |-> h.Exact, slots |-> r]
    BY DEF r
  <2>2. h.Has \in Nat /\ h.Needs \in Nat /\ h.Exact \in BOOLEAN /\ h.Needs = Len(a)
    BY <1>1 DEF Headers
  <2>3. [Has |-> h.Has, Needs |-> h.Needs, Exact |-> h.Exact, slots |-> r] \in Wallet
    BY <1>4, <2>2 DEF Wallet
  <2>4. w.Needs = h.Needs /\ w.slots = r
    BY <2>1
  <2>5. QED
    BY <2>1, <2>2, <2>3, <2>4
<1>9. InMemory(w, a)
  BY <1>1, <1>5, <1>6, <1>8 DEF InMemory
<1>10. w # NULL
  BY <1>8, NullAssumption
<1>11. at + 1 + Len(a) \in 0 .. Len(f)
  BY <1>1
<1>12. QED
  BY <1>9, <1>10, <1>11

\* A wallet comes back from its place on the file.
LEMMA RereadStep ==
  ASSUME TypeOK, PlacesOK, NumbersApart, ~harm,
         NEW n \in Live, p[n] = NULL, Reread(n, u[n], Len(array[n]))
  PROVE  (TypeOK /\ CallOK /\ PlacesOK /\ NumbersApart)'
<1>1. /\ DOMAIN p = 0 .. MaxNumber /\ file \in Seq(Values \cup Headers)
      /\ Live \subseteq 0 .. MaxNumber /\ array[n] \in Seq(Values) /\ OnFile(file, u[n], array[n])
  <2>1. Live \subseteq 1 .. index.Needs - 1 /\ index.Needs - 1 <= MaxNumber
    BY PlaceTypes DEF NumbersApart, TypeOK
  <2>2. QED
    BY <2>1, PlaceTypes DEF TypeOK, PlacesOK
<1> SUFFICES ASSUME NEW w, w = [Has |-> file[u[n] + 1].Has, Needs |-> file[u[n] + 1].Needs,
                                Exact |-> file[u[n] + 1].Exact,
                                slots |-> SubSeq(file, u[n] + 2, u[n] + 1 + Len(array[n]))]
             PROVE  (TypeOK /\ CallOK /\ PlacesOK /\ NumbersApart)'
  OBVIOUS
<1>2. InMemory(w, array[n]) /\ w # NULL /\ u[n] + 1 + Len(array[n]) \in 0 .. Len(file)
  BY <1>1, RereadFacts DEF Cells
<1>3. /\ p' = [p EXCEPT ![n] = w] /\ pos' = u[n] + 1 + Len(array[n]) /\ call' = NULL /\ j' = 0 /\ inGet' = FALSE
      /\ UNCHANGED <<index, u, anchor, file, accum, array>> /\ Live' = Live
  BY DEF Reread, Live
<1>4. \A m \in 0 .. MaxNumber : p'[m] = IF m = n THEN w ELSE p[m]
  BY <1>1, <1>3
<1>5. PlacesOK'
  <2>1. \A m \in 0 .. MaxNumber : p'[m] # NULL => m \in Live
    BY <1>4 DEF PlacesOK
  <2>2. ASSUME NEW m \in Live
        PROVE  IF p'[m] # NULL THEN InMemory(p'[m], array[m]) ELSE OnFile(file, u[m], array[m])
    <3>1. CASE m = n
      BY <1>1, <1>2, <1>4, <3>1
    <3>2. CASE m # n
      BY <1>1, <1>4, <3>2 DEF PlacesOK
    <3>3. QED
      BY <3>1, <3>2
  <2>3. QED
    BY <1>3, <2>1, <2>2 DEF PlacesOK
<1>6. TypeOK'
  <2>1. DOMAIN p' = 0 .. MaxNumber
    BY <1>1, <1>3
  <2>2. QED
    BY <1>2, <1>3, <2>1 DEF TypeOK
<1>7. CallOK'
  BY <1>3 DEF CallOK
<1>8. NumbersApart'
  BY <1>3, ChainStays
<1>9. QED
  BY <1>5, <1>6, <1>7, <1>8

\* A wallet in memory that is replaced, with its contents.
LEMMA ReplacedStep ==
  ASSUME TypeOK, PlacesOK, NumbersApart, ~harm, call = NULL, NEW n \in Live,
         NEW w, NEW a \in Seq(Values), InMemory(w, a), w # NULL,
         p' = [p EXCEPT ![n] = w], array' = [array EXCEPT ![n] = a],
         UNCHANGED <<index, u, anchor, file, pos, accum, FPos, call, j, inGet>>
  PROVE  (TypeOK /\ CallOK /\ PlacesOK /\ NumbersApart)'
<1>1. /\ DOMAIN p = 0 .. MaxNumber /\ Live \subseteq 0 .. MaxNumber
      /\ DOMAIN array = Live /\ array \in [Live -> Seq(Values)]
  <2>1. Live \subseteq 1 .. index.Needs - 1 /\ index.Needs - 1 <= MaxNumber
    BY PlaceTypes DEF NumbersApart, TypeOK
  <2>2. QED
    BY <2>1, PlaceTypes DEF TypeOK
<1>2. Live' = Live /\ array' \in [Live -> Seq(Values)]
  BY <1>1 DEF Live
<1>3. \A m \in Live : array'[m] = IF m = n THEN a ELSE array[m]
  BY <1>1
<1>4. \A m \in 0 .. MaxNumber : p'[m] = IF m = n THEN w ELSE p[m]
  BY <1>1
<1>5. PlacesOK'
  <2>1. \A m \in 0 .. MaxNumber : p'[m] # NULL => m \in Live
    BY <1>4 DEF PlacesOK
  <2>2. ASSUME NEW m \in Live
        PROVE  IF p'[m] # NULL THEN InMemory(p'[m], array'[m]) ELSE OnFile(file, u[m], array'[m])
    <3>1. CASE m = n
      BY <1>1, <1>3, <1>4, <3>1
    <3>2. CASE m # n
      BY <1>1, <1>3, <1>4, <3>2 DEF PlacesOK
    <3>3. QED
      BY <3>1, <3>2
  <2>3. QED
    BY <1>2, <2>1, <2>2 DEF PlacesOK
<1>6. TypeOK'
  <2>1. DOMAIN p' = 0 .. MaxNumber
    BY <1>1
  <2>2. QED
    BY <1>2, <2>1 DEF TypeOK
<1>7. CallOK'
  BY DEF CallOK
<1>8. NumbersApart'
  BY <1>2, ChainStays
<1>9. QED
  BY <1>5, <1>6, <1>7, <1>8

LEMMA FunctionIsSequence ==
  ASSUME NEW n \in Nat, NEW f \in [1 .. n -> Values]
  PROVE  f \in Seq(Values) /\ Len(f) = n
OBVIOUS

\* What the client finds in a wallet after WalletSize.
LEMMA SizedFacts ==
  ASSUME NEW w \in Wallet, NEW a \in Seq(Values), InMemory(w, a), NEW needs \in Nat,
         NEW v, v = WalletCheck([w EXCEPT !.Needs = needs]), ~(Len(v.slots) < needs),
         NEW b, b = [i \in 1 .. needs |->
                       IF i <= Len(a) THEN a[i] ELSE IF i <= Len(v.slots) THEN v.slots[i] ELSE Clear]
  PROVE  b \in Seq(Values) /\ InMemory(v, b) /\ v # NULL
<1> DEFINE x == [w EXCEPT !.Needs = needs]
<1>1. /\ w.slots \in Seq(Values) /\ Len(w.slots) \in Nat /\ Len(a) \in Nat /\ Len(a) <= Len(w.slots)
      /\ \A i \in 1 .. Len(a) : w.slots[i] = a[i]
  BY DEF InMemory, Wallet
<1>2. x \in Wallet /\ x.Needs = needs /\ x.slots = w.slots
  BY DEF Wallet
<1> HIDE DEF x
<1>3. v = WalletCheck(x)
  BY DEF x
<1>4. /\ v \in Wallet /\ v.Needs = needs
      /\ \A i \in 1 .. Len(v.slots) : i <= Len(w.slots) => v.slots[i] = w.slots[i]
  BY <1>2, <1>3, WalletCheckFacts
<1>5. v.slots \in Seq(Values) /\ Len(v.slots) \in Nat /\ \A i \in 1 .. Len(v.slots) : v.slots[i] \in Values
  <2>1. v.slots \in Seq(Values)
    BY <1>4 DEF Wallet
  <2>2. \A s \in Seq(Values) : Len(s) \in Nat /\ \A i \in 1 .. Len(s) : s[i] \in Values
    OBVIOUS
  <2>3. QED
    BY <2>1, <2>2
<1>6. needs <= Len(v.slots)
  BY <1>5
<1>7. \A i \in 1 .. needs : i \in 1 .. Len(v.slots) /\ b[i] = v.slots[i]
  <2> SUFFICES ASSUME NEW i \in 1 .. needs PROVE i \in 1 .. Len(v.slots) /\ b[i] = v.slots[i]
    OBVIOUS
  <2>1. i \in 1 .. Len(v.slots)
    BY <1>5, <1>6
  <2>2. CASE i <= Len(a)
    <3>1. i \in 1 .. Len(a) /\ i <= Len(w.slots)
      BY <1>1, <2>2
    <3>2. QED
      BY <1>1, <1>4, <2>1, <2>2, <3>1
  <2>3. CASE ~(i <= Len(a))
    BY <2>1, <2>3
  <2>4. QED
    BY <2>1, <2>2, <2>3
<1>8. \A i \in 1 .. needs : b[i] \in Values
  BY <1>5, <1>7
<1>9. b \in Seq(Values) /\ Len(b) = needs
  <2>1. b \in [1 .. needs -> Values]
    BY <1>8
  <2>2. QED
    BY <2>1, FunctionIsSequence
<1>10. InMemory(v, b)
  BY <1>4, <1>6, <1>7, <1>9 DEF InMemory
<1>11. QED
  BY <1>4, <1>9, <1>10, NullAssumption

\* The client grows or shrinks a wallet.
LEMMA WalletSizeStep ==
  ASSUME TypeOK, PlacesOK, NumbersApart, ~harm,
         NEW n, NEW needs \in Sizes, WalletSize(n, needs), ~harm'
  PROVE  (TypeOK /\ CallOK /\ PlacesOK /\ NumbersApart)'
<1>1. n \in Live /\ p[n] # NULL /\ call = NULL /\ UNCHANGED <<index, u, anchor, file, pos, accum, FPos, call, j, inGet>>
  BY DEF WalletSize, spill
<1>2. InMemory(p[n], array[n]) /\ p[n] \in Wallet /\ array[n] \in Seq(Values) /\ needs \in Nat
  BY <1>1, PlaceTypes, WalletsAssumption DEF PlacesOK, InMemory
<1> SUFFICES ASSUME NEW v, v = WalletCheck([p[n] EXCEPT !.Needs = needs])
             PROVE  (TypeOK /\ CallOK /\ PlacesOK /\ NumbersApart)'
  OBVIOUS
<1> SUFFICES ASSUME NEW b, b = [i \in 1 .. needs |->
                       IF i <= Len(array[n]) THEN array[n][i]
                       ELSE IF i <= Len(v.slots) THEN v.slots[i] ELSE Clear]
             PROVE  (TypeOK /\ CallOK /\ PlacesOK /\ NumbersApart)'
  OBVIOUS
<1>3. p' = [p EXCEPT ![n] = v] /\ harm' = (Len(v.slots) < needs) /\ array' = [array EXCEPT ![n] = b]
  BY <1>1, PlaceTypes DEF WalletSize, TypeOK
<1>4. ~(Len(v.slots) < needs)
  BY <1>3
<1>5. b \in Seq(Values) /\ InMemory(v, b) /\ v # NULL
  BY <1>2, <1>4, SizedFacts
<1>6. QED
  BY <1>1, <1>3, <1>5, ReplacedStep

\* The client writes into a slot.
LEMMA PutFacts ==
  ASSUME NEW w, NEW a \in Seq(Values), InMemory(w, a), NEW i \in 1 .. w.Needs, NEW v \in Values,
         NEW x, x = [w EXCEPT !.slots = [@ EXCEPT ![i] = v]], NEW b, b = [a EXCEPT ![i] = v]
  PROVE  b \in Seq(Values) /\ InMemory(x, b) /\ x # NULL
<1>1. /\ w \in Wallet /\ w.Needs = Len(a) /\ Len(a) <= Len(w.slots) /\ Len(a) \in Nat
      /\ w.slots \in Seq(Values) /\ Len(w.slots) \in Nat
      /\ \A l \in 1 .. Len(a) : w.slots[l] = a[l] /\ a[l] \in Values
  BY DEF InMemory, Wallet
<1>2. i \in 1 .. Len(a) /\ i \in 1 .. Len(w.slots)
  BY <1>1
<1>3. b \in Seq(Values) /\ Len(b) = Len(a) /\ \A l \in 1 .. Len(a) : b[l] = IF l = i THEN v ELSE a[l]
  BY <1>1, <1>2
<1> DEFINE s == [w.slots EXCEPT ![i] = v]
<1>4. /\ s \in Seq(Values) /\ Len(s) = Len(w.slots)
      /\ \A l \in 1 .. Len(w.slots) : s[l] = IF l = i THEN v ELSE w.slots[l]
  BY <1>1, <1>2
<1>5. x = [w EXCEPT !.slots = s]
  OBVIOUS
<1> HIDE DEF s
<1>6. x \in Wallet /\ x.Needs = w.Needs /\ x.slots = s
  BY <1>1, <1>4, <1>5 DEF Wallet
<1>7. ASSUME NEW l \in 1 .. Len(b) PROVE x.slots[l] = b[l]
  <2>1. l \in 1 .. Len(a) /\ l \in 1 .. Len(w.slots)
    BY <1>1, <1>3
  <2>2. QED
    BY <1>1, <1>3, <1>4, <1>6, <2>1
<1>8. InMemory(x, b)
  BY <1>1, <1>3, <1>4, <1>6, <1>7 DEF InMemory
<1>9. QED
  BY <1>3, <1>6, <1>8, NullAssumption

LEMMA PutStep ==
  ASSUME TypeOK, PlacesOK, NumbersApart, ~harm,
         NEW n, NEW i, NEW v \in Values, Put(n, i, v)
  PROVE  (TypeOK /\ CallOK /\ PlacesOK /\ NumbersApart)'
<1>1. /\ n \in Live /\ p[n] # NULL /\ call = NULL /\ i \in 1 .. p[n].Needs
      /\ UNCHANGED <<index, u, anchor, file, pos, accum, FPos, call, j, inGet>>
  BY DEF Put, spill
<1>2. InMemory(p[n], array[n]) /\ array[n] \in Seq(Values)
  BY <1>1, PlaceTypes DEF PlacesOK
<1> SUFFICES ASSUME NEW x, x = [p[n] EXCEPT !.slots = [@ EXCEPT ![i] = v]],
                    NEW b, b = [array[n] EXCEPT ![i] = v]
             PROVE  (TypeOK /\ CallOK /\ PlacesOK /\ NumbersApart)'
  OBVIOUS
<1>3. p' = [p EXCEPT ![n] = x] /\ array' = [array EXCEPT ![n] = b]
  BY DEF Put
<1>4. b \in Seq(Values) /\ InMemory(x, b) /\ x # NULL
  BY <1>1, <1>2, PutFacts
<1>5. QED
  BY <1>1, <1>3, <1>4, ReplacedStep

-----------------------------------------------------------------------------
(* The theorems. *)

\* The Needs of the header on the file is what WalletGet asks memory for.
LEMMA HeaderNeeds ==
  ASSUME PlacesOK, NEW n \in Live, p[n] = NULL
  PROVE  file[u[n] + 1].Needs = Len(array[n]) /\ u[n] + 1 \in 0 .. Len(file)
<1>1. OnFile(file, u[n], array[n]) /\ array[n] = array[n]
  BY DEF PlacesOK
<1>2. QED
  BY <1>1 DEF OnFile

LEMMA InitIInv == Init => IInv
<1> SUFFICES ASSUME Init PROVE IInv
  OBVIOUS
<1>1. Live = {} /\ array \in [Live -> Seq(Values)]
  BY DEF Init, Live
<1>2. TypeOK
  <2>1. inGet \in BOOLEAN
    BY DEF Init
  <2>2. index \in Wallet /\ ~index.Exact /\ index.Has < Modulus
    BY WalletsAssumption DEF Init, Wallet
  <2>3. index.Needs \in 1 .. MaxNumber + 1
    BY WalletsAssumption DEF Init
  <2>4. QED
    BY <1>1, <2>1, <2>2, <2>3, WalletsAssumption DEF Init, TypeOK
<1>3. CallOK /\ PlacesOK
  BY <1>1 DEF Init, CallOK, PlacesOK
<1>4. NumbersApart
  <2> DEFINE e == [i \in 1 .. 0 |-> 1]
  <2>1. index.Needs = 1 /\ index.Needs - 1 = 0 /\ e \in [1 .. 0 -> 1 .. 0]
    BY DEF Init
  <2>2. Chained(0, e)
    BY <2>1 DEF Chained, Init
  <2> HIDE DEF e
  <2>3. 0 \in 0 .. index.Needs - 1 /\ e \in [1 .. 0 -> 1 .. index.Needs - 1]
    BY <2>1
  <2>4. QED
    BY <1>1, <2>1, <2>2, <2>3 DEF NumbersApart
<1>5. QED
  BY <1>2, <1>3, <1>4 DEF IInv

LEMMA NextIInv == IInv /\ [Next]_vars => IInv'
<1> SUFFICES ASSUME IInv, [Next]_vars, ~harm' PROVE (TypeOK /\ CallOK /\ PlacesOK /\ NumbersApart)'
  BY DEF IInv
<1>1. CASE UNCHANGED vars
  <2>1. UNCHANGED <<index, p, u, anchor, file, pos, accum, FPos, call, j, harm, inGet, array>> /\ Live' = Live
    BY <1>1 DEF vars, spill, Live
  <2>2. ~harm /\ TypeOK /\ CallOK /\ PlacesOK /\ NumbersApart
    BY <2>1 DEF IInv
  <2>3. TypeOK' /\ CallOK' /\ PlacesOK'
    BY <2>1, <2>2 DEF TypeOK, CallOK, PlacesOK
  <2>4. NumbersApart'
    BY <2>1, <2>2, ChainStays
  <2>5. QED
    BY <2>3, <2>4
<1> SUFFICES ASSUME ~harm, TypeOK, CallOK, PlacesOK, NumbersApart, Next
             PROVE  (TypeOK /\ CallOK /\ PlacesOK /\ NumbersApart)'
  <2>1. CASE harm
    BY <1>1, <2>1 DEF Next, Running, WalletNew, WalletPurge, Purged, WalletDel, WalletGet, WalletSize, Put
  <2>2. CASE ~harm
    BY <1>1, <2>2 DEF IInv
  <2>3. QED
    BY <2>1, <2>2
<1>2. ASSUME NEW exact \in BOOLEAN, WalletNew(exact)
      PROVE  (TypeOK /\ CallOK /\ PlacesOK /\ NumbersApart)'
  <2>1. call = NULL /\ (anchor # 0 \/ index.Needs <= MaxNumber)
    BY <1>2 DEF WalletNew
  <2>2. CASE Numbered(exact)
    BY <2>1, <2>2, NumberedStep
  <2>3. CASE Purging([op |-> "new", exact |-> exact]) /\ UNCHANGED <<pos, FPos>>
    <3>1. pos' \in 0 .. Len(file)
      BY <2>3 DEF TypeOK
    <3>2. CallOK'
      BY <2>1, <2>3 DEF CallOK, Purging
    <3>3. QED
      BY <2>3, <3>1, <3>2, PurgingStep
  <2>4. QED
    BY <1>2, <2>2, <2>3 DEF WalletNew
<1>3. CASE WalletPurge
  BY <1>3, WalletPurgeStep
<1>4. CASE Purged
  <2>1. CASE call.op = "new" /\ Numbered(call.exact)
    <3>1. call.exact \in BOOLEAN /\ (anchor # 0 \/ index.Needs <= MaxNumber)
      BY <1>4, <2>1 DEF CallOK, Purged
    <3>2. QED
      BY <2>1, <3>1, NumberedStep
  <2>2. CASE call.op = "get" /\ Reread(call.n, FPos, call.needs)
    <3>1. /\ call.n \in Live /\ p[call.n] = NULL /\ call.needs = Len(array[call.n])
          /\ inGet \/ FPos = u[call.n]
      BY <1>4, <2>2 DEF CallOK, Purged
    <3>2. ~inGet
      BY <2>2 DEF Reread
    <3>3. QED
      BY <2>2, <3>1, <3>2, RereadStep
  <2>3. QED
    BY <1>4, <2>1, <2>2 DEF Purged
<1>5. ASSUME NEW n \in 1 .. MaxNumber, WalletDel(n)
      PROVE  (TypeOK /\ CallOK /\ PlacesOK /\ NumbersApart)'
  BY <1>5, WalletDelStep
<1>6. ASSUME NEW n \in 1 .. MaxNumber, WalletGet(n)
      PROVE  (TypeOK /\ CallOK /\ PlacesOK /\ NumbersApart)'
  <2>1. call = NULL /\ n \in Live /\ p[n] = NULL
    BY <1>6 DEF WalletGet
  <2>2. file[u[n] + 1].Needs = Len(array[n]) /\ u[n] + 1 \in 0 .. Len(file)
    BY <2>1, HeaderNeeds
  <2>3. CASE Reread(n, u[n], file[u[n] + 1].Needs)
    BY <2>1, <2>2, <2>3, RereadStep
  <2>4. CASE /\ Purging([op |-> "get", n |-> n, needs |-> file[u[n] + 1].Needs])
             /\ FPos' = u[n] /\ pos' = u[n] + 1
    <3>1. pos' \in 0 .. Len(file)
      BY <2>2, <2>4
    <3>2. CallOK'
      BY <2>1, <2>2, <2>4 DEF CallOK, Purging, Live
    <3>3. QED
      BY <2>4, <3>1, <3>2, PurgingStep
  <2>5. QED
    BY <1>6, <2>3, <2>4 DEF WalletGet
<1>7. ASSUME NEW n \in 1 .. MaxNumber, NEW needs \in Sizes, WalletSize(n, needs)
      PROVE  (TypeOK /\ CallOK /\ PlacesOK /\ NumbersApart)'
  BY <1>7, WalletSizeStep
<1>8. ASSUME NEW n \in 1 .. MaxNumber, NEW i \in Sizes, NEW v \in Values, Put(n, i, v)
      PROVE  (TypeOK /\ CallOK /\ PlacesOK /\ NumbersApart)'
  BY <1>8, PutStep
<1>9. QED
  BY <1>1, <1>2, <1>3, <1>4, <1>5, <1>6, <1>7, <1>8 DEF Next

\* In every state until a spill begins before the end of the file, a wallet is
\* left with too few slots, or a WalletGet ends whose own purge has written a
\* wallet, every number has its wallet in one place, and what a request waits
\* for stays possible while WalletPurge runs.  FPos, which the purge shares with
\* the WalletGet that called it, is that get's place until the purge writes.
THEOREM Invariance == Spec => []IInv
<1>1. Init => IInv
  BY InitIInv
<1>2. IInv /\ [Next]_vars => IInv'
  BY NextIInv
<1>3. QED
  BY <1>1, <1>2, PTL DEF Spec

\* WalletNew hands out only numbers that nobody has: those in use and those on
\* the chain of deleted ones stay apart, each on it once (WAL.C, WalletNew and
\* WalletDel).
THEOREM NumbersStayApart == Spec => []NumbersApart
<1>1. IInv => NumbersApart
  BY DEF IInv, NumbersApart
<1>2. QED
  BY <1>1, Invariance, PTL

LEMMA FirstSlots ==
  ASSUME NEW s \in Seq(Values), NEW a \in Seq(Values), Len(a) <= Len(s),
         \A i \in 1 .. Len(a) : s[i] = a[i]
  PROVE  SubSeq(s, 1, Len(a)) = a
<1>1. Len(a) \in Nat /\ Len(s) \in Nat /\ \A i \in 1 .. Len(a) : s[i] \in Values
  OBVIOUS
<1> SUFFICES ASSUME NEW l \in Int, l = Len(a) PROVE SubSeq(s, 1, l) = a
  BY <1>1
<1>2. /\ SubSeq(s, 1, l) \in Seq(Values)
      /\ Len(SubSeq(s, 1, l)) = IF 1 <= l THEN l - 1 + 1 ELSE 0
      /\ \A i \in 1 .. l - 1 + 1 : SubSeq(s, 1, l)[i] = s[1 + i - 1]
  BY <1>1, SubSeqProperties, 1 \in Int
<1>3. Len(SubSeq(s, 1, l)) = l
  BY <1>1, <1>2
<1>4. \A i \in 1 .. l : SubSeq(s, 1, l)[i] = a[i]
  BY <1>1, <1>2
<1>5. QED
  BY <1>2, <1>3, <1>4, SeqEqual

LEMMA FileSlots ==
  ASSUME NEW f, NEW at, NEW a \in Seq(Values), OnFile(f, at, a)
  PROVE  SubSeq(f, at + 2, at + 1 + Len(a)) = a
<1>1. /\ Len(a) \in Nat /\ at \in Nat
      /\ \A i \in 1 .. Len(a) : f[at + 1 + i] = a[i] /\ a[i] \in Values
  BY DEF OnFile
<1> SUFFICES ASSUME NEW m \in Int, m = at + 2, NEW l \in Int, l = at + 1 + Len(a)
             PROVE  SubSeq(f, m, l) = a
  BY <1>1
<1>2. \A i \in m .. l : f[i] \in Values
  <2> SUFFICES ASSUME NEW i \in m .. l PROVE f[i] \in Values
    OBVIOUS
  <2>1. i - at - 1 \in 1 .. Len(a) /\ at + 1 + (i - at - 1) = i
    BY <1>1
  <2>2. QED
    BY <1>1, <2>1
<1>3. /\ SubSeq(f, m, l) \in Seq(Values)
      /\ Len(SubSeq(f, m, l)) = IF m <= l THEN l - m + 1 ELSE 0
      /\ \A i \in 1 .. l - m + 1 : SubSeq(f, m, l)[i] = f[m + i - 1]
  BY <1>2, SubSeqProperties
<1>4. Len(SubSeq(f, m, l)) = Len(a) /\ l - m + 1 = Len(a) /\ \A i \in 1 .. Len(a) : m + i - 1 = at + 1 + i
  BY <1>1, <1>3
<1>5. \A i \in 1 .. Len(a) : SubSeq(f, m, l)[i] = a[i]
  BY <1>1, <1>3, <1>4
<1>6. QED
  BY <1>3, <1>4, <1>5, SeqEqual

\* What the clients have put into the wallets is found there, through every
\* extension, spill and reading back (WAL.C, WalletEx, WalletPurge, WalletGet),
\* as long as no purge within a WalletGet writes: that get reads the wallet
\* written last instead (WAL.C:162, 189).
THEOREM ContentsStay == Spec => []ContentsKept
<1>1. IInv => ContentsKept
  <2> SUFFICES ASSUME TypeOK, PlacesOK, NEW n \in Live
               PROVE  array[n] = IF p[n] # NULL THEN SubSeq(p[n].slots, 1, p[n].Needs)
                                 ELSE SubSeq(file, u[n] + 2, u[n] + 1 + file[u[n] + 1].Needs)
    BY DEF IInv, ContentsKept
  <2>1. array[n] \in Seq(Values)
    BY PlaceTypes
  <2>2. CASE p[n] # NULL
    <3>1. InMemory(p[n], array[n])
      BY <2>2 DEF PlacesOK
    <3>2. /\ p[n].slots \in Seq(Values) /\ p[n].Needs = Len(array[n]) /\ Len(array[n]) <= Len(p[n].slots)
          /\ \A i \in 1 .. Len(array[n]) : p[n].slots[i] = array[n][i]
      BY <3>1 DEF InMemory, Wallet
    <3>3. SubSeq(p[n].slots, 1, Len(array[n])) = array[n]
      BY <2>1, <3>2, FirstSlots
    <3>4. QED
      BY <2>2, <3>2, <3>3
  <2>3. CASE p[n] = NULL
    <3>1. OnFile(file, u[n], array[n])
      BY <2>3 DEF PlacesOK
    <3>2. SubSeq(file, u[n] + 2, u[n] + 1 + Len(array[n])) = array[n]
      BY <2>1, <3>1, FileSlots
    <3>3. file[u[n] + 1].Needs = Len(array[n])
      BY <3>1 DEF OnFile
    <3>4. QED
      BY <2>3, <3>2, <3>3
  <2>4. QED
    BY <2>2, <2>3
<1>2. QED
  BY <1>1, Invariance, PTL

=============================================================================
