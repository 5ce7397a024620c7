-------------------------- MODULE CrxSymbolsProofs --------------------------
(***************************************************************************)
(* Proofs about what ReadIn (CRX1999/Tools/rd.c) remembers of each symbol: *)
(* that LookUp, which writes to the same nodes, leaves it alone; that the  *)
(* marks, the places of the productions and the numbers are those of the   *)
(* text.                                                                   *)
(***************************************************************************)
EXTENDS CrxTreeProofs

-----------------------------------------------------------------------------
(* What LookUp does to the symbols. *)

\* r says of a symbol what g says, marks aside.
Lasting(g, r) ==
  /\ r.word = g.word /\ r.Prod = g.Prod /\ r.ProdPos = g.ProdPos
  /\ r.IsMsg = g.IsMsg /\ r.Num = g.Num

Same(g, r) == Lasting(g, r) /\ r.Temp = g.Temp /\ r.Hatch = g.Hatch

SameSymbols(d, e) == SameWords(d, e) /\ \A n \in Nodes(d) : Same(d.node[n], e.node[n])

LEMMA SameTwice ==
  ASSUME NEW d, NEW e, NEW f, SameSymbols(d, e), SameSymbols(e, f)
  PROVE  SameSymbols(d, f)
<1>1. Nodes(e) = Nodes(d)
  BY DEF SameSymbols, SameWords, Nodes
<1>2. QED
  BY <1>1 DEF SameSymbols, SameWords, Same, Lasting

\* A write to one of the two slots that link a node.
LEMMA LinkSame ==
  ASSUME NEW g, NEW x, IsNode(g)
  PROVE  /\ Same(g, [g EXCEPT !.Lower = x]) /\ IsNode([g EXCEPT !.Lower = x])
         /\ Same(g, [g EXCEPT !.Higher = x]) /\ IsNode([g EXCEPT !.Higher = x])
<1> DEFINE all(low, high) ==
             [word |-> g.word, Lower |-> low, Higher |-> high, Prod |-> g.Prod,
              Temp |-> g.Temp, Hatch |-> g.Hatch, IsExit |-> g.IsExit,
              IsMsg |-> g.IsMsg, ProdPos |-> g.ProdPos, Num |-> g.Num]
<1>1. g = all(g.Lower, g.Higher) /\ g.word \in Words
  BY DEF IsNode
<1>2. ASSUME NEW a, NEW b
      PROVE  Same(g, all(a, b)) /\ IsNode(all(a, b))
  <2> DEFINE r == all(a, b)
  <2>1. Same(g, r) /\ r.word = g.word
    BY DEF Same, Lasting
  <2>2. r = [word |-> r.word, Lower |-> r.Lower, Higher |-> r.Higher, Prod |-> r.Prod,
             Temp |-> r.Temp, Hatch |-> r.Hatch, IsExit |-> r.IsExit,
             IsMsg |-> r.IsMsg, ProdPos |-> r.ProdPos, Num |-> r.Num]
    OBVIOUS
  <2> HIDE DEF r
  <2>3. r.word \in Words
    BY <1>1, <2>1
  <2>4. IsNode(r)
    BY <2>2, <2>3 DEF IsNode
  <2>5. QED
    BY <2>1, <2>4 DEF r
<1>3. [g EXCEPT !.Lower = x] = all(x, g.Higher) /\ [g EXCEPT !.Higher = x] = all(g.Lower, x)
  BY <1>1
<1> HIDE DEF all
<1>4. QED
  BY <1>2, <1>3

LEMMA PutSame ==
  ASSUME NEW d, NEW n, NEW r, IsTree(d), n \in Nodes(d), IsNode(r), Same(d.node[n], r)
  PROVE  SameSymbols(d, [d EXCEPT !.node[n] = r])
<1> DEFINE e == [d EXCEPT !.node[n] = r]
<1>1. IsTree(e) /\ Len(e.node) = Len(d.node) /\ e.node = [d.node EXCEPT ![n] = r]
  BY PutNode
<1> HIDE DEF e
<1>2. \A m \in Nodes(d) : e.node[m] = IF m = n THEN r ELSE d.node[m]
  BY <1>1 DEF IsTree
<1>3. \A m \in Nodes(d) : Same(d.node[m], e.node[m])
  <2>1. \A m \in Nodes(d) : Same(d.node[m], d.node[m])
    BY DEF Same, Lasting
  <2>2. QED
    BY <1>2, <2>1
<1>4. \A m \in Nodes(d) : e.node[m].word = d.node[m].word
  BY <1>3 DEF Same, Lasting
<1>5. SameSymbols(d, e)
  BY <1>1, <1>3, <1>4 DEF SameSymbols, SameWords
<1>6. QED
  BY <1>5 DEF e

\* Neither do writes to the fields of the head change a symbol.
LEMMA HeadSame ==
  ASSUME NEW d, NEW e, IsTree(d), e.node = d.node,
         e = [Root |-> e.Root, LowHeld |-> e.LowHeld, HighHeld |-> e.HighHeld, node |-> e.node]
  PROVE  SameSymbols(d, e)
<1>1. IsTree(e)
  BY DEF IsTree, Nodes
<1>2. QED
  BY <1>1 DEF SameSymbols, SameWords, Same, Lasting

LEMMA SlotSame ==
  ASSUME NEW d, NEW e, NEW x, IsTree(d), e \in Nodes(d) \cup {0}
  PROVE  /\ SameSymbols(d, WriteSlot(d, LowSlot(e), x))
         /\ SameSymbols(d, WriteSlot(d, HighSlot(e), x))
<1>1. CASE e = 0
  <2> DEFINE f == [d EXCEPT !.LowHeld = x]
             g == [d EXCEPT !.HighHeld = x]
  <2>1. WriteSlot(d, LowSlot(e), x) = f /\ WriteSlot(d, HighSlot(e), x) = g
    BY <1>1 DEF WriteSlot, LowSlot, HighSlot, HeadSlot
  <2>2. f = [Root |-> d.Root, LowHeld |-> x, HighHeld |-> d.HighHeld, node |-> d.node]
    BY DEF IsTree
  <2>3. g = [Root |-> d.Root, LowHeld |-> d.LowHeld, HighHeld |-> x, node |-> d.node]
    BY DEF IsTree
  <2> HIDE DEF f, g
  <2>4. SameSymbols(d, f) /\ SameSymbols(d, g)
    BY <2>2, <2>3, HeadSame
  <2>5. QED
    BY <2>1, <2>4
<1>2. CASE e # 0
  <2> DEFINE r == [d.node[e] EXCEPT !.Higher = x]
             l == [d.node[e] EXCEPT !.Lower = x]
  <2>1. e \in Nodes(d) /\ IsNode(d.node[e])
    BY <1>2 DEF IsTree
  <2>2. WriteSlot(d, LowSlot(e), x) = [d EXCEPT !.node[e] = r]
    <3>1. LowSlot(e) = <<e, "Higher">>
      BY <1>2 DEF LowSlot
    <3>2. WriteSlot(d, <<e, "Higher">>, x) = [d EXCEPT !.node[e]["Higher"] = x]
      BY <1>2 DEF WriteSlot
    <3>3. [d EXCEPT !.node[e]["Higher"] = x] = [d EXCEPT !.node[e] = r]
      BY <2>1 DEF IsTree
    <3>4. QED
      BY <3>1, <3>2, <3>3
  <2>3. WriteSlot(d, HighSlot(e), x) = [d EXCEPT !.node[e] = l]
    <3>1. HighSlot(e) = <<e, "Lower">>
      BY <1>2 DEF HighSlot
    <3>2. WriteSlot(d, <<e, "Lower">>, x) = [d EXCEPT !.node[e]["Lower"] = x]
      BY <1>2 DEF WriteSlot
    <3>3. [d EXCEPT !.node[e]["Lower"] = x] = [d EXCEPT !.node[e] = l]
      BY <2>1 DEF IsTree
    <3>4. QED
      BY <3>1, <3>2, <3>3
  <2>4. Same(d.node[e], r) /\ IsNode(r) /\ Same(d.node[e], l) /\ IsNode(l)
    BY <2>1, LinkSame
  <2> HIDE DEF r, l
  <2>5. QED
    BY <2>1, <2>2, <2>3, <2>4, PutSame
<1>3. QED
  BY <1>1, <1>2

LEMMA JoinSame ==
  ASSUME NEW d, NEW n, IsTree(d), n \in Nodes(d)
  PROVE  SameSymbols(d, Join(d, n))
<1> DEFINE e == WriteSlot(d, HighSlot(n), d.LowHeld)
           f == WriteSlot(e, LowSlot(n), d.HighHeld)
           g == [f EXCEPT !.Root = n]
<1>1. Join(d, n) = g
  BY JoinSlots
<1>2. SameSymbols(d, e)
  BY SlotSame
<1>3. IsTree(e) /\ n \in Nodes(e)
  BY <1>2 DEF SameSymbols, SameWords, Nodes
<1> HIDE DEF e
<1>4. SameSymbols(e, f)
  BY <1>3, SlotSame
<1>5. IsTree(f)
  BY <1>4 DEF SameSymbols, SameWords
<1> HIDE DEF f
<1>6. SameSymbols(f, g)
  <2>1. PICK r, l, h, b : f = [Root |-> r, LowHeld |-> l, HighHeld |-> h, node |-> b]
    BY <1>5 DEF IsTree
  <2>2. g = [Root |-> n, LowHeld |-> l, HighHeld |-> h, node |-> b] /\ f.node = b
    BY <2>1
  <2> HIDE DEF g
  <2>3. QED
    BY <1>5, <2>2, HeadSame
<1>7. QED
  BY <1>1, <1>2, <1>4, <1>6, SameTwice

\* Both slots that are trash are written to.
LEMMA ClosedSame ==
  ASSUME NEW d, NEW s, NEW x, NEW y, IsTree(d), IsSearch(d, s)
  PROVE  SameSymbols(d, WriteSlot(WriteSlot(d, s.low, x), s.high, y))
<1> DEFINE le == s.low[1]
           he == s.high[1]
           e == WriteSlot(d, s.low, x)
<1>1. /\ le \in Nodes(d) \cup {0} /\ he \in Nodes(d) \cup {0}
      /\ s.low = LowSlot(le) /\ s.high = HighSlot(he)
  BY DEF IsSearch
<1>2. SameSymbols(d, e)
  <2>1. e = WriteSlot(d, LowSlot(le), x)
    BY <1>1
  <2> HIDE DEF e, le
  <2>2. QED
    BY <1>1, <2>1, SlotSame
<1>3. IsTree(e) /\ Nodes(e) = Nodes(d)
  BY <1>2 DEF SameSymbols, SameWords, Nodes
<1> HIDE DEF e
<1>4. SameSymbols(e, WriteSlot(e, s.high, y))
  <2>1. WriteSlot(e, s.high, y) = WriteSlot(e, HighSlot(he), y)
    BY <1>1
  <2> HIDE DEF he
  <2>2. QED
    BY <1>1, <1>3, <2>1, SlotSame
<1>5. QED
  BY <1>2, <1>4, SameTwice DEF e

LEMMA ProbeSame ==
  ASSUME TreeInv, Probe
  PROVE  SameSymbols(dict, dict')
<1>1. IsTree(dict) /\ IsSearch(dict, search)
  BY DEF Probe, TreeInv
<1>2. /\ search.low[1] \in Nodes(dict) \cup {0} /\ search.high[1] \in Nodes(dict) \cup {0}
      /\ search.low = LowSlot(search.low[1]) /\ search.high = HighSlot(search.high[1])
  BY <1>1 DEF IsSearch
<1>3. \/ dict' = WriteSlot(dict, search.low, search.Look)
      \/ dict' = WriteSlot(dict, search.high, search.Look)
  BY DEF Probe, ProbeLow, ProbeHigh
<1> DEFINE le == search.low[1]
           he == search.high[1]
<1>4. \/ dict' = WriteSlot(dict, LowSlot(le), search.Look)
      \/ dict' = WriteSlot(dict, HighSlot(he), search.Look)
  BY <1>2, <1>3
<1>5. le \in Nodes(dict) \cup {0} /\ he \in Nodes(dict) \cup {0}
  BY <1>2
<1> HIDE DEF le, he
<1>6. QED
  BY <1>1, <1>4, <1>5, SlotSame

\* d is the dictionary with the word that was looked for at n.
Result(d, n) ==
  /\ IsTree(d) /\ n \in Nodes(d) /\ Nodes(d) = Nodes(dict) \cup {n}
  /\ d.node[n].word = search.word
  /\ \A m \in Nodes(dict) : Same(dict.node[m], d.node[m])
  /\ n \notin Nodes(dict) => Same(Node(search.word), d.node[n])

LEMMA FoundResult ==
  ASSUME TreeInv, FindIt
  PROVE  \E d, n : Result(d, n) /\ Return(d, n)
<1> DEFINE s == search
           k == s.Look
           x == dict.node[k].Lower
           e == WriteSlot(dict, s.low, x)
           y == e.node[k].Higher
           f == WriteSlot(e, s.high, y)
           g == Join(f, k)
<1>1. Searching /\ k # 0 /\ IsTree(dict) /\ IsSearch(dict, s) /\ dict.node[k].word = s.word
  BY DEF FindIt, TreeInv
<1>2. k \in Nodes(dict)
  BY <1>1, FoundWhole DEF TreeInv
<1>3. Return(g, k)
  <2>1. Found(dict, s) = g
    BY DEF Found
  <2>2. QED
    BY <2>1 DEF FindIt
<1>4. SameSymbols(dict, f)
  <2> HIDE DEF x, y
  <2>1. QED
    BY <1>1, ClosedSame
<1>5. IsTree(f) /\ k \in Nodes(f)
  BY <1>2, <1>4 DEF SameSymbols, SameWords, Nodes
<1> HIDE DEF f, k, s
<1>6. SameSymbols(f, g)
  BY <1>5, JoinSame
<1> HIDE DEF g
<1>7. SameSymbols(dict, g)
  BY <1>4, <1>6, SameTwice
<1>8. Result(g, k)
  BY <1>1, <1>2, <1>7 DEF SameSymbols, SameWords, Nodes, Result, s
<1>9. QED
  BY <1>3, <1>8

LEMMA MadeResult ==
  ASSUME TreeInv, MakeIt
  PROVE  \E d, n : Result(d, n) /\ Return(d, n)
<1> DEFINE s == search
           f == WriteSlot(WriteSlot(dict, s.low, 0), s.high, 0)
           r == Node(s.word)
           c == Grown(f, r)
           n == Len(dict.node) + 1
           g == Join(c, n)
<1>1. Searching /\ IsTree(dict) /\ IsSearch(dict, s)
  BY DEF MakeIt, TreeInv
<1>2. SameSymbols(dict, f)
  BY <1>1, ClosedSame
<1>3. Len(f.node) = Len(dict.node) /\ IsTree(f) /\ Len(dict.node) \in Nat /\ Nodes(f) = Nodes(dict)
  BY <1>1, <1>2 DEF SameSymbols, SameWords, IsTree, Nodes
<1>4. Make(dict, s) = Join(c, Len(c.node))
  BY DEF Make, Grown
<1>5. IsNode(r)
  <2>1. r.word = s.word /\ s.word \in Words
    BY <1>1 DEF Node, IsSearch
  <2>2. r = [word |-> r.word, Lower |-> r.Lower, Higher |-> r.Higher, Prod |-> r.Prod,
             Temp |-> r.Temp, Hatch |-> r.Hatch, IsExit |-> r.IsExit,
             IsMsg |-> r.IsMsg, ProdPos |-> r.ProdPos, Num |-> r.Num]
    BY DEF Node
  <2> HIDE DEF r
  <2>3. QED
    BY <2>1, <2>2 DEF IsNode
<1> HIDE DEF f, r
<1>6. /\ IsTree(c) /\ Len(c.node) = n /\ c.node[n] = r
      /\ \A m \in Nodes(dict) : c.node[m] = f.node[m]
  BY <1>3, <1>5, AppendNode
<1> HIDE DEF c
<1>7. n \in Nodes(c) /\ Nodes(c) = Nodes(dict) \cup {n} /\ n \notin Nodes(dict)
  BY <1>3, <1>6 DEF Nodes
<1>8. SameSymbols(c, g)
  BY <1>6, <1>7, JoinSame
<1>9. g.Root = n
  <2> HIDE DEF n
  <2>1. QED
    BY <1>6, <1>7, JoinWrites
<1>10. Return(g, n)
  <2>1. Make(dict, s) = g
    BY <1>4, <1>6
  <2>2. QED
    BY <1>9, <2>1 DEF MakeIt
<1> HIDE DEF g, n
<1>11. IsTree(g) /\ Nodes(g) = Nodes(c)
  BY <1>8 DEF SameSymbols, SameWords, Nodes
<1>12. ASSUME NEW m \in Nodes(dict) PROVE Same(dict.node[m], g.node[m])
  <2>1. Same(dict.node[m], f.node[m])
    BY <1>2 DEF SameSymbols
  <2>2. Same(c.node[m], g.node[m]) /\ c.node[m] = f.node[m]
    BY <1>6, <1>7, <1>8 DEF SameSymbols
  <2>3. QED
    BY <2>1, <2>2 DEF Same, Lasting
<1>13. Same(r, g.node[n])
  BY <1>6, <1>7, <1>8 DEF SameSymbols
<1>14. g.node[n].word = search.word
  <2>1. r.word = s.word
    BY DEF r, Node
  <2>2. QED
    BY <1>13, <2>1 DEF Same, Lasting, s
<1>15. Result(g, n)
  BY <1>7, <1>11, <1>12, <1>13, <1>14 DEF Result, r, s
<1>16. QED
  BY <1>10, <1>15

\* A field of a node that is written to, and the rest.
LEMMA FieldWritten ==
  ASSUME NEW g, NEW x, IsNode(g)
  PROVE  /\ IsNode([g EXCEPT !.Hatch = x]) /\ Lasting(g, [g EXCEPT !.Hatch = x])
         /\ [g EXCEPT !.Hatch = x].Hatch = x /\ [g EXCEPT !.Hatch = x].Temp = g.Temp
         /\ IsNode([g EXCEPT !.Temp = x]) /\ Lasting(g, [g EXCEPT !.Temp = x])
         /\ [g EXCEPT !.Temp = x].Temp = x /\ [g EXCEPT !.Temp = x].Hatch = g.Hatch
         /\ IsNode([g EXCEPT !.IsExit = x]) /\ Same(g, [g EXCEPT !.IsExit = x])
<1>1. /\ Kin(g, [g EXCEPT !.Hatch = x]) /\ Kin(g, [g EXCEPT !.Temp = x])
      /\ Kin(g, [g EXCEPT !.IsExit = x])
  BY KinFields
<1>2. PICK a, b, c, d, e, f, i, m, p, n :
        g = [word |-> a, Lower |-> b, Higher |-> c, Prod |-> d, Temp |-> e, Hatch |-> f,
             IsExit |-> i, IsMsg |-> m, ProdPos |-> p, Num |-> n]
  BY DEF IsNode
<1>3. Lasting(g, [g EXCEPT !.Hatch = x])
  BY <1>2 DEF Lasting
<1>4. [g EXCEPT !.Hatch = x].Hatch = x /\ [g EXCEPT !.Hatch = x].Temp = g.Temp
  BY <1>2
<1>5. Lasting(g, [g EXCEPT !.Temp = x])
  BY <1>2 DEF Lasting
<1>6. [g EXCEPT !.Temp = x].Temp = x /\ [g EXCEPT !.Temp = x].Hatch = g.Hatch
  BY <1>2
<1>7. Same(g, [g EXCEPT !.IsExit = x])
  BY <1>2 DEF Same, Lasting
<1>8. QED
  BY <1>1, <1>3, <1>4, <1>5, <1>6, <1>7 DEF Kin

LEMMA MarkedNode ==
  ASSUME NEW d, NEW n, NEW r, IsTree(d), n \in Nodes(d), IsNode(r)
  PROVE  /\ IsTree(Mark(d, n, r)) /\ Nodes(Mark(d, n, r)) = Nodes(d)
         /\ Mark(d, n, r).node[n] = r
         /\ \A m \in Nodes(d) : m # n => Mark(d, n, r).node[m] = d.node[m]
<1> DEFINE e == Mark(d, n, r)
<1>1. IsTree(e) /\ Len(e.node) = Len(d.node) /\ e.node = [d.node EXCEPT ![n] = r]
  BY PutNode DEF Mark
<1> HIDE DEF e
<1>2. \A m \in Nodes(d) : e.node[m] = IF m = n THEN r ELSE d.node[m]
  BY <1>1 DEF IsTree
<1>3. Nodes(e) = Nodes(d)
  BY <1>1 DEF Nodes
<1>4. QED
  BY <1>1, <1>2, <1>3 DEF e

\* What the return from LookUp, at n, has made of the dictionary.
Outcome(n) ==
  /\ IsTree(dict') /\ n \in Nodes(dict') /\ Nodes(dict') = Nodes(dict) \cup {n}
  /\ dict'.node[n].word = search.word
  /\ \A m \in Nodes(dict) : /\ Lasting(dict.node[m], dict'.node[m])
                            /\ m # n => Same(dict.node[m], dict'.node[m])
  /\ n \notin Nodes(dict) => Lasting(Node(search.word), dict'.node[n])
  /\ dict'.node[n].Hatch <=> \/ n \in Nodes(dict) /\ dict.node[n].Hatch
                             \/ wanted /\ input[at - 1].kind = "word" /\ TrapReduce
  /\ wanted => (dict'.node[n].Temp <=> n \in Nodes(dict) /\ dict.node[n].Temp)

\* NextToken has returned.
Answered == wanted' \in BOOLEAN /\ ~wanted'

\* Where the program goes on.
GoesOn(n) ==
  /\ search' = NoSearch
  /\ UNCHANGED <<reading, at, closers, step, Text, count, Num2Sym>>
  /\ ~wanted => UNCHANGED <<TrapReduce, scanning, HeldToken, goal, Token, wanted>>
  /\ wanted =>
       /\ TrapReduce' = IF input[at - 1].kind = "word" THEN FALSE ELSE TrapReduce
       /\ \/ goal' = "fail" /\ UNCHANGED <<scanning, HeldToken, Token, wanted>>
          \/ UNCHANGED goal /\ HeldToken' = n /\ scanning' = "held" /\ Token' = Break /\ Answered
          \/ UNCHANGED <<goal, HeldToken, scanning>> /\ Token' = n /\ Answered

LEMMA NewNode ==
  \A w : Node(w).Hatch = FALSE /\ Node(w).Temp = FALSE
BY DEF Node

LEMMA Settled ==
  ASSUME NEW d, NEW n, Result(d, n), Return(d, n)
  PROVE  Outcome(n)
<1> DEFINE marks == wanted /\ input[at - 1].kind = "word"
           g == d.node[n]
<1>1. IsTree(d) /\ n \in Nodes(d) /\ IsNode(g)
  BY DEF Result, IsTree
<1>2. CASE marks
  <2> DEFINE x == g.Hatch \/ TrapReduce
             y == g.IsExit \/ g.word \in Dotted
             r == [g EXCEPT !.Hatch = x]
             e == Mark(d, n, r)
             q == [e.node[n] EXCEPT !.IsExit = y]
  <2>1. dict' = [d EXCEPT !.node[n].Hatch = @ \/ TrapReduce,
                          !.node[n].IsExit = @ \/ d.node[n].word \in Dotted]
    BY <1>2 DEF Return, FinishWord
  <2>2. dict' = [[d EXCEPT !.node[n].Hatch = x] EXCEPT !.node[n].IsExit = y]
    <3> DEFINE z == d.node[n].word \in Dotted
    <3> HIDE DEF z
    <3>1. dict' = [d EXCEPT !.node[n].Hatch = @ \/ TrapReduce, !.node[n].IsExit = @ \/ z]
      BY <2>1 DEF z
    <3>2. dict' = [[d EXCEPT !.node[n].Hatch = x] EXCEPT !.node[n].IsExit = d.node[n].IsExit \/ z]
      BY <3>1
    <3>3. QED
      BY <3>2 DEF z
  <2>3. dict' = Mark(e, n, q)
    <3> HIDE DEF y
    <3>1. e = [d EXCEPT !.node[n].Hatch = x]
      BY DEF Mark
    <3> HIDE DEF e
    <3>2. QED
      BY <2>2, <3>1 DEF Mark
  <2>4. IsNode(r) /\ Lasting(g, r) /\ r.Hatch = x /\ r.Temp = g.Temp
    <3> HIDE DEF g, x
    <3>1. QED
      BY <1>1, FieldWritten
  <2> HIDE DEF r, x, y
  <2>5. /\ IsTree(e) /\ Nodes(e) = Nodes(d) /\ e.node[n] = r
        /\ \A m \in Nodes(d) : m # n => e.node[m] = d.node[m]
    BY <1>1, <2>4, MarkedNode
  <2>6. IsNode(q) /\ Same(r, q)
    BY <2>4, <2>5, FieldWritten
  <2> HIDE DEF e, q
  <2>7. /\ IsTree(dict') /\ Nodes(dict') = Nodes(d) /\ dict'.node[n] = q
        /\ \A m \in Nodes(d) : m # n => dict'.node[m] = d.node[m]
    <3>1. n \in Nodes(e)
      BY <1>1, <2>5
    <3>2. /\ IsTree(Mark(e, n, q)) /\ Nodes(Mark(e, n, q)) = Nodes(e) /\ Mark(e, n, q).node[n] = q
          /\ \A m \in Nodes(e) : m # n => Mark(e, n, q).node[m] = e.node[m]
      BY <2>5, <2>6, <3>1, MarkedNode
    <3>3. QED
      BY <2>3, <2>5, <3>2
  <2>8. Lasting(g, q) /\ q.Temp = g.Temp /\ (q.Hatch <=> g.Hatch \/ TrapReduce)
    BY <2>4, <2>6 DEF Same, Lasting, x
  <2>9. QED
    BY <1>2, <2>7, <2>8, NewNode DEF Result, Outcome, Same, Lasting
<1>3. CASE wanted /\ ~marks
  <2>1. dict' = d
    BY <1>3 DEF Return, FinishQuoted
  <2>2. QED
    BY <1>3, <2>1, NewNode DEF Result, Outcome, Same, Lasting
<1>4. CASE ~wanted
  <2> DEFINE r == [g EXCEPT !.Temp = TRUE]
  <2>1. dict' = Mark(d, n, r)
    BY <1>4 DEF Return, FinishName, Mark
  <2>2. IsNode(r) /\ Lasting(g, r) /\ r.Hatch = g.Hatch
    <3> HIDE DEF g
    <3>1. QED
      BY <1>1, FieldWritten
  <2> HIDE DEF r
  <2>3. /\ IsTree(dict') /\ Nodes(dict') = Nodes(d) /\ dict'.node[n] = r
        /\ \A m \in Nodes(d) : m # n => dict'.node[m] = d.node[m]
    BY <1>1, <2>1, <2>2, MarkedNode
  <2>4. QED
    BY <1>4, <2>2, <2>3, NewNode DEF Result, Outcome, Same, Lasting
<1>5. QED
  BY <1>2, <1>3, <1>4

LEMMA Returns ==
  ASSUME TreeInv, FindIt \/ MakeIt
  PROVE  \E n : Outcome(n) /\ GoesOn(n)
<1>1. PICK d, n : Result(d, n) /\ Return(d, n)
  BY FoundResult, MadeResult
<1>2. Outcome(n)
  BY <1>1, Settled
<1>3. /\ search' = NoSearch
      /\ UNCHANGED <<reading, at, closers, step, Text, count, Num2Sym>>
  BY <1>1 DEF Return
<1>4. ~wanted => UNCHANGED <<TrapReduce, scanning, HeldToken, goal, Token, wanted>>
  BY <1>1 DEF Return, FinishName
<1>5. ASSUME wanted
      PROVE  /\ TrapReduce' = IF input[at - 1].kind = "word" THEN FALSE ELSE TrapReduce
             /\ \/ goal' = "fail" /\ UNCHANGED <<scanning, HeldToken, Token, wanted>>
                \/ UNCHANGED goal /\ HeldToken' = n /\ scanning' = "held" /\ Token' = Break /\ Answered
                \/ UNCHANGED <<goal, HeldToken, scanning>> /\ Token' = n /\ Answered
  <2>1. CASE input[at - 1].kind = "word"
    <3>1. FinishWord(d, n)
      BY <1>1, <1>5, <2>1 DEF Return
    <3> DEFINE slash == ComesNext.kind = "slash"
    <3>2. CASE slash
      BY <2>1, <3>1, <3>2 DEF FinishWord
    <3>3. CASE ~slash
      BY <2>1, <3>1, <3>3 DEF FinishWord, Deliver, Answered
    <3>4. QED
      BY <3>2, <3>3
  <2>2. CASE input[at - 1].kind # "word"
    BY <1>1, <1>5, <2>2 DEF Return, FinishQuoted, Deliver, Answered
  <2>3. QED
    BY <2>1, <2>2
<1>6. QED
  BY <1>2, <1>3, <1>4, <1>5 DEF GoesOn

-----------------------------------------------------------------------------
(* The scanner and the text. *)

Closings == {Code(")"), Code("]")}

\* Labels at which the parser is inside a production.
Inside == {"assign", "rhs", "prim", "plus", "cats", "ors", "end"}

ScanInv ==
  /\ at \in 1 .. Len(input) + 1 /\ wanted \in BOOLEAN /\ Token \in Int
  /\ scanning \in {"free", "held", "done"}
  /\ Searching /\ wanted =>
       /\ at >= 2 /\ scanning = "free"
       /\ input[at - 1].kind \in {"word", "quoted"} /\ input[at - 1].text = search.word
  /\ Searching /\ ~wanted => goal = "done"
  /\ goal \in {"count", "done"} => ~wanted /\ scanning = "done"
  /\ scanning = "done" => at = Len(input) + 1
  /\ ~wanted /\ Token = TheEnd => scanning = "done"
  /\ scanning = "held" => HeldToken \in Nodes(dict)
  /\ Token > 0 => Token \in Nodes(dict)

TextInv ==
  /\ Text \in Seq(Int) /\ Text # <<>> /\ closers \in Seq(Closings)
  /\ \A i \in DOMAIN Text : Text[i] > 0 => Text[i] \in Nodes(dict)
  /\ goal \in {"start", "lhs", "more", "count"} => Text[Len(Text)] = Break
  /\ goal \in Inside => Text[Len(Text)] # Break

LEMMA SignCodes ==
  /\ \A s : (\E k \in DOMAIN Special : Special[k] = s) => Code(s) \in -11 .. -1
  /\ Code("=") \in -11 .. -1 /\ Code("+") \in -11 .. -1 /\ Code("|") \in -11 .. -1
  /\ Code("(") \in -11 .. -1 /\ Code("[") \in -11 .. -1
  /\ Code(")") \in -11 .. -1 /\ Code("]") \in -11 .. -1
<1>1. ASSUME NEW s, \E k \in DOMAIN Special : Special[k] = s
      PROVE  Code(s) \in -11 .. -1
  <2>1. DOMAIN Special = 1 .. 11
    BY DEF Special
  <2> DEFINE c == CHOOSE i \in DOMAIN Special : Special[i] = s
  <2>2. c \in DOMAIN Special
    BY <1>1
  <2>3. Code(s) = -c
    BY DEF Code
  <2> HIDE DEF c
  <2>4. QED
    BY <2>1, <2>2, <2>3
<1>2. /\ DOMAIN Special = 1 .. 11
      /\ Special[9] = "=" /\ Special[11] = "+" /\ Special[8] = "|" /\ Special[2] = "("
      /\ Special[6] = "[" /\ Special[3] = ")" /\ Special[7] = "]"
  BY DEF Special
<1>3. Code("=") \in -11 .. -1 /\ Code("+") \in -11 .. -1 /\ Code("|") \in -11 .. -1
  BY <1>1, <1>2
<1>4. Code("(") \in -11 .. -1 /\ Code("[") \in -11 .. -1
  BY <1>1, <1>2
<1>5. Code(")") \in -11 .. -1 /\ Code("]") \in -11 .. -1
  BY <1>1, <1>2
<1>6. QED
  BY <1>1, <1>3, <1>4, <1>5

\* The steps of the scanner that look nothing up.
Passes ==
  /\ wanted /\ ~Searching /\ search' = search /\ dict' = dict
  /\ UNCHANGED <<input, closers, step, Text, count, Num2Sym>>
  /\ \/ /\ scanning = "free" /\ at <= Len(input) /\ input[at].kind \in {"white", "hash"}
        /\ at' = at + 1 /\ TrapReduce' = (TrapReduce \/ input[at].kind = "hash")
        /\ UNCHANGED <<scanning, HeldToken, Token, wanted, goal>>
     \/ /\ scanning = "free" /\ at <= Len(input) /\ input[at].kind = "sign"
        /\ Token' \in -11 .. -1 /\ Answered /\ at' = at + 1
        /\ UNCHANGED <<scanning, HeldToken, TrapReduce, goal>>
     \/ /\ scanning = "free" /\ at = Len(input) + 1 /\ Token' = Break
        /\ scanning' = "done" /\ Answered
        /\ UNCHANGED <<at, HeldToken, TrapReduce, goal>>
     \/ /\ scanning = "done" /\ Token' = TheEnd
        /\ scanning' = "done" /\ Answered
        /\ UNCHANGED <<at, HeldToken, TrapReduce, goal>>
     \/ /\ scanning = "held" /\ Token' = HeldToken
        /\ scanning' = "free" /\ Answered
        /\ UNCHANGED <<at, HeldToken, TrapReduce, goal>>
     \/ /\ goal' = "fail" /\ UNCHANGED <<at, scanning, HeldToken, TrapReduce, Token, wanted>>

LEMMA InputKinds ==
  ASSUME TreeInv
  PROVE  /\ Len(input) \in Nat /\ DOMAIN input = 1 .. Len(input)
         /\ \A i \in 1 .. Len(input) : input[i].kind \in Kinds
         /\ \A i \in 1 .. Len(input) :
              /\ input[i].kind \in {"word", "quoted"} => input[i].text \in Words
              /\ input[i].kind = "sign" => \E k \in DOMAIN Special : Special[k] = input[i].text
<1>1. /\ input \in Seq([kind : Kinds, text : STRING])
      /\ \A i \in DOMAIN input : input[i].kind \in {"word", "quoted"} => input[i].text \in Words
      /\ \A i \in DOMAIN input : input[i].kind = "sign" => \E k \in DOMAIN Special : Special[k] = input[i].text
  BY InputTyped DEF TreeInv
<1>2. Len(input) \in Nat /\ DOMAIN input = 1 .. Len(input)
  BY <1>1
<1>3. ASSUME NEW i \in 1 .. Len(input) PROVE input[i].kind \in Kinds
  <2> DEFINE lexemes == [kind : Kinds, text : STRING]
  <2>1. input \in Seq(lexemes)
    BY <1>1
  <2>2. \A r \in lexemes : r.kind \in Kinds
    OBVIOUS
  <2> HIDE DEF lexemes
  <2>3. input[i] \in lexemes
    BY <1>2, <2>1
  <2>4. QED
    BY <2>2, <2>3
<1>4. QED
  BY <1>1, <1>2, <1>3

\* The kind of what comes next tells whether there is anything.
LEMMA ComesNow ==
  ASSUME TreeInv, ScanInv
  PROVE  /\ at <= Len(input) => Lexeme = input[at] /\ at \in 1 .. Len(input)
         /\ Lexeme.kind \in Kinds => at <= Len(input)
         /\ Lexeme.kind = "nul" => at = Len(input) + 1
<1>1. /\ Len(input) \in Nat /\ at \in 1 .. Len(input) + 1
      /\ \A i \in 1 .. Len(input) : input[i].kind \in Kinds
  BY InputKinds DEF ScanInv
<1>2. "nul" \notin Kinds
  BY DEF Kinds
<1>3. CASE at <= Len(input)
  <2>1. at \in 1 .. Len(input)
    BY <1>1, <1>3
  <2>2. Lexeme = input[at]
    BY <1>3 DEF Lexeme
  <2>3. QED
    BY <1>1, <1>2, <1>3, <2>1, <2>2
<1>4. CASE ~(at <= Len(input))
  <2>1. at = Len(input) + 1
    BY <1>1, <1>4
  <2>2. Lexeme.kind = "nul"
    BY <1>4 DEF Lexeme
  <2>3. QED
    BY <1>2, <1>4, <2>1, <2>2
<1>5. QED
  BY <1>3, <1>4

LEMMA ScannerPasses ==
  ASSUME TreeInv, ScanInv, Skip \/ TakeSign \/ TakeNul \/ TakeHeld \/ TakeOdd
  PROVE  Passes
<1>1. {"white", "hash", "sign"} \subseteq Kinds
  BY DEF Kinds
<1>2. CASE Skip
  BY <1>1, <1>2, ComesNow DEF Skip, Scanning, Passes, reading, parser, results
<1>3. CASE TakeSign
  <2>1. at <= Len(input) /\ at \in 1 .. Len(input) /\ Lexeme = input[at] /\ input[at].kind = "sign"
    BY <1>1, <1>3, ComesNow DEF TakeSign
  <2>2. Code(Lexeme.text) \in -11 .. -1
    BY <2>1, InputKinds, SignCodes
  <2>3. QED
    BY <1>3, <2>1, <2>2 DEF TakeSign, Scanning, Deliver, Answered, Passes, reading, results
<1>4. CASE TakeNul
  BY <1>4, ComesNow DEF TakeNul, Scanning, Deliver, Answered, Passes, reading, results
<1>5. CASE TakeHeld
  BY <1>5 DEF TakeHeld, Scanning, Deliver, Answered, Passes, reading, results
<1>6. CASE TakeOdd
  BY <1>6 DEF TakeOdd, Scanning, Passes, reading, scanner, results
<1>7. QED
  BY <1>2, <1>3, <1>4, <1>5, <1>6

\* The steps of the parser.
Moves ==
  /\ ~wanted /\ ~Searching /\ search' = search /\ wanted' \in BOOLEAN
  /\ UNCHANGED <<input, at, scanning, HeldToken, TrapReduce, Token>>
  /\ closers' \in Seq(Closings)
  /\ \/ /\ Text' = Text /\ UNCHANGED <<dict, count, Num2Sym>> /\ goal # "done"
        /\ \/ goal' = "fail"
           \/ goal = "start" /\ goal' = "lhs" /\ wanted'
           \/ goal \in Inside /\ goal' \in Inside
           \/ goal = "more" /\ goal' = "lhs"
           \/ goal = "more" /\ goal' = "count" /\ Token = TheEnd /\ ~wanted'
     \/ /\ Lhs /\ goal = "lhs" /\ Token > 0 /\ Text' = Append(Text, Token)
        /\ goal' = "assign" /\ wanted' /\ UNCHANGED <<count, Num2Sym>>
     \/ /\ goal \in Inside /\ goal' \in Inside /\ UNCHANGED <<dict, count, Num2Sym>>
        /\ \E x \in Int : x # Break /\ (x > 0 => x = Token) /\ Text' = Append(Text, x)
     \/ /\ goal = "end" /\ goal' = "more" /\ UNCHANGED <<dict, count, Num2Sym>> /\ wanted'
        /\ Text' = Append(Text, Break)
     \/ /\ CountThem /\ goal = "count" /\ goal' = "done" /\ ~wanted' /\ Text' = Append(Text, TheEnd)

ParserActs ==
  \/ Bnf \/ Lhs \/ AssignSign \/ Rhs \/ Prim \/ AfterPrim \/ Cats \/ Ors
  \/ EndOfProduction \/ More \/ CountThem

LEMMA ClosersKept ==
  ASSUME closers \in Seq(Closings)
  PROVE  /\ \A t \in Openers : Append(closers, Closer(t)) \in Seq(Closings)
         /\ closers # <<>> => /\ SubSeq(closers, 1, Len(closers) - 1) \in Seq(Closings)
                              /\ closers[Len(closers)] \in -11 .. -1
<1>1. \A t : Closer(t) \in Closings
  BY DEF Closer, Closings
<1>2. ASSUME NEW t \in Openers PROVE Append(closers, Closer(t)) \in Seq(Closings)
  BY <1>1
<1>3. ASSUME closers # <<>>
      PROVE  /\ SubSeq(closers, 1, Len(closers) - 1) \in Seq(Closings)
             /\ closers[Len(closers)] \in Closings
  <2>1. Len(closers) \in Nat /\ Len(closers) > 0
    BY <1>3
  <2>2. closers[Len(closers)] \in Closings
    BY <2>1
  <2>3. Len(closers) - 1 \in Nat /\ Len(closers) - 1 <= Len(closers)
    BY <2>1
  <2>4. SubSeq(closers, 1, Len(closers) - 1) \in Seq(Closings)
    BY <2>1, <2>3
  <2>5. QED
    BY <2>2, <2>4
<1>4. Closings \subseteq -11 .. -1
  BY SignCodes DEF Closings
<1>5. QED
  BY <1>2, <1>3, <1>4

LEMMA ParserMoves ==
  ASSUME ScanInv, TextInv, ParserActs
  PROVE  Moves
<1> USE DEF Moves, Parsing, Goto, NextThen, Fail, Place, Unparsed, reading, scanner, results, Inside
<1>1. closers \in Seq(Closings) /\ Token \in Int /\ wanted \in BOOLEAN
  BY DEF ScanInv, TextInv
<1>2. /\ Code("=") \in -11 .. -1 /\ Code("+") \in -11 .. -1 /\ Code("|") \in -11 .. -1
      /\ Code("(") \in -11 .. -1 /\ Code("[") \in -11 .. -1
  BY SignCodes
<1>3. \A x \in -11 .. -1 : x \in Int /\ x # Break /\ ~(x > 0)
  BY DEF Break
<1>4. CASE Bnf
  BY <1>1, <1>4 DEF Bnf
<1>5. CASE Lhs
  <2>1. CASE Token <= 0
    BY <1>1, <1>5, <2>1 DEF Lhs
  <2>2. CASE ~(Token <= 0)
    BY <1>1, <1>5, <2>2 DEF Lhs
  <2>3. QED
    BY <2>1, <2>2
<1>6. CASE AssignSign
  <2> DEFINE x == IF Token = Code("+") THEN Permute ELSE Code("=")
             fits == Token \in Spelling(flavour)[step]
             more == step < Len(Spelling(flavour))
  <2>1. x \in Int /\ x # Break /\ ~(x > 0)
    BY <1>2, <1>3 DEF Permute, Break
  <2>2. /\ ~wanted /\ ~Searching /\ goal = "assign" /\ dict' = dict /\ search' = search
        /\ UNCHANGED <<input, at, scanning, HeldToken, TrapReduce, Token, count, Num2Sym>>
    BY <1>6 DEF AssignSign
  <2>3. /\ fits /\ more => goal' = "assign" /\ wanted' = TRUE /\ Text' = Text /\ closers' = closers
        /\ fits /\ ~more => goal' = "rhs" /\ wanted' = TRUE /\ Text' = Append(Text, x) /\ closers' = closers
        /\ ~fits => goal' = "fail" /\ wanted' = wanted /\ Text' = Text /\ closers' = closers
    BY <1>6 DEF AssignSign
  <2> HIDE DEF x, fits, more
  <2>4. QED
    BY <1>1, <2>1, <2>2, <2>3
<1>7. CASE Rhs
  BY <1>1, <1>7 DEF Rhs
<1>8. CASE Prim
  <2>1. /\ ~wanted /\ ~Searching /\ goal = "prim" /\ dict' = dict /\ search' = search
        /\ UNCHANGED <<input, at, scanning, HeldToken, TrapReduce, Token, count, Num2Sym>>
    BY <1>8 DEF Prim
  <2>2. CASE Token > 0 /\ Place("plus") /\ UNCHANGED <<closers, step>>
    <3>1. Token # Break
      BY <1>1, <2>2 DEF Break
    <3>2. QED
      BY <1>1, <2>1, <2>2, <3>1
  <2>3. CASE /\ Token \in Openers /\ closers' = Append(closers, Closer(Token))
             /\ Place("prim")
    <3>1. Token \in -11 .. -1
      BY <1>2, <2>3 DEF Openers
    <3>2. closers' \in Seq(Closings)
      BY <1>1, <2>3, ClosersKept
    <3>3. QED
      BY <1>3, <2>1, <2>3, <3>1, <3>2
  <2>4. CASE Fail
    BY <1>1, <2>1, <2>4
  <2>5. QED
    BY <1>8, <2>2, <2>3, <2>4 DEF Prim
<1>9. CASE AfterPrim
  <2>1. CASE Token = Code("+")
    BY <1>1, <1>2, <1>3, <1>9, <2>1 DEF AfterPrim
  <2>2. CASE Token # Code("+")
    BY <1>1, <1>9, <2>2 DEF AfterPrim
  <2>3. QED
    BY <2>1, <2>2
<1>10. CASE Cats
  BY <1>1, <1>10 DEF Cats
<1>11. CASE Ors
  <2>1. /\ ~wanted /\ ~Searching /\ goal = "ors" /\ dict' = dict /\ search' = search
        /\ UNCHANGED <<input, at, scanning, HeldToken, TrapReduce, Token, count, Num2Sym>>
    BY <1>11 DEF Ors
  <2>2. CASE Token = Code("|") /\ Place("prim") /\ UNCHANGED <<closers, step>>
    BY <1>1, <1>2, <1>3, <2>1, <2>2
  <2>3. CASE Goto("end") /\ UNCHANGED <<closers, step, Text>>
    BY <1>1, <2>1, <2>3
  <2>4. CASE /\ closers # <<>> /\ Token = closers[Len(closers)]
             /\ closers' = SubSeq(closers, 1, Len(closers) - 1) /\ Place("plus")
    <3>1. Token \in -11 .. -1 /\ closers' \in Seq(Closings)
      BY <1>1, <2>4, ClosersKept
    <3>2. QED
      BY <1>3, <2>1, <2>4, <3>1
  <2>5. CASE Fail
    BY <1>1, <2>1, <2>5
  <2>6. QED
    BY <1>11, <2>2, <2>3, <2>4, <2>5 DEF Ors
<1>12. CASE EndOfProduction
  BY <1>1, <1>12 DEF EndOfProduction
<1>13. CASE More
  BY <1>1, <1>13 DEF More
<1>14. CASE CountThem
  BY <1>1, <1>14 DEF CountThem
<1>15. QED
  BY <1>4, <1>5, <1>6, <1>7, <1>8, <1>9, <1>10, <1>11, <1>12, <1>13, <1>14 DEF ParserActs

\* No step of the parser makes a node or moves one.
LEMMA MovesNodes ==
  ASSUME TreeInv, Moves
  PROVE  Nodes(dict') = Nodes(dict)
<1>1. dict' = dict \/ Lhs \/ CountThem
  BY DEF Moves
<1>2. Lhs \/ CountThem => SameTree(dict, dict')
  BY LhsKeeps, CountKeeps
<1>3. QED
  BY <1>1, <1>2 DEF SameTree, SameWords, Nodes

-----------------------------------------------------------------------------
(* The scanner keeps its invariant. *)

LEMMA NodesPositive ==
  \A d : \A n \in Nodes(d) : n \in Int /\ n > 0
BY DEF Nodes

LEMMA ScanPasses ==
  ASSUME TreeInv, ScanInv, Passes
  PROVE  ScanInv'
<1>1. Len(input) \in Nat
  BY InputKinds
<1>2. ~Searching' /\ Nodes(dict') = Nodes(dict)
  BY DEF Passes, Searching, Nodes
<1>3. goal \notin {"count", "done"} /\ goal' \notin {"count", "done"}
  BY DEF Passes, ScanInv
<1>4. HeldToken \in Nodes(dict) => HeldToken \in Int /\ HeldToken > 0
  BY NodesPositive
<1>5. at \in 1 .. Len(input) + 1 /\ wanted = TRUE /\ input' = input
  BY DEF ScanInv, Passes
<1>6. /\ scanning = "done" => at = Len(input) + 1
      /\ scanning = "held" => HeldToken \in Nodes(dict)
      /\ Token \in Int /\ (Token > 0 => Token \in Nodes(dict)) /\ scanning \in {"free", "held", "done"}
  BY DEF ScanInv
<1>7. CASE at <= Len(input) /\ scanning = "free" /\ at' = at + 1
           /\ UNCHANGED <<scanning, HeldToken, Token, wanted, goal>>
  BY <1>1, <1>2, <1>3, <1>5, <1>6, <1>7 DEF ScanInv
<1>8. CASE at <= Len(input) /\ scanning = "free" /\ at' = at + 1
           /\ Token' \in -11 .. -1 /\ Answered /\ UNCHANGED <<scanning, HeldToken, goal>>
  BY <1>1, <1>2, <1>3, <1>5, <1>8 DEF ScanInv, TheEnd, Answered
<1>9. CASE at = Len(input) + 1 /\ scanning' = "done" /\ Answered
           /\ Token' \in {Break, TheEnd} /\ UNCHANGED <<at, HeldToken, goal>>
  BY <1>1, <1>2, <1>3, <1>5, <1>9 DEF ScanInv, Break, TheEnd, Answered
<1>10. CASE scanning = "held" /\ Token' = HeldToken /\ scanning' = "free" /\ Answered
            /\ UNCHANGED <<at, HeldToken, goal>>
  BY <1>1, <1>2, <1>3, <1>4, <1>5, <1>6, <1>10 DEF ScanInv, TheEnd, Answered
<1>11. CASE goal' = "fail" /\ UNCHANGED <<at, scanning, HeldToken, Token, wanted>>
  BY <1>1, <1>2, <1>3, <1>5, <1>6, <1>11 DEF ScanInv
<1>12. QED
  BY <1>6, <1>7, <1>8, <1>9, <1>10, <1>11 DEF Passes

LEMMA ScanMoves ==
  ASSUME TreeInv, ScanInv, Moves
  PROVE  ScanInv'
<1>1. ~Searching' /\ Nodes(dict') = Nodes(dict)
  BY MovesNodes DEF Moves, Searching
<1>2. goal' \in {"count", "done"} => ~wanted' /\ scanning' = "done"
  BY DEF Moves, ScanInv, Inside
<1>3. ~wanted' /\ Token' = TheEnd => scanning' = "done"
  BY DEF Moves, ScanInv
<1>4. /\ UNCHANGED <<input, at, scanning, HeldToken, TrapReduce, Token>> /\ wanted' \in BOOLEAN
  BY DEF Moves
<1>5. QED
  BY <1>1, <1>2, <1>3, <1>4 DEF ScanInv

LEMMA ScanBegins ==
  ASSUME TreeInv, TreeInv', ScanInv, TakeSymbol \/ NewName
  PROVE  ScanInv'
<1>1. Nodes(dict') = Nodes(dict) /\ input' = input /\ Len(input) \in Nat
  BY InputKinds DEF TakeSymbol, NewName, reading, Nodes
<1>2. CASE TakeSymbol
  <2>1. at \in 1 .. Len(input) /\ Lexeme = input[at]
    <3>1. {"word", "quoted"} \subseteq Kinds
      BY DEF Kinds
    <3>2. QED
      BY <1>2, <3>1, ComesNow DEF TakeSymbol
  <2>2. search'.word = input[at].text
    BY <1>2, <2>1 DEF TakeSymbol, Begin, NoSearch
  <2>3. (at + 1) - 1 = at /\ at + 1 >= 2 /\ at + 1 \in 1 .. Len(input) + 1
    BY <1>1, <2>1
  <2>4. at' = at + 1 /\ input[at].kind \in {"word", "quoted"} /\ wanted /\ scanning = "free"
    BY <1>2, <2>1 DEF TakeSymbol, Scanning
  <2>5. UNCHANGED <<scanning, HeldToken, Token, goal, wanted>>
    BY <1>2 DEF TakeSymbol, parser
  <2>6. QED
    BY <1>1, <2>2, <2>3, <2>4, <2>5 DEF ScanInv
<1>3. CASE NewName
  BY <1>1, <1>3 DEF NewName, Parsing, scanner, parser, ScanInv
<1>4. QED
  BY <1>2, <1>3

LEMMA ScanProbes ==
  ASSUME TreeInv, ScanInv, Probe
  PROVE  ScanInv'
<1>1. Nodes(dict') = Nodes(dict)
  BY ProbeSame DEF SameSymbols, SameWords, Nodes
<1>2. Searching /\ search'.word = search.word
  <2>1. DOMAIN search = {"word", "Look", "low", "high"}
    BY DEF Probe, TreeInv, IsSearch
  <2>2. QED
    BY <2>1 DEF Probe, ProbeLow, ProbeHigh
<1>3. QED
  BY <1>1, <1>2 DEF ScanInv, Probe, reading, scanner, parser

LEMMA ScanReturns ==
  ASSUME TreeInv, ScanInv, FindIt \/ MakeIt
  PROVE  ScanInv'
<1>1. PICK n : Outcome(n) /\ GoesOn(n)
  BY Returns
<1>2. n \in Nodes(dict') /\ n \in Int /\ n > 0 /\ Nodes(dict) \subseteq Nodes(dict')
  BY <1>1, NodesPositive DEF Outcome
<1>3. Searching /\ ~Searching'
  BY <1>1 DEF FindIt, MakeIt, GoesOn, Searching
<1>4. UNCHANGED <<input, at>>
  BY <1>1 DEF GoesOn, reading
<1>5. CASE ~wanted
  BY <1>1, <1>2, <1>3, <1>4, <1>5 DEF ScanInv, GoesOn
<1>6. CASE wanted
  <2>1. goal \notin {"count", "done"} /\ goal' \notin {"count", "done"} /\ scanning = "free"
    BY <1>1, <1>3, <1>6 DEF ScanInv, GoesOn
  <2>2. /\ at \in 1 .. Len(input) + 1 /\ Token \in Int /\ (Token > 0 => Token \in Nodes(dict'))
        /\ wanted = TRUE
    BY <1>2, <1>6 DEF ScanInv
  <2>3. CASE goal' = "fail" /\ UNCHANGED <<scanning, HeldToken, Token, wanted>>
    BY <1>3, <1>4, <2>1, <2>2, <2>3 DEF ScanInv
  <2>4. CASE HeldToken' = n /\ scanning' = "held" /\ Token' = Break /\ Answered
    BY <1>2, <1>3, <1>4, <2>1, <2>2, <2>4 DEF ScanInv, Break, TheEnd, Answered
  <2>5. CASE UNCHANGED scanning /\ Token' = n /\ Answered
    BY <1>2, <1>3, <1>4, <2>1, <2>2, <2>5 DEF ScanInv, TheEnd, Answered
  <2>6. QED
    BY <1>1, <1>6, <2>3, <2>4, <2>5 DEF GoesOn
<1>7. QED
  BY <1>5, <1>6 DEF ScanInv

LEMMA ScanStarts == Init => ScanInv
<1> SUFFICES ASSUME Init PROVE ScanInv
  OBVIOUS
<1>1. Len(input) \in Nat
  BY InputTyped DEF Init
<1>2. QED
  BY <1>1 DEF Init, ScanInv, Searching, TheEnd

LEMMA ScanSteps ==
  ASSUME TreeInv, TreeInv', ScanInv, TextInv, [Next]_vars
  PROVE  ScanInv'
<1>1. CASE Skip \/ TakeSign \/ TakeNul \/ TakeHeld \/ TakeOdd
  BY <1>1, ScannerPasses, ScanPasses
<1>2. CASE ParserActs
  BY <1>2, ParserMoves, ScanMoves
<1>3. CASE TakeSymbol \/ NewName
  BY <1>3, ScanBegins
<1>4. CASE Probe
  BY <1>4, ScanProbes
<1>5. CASE FindIt \/ MakeIt
  BY <1>5, ScanReturns
<1>6. CASE UNCHANGED vars
  BY <1>6 DEF vars, reading, scanner, parser, results, ScanInv, Searching, Nodes
<1>7. QED
  BY <1>1, <1>2, <1>3, <1>4, <1>5, <1>6 DEF Next, ParserActs

-----------------------------------------------------------------------------
(* The text grows at its end. *)

LEMMA TextGrows ==
  ASSUME TextInv, NEW x \in Int
  PROVE  /\ Append(Text, x) \in Seq(Int) /\ Append(Text, x) # <<>>
         /\ Len(Text) \in Nat \ {0} /\ DOMAIN Text = 1 .. Len(Text)
         /\ Len(Append(Text, x)) = Len(Text) + 1 /\ DOMAIN Append(Text, x) = 1 .. Len(Text) + 1
         /\ Append(Text, x)[Len(Text) + 1] = x
         /\ \A i \in 1 .. Len(Text) : Append(Text, x)[i] = Text[i]
<1>1. Text \in Seq(Int) /\ Text # <<>>
  BY DEF TextInv
<1>2. QED
  BY <1>1

\* What holds of the text when a token is placed.
LEMMA TextPlaced ==
  ASSUME TextInv, NEW x \in Int, Text' = Append(Text, x), closers' \in Seq(Closings),
         Nodes(dict) \subseteq Nodes(dict'), x > 0 => x \in Nodes(dict'),
         goal' \in {"start", "lhs", "more", "count"} => x = Break,
         goal' \in Inside => x # Break
  PROVE  TextInv'
<1>1. /\ Text' \in Seq(Int) /\ Text' # <<>> /\ Len(Text') = Len(Text) + 1 /\ Text'[Len(Text')] = x
      /\ DOMAIN Text' = 1 .. Len(Text) + 1 /\ Len(Text) \in Nat /\ DOMAIN Text = 1 .. Len(Text)
      /\ \A i \in 1 .. Len(Text) : Text'[i] = Text[i]
  BY TextGrows
<1>2. ASSUME NEW i \in DOMAIN Text', Text'[i] > 0 PROVE Text'[i] \in Nodes(dict')
  <2>1. CASE i = Len(Text) + 1
    BY <1>1, <1>2, <2>1
  <2>2. CASE i # Len(Text) + 1
    <3>1. i \in DOMAIN Text
      BY <1>1, <2>2
    <3>2. QED
      BY <1>1, <1>2, <3>1 DEF TextInv
  <2>3. QED
    BY <2>1, <2>2
<1>3. QED
  BY <1>1, <1>2 DEF TextInv

LEMMA TextUnmoved ==
  ASSUME TextInv, Text' = Text, closers' \in Seq(Closings), Nodes(dict) \subseteq Nodes(dict'),
         \/ goal' = goal \/ goal' = "fail" \/ goal' = "done"
         \/ goal \in Inside /\ goal' \in Inside
         \/ goal \in {"start", "more"} /\ goal' \in {"lhs", "count"}
  PROVE  TextInv'
BY DEF TextInv, Inside

LEMMA TextMoves ==
  ASSUME TreeInv, ScanInv, TextInv, Moves
  PROVE  TextInv'
<1>1. Nodes(dict') = Nodes(dict) /\ closers' \in Seq(Closings)
  BY MovesNodes DEF Moves
<1>2. CASE /\ Text' = Text
           /\ \/ goal' = "fail"
              \/ goal = "start" /\ goal' = "lhs"
              \/ goal \in Inside /\ goal' \in Inside
              \/ goal = "more" /\ goal' \in {"lhs", "count"}
  BY <1>1, <1>2, TextUnmoved
<1>3. CASE Token > 0 /\ Text' = Append(Text, Token) /\ goal' = "assign"
  <2>1. Token \in Nodes(dict) /\ Token \in Int /\ Token # Break
    BY <1>3 DEF ScanInv, Break
  <2>2. QED
    BY <1>1, <1>3, <2>1, TextPlaced DEF Inside
<1>4. CASE /\ goal' \in Inside
           /\ \E x \in Int : x # Break /\ (x > 0 => x = Token) /\ Text' = Append(Text, x)
  <2>1. PICK x \in Int : x # Break /\ (x > 0 => x = Token) /\ Text' = Append(Text, x)
    BY <1>4
  <2>2. x > 0 => x \in Nodes(dict')
    BY <1>1, <2>1 DEF ScanInv
  <2>3. goal' \notin {"start", "lhs", "more", "count"}
    BY <1>4 DEF Inside
  <2>4. QED
    BY <1>1, <2>1, <2>2, <2>3, TextPlaced
<1>5. CASE goal' = "more" /\ Text' = Append(Text, Break)
  <2>1. Break \in Int /\ ~(Break > 0)
    BY DEF Break
  <2>2. QED
    BY <1>1, <1>5, <2>1, TextPlaced DEF Inside
<1>6. CASE goal' = "done" /\ Text' = Append(Text, TheEnd)
  <2>1. TheEnd \in Int /\ ~(TheEnd > 0)
    BY DEF TheEnd
  <2>2. QED
    BY <1>1, <1>6, <2>1, TextPlaced DEF Inside
<1>7. QED
  BY <1>2, <1>3, <1>4, <1>5, <1>6 DEF Moves

LEMMA TextStarts == Init => TextInv
<1> SUFFICES ASSUME Init PROVE TextInv
  OBVIOUS
<1>1. Text = <<-12>> /\ closers = <<>> /\ goal = "start"
  BY DEF Init, Break
<1>2. Text \in Seq(Int) /\ Text # <<>> /\ Len(Text) = 1 /\ DOMAIN Text = {1} /\ Text[1] = -12
  BY <1>1
<1>3. QED
  BY <1>1, <1>2 DEF TextInv, Inside, Break

LEMMA TextSteps ==
  ASSUME TreeInv, ScanInv, TextInv, [Next]_vars
  PROVE  TextInv'
<1>0. closers \in Seq(Closings)
  BY DEF TextInv
<1>1. CASE Skip \/ TakeSign \/ TakeNul \/ TakeHeld \/ TakeOdd
  <2>1. Passes
    BY <1>1, ScannerPasses
  <2>2. Text' = Text /\ closers' = closers /\ Nodes(dict') = Nodes(dict) /\ goal' \in {goal, "fail"}
    BY <2>1 DEF Passes, Nodes
  <2>3. QED
    BY <1>0, <2>2, TextUnmoved
<1>2. CASE ParserActs
  BY <1>2, ParserMoves, TextMoves
<1>3. CASE TakeSymbol \/ NewName \/ UNCHANGED vars
  <2>1. Text' = Text /\ closers' = closers /\ Nodes(dict') = Nodes(dict) /\ goal' = goal
    BY <1>3 DEF TakeSymbol, NewName, vars, parser, Nodes
  <2>2. QED
    BY <1>0, <2>1, TextUnmoved
<1>4. CASE Probe
  <2>1. Text' = Text /\ closers' = closers /\ Nodes(dict') = Nodes(dict) /\ goal' = goal
    BY <1>4, ProbeSame DEF Probe, parser, SameSymbols, SameWords, Nodes
  <2>2. QED
    BY <1>0, <2>1, TextUnmoved
<1>5. CASE FindIt \/ MakeIt
  <2>1. PICK n : Outcome(n) /\ GoesOn(n)
    BY <1>5, Returns
  <2>2. Text' = Text /\ closers' = closers /\ Nodes(dict) \subseteq Nodes(dict') /\ goal' \in {goal, "fail"}
    BY <2>1 DEF Outcome, GoesOn
  <2>3. QED
    BY <1>0, <2>2, TextUnmoved
<1>6. QED
  BY <1>1, <1>2, <1>3, <1>4, <1>5 DEF Next, ParserActs

-----------------------------------------------------------------------------
(* What the parser does to the symbols. *)

\* A production begins with the token.
LEMMA LhsEffect ==
  ASSUME TreeInv, ScanInv, Lhs, Token > 0
  PROVE  /\ Token \in Nodes(dict) /\ Nodes(dict') = Nodes(dict)
         /\ \A m \in Nodes(dict) : m # Token => Same(dict.node[m], dict'.node[m])
         /\ LET g == dict.node[Token]
                r == dict'.node[Token]
            IN  /\ r.word = g.word /\ r.Temp = g.Temp /\ r.Hatch = g.Hatch
                /\ r.Prod = TRUE /\ r.ProdPos = IF g.ProdPos = 0 THEN Len(Text) ELSE g.ProdPos
<1>0. PICK yes : yes = TRUE
  OBVIOUS
<1> DEFINE n == Token
           g == dict.node[n]
           x == IF g.ProdPos = 0 THEN Len(Text) ELSE g.ProdPos
           r == [g EXCEPT !.Prod = yes]
           e == Mark(dict, n, r)
           q == [e.node[n] EXCEPT !.ProdPos = x]
<1>1. IsTree(dict) /\ n \in Nodes(dict) /\ IsNode(g)
  BY DEF TreeInv, ScanInv, IsTree
<1>2. dict' = [dict EXCEPT !.node[n].Prod = TRUE,
                           !.node[n].ProdPos = IF @ = 0 THEN Len(Text) ELSE @]
  <2>1. Token \in Int
    BY DEF ScanInv
  <2>2. ~(Token <= 0)
    BY <2>1
  <2>3. QED
    BY <2>2 DEF Lhs
<1>3. dict' = [[dict EXCEPT !.node[n].Prod = yes] EXCEPT !.node[n].ProdPos = x]
  BY <1>0, <1>2
<1>4. dict' = Mark(e, n, q)
  <2>1. e = [dict EXCEPT !.node[n].Prod = yes]
    BY DEF Mark
  <2> HIDE DEF e
  <2>2. QED
    BY <1>3, <2>1 DEF Mark
<1>5. PICK a, b, c, d, t, f, i, m, p, k :
        g = [word |-> a, Lower |-> b, Higher |-> c, Prod |-> d, Temp |-> t, Hatch |-> f,
             IsExit |-> i, IsMsg |-> m, ProdPos |-> p, Num |-> k]
  BY <1>1 DEF IsNode
<1>6. r = [word |-> a, Lower |-> b, Higher |-> c, Prod |-> yes, Temp |-> t, Hatch |-> f,
           IsExit |-> i, IsMsg |-> m, ProdPos |-> p, Num |-> k]
  <2> HIDE DEF g
  <2>1. QED
    BY <1>5
<1>7. IsNode(r)
  BY <1>1, KinFields DEF Kin
<1> HIDE DEF r
<1>8. /\ IsTree(e) /\ Nodes(e) = Nodes(dict) /\ e.node[n] = r
      /\ \A j \in Nodes(dict) : j # n => e.node[j] = dict.node[j]
  BY <1>1, <1>7, MarkedNode
<1>9. IsNode(q)
  BY <1>7, <1>8, KinFields DEF Kin
<1>10. q = [word |-> a, Lower |-> b, Higher |-> c, Prod |-> yes, Temp |-> t, Hatch |-> f,
            IsExit |-> i, IsMsg |-> m, ProdPos |-> x, Num |-> k]
  <2> HIDE DEF e, x
  <2>1. QED
    BY <1>6, <1>8
<1> HIDE DEF e, q, x
<1>11. /\ Nodes(dict') = Nodes(dict) /\ dict'.node[n] = q
       /\ \A j \in Nodes(dict) : j # n => dict'.node[j] = dict.node[j]
  <2>1. /\ Nodes(Mark(e, n, q)) = Nodes(e) /\ Mark(e, n, q).node[n] = q
        /\ \A j \in Nodes(e) : j # n => Mark(e, n, q).node[j] = e.node[j]
    BY <1>1, <1>8, <1>9, MarkedNode
  <2>2. QED
    BY <1>4, <1>8, <2>1
<1>12. \A j \in Nodes(dict) : j # n => Same(dict.node[j], dict'.node[j])
  BY <1>11 DEF Same, Lasting
<1>13. /\ q.word = g.word /\ q.Temp = g.Temp /\ q.Hatch = g.Hatch
       /\ q.Prod = TRUE /\ q.ProdPos = x
  <2> HIDE DEF g
  <2>1. QED
    BY <1>0, <1>5, <1>10
<1>14. QED
  BY <1>1, <1>11, <1>12, <1>13 DEF x

\* The symbols are numbered.
LEMMA CountEffect ==
  ASSUME TreeInv, CountThem
  PROVE  /\ Nodes(dict') = Nodes(dict)
         /\ \A n \in Nodes(dict) :
              LET g == dict.node[n]
                  r == dict'.node[n]
              IN  /\ r.word = g.word /\ r.Temp = g.Temp /\ r.Hatch = g.Hatch
                  /\ r.Prod = g.Prod /\ r.ProdPos = g.ProdPos
                  /\ r.Num = Number(n) /\ r.IsMsg = IsMessage(n)
<1>1. IsTree(dict) /\ DOMAIN dict.node = Nodes(dict)
  BY DEF TreeInv, IsTree
<1>2. Nodes(dict') = Nodes(dict)
  BY CountKeeps DEF SameTree, SameWords, Nodes
<1>3. dict'.node = [n \in Nodes(dict) |-> Numbered(n)]
  <2> DEFINE f == [n \in DOMAIN dict.node |-> Numbered(n)]
  <2>1. dict' = [dict EXCEPT !.node = f]
    BY DEF CountThem
  <2> HIDE DEF f
  <2>2. dict'.node = f
    BY <1>1, <2>1 DEF IsTree
  <2>3. QED
    BY <1>1, <2>2 DEF f
<1>4. ASSUME NEW n \in Nodes(dict)
      PROVE  LET g == dict.node[n]
                 r == Numbered(n)
             IN  /\ r.word = g.word /\ r.Temp = g.Temp /\ r.Hatch = g.Hatch
                 /\ r.Prod = g.Prod /\ r.ProdPos = g.ProdPos
                 /\ r.Num = Number(n) /\ r.IsMsg = IsMessage(n)
  <2> DEFINE num == Number(n)
             msg == IsMessage(n)
             g == dict.node[n]
  <2>1. PICK a, b, c, d, t, f, i, m, p, k :
          g = [word |-> a, Lower |-> b, Higher |-> c, Prod |-> d, Temp |-> t, Hatch |-> f,
               IsExit |-> i, IsMsg |-> m, ProdPos |-> p, Num |-> k]
    <3>1. IsNode(g)
      BY <1>1 DEF IsTree
    <3> HIDE DEF g
    <3>2. QED
      BY <3>1 DEF IsNode
  <2>2. Numbered(n) = [g EXCEPT !.Num = num, !.IsMsg = msg, !.IsExit = @ /\ ~msg]
    BY DEF Numbered
  <2> HIDE DEF g, num, msg
  <2>3. Numbered(n) =
          [word |-> a, Lower |-> b, Higher |-> c, Prod |-> d, Temp |-> t, Hatch |-> f,
           IsExit |-> i /\ ~msg, IsMsg |-> msg, ProdPos |-> p, Num |-> num]
    BY <2>1, <2>2
  <2>4. LET r == Numbered(n)
        IN  /\ r.word = g.word /\ r.Temp = g.Temp /\ r.Hatch = g.Hatch
            /\ r.Prod = g.Prod /\ r.ProdPos = g.ProdPos
            /\ r.Num = num /\ r.IsMsg = msg
    BY <2>1, <2>3
  <2>5. QED
    BY <2>4 DEF g, num, msg
<1>5. \A n \in Nodes(dict) : dict'.node[n] = Numbered(n)
  BY <1>3
<1>6. QED
  BY <1>2, <1>4, <1>5

\* Neither touches the marks.
LEMMA MovesMarks ==
  ASSUME TreeInv, ScanInv, Moves
  PROVE  \A n \in Nodes(dict) : /\ dict'.node[n].word = dict.node[n].word
                                /\ dict'.node[n].Hatch = dict.node[n].Hatch
                                /\ dict'.node[n].Temp = dict.node[n].Temp
<1>1. dict' = dict \/ (Lhs /\ Token > 0) \/ CountThem
  BY DEF Moves
<1>2. CASE Lhs /\ Token > 0
  BY <1>2, LhsEffect DEF Same, Lasting
<1>3. CASE CountThem
  BY <1>3, CountEffect
<1>4. QED
  BY <1>1, <1>2, <1>3

-----------------------------------------------------------------------------
(* No word has two symbols. *)

WordsApart == \A m, n \in Nodes(dict) : m # n => dict.node[m].word # dict.node[n].word

LEMMA WholeLists ==
  ASSUME NEW d, IsTree(d), Whole(d)
  PROVE  Lists(Walk(d), Nodes(d), Nodes(d), Earlier(d))
<1>1. PICK u : /\ Forest(Nodes(d), Earlier(d), LoOf(d, 0), HiOf(d, 0), u)
               /\ d.Root \in Nodes(d) \cup {0} /\ Below(u, d.Root) = Nodes(d)
  BY DEF Whole
<1>2. QED
  BY <1>1, WalkLists DEF Walk

LEMMA WholeApart ==
  ASSUME NEW d, IsTree(d), Whole(d), NEW m \in Nodes(d), NEW n \in Nodes(d), m # n
  PROVE  /\ <<m, n>> \in Earlier(d) \/ <<n, m>> \in Earlier(d)
         /\ d.node[m].word # d.node[n].word
<1> DEFINE q == Walk(d)
<1>1. Lists(q, Nodes(d), Nodes(d), Earlier(d))
  BY WholeLists
<1> HIDE DEF q
<1>2. DOMAIN q = 1 .. Len(q) /\ Len(q) \in Nat
  BY <1>1 DEF Lists
<1>3. PICK i \in DOMAIN q, j \in DOMAIN q : q[i] = m /\ q[j] = n
  BY <1>1 DEF Lists
<1>4. i < j \/ j < i
  BY <1>2, <1>3
<1>5. <<m, n>> \in Earlier(d) \/ <<n, m>> \in Earlier(d)
  BY <1>1, <1>3, <1>4 DEF Lists
<1>6. IsIt(d.node[m].word, d.node[n].word) < 0 \/ IsIt(d.node[n].word, d.node[m].word) < 0
  BY <1>5, EarlierOrders
<1>7. d.node[m].word \in Words /\ d.node[n].word \in Words
  BY DEF IsTree, IsNode
<1>8. QED
  BY <1>5, <1>6, <1>7, Comparing

LEMMA ApartStarts == Init => WordsApart
<1> SUFFICES ASSUME Init PROVE WordsApart
  OBVIOUS
<1>1. dict.node = <<>>
  BY DEF Init, EmptyTree
<1>2. Nodes(dict) = {}
  BY <1>1 DEF Nodes
<1>3. QED
  BY <1>2 DEF WordsApart

LEMMA ApartSteps ==
  ASSUME TreeInv, TreeInv', ScanInv, TextInv, WordsApart, [Next]_vars
  PROVE  WordsApart'
<1>1. CASE ~Searching'
  <2>1. IsTree(dict') /\ Whole(dict')
    BY <1>1 DEF TreeInv
  <2>2. QED
    BY <2>1, WholeApart DEF WordsApart
<1>2. CASE Searching'
  <2>1. CASE FindIt \/ MakeIt
    BY <1>2, <2>1, Returns DEF GoesOn, Searching
  <2>2. CASE ~(FindIt \/ MakeIt)
    <3>1. CASE Probe
      BY <3>1, ProbeSame DEF SameSymbols, SameWords, WordsApart, Nodes
    <3>2. CASE ParserActs
      BY <3>2, ParserMoves, MovesNodes, MovesMarks DEF WordsApart
    <3>3. CASE Skip \/ TakeSign \/ TakeNul \/ TakeHeld \/ TakeOdd \/ TakeSymbol \/ NewName \/ UNCHANGED vars
      <4>1. dict' = dict
        BY <3>3, ScannerPasses DEF Passes, TakeSymbol, NewName, vars
      <4>2. QED
        BY <4>1 DEF WordsApart, Nodes
    <3>4. QED
      BY <2>2, <3>1, <3>2, <3>3 DEF Next, ParserActs
  <2>3. QED
    BY <2>1, <2>2
<1>3. QED
  BY <1>1, <1>2

-----------------------------------------------------------------------------
(* The marks. *)

\* How many lexemes NextToken has done with: a symbol that is being looked up is
\* not among them.
Read == IF Searching /\ wanted THEN at - 2 ELSE at - 1

\* A # of the first k lexemes waits for its symbol.
Pending(k) == \E i \in 1 .. k : /\ input[i].kind = "hash"
                                /\ \A l \in i .. k : input[l].kind # "word"

Hatched(w) == \E n \in Nodes(dict) : dict.node[n].word = w /\ dict.node[n].Hatch

TrapInv ==
  /\ TrapReduce <=> Pending(Read)
  /\ \A w : Trapped(Read, w) <=> Hatched(w)

LEMMA OneMore ==
  ASSUME NEW k \in Nat
  PROVE  /\ Pending(k + 1) <=> \/ input[k + 1].kind = "hash"
                               \/ Pending(k) /\ input[k + 1].kind # "word"
         /\ \A w : Trapped(k + 1, w) <=>
              \/ Trapped(k, w)
              \/ Pending(k) /\ input[k + 1].kind = "word" /\ input[k + 1].text = w
<1>1. ASSUME Pending(k + 1)
      PROVE  input[k + 1].kind = "hash" \/ (Pending(k) /\ input[k + 1].kind # "word")
  <2>1. PICK i \in 1 .. k + 1 : /\ input[i].kind = "hash"
                                /\ \A l \in i .. k + 1 : input[l].kind # "word"
    BY <1>1 DEF Pending
  <2>2. CASE i = k + 1
    BY <2>1, <2>2
  <2>3. CASE i # k + 1
    <3>1. i \in 1 .. k /\ k + 1 \in i .. k + 1 /\ \A l \in i .. k : l \in i .. k + 1
      BY <2>3
    <3>2. QED
      BY <2>1, <3>1 DEF Pending
  <2>4. QED
    BY <2>2, <2>3
<1>2. ASSUME input[k + 1].kind = "hash"
      PROVE  Pending(k + 1)
  <2>1. k + 1 \in 1 .. k + 1 /\ \A l \in k + 1 .. k + 1 : l = k + 1
    OBVIOUS
  <2>2. QED
    BY <1>2, <2>1 DEF Pending
<1>3. ASSUME Pending(k), input[k + 1].kind # "word"
      PROVE  Pending(k + 1)
  <2>1. PICK i \in 1 .. k : /\ input[i].kind = "hash"
                            /\ \A l \in i .. k : input[l].kind # "word"
    BY <1>3 DEF Pending
  <2>2. i \in 1 .. k + 1 /\ \A l \in i .. k + 1 : l \in i .. k \/ l = k + 1
    OBVIOUS
  <2>3. QED
    BY <1>3, <2>1, <2>2 DEF Pending
<1>4. ASSUME NEW w, Trapped(k + 1, w)
      PROVE  Trapped(k, w) \/ (Pending(k) /\ input[k + 1].kind = "word" /\ input[k + 1].text = w)
  <2>1. PICK i \in 1 .. k + 1, j \in 1 .. k + 1 :
          /\ i < j /\ input[i].kind = "hash" /\ input[j].kind = "word" /\ input[j].text = w
          /\ \A l \in i .. j - 1 : input[l].kind # "word"
    BY <1>4 DEF Trapped
  <2>2. CASE j = k + 1
    <3>1. i \in 1 .. k /\ j - 1 = k
      BY <2>1, <2>2
    <3>2. \A l \in i .. k : input[l].kind # "word"
      BY <2>1, <3>1
    <3>3. QED
      BY <2>1, <2>2, <3>1, <3>2 DEF Pending
  <2>3. CASE j # k + 1
    <3>1. i \in 1 .. k /\ j \in 1 .. k
      BY <2>1, <2>3
    <3>2. QED
      BY <2>1, <3>1 DEF Trapped
  <2>4. QED
    BY <2>2, <2>3
<1>5. ASSUME NEW w, Trapped(k, w)
      PROVE  Trapped(k + 1, w)
  <2>1. PICK i \in 1 .. k, j \in 1 .. k :
          /\ i < j /\ input[i].kind = "hash" /\ input[j].kind = "word" /\ input[j].text = w
          /\ \A l \in i .. j - 1 : input[l].kind # "word"
    BY <1>5 DEF Trapped
  <2>2. i \in 1 .. k + 1 /\ j \in 1 .. k + 1
    OBVIOUS
  <2>3. QED
    BY <2>1, <2>2 DEF Trapped
<1>6. ASSUME NEW w, Pending(k), input[k + 1].kind = "word", input[k + 1].text = w
      PROVE  Trapped(k + 1, w)
  <2>1. PICK i \in 1 .. k : /\ input[i].kind = "hash"
                            /\ \A l \in i .. k : input[l].kind # "word"
    BY <1>6 DEF Pending
  <2>2. i \in 1 .. k + 1 /\ k + 1 \in 1 .. k + 1 /\ i < k + 1 /\ (k + 1) - 1 = k
    OBVIOUS
  <2>3. QED
    BY <1>6, <2>1, <2>2 DEF Trapped
<1>7. QED
  BY <1>1, <1>2, <1>3, <1>4, <1>5, <1>6

\* Nothing has been read, or nothing that matters for the marks has happened.
LEMMA TrapKept ==
  ASSUME TrapInv, input' = input, TrapReduce' = TrapReduce, Read' = Read,
         Nodes(dict') = Nodes(dict),
         \A n \in Nodes(dict) : /\ dict'.node[n].word = dict.node[n].word
                                /\ dict'.node[n].Hatch = dict.node[n].Hatch
  PROVE  TrapInv'
<1>1. \A w : Hatched(w)' <=> Hatched(w)
  BY DEF Hatched
<1>2. Pending(Read)' <=> Pending(Read)
  BY DEF Pending
<1>3. \A w : Trapped(Read, w)' <=> Trapped(Read, w)
  BY DEF Trapped
<1>4. QED
  BY <1>1, <1>2, <1>3 DEF TrapInv

LEMMA TrapStarts == Init => TrapInv
<1> SUFFICES ASSUME Init PROVE TrapInv
  OBVIOUS
<1>1. dict.node = <<>> /\ at = 1 /\ search = NoSearch /\ TrapReduce = FALSE
  BY DEF Init, EmptyTree
<1>2. Nodes(dict) = {} /\ Read = 0
  BY <1>1 DEF Nodes, Read, Searching
<1>3. ~Pending(0) /\ \A w : ~Trapped(0, w)
  BY DEF Pending, Trapped
<1>4. QED
  BY <1>1, <1>2, <1>3 DEF TrapInv, Hatched

LEMMA TrapPasses ==
  ASSUME TreeInv, ScanInv, TrapInv, Passes
  PROVE  TrapInv'
<1>1. ~Searching /\ ~Searching' /\ dict' = dict /\ input' = input
  BY DEF Passes, Searching
<1>2. Read = at - 1 /\ Read' = at' - 1 /\ at \in Nat /\ at >= 1
  BY <1>1, InputKinds DEF Read, ScanInv
<1>3. CASE at' = at
  <2>1. at' # at + 1
    BY <1>2, <1>3
  <2>2. TrapReduce' = TrapReduce
    BY <2>1, Zenon DEF Passes
  <2>3. QED
    BY <1>1, <1>2, <1>3, <2>2, TrapKept
<1>4. CASE at' = at + 1 /\ input[at].kind \in {"white", "hash", "sign"}
           /\ (TrapReduce' <=> TrapReduce \/ input[at].kind = "hash")
  <2>1. at - 1 \in Nat /\ (at - 1) + 1 = at /\ Read' = at
    BY <1>2, <1>4
  <2>2. /\ Pending(at) <=> input[at].kind = "hash" \/ Pending(at - 1)
        /\ \A w : Trapped(at, w) <=> Trapped(at - 1, w)
    <3>1. /\ Pending((at - 1) + 1) <=> \/ input[(at - 1) + 1].kind = "hash"
                                       \/ Pending(at - 1) /\ input[(at - 1) + 1].kind # "word"
          /\ \A w : Trapped((at - 1) + 1, w) <=>
               \/ Trapped(at - 1, w)
               \/ Pending(at - 1) /\ input[(at - 1) + 1].kind = "word" /\ input[(at - 1) + 1].text = w
      BY <2>1, OneMore
    <3>2. QED
      BY <1>4, <2>1, <3>1
  <2>3. Pending(Read)' <=> Pending(at)
    BY <1>1, <2>1 DEF Pending
  <2>4. \A w : Trapped(Read, w)' <=> Trapped(at, w)
    BY <1>1, <2>1 DEF Trapped
  <2>5. \A w : Hatched(w)' <=> Hatched(w)
    BY <1>1 DEF Hatched, Nodes
  <2>6. (TrapReduce <=> Pending(at - 1)) /\ \A w : Trapped(at - 1, w) <=> Hatched(w)
    BY <1>2 DEF TrapInv
  <2>7. QED
    BY <1>4, <2>2, <2>3, <2>4, <2>5, <2>6 DEF TrapInv
<1>5. CASE /\ at' = at + 1 /\ input[at].kind = "sign" /\ TrapReduce' = TrapReduce
  BY <1>4, <1>5
<1>6. QED
  BY <1>3, <1>4, <1>5 DEF Passes

LEMMA TrapReturns ==
  ASSUME TreeInv, ScanInv, TrapInv, FindIt \/ MakeIt
  PROVE  TrapInv'
<1>1. PICK n : Outcome(n) /\ GoesOn(n)
  BY Returns
<1>2. Searching /\ ~Searching' /\ input' = input /\ at' = at
  BY <1>1 DEF FindIt, MakeIt, GoesOn, Searching, reading
<1> DEFINE marks == wanted /\ input[at - 1].kind = "word"
<1>3. ASSUME NEW w
      PROVE  Hatched(w)' <=> Hatched(w) \/ (marks /\ TrapReduce /\ w = search.word)
  <2>1. \A m \in Nodes(dict) :
          /\ dict'.node[m].word = dict.node[m].word
          /\ m # n => dict'.node[m].Hatch = dict.node[m].Hatch
    BY <1>1 DEF Outcome, Same, Lasting
  <2>2. /\ n \in Nodes(dict') /\ Nodes(dict') = Nodes(dict) \cup {n}
        /\ dict'.node[n].word = search.word
        /\ dict'.node[n].Hatch <=> (n \in Nodes(dict) /\ dict.node[n].Hatch) \/ (marks /\ TrapReduce)
    BY <1>1 DEF Outcome
  <2> HIDE DEF marks
  <2>3. ASSUME NEW m \in Nodes(dict'), dict'.node[m].word = w, dict'.node[m].Hatch
        PROVE  Hatched(w) \/ (marks /\ TrapReduce /\ w = search.word)
    <3>1. CASE m = n
      BY <2>1, <2>2, <2>3, <3>1 DEF Hatched
    <3>2. CASE m # n
      BY <2>1, <2>2, <2>3, <3>2 DEF Hatched
    <3>3. QED
      BY <3>1, <3>2
  <2>4. ASSUME NEW m \in Nodes(dict), dict.node[m].word = w, dict.node[m].Hatch
        PROVE  m \in Nodes(dict') /\ dict'.node[m].word = w /\ dict'.node[m].Hatch
    BY <2>1, <2>2, <2>4
  <2>5. QED
    BY <2>2, <2>3, <2>4 DEF Hatched
<1>4. CASE ~wanted
  <2>1. Read' = Read /\ TrapReduce' = TrapReduce
    BY <1>1, <1>2, <1>4 DEF Read, GoesOn
  <2>2. Pending(Read)' <=> Pending(Read)
    BY <1>2, <2>1 DEF Pending
  <2>3. \A w : Trapped(Read, w)' <=> Trapped(Read, w)
    BY <1>2, <2>1 DEF Trapped
  <2>4. QED
    BY <1>3, <1>4, <2>1, <2>2, <2>3 DEF TrapInv
<1>5. CASE wanted
  <2> DEFINE k == at - 2
  <2>1. /\ k \in Nat /\ k + 1 = at - 1
        /\ input[at - 1].kind \in {"word", "quoted"} /\ input[at - 1].text = search.word
    BY <1>2, <1>5, InputKinds DEF ScanInv
  <2>2. Read = k /\ Read' = k + 1
    BY <1>2, <1>5, <2>1 DEF Read
  <2>3. (TrapReduce <=> Pending(k)) /\ \A w : Trapped(k, w) <=> Hatched(w)
    BY <2>2 DEF TrapInv
  <2>4. TrapReduce' = IF input[at - 1].kind = "word" THEN FALSE ELSE TrapReduce
    BY <1>1, <1>5 DEF GoesOn
  <2> HIDE DEF k
  <2>5. /\ Pending(k + 1) <=> Pending(k) /\ input[at - 1].kind # "word"
        /\ \A w : Trapped(k + 1, w) <=>
             Trapped(k, w) \/ (Pending(k) /\ input[at - 1].kind = "word" /\ w = search.word)
    <3>1. /\ Pending(k + 1) <=> \/ input[k + 1].kind = "hash"
                                \/ Pending(k) /\ input[k + 1].kind # "word"
          /\ \A w : Trapped(k + 1, w) <=>
               \/ Trapped(k, w)
               \/ Pending(k) /\ input[k + 1].kind = "word" /\ input[k + 1].text = w
      BY <2>1, OneMore
    <3>2. QED
      BY <2>1, <3>1
  <2>6. Pending(Read)' <=> Pending(k + 1)
    BY <1>2, <2>2 DEF Pending
  <2>7. \A w : Trapped(Read, w)' <=> Trapped(k + 1, w)
    BY <1>2, <2>2 DEF Trapped
  <2>8. TrapReduce' <=> Pending(k + 1)
    <3>1. CASE input[at - 1].kind = "word"
      BY <2>4, <2>5, <3>1
    <3>2. CASE input[at - 1].kind # "word"
      BY <2>3, <2>4, <2>5, <3>2
    <3>3. QED
      BY <3>1, <3>2
  <2>9. QED
    BY <1>3, <1>5, <2>3, <2>5, <2>6, <2>7, <2>8 DEF TrapInv
<1>6. QED
  BY <1>4, <1>5

\* A turn of the loop goes on with the search.
LEMMA ProbeSearches ==
  ASSUME TreeInv, Probe
  PROVE  Searching'
<1>1. search'.word = search.word /\ search.word \in Words
  <2>1. DOMAIN search = {"word", "Look", "low", "high"} /\ search.word \in Words
    BY DEF Probe, TreeInv, IsSearch
  <2>2. QED
    BY <2>1 DEF Probe, ProbeLow, ProbeHigh
<1>2. NoSearch.word = "" /\ "" \notin Words
  BY WordsAssumption DEF NoSearch, WordsAssumption
<1>3. QED
  BY <1>1, <1>2 DEF Searching

LEMMA SymbolSought ==
  ASSUME TreeInv, ScanInv, TakeSymbol
  PROVE  Searching'
<1>1. Lexeme.kind \in {"word", "quoted"} /\ search' = Begin(dict, Lexeme.text)
  BY DEF TakeSymbol
<1>2. Lexeme.text \in Words
  <2>1. {"word", "quoted"} \subseteq Kinds
    BY DEF Kinds
  <2>2. Lexeme = input[at] /\ at \in 1 .. Len(input)
    BY <1>1, <2>1, ComesNow
  <2>3. QED
    BY <1>1, <2>2, InputKinds
<1>3. search'.word = Lexeme.text
  BY <1>1 DEF Begin, NoSearch
<1>4. NoSearch.word = "" /\ "" \notin Words
  BY WordsAssumption DEF NoSearch, WordsAssumption
<1>5. QED
  BY <1>2, <1>3, <1>4 DEF Searching

LEMMA TrapSteps ==
  ASSUME TreeInv, ScanInv, TextInv, TrapInv, [Next]_vars
  PROVE  TrapInv'
<1>1. CASE Skip \/ TakeSign \/ TakeNul \/ TakeHeld \/ TakeOdd
  BY <1>1, ScannerPasses, TrapPasses
<1>2. CASE ParserActs
  <2>1. Moves
    BY <1>2, ParserMoves
  <2>2. Read' = Read /\ TrapReduce' = TrapReduce /\ input' = input
    BY <2>1 DEF Moves, Read, Searching
  <2>3. QED
    BY <2>1, <2>2, MovesNodes, MovesMarks, TrapKept
<1>3. CASE TakeSymbol
  <2>1. ~Searching /\ wanted /\ wanted' /\ at' = at + 1 /\ at \in Int /\ dict' = dict /\ input' = input
    BY <1>3, InputKinds DEF TakeSymbol, Scanning, parser, reading, ScanInv
  <2>2. Read = at - 1 /\ Read' = at - 1
    <3>1. Searching'
      BY <1>3, SymbolSought
    <3>2. QED
      BY <2>1, <3>1 DEF Read
  <2>3. TrapReduce' = TrapReduce
    BY <1>3 DEF TakeSymbol
  <2>4. QED
    BY <2>1, <2>2, <2>3, TrapKept
<1>4. CASE NewName
  <2>1. ~wanted /\ ~wanted' /\ at' = at /\ dict' = dict /\ input' = input /\ TrapReduce' = TrapReduce
    BY <1>4 DEF NewName, Parsing, parser, reading, scanner
  <2>2. Read' = Read
    BY <2>1 DEF Read
  <2>3. QED
    BY <2>1, <2>2, TrapKept
<1>5. CASE Probe
  <2>1. /\ Nodes(dict') = Nodes(dict)
        /\ \A n \in Nodes(dict) : /\ dict'.node[n].word = dict.node[n].word
                                  /\ dict'.node[n].Hatch = dict.node[n].Hatch
    BY <1>5, ProbeSame DEF SameSymbols, SameWords, Same, Lasting, Nodes
  <2>2. input' = input /\ TrapReduce' = TrapReduce /\ at' = at /\ wanted' = wanted
    BY <1>5 DEF Probe, reading, scanner, parser
  <2>3. Searching /\ Searching'
    BY <1>5, ProbeSearches DEF Probe
  <2>4. Read' = Read
    BY <2>2, <2>3 DEF Read
  <2>5. QED
    BY <2>1, <2>2, <2>4, TrapKept
<1>6. CASE FindIt \/ MakeIt
  BY <1>6, TrapReturns
<1>7. CASE UNCHANGED vars
  <2>1. input' = input /\ TrapReduce' = TrapReduce /\ dict' = dict /\ Read' = Read
    BY <1>7 DEF vars, reading, scanner, parser, Read, Searching
  <2>2. QED
    BY <2>1, TrapKept
<1>8. QED
  BY <1>1, <1>2, <1>3, <1>4, <1>5, <1>6, <1>7 DEF Next, ParserActs

-----------------------------------------------------------------------------
(* The places of the productions. *)

\* s knows whether and where its productions begin, which is at S.
Placed(s, S) ==
  /\ s.Prod \in BOOLEAN /\ s.ProdPos \in Nat
  /\ s.Prod <=> S # {}
  /\ ~s.Prod => s.ProdPos = 0
  /\ s.Prod => s.ProdPos + 1 \in S /\ \A i \in S : s.ProdPos < i

ProdInv ==
  \A n \in Nodes(dict) : /\ Placed(dict.node[n], LhsAt(n))
                         /\ goal # "done" => ~dict.node[n].Temp

LEMMA LhsGrows ==
  ASSUME TextInv, NEW x \in Int, Text' = Append(Text, x), NEW n
  PROVE  /\ x = n /\ Text[Len(Text)] = Break => LhsAt(n)' = LhsAt(n) \cup {Len(Text) + 1}
         /\ ~(x = n /\ Text[Len(Text)] = Break) => LhsAt(n)' = LhsAt(n)
<1> DEFINE N == Len(Text)
<1>1. /\ N \in Nat \ {0} /\ Len(Text') = N + 1 /\ Text'[N + 1] = x
      /\ \A i \in 1 .. N : Text'[i] = Text[i]
  BY TextGrows
<1>2. LhsAt(n) = {i \in 2 .. N : Text[i] = n /\ Text[i - 1] = Break}
  BY DEF LhsAt
<1>3. LhsAt(n)' = {i \in 2 .. N + 1 : Text'[i] = n /\ Text'[i - 1] = Break}
  BY <1>1 DEF LhsAt
<1>4. ASSUME NEW i \in 2 .. N PROVE Text'[i] = Text[i] /\ Text'[i - 1] = Text[i - 1] /\ i \in 2 .. N + 1
  <2>1. i \in 1 .. N /\ i - 1 \in 1 .. N /\ i \in 2 .. N + 1
    BY <1>1
  <2>2. QED
    BY <1>1, <2>1
<1>5. Text'[N + 1] = x /\ Text'[(N + 1) - 1] = Text[N] /\ N + 1 \in 2 .. N + 1
  <2>1. (N + 1) - 1 = N /\ N \in 1 .. N
    BY <1>1
  <2>2. QED
    BY <1>1, <2>1
<1>6. \A i \in 2 .. N + 1 : i \in 2 .. N \/ i = N + 1
  BY <1>1
<1> HIDE DEF N
<1>7. QED
  BY <1>2, <1>3, <1>4, <1>5, <1>6 DEF N

LEMMA ProdKept ==
  ASSUME ProdInv, Nodes(dict') = Nodes(dict), goal' # "done" => goal # "done",
         \A n \in Nodes(dict) : /\ dict'.node[n].Prod = dict.node[n].Prod
                                /\ dict'.node[n].ProdPos = dict.node[n].ProdPos
                                /\ dict'.node[n].Temp = dict.node[n].Temp
                                /\ LhsAt(n)' = LhsAt(n)
  PROVE  ProdInv'
<1>1. ASSUME NEW n \in Nodes(dict)
      PROVE  Placed(dict'.node[n], LhsAt(n)')
  <2>1. Placed(dict.node[n], LhsAt(n))
    BY DEF ProdInv
  <2>2. QED
    BY <2>1 DEF Placed
<1>2. ASSUME NEW n \in Nodes(dict), goal' # "done"
      PROVE  ~dict'.node[n].Temp
  <2>1. ~dict.node[n].Temp /\ dict'.node[n].Temp = dict.node[n].Temp
    BY <1>2 DEF ProdInv
  <2>2. QED
    BY <2>1
<1>3. QED
  BY <1>1, <1>2 DEF ProdInv

LEMMA ProdStarts == Init => ProdInv
<1> SUFFICES ASSUME Init PROVE ProdInv
  OBVIOUS
<1>1. dict.node = <<>>
  BY DEF Init, EmptyTree
<1>2. Nodes(dict) = {}
  BY <1>1 DEF Nodes
<1>3. QED
  BY <1>2 DEF ProdInv

\* A first production is placed, or another one.
LEMMA PlacedOnce ==
  ASSUME NEW s, NEW r, NEW S, NEW N \in Nat \ {0}, Placed(s, S), S \subseteq 2 .. N,
         r.Prod = TRUE, r.ProdPos = IF s.ProdPos = 0 THEN N ELSE s.ProdPos
  PROVE  Placed(r, S \cup {N + 1})
<1>1. \A i \in S : i \in Int /\ i >= 2 /\ i <= N
  OBVIOUS
<1>2. CASE s.Prod
  <2>1. s.ProdPos \in Nat /\ s.ProdPos + 1 \in S /\ \A i \in S : s.ProdPos < i
    BY <1>2 DEF Placed
  <2>2. s.ProdPos # 0 /\ s.ProdPos < N + 1
    BY <1>1, <2>1
  <2>3. r.ProdPos = s.ProdPos
    BY <2>2
  <2>4. QED
    BY <2>1, <2>2, <2>3 DEF Placed
<1>3. CASE ~s.Prod
  <2>1. S = {} /\ s.ProdPos = 0
    BY <1>3 DEF Placed
  <2>2. r.ProdPos = N /\ N < N + 1
    BY <2>1
  <2>3. QED
    BY <2>1, <2>2 DEF Placed
<1>4. QED
  BY <1>2, <1>3

LEMMA ProdMoves ==
  ASSUME TreeInv, ScanInv, TextInv, ProdInv, Moves
  PROVE  ProdInv'
<1>1. Nodes(dict') = Nodes(dict)
  BY MovesNodes
<1>2. Break \in Int /\ TheEnd \in Int /\ Token \in Int
  BY DEF Break, TheEnd, ScanInv
<1>3. CASE Text' = Text /\ dict' = dict /\ goal # "done"
  <2>1. \A n : LhsAt(n)' = LhsAt(n)
    BY <1>3 DEF LhsAt
  <2>2. QED
    BY <1>1, <1>3, <2>1, ProdKept
<1>4. CASE /\ Lhs /\ goal = "lhs" /\ Token > 0 /\ Text' = Append(Text, Token)
           /\ goal' = "assign"
  <2>0. PICK t : t = Token
    OBVIOUS
  <2>1. Text[Len(Text)] = Break /\ Len(Text) \in Nat \ {0}
    BY <1>2, <1>4, TextGrows DEF TextInv
  <2>2. LhsAt(t)' = LhsAt(t) \cup {Len(Text) + 1}
    BY <1>2, <1>4, <2>0, <2>1, LhsGrows
  <2>3. \A n : n # t => LhsAt(n)' = LhsAt(n)
    BY <1>2, <1>4, <2>0, LhsGrows
  <2>4. /\ t \in Nodes(dict)
        /\ \A m \in Nodes(dict) : m # t => Same(dict.node[m], dict'.node[m])
        /\ dict'.node[t].Temp = dict.node[t].Temp
        /\ dict'.node[t].Prod = TRUE
        /\ dict'.node[t].ProdPos =
             IF dict.node[t].ProdPos = 0 THEN Len(Text) ELSE dict.node[t].ProdPos
    BY <1>4, <2>0, LhsEffect
  <2>5. ASSUME NEW n \in Nodes(dict), n # t
        PROVE  Placed(dict'.node[n], LhsAt(n)') /\ ~dict'.node[n].Temp
    <3>1. Placed(dict.node[n], LhsAt(n)) /\ ~dict.node[n].Temp
      BY <1>4 DEF ProdInv
    <3>2. Same(dict.node[n], dict'.node[n]) /\ LhsAt(n)' = LhsAt(n)
      BY <2>3, <2>4, <2>5
    <3>3. QED
      BY <3>1, <3>2 DEF Placed, Same, Lasting
  <2>6. Placed(dict'.node[t], LhsAt(t)') /\ ~dict'.node[t].Temp
    <3>1. Placed(dict.node[t], LhsAt(t)) /\ ~dict.node[t].Temp
      BY <1>4, <2>4 DEF ProdInv
    <3>2. LhsAt(t) \subseteq 2 .. Len(Text)
      BY DEF LhsAt
    <3>3. Placed(dict'.node[t], LhsAt(t) \cup {Len(Text) + 1})
      BY <2>1, <2>4, <3>1, <3>2, PlacedOnce
    <3>4. QED
      BY <2>2, <2>4, <3>1, <3>3
  <2>7. \A n \in Nodes(dict') : Placed(dict'.node[n], LhsAt(n)') /\ ~dict'.node[n].Temp
    BY <1>1, <2>5, <2>6
  <2>8. QED
    BY <2>7 DEF ProdInv
<1>5. CASE goal \in Inside /\ dict' = dict /\ \E x \in Int : Text' = Append(Text, x)
  <2>1. PICK x \in Int : Text' = Append(Text, x)
    BY <1>5
  <2>2. Text[Len(Text)] # Break /\ goal # "done"
    BY <1>5 DEF TextInv, Inside
  <2>3. \A n : LhsAt(n)' = LhsAt(n)
    BY <2>1, <2>2, LhsGrows
  <2>4. QED
    BY <1>1, <1>5, <2>2, <2>3, ProdKept
<1>6. CASE CountThem /\ goal = "count" /\ goal' = "done" /\ Text' = Append(Text, TheEnd)
  <2>1. \A n \in Nodes(dict) : n # TheEnd
    BY NodesPositive DEF TheEnd
  <2>2. \A n \in Nodes(dict) : LhsAt(n)' = LhsAt(n)
    BY <1>2, <1>6, <2>1, LhsGrows
  <2>3. QED
    BY <1>1, <1>6, <2>2, CountEffect, ProdKept
<1>7. \/ Text' = Text /\ dict' = dict /\ goal # "done"
      \/ /\ Lhs /\ goal = "lhs" /\ Token > 0 /\ Text' = Append(Text, Token)
         /\ goal' = "assign"
      \/ goal \in Inside /\ dict' = dict /\ \E x \in Int : Text' = Append(Text, x)
      \/ CountThem /\ goal = "count" /\ goal' = "done" /\ Text' = Append(Text, TheEnd)
  BY <1>2 DEF Moves, Inside
<1>8. QED
  BY <1>3, <1>4, <1>5, <1>6, <1>7

LEMMA ProdReturns ==
  ASSUME TreeInv, ScanInv, TextInv, ProdInv, FindIt \/ MakeIt
  PROVE  ProdInv'
<1>1. PICK n : Outcome(n) /\ GoesOn(n)
  BY Returns
<1>2. Searching /\ Text' = Text
  BY <1>1 DEF FindIt, MakeIt, GoesOn
<1>3. \A m : LhsAt(m)' = LhsAt(m)
  BY <1>2 DEF LhsAt
<1>4. goal' # "done" => goal # "done" /\ wanted
  BY <1>1, <1>2 DEF GoesOn, ScanInv
<1>5. ASSUME NEW m \in Nodes(dict)
      PROVE  Placed(dict'.node[m], LhsAt(m)') /\ (goal' # "done" => ~dict'.node[m].Temp)
  <2>1. Placed(dict.node[m], LhsAt(m)) /\ (goal # "done" => ~dict.node[m].Temp)
    BY DEF ProdInv
  <2>2. /\ Lasting(dict.node[m], dict'.node[m])
        /\ m # n => Same(dict.node[m], dict'.node[m])
        /\ wanted => (dict'.node[n].Temp <=> n \in Nodes(dict) /\ dict.node[n].Temp)
    BY <1>1 DEF Outcome
  <2>3. Placed(dict'.node[m], LhsAt(m)')
    BY <1>3, <2>1, <2>2 DEF Placed, Lasting
  <2>4. ASSUME goal' # "done" PROVE ~dict'.node[m].Temp
    <3>1. CASE m = n
      BY <1>4, <2>1, <2>2, <2>4, <3>1
    <3>2. CASE m # n
      BY <1>4, <2>1, <2>2, <2>4, <3>2 DEF Same
    <3>3. QED
      BY <3>1, <3>2
  <2>5. QED
    BY <2>3, <2>4
<1>6. ASSUME n \notin Nodes(dict)
      PROVE  Placed(dict'.node[n], LhsAt(n)') /\ (goal' # "done" => ~dict'.node[n].Temp)
  <2>1. n \in Nodes(dict') /\ Lasting(Node(search.word), dict'.node[n])
    BY <1>1, <1>6 DEF Outcome
  <2>2. dict'.node[n].Prod = FALSE /\ dict'.node[n].ProdPos = 0
    BY <2>1 DEF Lasting, Node
  <2>3. LhsAt(n) = {}
    <3>1. n > 0
      BY <2>1, NodesPositive
    <3>2. Text \in Seq(Int)
      BY DEF TextInv
    <3>3. \A i \in 2 .. Len(Text) : i \in DOMAIN Text
      BY <3>2
    <3>4. \A i \in 2 .. Len(Text) : Text[i] # n
      BY <1>6, <3>1, <3>3 DEF TextInv
    <3>5. QED
      BY <3>4 DEF LhsAt
  <2>4. Placed(dict'.node[n], LhsAt(n)')
    <3>1. dict'.node[n].Prod \in BOOLEAN /\ ~dict'.node[n].Prod
      BY <2>2, Zenon
    <3>2. LhsAt(n)' = {}
      BY <1>3, <2>3
    <3>3. QED
      BY <2>2, <3>1, <3>2 DEF Placed
  <2>5. goal' # "done" => ~dict'.node[n].Temp
    BY <1>1, <1>4, <1>6 DEF Outcome
  <2>6. QED
    BY <2>4, <2>5
<1>7. Nodes(dict') = Nodes(dict) \cup {n}
  BY <1>1 DEF Outcome
<1>8. \A m \in Nodes(dict') : Placed(dict'.node[m], LhsAt(m)') /\ (goal' # "done" => ~dict'.node[m].Temp)
  BY <1>5, <1>6, <1>7
<1>9. QED
  BY <1>8 DEF ProdInv

LEMMA ProdSteps ==
  ASSUME TreeInv, ScanInv, TextInv, ProdInv, [Next]_vars
  PROVE  ProdInv'
<1>1. CASE Skip \/ TakeSign \/ TakeNul \/ TakeHeld \/ TakeOdd
  <2>1. Passes
    BY <1>1, ScannerPasses
  <2>2. /\ Nodes(dict') = Nodes(dict) /\ dict' = dict /\ goal # "done"
        /\ \A n : LhsAt(n)' = LhsAt(n)
    BY <2>1 DEF Passes, Nodes, LhsAt, ScanInv
  <2>3. QED
    BY <2>2, ProdKept
<1>2. CASE ParserActs
  BY <1>2, ParserMoves, ProdMoves
<1>3. CASE TakeSymbol \/ NewName \/ UNCHANGED vars
  <2>1. /\ Nodes(dict') = Nodes(dict) /\ dict' = dict /\ goal' = goal
        /\ \A n : LhsAt(n)' = LhsAt(n)
    BY <1>3 DEF TakeSymbol, NewName, vars, parser, Nodes, LhsAt
  <2>2. QED
    BY <2>1, ProdKept
<1>4. CASE Probe
  <2>1. /\ Nodes(dict') = Nodes(dict)
        /\ \A n \in Nodes(dict) : /\ dict'.node[n].Prod = dict.node[n].Prod
                                  /\ dict'.node[n].ProdPos = dict.node[n].ProdPos
                                  /\ dict'.node[n].Temp = dict.node[n].Temp
    BY <1>4, ProbeSame DEF SameSymbols, SameWords, Same, Lasting, Nodes
  <2>2. goal' = goal /\ \A n : LhsAt(n)' = LhsAt(n)
    BY <1>4 DEF Probe, parser, LhsAt
  <2>3. QED
    BY <2>1, <2>2, ProdKept
<1>5. CASE FindIt \/ MakeIt
  BY <1>5, ProdReturns
<1>6. QED
  BY <1>1, <1>2, <1>3, <1>4, <1>5 DEF Next, ParserActs

-----------------------------------------------------------------------------
(* The numbers. *)

LEMMA ListsOnce ==
  ASSUME NEW q, NEW S, NEW R, Orders(R, S), Lists(q, S, S, R)
  PROVE  \A i, j \in DOMAIN q : q[i] = q[j] => i = j
<1> SUFFICES ASSUME NEW i \in DOMAIN q, NEW j \in DOMAIN q, q[i] = q[j], i # j
             PROVE  FALSE
  OBVIOUS
<1>1. i \in Int /\ j \in Int /\ q[i] \in S
  BY DEF Lists
<1>2. i < j \/ j < i
  BY <1>1
<1>3. <<q[i], q[i]>> \in R
  BY <1>2 DEF Lists
<1>4. QED
  BY <1>1, <1>3 DEF Orders

\* Counting in the order of a list gives each of A a number of its own, below
\* their number, and an earlier one a lower number.
LEMMA Counting ==
  ASSUME NEW q, NEW S, NEW R, NEW A, IsFiniteSet(S), Orders(R, S), Lists(q, S, S, R), A \subseteq S
  PROVE  /\ \A n \in A : Among(q, A, n) \in Nat /\ Among(q, A, n) < Cardinality(A)
         /\ \A m, n \in A : <<m, n>> \in R => Among(q, A, m) < Among(q, A, n)
<1> DEFINE W == PlacesOf(q, A)
           Ahead(n) == {i \in W : \E j \in DOMAIN q : q[j] = n /\ i < j}
<1>1. /\ DOMAIN q = 1 .. Len(q) /\ Len(q) \in Nat /\ {q[i] : i \in DOMAIN q} = S
      /\ \A i \in DOMAIN q : q[i] \in S
      /\ \A i, j \in DOMAIN q : i < j => <<q[i], q[j]>> \in R
  BY DEF Lists
<1>2. \A i, j \in DOMAIN q : q[i] = q[j] => i = j
  BY ListsOnce
<1>3. W \subseteq DOMAIN q /\ \A i \in W : q[i] \in A
  BY DEF PlacesOf
<1>4. IsFiniteSet(W)
  <2>1. IsFiniteSet(1 .. Len(q))
    BY <1>1, FS_Interval
  <2>2. QED
    BY <1>1, <1>3, <2>1, FS_Subset
<1>5. \A n : Among(q, A, n) = Cardinality(Ahead(n))
  BY DEF Among
<1>6. \A n \in A : \E j \in W : q[j] = n
  BY <1>1 DEF PlacesOf
<1>7. Cardinality(W) <= Cardinality(A)
  <2> DEFINE f == [i \in W |-> q[i]]
  <2>1. f \in [W -> A]
    BY <1>3
  <2>2. \A i, j \in W : f[i] = f[j] => i = j
    BY <1>2, <1>3
  <2> HIDE DEF f
  <2>3. f \in Injection(W, A)
    BY <2>1, <2>2 DEF Injection, IsInjective
  <2>4. IsFiniteSet(A)
    BY FS_Subset
  <2>5. QED
    BY <2>3, <2>4, FS_Injection
<1> HIDE DEF W
<1>8. \A n : Ahead(n) \subseteq W /\ IsFiniteSet(Ahead(n)) /\ Cardinality(Ahead(n)) \in Nat
  BY <1>4, FS_Subset, FS_CardinalityType
<1>9. Cardinality(W) \in Nat /\ Cardinality(A) \in Nat
  BY <1>4, FS_Subset, FS_CardinalityType
<1>10. ASSUME NEW n \in A, NEW j \in W, q[j] = n
       PROVE  Ahead(n) = {i \in W : i < j}
  BY <1>2, <1>3, <1>10
<1>11. ASSUME NEW n \in A
       PROVE  Cardinality(Ahead(n)) < Cardinality(A)
  <2>1. PICK j \in W : q[j] = n
    BY <1>6
  <2>2. j \notin Ahead(n)
    <3>1. j \in Int
      BY <1>1, <1>3
    <3>2. QED
      BY <1>10, <2>1, <3>1
  <2>3. Ahead(n) # W
    BY <2>2
  <2> HIDE DEF Ahead
  <2>4. Cardinality(Ahead(n)) <= Cardinality(W) /\ Cardinality(W) # Cardinality(Ahead(n))
    BY <1>4, <1>8, <2>3, FS_Subset
  <2>5. QED
    BY <1>7, <1>8, <1>9, <2>4
<1>12. ASSUME NEW m \in A, NEW n \in A, <<m, n>> \in R
       PROVE  Cardinality(Ahead(m)) < Cardinality(Ahead(n))
  <2>1. PICK i \in W, j \in W : q[i] = m /\ q[j] = n
    BY <1>6
  <2>2. i \in Int /\ j \in Int
    BY <1>1, <1>3
  <2>3. i < j
    <3>1. m \in S /\ n \in S /\ <<n, n>> \notin R
      BY DEF Orders
    <3>2. <<n, m>> \notin R
      BY <1>12, <3>1 DEF Orders
    <3>3. ~(j < i)
      BY <1>1, <1>3, <2>1, <3>2
    <3>4. i # j
      BY <1>12, <2>1, <3>1
    <3>5. QED
      BY <2>2, <3>3, <3>4
  <2>4. Ahead(m) \subseteq Ahead(n) /\ i \in Ahead(n) /\ i \notin Ahead(m)
    <3>1. \A k \in W : k \in Int
      BY <1>1, <1>3
    <3>2. Ahead(m) = {k \in W : k < i} /\ Ahead(n) = {k \in W : k < j}
      BY <1>10, <2>1
    <3>3. (\A k \in W : k < i => k < j) /\ ~(i < i)
      BY <2>2, <2>3, <3>1
    <3> HIDE DEF Ahead
    <3>4. QED
      BY <2>3, <3>2, <3>3, Zenon
  <2>5. Ahead(m) # Ahead(n)
    BY <2>4
  <2> HIDE DEF Ahead
  <2>6. Cardinality(Ahead(m)) <= Cardinality(Ahead(n)) /\ Cardinality(Ahead(n)) # Cardinality(Ahead(m))
    BY <1>8, <2>4, <2>5, FS_Subset
  <2>7. QED
    BY <1>8, <2>6
<1> HIDE DEF Ahead
<1>13. QED
  BY <1>5, <1>8, <1>11, <1>12

\* Terminals and productions share the symbols out.
LEMMA Halves ==
  ASSUME TreeInv, ProdInv, goal = "count"
  PROVE  /\ Terminals \subseteq Nodes(dict) /\ Productions \subseteq Nodes(dict)
         /\ \A n \in Nodes(dict) : /\ n \in Terminals <=> ~dict.node[n].Prod
                                   /\ n \in Productions <=> dict.node[n].Prod
         /\ IsFiniteSet(Nodes(dict)) /\ Len(dict.node) \in Nat
         /\ Cardinality(Terminals) \in Nat /\ Cardinality(Productions) \in Nat
         /\ Cardinality(Terminals) + Cardinality(Productions) = Len(dict.node)
<1>1. DOMAIN dict.node = Nodes(dict) /\ Len(dict.node) \in Nat
  BY DEF TreeInv, IsTree
<1>2. Terminals \subseteq Nodes(dict) /\ Productions \subseteq Nodes(dict)
  BY <1>1 DEF Terminals, Productions
<1>3. ASSUME NEW n \in Nodes(dict)
      PROVE  /\ n \in Terminals <=> ~dict.node[n].Prod
             /\ n \in Productions <=> dict.node[n].Prod
  <2>1. ~dict.node[n].Temp
    BY DEF ProdInv
  <2>2. QED
    BY <1>1, <2>1 DEF Terminals, Productions
<1>4. IsFiniteSet(Nodes(dict)) /\ Cardinality(Nodes(dict)) = Len(dict.node)
  BY <1>1, FS_Interval DEF Nodes
<1>5. Terminals \cup Productions = Nodes(dict) /\ Terminals \cap Productions = {}
  BY <1>2, <1>3
<1>6. IsFiniteSet(Terminals) /\ IsFiniteSet(Productions)
  BY <1>2, <1>4, FS_Subset
<1>7. Cardinality(Terminals) \in Nat /\ Cardinality(Productions) \in Nat
  BY <1>6, FS_CardinalityType
<1>8. Cardinality(Terminals) + Cardinality(Productions) = Len(dict.node)
  <2> DEFINE T == Terminals
             P == Productions
  <2>1. Cardinality(T \cup P) = Cardinality(T) + Cardinality(P) - Cardinality(T \cap P)
    <3>1. IsFiniteSet(T) /\ IsFiniteSet(P)
      BY <1>6
    <3> HIDE DEF T, P
    <3>2. QED
      BY <3>1, FS_Union
  <2>2. Cardinality(T \cap P) = 0
    BY <1>5, FS_EmptySet
  <2>3. Cardinality(T \cup P) = Len(dict.node)
    BY <1>4, <1>5
  <2> HIDE DEF T, P
  <2>4. Cardinality(T) + Cardinality(P) = Len(dict.node)
    BY <1>7, <2>1, <2>2, <2>3 DEF T, P
  <2>5. QED
    BY <2>4 DEF T, P
<1>9. QED
  BY <1>1, <1>2, <1>3, <1>4, <1>7, <1>8

LEMMA Numbering ==
  ASSUME TreeInv, ProdInv, goal = "count", ~Searching
  PROVE  /\ \A n \in Nodes(dict) : /\ Number(n) \in 0 .. Len(dict.node) - 1
                                   /\ dict.node[n].Prod <=> Number(n) >= Cardinality(Terminals)
         /\ \A m, n \in Nodes(dict) :
              <<m, n>> \in Earlier(dict) /\ dict.node[m].Prod = dict.node[n].Prod => Number(m) < Number(n)
         /\ \A m, n \in Nodes(dict) : Number(m) = Number(n) => m = n
<1> DEFINE q == Walk(dict)
           S == Nodes(dict)
           R == Earlier(dict)
           T == Terminals
           P == Productions
           t == Cardinality(T)
           p == Cardinality(P)
<1>1. IsTree(dict) /\ Whole(dict)
  BY DEF TreeInv
<1>2. Lists(q, S, S, R) /\ Orders(R, S)
  BY <1>1, WholeLists, EarlierOrders
<1>3. /\ T \subseteq S /\ P \subseteq S /\ IsFiniteSet(S) /\ t \in Nat /\ p \in Nat
      /\ Len(dict.node) \in Nat /\ t + p = Len(dict.node)
      /\ \A n \in S : (n \in T <=> ~dict.node[n].Prod) /\ (n \in P <=> dict.node[n].Prod)
  BY Halves
<1>4. \A n \in S : Number(n) = IF n \in T THEN Among(q, T, n) ELSE t + Among(q, P, n)
  BY <1>3 DEF Number
<1>5. \A m, n \in S : m # n => <<m, n>> \in R \/ <<n, m>> \in R
  BY <1>1, WholeApart
<1> HIDE DEF q, S, R, T, P
<1>6. /\ \A n \in T : Among(q, T, n) \in Nat /\ Among(q, T, n) < t
      /\ \A m, n \in T : <<m, n>> \in R => Among(q, T, m) < Among(q, T, n)
  BY <1>2, <1>3, Counting
<1>7. /\ \A n \in P : Among(q, P, n) \in Nat /\ Among(q, P, n) < p
      /\ \A m, n \in P : <<m, n>> \in R => Among(q, P, m) < Among(q, P, n)
  BY <1>2, <1>3, Counting
<1> HIDE DEF t, p
<1>8. ASSUME NEW n \in S
      PROVE  /\ Number(n) \in 0 .. Len(dict.node) - 1
             /\ n \in P <=> Number(n) >= t
  <2>1. CASE n \in T
    <3>1. Number(n) \in Nat /\ Number(n) < t
      BY <1>4, <1>6, <2>1
    <3>2. n \notin P
      BY <1>3, <2>1
    <3>3. QED
      BY <1>3, <3>1, <3>2
  <2>2. CASE n \in P
    <3>1. n \notin T
      BY <1>3, <2>2
    <3>2. Among(q, P, n) \in Nat /\ Among(q, P, n) < p /\ Number(n) = t + Among(q, P, n)
      BY <1>4, <1>7, <2>2, <3>1
    <3>3. QED
      BY <1>3, <2>2, <3>2
  <2>3. QED
    BY <1>3, <2>1, <2>2
<1>9. ASSUME NEW m \in S, NEW n \in S, <<m, n>> \in R, m \in P <=> n \in P
      PROVE  Number(m) < Number(n)
  <2>1. CASE m \in P
    <3>1. m \notin T /\ n \notin T /\ n \in P
      BY <1>3, <1>9, <2>1
    <3>2. /\ Number(m) = t + Among(q, P, m) /\ Number(n) = t + Among(q, P, n)
          /\ Among(q, P, m) \in Nat /\ Among(q, P, n) \in Nat /\ Among(q, P, m) < Among(q, P, n)
      BY <1>4, <1>7, <1>9, <2>1, <3>1
    <3>3. QED
      BY <1>3, <3>2
  <2>2. CASE m \notin P
    <3>1. m \in T /\ n \in T
      BY <1>3, <1>9, <2>2
    <3>2. QED
      BY <1>4, <1>6, <1>9, <3>1
  <2>3. QED
    BY <2>1, <2>2
<1>10. ASSUME NEW m \in S, NEW n \in S, Number(m) = Number(n)
       PROVE  m = n
  <2>1. m \in P <=> n \in P
    BY <1>8, <1>10
  <2>2. Number(m) \in Int /\ Number(n) \in Int
    BY <1>8
  <2>3. CASE m # n
    <3>1. Number(m) < Number(n) \/ Number(n) < Number(m)
      BY <1>5, <1>9, <2>1, <2>3
    <3>2. QED
      BY <1>10, <2>2, <3>1
  <2>4. QED
    BY <2>3
<1>11. \A m, n \in S : dict.node[m].Prod = dict.node[n].Prod => (m \in P <=> n \in P)
  BY <1>3
<1>12. QED
  BY <1>3, <1>8, <1>9, <1>10, <1>11 DEF S, R, P, T, t

\* Num2Sym leads back from each number.
LEMMA LeadsBack ==
  ASSUME TreeInv, ProdInv, CountThem, NEW n \in Nodes(dict)
  PROVE  Num2Sym'[Number(n)] = n
<1> DEFINE q == Walk(dict)
           last == {i \in DOMAIN q : Number(q[i]) = Number(n)}
<1>1. goal = "count" /\ ~Searching /\ DOMAIN dict.node = Nodes(dict)
  BY DEF CountThem, Parsing, TreeInv, IsTree
<1>2. IsTree(dict) /\ Whole(dict)
  BY <1>1 DEF TreeInv
<1>3. Lists(q, Nodes(dict), Nodes(dict), Earlier(dict)) /\ Orders(Earlier(dict), Nodes(dict))
  BY <1>2, WholeLists, EarlierOrders
<1>4. Num2Sym'[Number(n)] = q[CHOOSE i \in last : \A j \in last : j <= i]
  BY <1>1 DEF CountThem
<1> HIDE DEF q
<1>5. PICK k \in DOMAIN q : q[k] = n
  BY <1>3 DEF Lists
<1>6. \A i \in DOMAIN q : i \in Int /\ q[i] \in Nodes(dict)
  BY <1>3 DEF Lists
<1>7. k \in last /\ \A i \in last : q[i] = n
  BY <1>1, <1>5, <1>6, Numbering
<1>8. \A i \in last : i = k
  <2>1. \A i, j \in DOMAIN q : q[i] = q[j] => i = j
    BY <1>3, ListsOnce
  <2>2. QED
    BY <1>5, <1>7, <2>1
<1>9. last = {k} /\ k \in Int
  BY <1>6, <1>7, <1>8
<1> HIDE DEF last
<1>10. (CHOOSE i \in last : \A j \in last : j <= i) = k
  BY <1>9
<1>11. QED
  BY <1>4, <1>5, <1>10

\* What the number of a symbol says.
Described(n) ==
  LET s == dict.node[n]
  IN  /\ s.Num \in 0 .. count.Both - 1 /\ Num2Sym[s.Num] = n
      /\ s.Prod <=> s.Num >= count.Term
      /\ s.IsMsg <=> s.word \in Messages /\ ~s.Prod
      /\ \A m \in Nodes(dict) :
           /\ InText(m) /\ dict.node[m].Prod = s.Prod
           /\ IsIt(dict.node[m].word, s.word) < 0
           => dict.node[m].Num < s.Num

NumInv ==
  goal = "done" =>
    /\ count.Both = count.Term + count.Prod
    /\ \A n \in Nodes(dict) : InText(n) => Described(n)

\* Once they are numbered, the symbols of the text stay as they are.
LEMMA NumKept ==
  ASSUME NumInv, TextInv, goal = "done", Text' = Text, count' = count, Num2Sym' = Num2Sym,
         Nodes(dict) \subseteq Nodes(dict'),
         \A n \in Nodes(dict) : Lasting(dict.node[n], dict'.node[n])
  PROVE  NumInv'
<1>1. \A n : InText(n)' <=> InText(n)
  BY DEF InText
<1>2. ASSUME NEW n \in Nodes(dict'), InText(n)
      PROVE  n \in Nodes(dict)
  <2>1. n > 0
    BY <1>2, NodesPositive
  <2>2. PICK i \in DOMAIN Text : Text[i] = n
    BY <1>2 DEF InText
  <2>3. QED
    BY <2>1, <2>2 DEF TextInv
<1>3. ASSUME NEW n \in Nodes(dict'), InText(n)
      PROVE  Described(n)'
  <2>1. n \in Nodes(dict) /\ Described(n) /\ Lasting(dict.node[n], dict'.node[n])
    BY <1>2, <1>3 DEF NumInv
  <2>2. ASSUME NEW m \in Nodes(dict'), InText(m), dict'.node[m].Prod = dict'.node[n].Prod,
               IsIt(dict'.node[m].word, dict'.node[n].word) < 0
        PROVE  dict'.node[m].Num < dict'.node[n].Num
    <3>1. m \in Nodes(dict) /\ Lasting(dict.node[m], dict'.node[m])
      BY <1>2, <2>2
    <3>2. dict.node[m].Prod = dict.node[n].Prod /\ IsIt(dict.node[m].word, dict.node[n].word) < 0
      BY <2>1, <2>2, <3>1 DEF Lasting
    <3>3. dict.node[m].Num < dict.node[n].Num
      BY <2>1, <2>2, <3>1, <3>2 DEF Described
    <3>4. QED
      BY <2>1, <3>1, <3>3 DEF Lasting
  <2>3. /\ dict'.node[n].Num \in 0 .. count'.Both - 1 /\ Num2Sym'[dict'.node[n].Num] = n
        /\ dict'.node[n].Prod <=> dict'.node[n].Num >= count'.Term
        /\ dict'.node[n].IsMsg <=> dict'.node[n].word \in Messages /\ ~dict'.node[n].Prod
    BY <2>1 DEF Described, Lasting
  <2>4. QED
    BY <1>1, <2>2, <2>3 DEF Described
<1>4. QED
  BY <1>1, <1>3 DEF NumInv

LEMMA NumCounts ==
  ASSUME TreeInv, ProdInv, CountThem
  PROVE  NumInv'
<1>1. goal = "count" /\ ~Searching
  BY DEF CountThem, Parsing
<1>2. /\ Nodes(dict') = Nodes(dict)
      /\ \A n \in Nodes(dict) :
           /\ dict'.node[n].word = dict.node[n].word /\ dict'.node[n].Prod = dict.node[n].Prod
           /\ dict'.node[n].Num = Number(n) /\ dict'.node[n].IsMsg = IsMessage(n)
  BY CountEffect
<1>3. /\ count'.Term = Cardinality(Terminals) /\ count'.Prod = Cardinality(Productions)
      /\ count'.Both = Len(dict.node)
  BY DEF CountThem
<1>4. count'.Both = count'.Term + count'.Prod
  BY <1>1, <1>3, Halves
<1>5. ASSUME NEW n \in Nodes(dict)
      PROVE  Described(n)'
  <2>1. Number(n) \in 0 .. Len(dict.node) - 1 /\ (dict.node[n].Prod <=> Number(n) >= Cardinality(Terminals))
    BY <1>1, Numbering
  <2>2. Num2Sym'[Number(n)] = n
    BY LeadsBack
  <2>3. IsMessage(n) <=> dict.node[n].word \in Messages /\ ~dict.node[n].Prod
    BY <1>1, Halves DEF IsMessage
  <2>4. ASSUME NEW m \in Nodes(dict), dict'.node[m].Prod = dict'.node[n].Prod,
               IsIt(dict'.node[m].word, dict'.node[n].word) < 0
        PROVE  dict'.node[m].Num < dict'.node[n].Num
    <3>1. dict.node[m].Prod = dict.node[n].Prod /\ IsIt(dict.node[m].word, dict.node[n].word) < 0
      BY <1>2, <2>4
    <3>2. <<m, n>> \in Earlier(dict)
      BY <3>1, EarlierOrders DEF TreeInv
    <3>3. Number(m) < Number(n)
      BY <1>1, <3>1, <3>2, Numbering
    <3>4. QED
      BY <1>2, <3>3
  <2>5. /\ dict'.node[n].Num \in 0 .. count'.Both - 1 /\ Num2Sym'[dict'.node[n].Num] = n
        /\ dict'.node[n].Prod <=> dict'.node[n].Num >= count'.Term
    BY <1>2, <1>3, <2>1, <2>2
  <2>6. dict'.node[n].IsMsg <=> dict'.node[n].word \in Messages /\ ~dict'.node[n].Prod
    BY <1>2, <2>3
  <2>7. QED
    BY <1>2, <2>4, <2>5, <2>6 DEF Described
<1>6. QED
  BY <1>2, <1>4, <1>5 DEF NumInv

LEMMA NumSteps ==
  ASSUME TreeInv, ScanInv, TextInv, ProdInv, NumInv, [Next]_vars
  PROVE  NumInv'
<1> SUFFICES ASSUME goal' = "done" PROVE NumInv'
  BY DEF NumInv
<1>1. \A n : Lasting(dict.node[n], dict.node[n])
  BY DEF Lasting
<1>2. CASE Skip \/ TakeSign \/ TakeNul \/ TakeHeld \/ TakeOdd
  <2>1. Passes
    BY <1>2, ScannerPasses
  <2>2. goal # "done" /\ goal' \in {goal, "fail"}
    BY <2>1 DEF Passes, ScanInv
  <2>3. QED
    BY <2>2
<1>3. CASE ParserActs
  <2>1. Moves
    BY <1>3, ParserMoves
  <2>2. CountThem
    BY <2>1 DEF Moves, Inside
  <2>3. QED
    BY <2>2, NumCounts
<1>4. CASE TakeSymbol \/ NewName \/ UNCHANGED vars
  <2>1. /\ goal = "done" /\ Text' = Text /\ count' = count /\ Num2Sym' = Num2Sym
        /\ dict' = dict /\ Nodes(dict') = Nodes(dict)
    BY <1>4 DEF TakeSymbol, NewName, vars, parser, results, Nodes
  <2>2. QED
    BY <1>1, <2>1, NumKept
<1>5. CASE Probe
  <2>1. goal = "done" /\ Text' = Text /\ count' = count /\ Num2Sym' = Num2Sym
    BY <1>5 DEF Probe, parser, results
  <2>2. Nodes(dict') = Nodes(dict) /\ \A n \in Nodes(dict) : Lasting(dict.node[n], dict'.node[n])
    BY <1>5, ProbeSame DEF SameSymbols, SameWords, Same, Nodes
  <2>3. QED
    BY <2>1, <2>2, NumKept
<1>6. CASE FindIt \/ MakeIt
  <2>1. PICK n : Outcome(n) /\ GoesOn(n)
    BY <1>6, Returns
  <2>2. goal = "done" /\ Text' = Text /\ count' = count /\ Num2Sym' = Num2Sym
    BY <2>1 DEF GoesOn
  <2>3. Nodes(dict) \subseteq Nodes(dict') /\ \A m \in Nodes(dict) : Lasting(dict.node[m], dict'.node[m])
    BY <2>1 DEF Outcome
  <2>4. QED
    BY <2>2, <2>3, NumKept
<1>7. QED
  BY <1>2, <1>3, <1>4, <1>5, <1>6 DEF Next, ParserActs

-----------------------------------------------------------------------------
(* All together. *)

SymbolsInv ==
  TreeInv /\ ScanInv /\ TextInv /\ WordsApart /\ TrapInv /\ ProdInv /\ NumInv

LEMMA SymbolsStart == Init => SymbolsInv
<1>1. Init => NumInv
  BY DEF Init, NumInv
<1>2. QED
  BY <1>1, Start, ScanStarts, TextStarts, ApartStarts, TrapStarts, ProdStarts DEF SymbolsInv

LEMMA SymbolsSteps == SymbolsInv /\ [Next]_vars => SymbolsInv'
<1> SUFFICES ASSUME SymbolsInv, [Next]_vars PROVE SymbolsInv'
  OBVIOUS
<1>1. TreeInv /\ ScanInv /\ TextInv /\ WordsApart /\ TrapInv /\ ProdInv /\ NumInv
  BY DEF SymbolsInv
<1>2. TreeInv'
  BY <1>1, Steps
<1>3. ScanInv'
  BY <1>1, <1>2, ScanSteps
<1>4. TextInv'
  BY <1>1, TextSteps
<1>5. WordsApart'
  BY <1>1, <1>2, ApartSteps
<1>6. TrapInv'
  BY <1>1, TrapSteps
<1>7. ProdInv'
  BY <1>1, ProdSteps
<1>8. NumInv'
  BY <1>1, NumSteps
<1>9. QED
  BY <1>2, <1>3, <1>4, <1>5, <1>6, <1>7, <1>8 DEF SymbolsInv

LEMMA InvDescribes ==
  ASSUME SymbolsInv
  PROVE  SymbolsDescribed
<1>1. TreeInv /\ ScanInv /\ TextInv /\ WordsApart /\ TrapInv /\ ProdInv /\ NumInv
  BY DEF SymbolsInv
<1> SUFFICES ASSUME goal = "done" PROVE SymbolsDescribed
  BY DEF SymbolsDescribed
<1>2. DOMAIN dict.node = Nodes(dict)
  BY <1>1 DEF TreeInv, IsTree
<1>3. Len(input) \in Nat /\ Read = Len(input)
  <2>1. Len(input) \in Nat
    BY <1>1, InputKinds
  <2>2. ~wanted /\ at = Len(input) + 1
    BY <1>1 DEF ScanInv
  <2>3. QED
    BY <2>1, <2>2 DEF Read
<1>4. ASSUME NEW n \in Nodes(dict), InText(n)
      PROVE  LET s == dict.node[n]
             IN  /\ s.Num \in 0 .. count.Both - 1 /\ Num2Sym[s.Num] = n
                 /\ count.Both = count.Term + count.Prod
                 /\ s.Prod <=> s.Num >= count.Term
                 /\ s.Prod <=> LhsAt(n) # {}
                 /\ s.Prod => s.ProdPos + 1 \in LhsAt(n) /\ \A i \in LhsAt(n) : s.ProdPos < i
                 /\ s.Hatch <=> Trapped(Len(input), s.word)
                 /\ s.IsMsg <=> s.word \in Messages /\ ~s.Prod
                 /\ \A m \in DOMAIN dict.node :
                      InText(m) /\ dict.node[m].Prod = s.Prod /\ IsIt(dict.node[m].word, s.word) < 0
                        => dict.node[m].Num < s.Num
  <2> DEFINE s == dict.node[n]
  <2>1. count.Both = count.Term + count.Prod /\ Described(n)
    BY <1>1, <1>4 DEF NumInv
  <2>2. Placed(s, LhsAt(n))
    BY <1>1 DEF ProdInv
  <2>3. s.Hatch <=> Trapped(Len(input), s.word)
    <3>1. Trapped(Len(input), s.word) <=> \E m \in Nodes(dict) : dict.node[m].word = s.word /\ dict.node[m].Hatch
      BY <1>1, <1>3 DEF TrapInv, Hatched
    <3>2. \A m \in Nodes(dict) : dict.node[m].word = s.word => m = n
      BY <1>1 DEF WordsApart
    <3>3. QED
      BY <3>1, <3>2
  <2>4. QED
    BY <1>2, <2>1, <2>2, <2>3 DEF Described, Placed
<1>5. QED
  BY <1>2, <1>4 DEF SymbolsDescribed

\* What ReadIn leaves of each symbol is right for every grammar: the numbers,
\* dense and in order, Num2Sym, the place of the first production, and the mark
\* of a # that was written before it, which outlives the turns of LookUp and
\* the Break that is put before a left side.
THEOREM SymbolsAreDescribed == Spec => []SymbolsDescribed
<1>1. SymbolsInv => SymbolsDescribed
  BY InvDescribes
<1>2. QED
  BY <1>1, SymbolsStart, SymbolsSteps, PTL DEF Spec
=============================================================================
