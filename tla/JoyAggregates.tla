---------------------------- MODULE JoyAggregates ----------------------------
(***************************************************************************)
(* The list operators of Joy that build their result at its end: map,      *)
(* filter, split, take and concat (src/NetRexx/languages/netjoy/interp.c,  *)
(* their LIST_ cases).  They keep the cursor of the old list (DMP1), the   *)
(* head and the last node of the new one (DMP2, DMP3, and DMP4, DMP5 for   *)
(* split) in nodes on the dumps, because every newnode may collect and     *)
(* move all nodes.                                                         *)
(*                                                                         *)
(* The collector is the atomic one that JoyMemory's copying collector is   *)
(* proved to be: all that the roots reach moves to the other half, and     *)
(* every pointer from the roots follows.  A pointer held anywhere else,    *)
(* such as the address that an assignment DMP3->next = newnode(...) stores *)
(* to when the compiler evaluates it before the call, keeps pointing to    *)
(* the half given up.                                                      *)
(***************************************************************************)
EXTENDS Integers, Sequences, FiniteSets

CONSTANTS
  SIZE,         \* cells of each half of the memory
  Vals,         \* the elements of lists
  Lists,        \* the lists the operators are tried with
  Counts,       \* the numbers take is tried with
  Orders,       \* does the compiler load the pointer on the left of
                \* p->next = newnode(...) before the call?  C allows both.
  NULL

ASSUME SizeAssumption == SIZE \in Nat
ASSUME ListAssumption == Lists \subseteq Seq(Vals) /\ Counts \subseteq Int
ASSUME OrderAssumption == Orders \subseteq BOOLEAN
ASSUME NullAssumption == NULL \notin Int /\ NULL \notin Vals

Addr     == 1 .. (2 * SIZE)
Pointers == Addr \cup {NULL}
Dumps    == {"dump1", "dump2", "dump3", "dump4", "dump5"}

\* "A" and "T" are the arguments on the stack: the list worked on, and the
\* second list of concat.
Roots    == Dumps \cup {"A", "T"}
Cell     == [val : Vals \cup {NULL}, u : Pointers, next : Pointers]
Heap     == [mem : [Addr -> Cell], half : {0, 1}, top : 0 .. SIZE,
             root : [Roots -> Pointers]]

VARIABLES
  lvalueFirst,  \* the compiler's choice in Orders
  heap,    \* the cells, the half in use and its cells taken, the roots
  op,      \* the operator that runs
  count,   \* what take has still to take
  pc,      \* where the operator is
  ran,     \* history: what the program P returned for each element
  inA,     \* history: the list of root "A" as it was
  inT,     \* history: the list of root "T" as it was
  inN,     \* history: the number given to take
  lost,    \* history: the places of list inA whose store went to the half given up
  result   \* the lists the operator leaves on the stack

vars == <<lvalueFirst, heap, op, count, pc, ran, inA, inT, inN, lost, result>>

-----------------------------------------------------------------------------
(* The memory. *)

\* The list that starts at p, cut off after SIZE nodes.
ListAt(h, p) ==
  LET list[n \in 0 .. SIZE] ==
        [q \in Pointers |->
           IF n = 0 \/ q = NULL THEN <<>>
           ELSE <<h.mem[q].val>> \o list[n - 1][h.mem[q].next]]
  IN  list[SIZE][p]

\* What the cells of S point to.
Successors(h, S) == ({h.mem[a].next : a \in S} \cup {h.mem[a].u : a \in S}) \ {NULL}

\* What the roots, and the pointers of the set extra, reach.
Live(h, extra) ==
  LET reach[n \in 0 .. SIZE] ==
        IF n = 0 THEN ({h.root[s] : s \in Roots} \cup extra) \ {NULL}
        ELSE LET S == reach[n - 1] IN S \cup Successors(h, S)
  IN  reach[SIZE]

\* Where a collection moves the live cell a.
NewAddress(h, live, a) ==
  (1 - h.half) * SIZE + Cardinality({b \in live : b <= a})

\* The pointers after a collection; cells not live are left behind.
Forwards(h, live) ==
  [p \in Pointers |-> IF p \in live THEN NewAddress(h, live, p) ELSE p]

\* Mutants are slips the code could have made; no action uses one, each stands
\* in for the definition after it to see which property breaks.
\* Mutant: the cells the other half had taken before still count.
Collect_adds(h, extra) ==
  LET live == Live(h, extra)
      fwd  == Forwards(h, live)
  IN  [h EXCEPT !.half = 1 - @, !.top = @ + Cardinality(live),
                !.root = [s \in Roots |-> fwd[@[s]]],
                !.mem = [a \in Addr |->
                  IF \E b \in live : fwd[b] = a
                  THEN LET b == CHOOSE b \in live : fwd[b] = a
                       IN  [@[b] EXCEPT !.u = fwd[@], !.next = fwd[@]]
                  ELSE @[a]]]

\* gc1 and gc2.
Collect(h, extra) ==
  LET live == Live(h, extra)
      fwd  == Forwards(h, live)
      from == [a \in {fwd[b] : b \in live} |-> CHOOSE b \in live : fwd[b] = a]
  IN  [mem  |-> [a \in Addr |->
                   IF a \in DOMAIN from
                   THEN [val |-> h.mem[from[a]].val, u |-> fwd[h.mem[from[a]].u],
                         next |-> fwd[h.mem[from[a]].next]]
                   ELSE h.mem[a]],
       half |-> 1 - h.half,
       top  |-> Cardinality(live),
       root |-> [s \in Roots |-> fwd[h.root[s]]]]

\* newnode(v, u, r): the heap after it, the node, and where pointers went.
newnode(h, collects, v, u, r) ==
  LET live == Live(h, {u, r})
      fwd  == IF collects THEN Forwards(h, live) ELSE [p \in Pointers |-> p]
      g    == IF collects THEN Collect(h, {u, r}) ELSE h
      p    == g.half * SIZE + g.top + 1
  IN  [heap |-> [g EXCEPT !.mem[p] = [val |-> v, u |-> fwd[u], next |-> fwd[r]],
                          !.top = @ + 1],
       node |-> p,
       fwd  |-> fwd]

\* d->u.lis, the pointer that the node on top of dump d holds.
DMP(h, d) == h.mem[h.root[d]].u

\* DMP1 = DMP1->next
StepOld(h) == [h EXCEPT !.mem[h.root["dump1"]].u = h.mem[DMP(h, "dump1")].next]

\* The dump that holds the last node of the list whose head dump d holds.
LastOf(d) == IF d = "dump2" THEN "dump3" ELSE "dump5"

\* Mutant: the new list begins with the old node itself.
First_shares(h, collects, v, d) ==
  LET g == [h EXCEPT !.mem[h.root[d]].u = DMP(h, "dump1")]
  IN  [g EXCEPT !.mem[g.root[LastOf(d)]].u = DMP(g, d)]

\* DMP2 = newnode(v); DMP3 = DMP2;
First(h, collects, v, d) ==
  LET n == newnode(h, collects, v, NULL, NULL)
      x == IF lvalueFirst THEN h.root[d] ELSE n.fwd[h.root[d]]
      g == [n.heap EXCEPT !.mem[x].u = n.node]
  IN  [g EXCEPT !.mem[g.root[LastOf(d)]].u = DMP(g, d)]

\* DMP3->next = newnode(v); DMP3 = DMP3->next;
Further(h, collects, v, d) ==
  LET n == newnode(h, collects, v, NULL, NULL)
      x == IF lvalueFirst THEN DMP(h, LastOf(d)) ELSE n.fwd[DMP(h, LastOf(d))]
      g == [n.heap EXCEPT !.mem[x].next = n.node]
  IN  [g EXCEPT !.mem[g.root[LastOf(d)]].u = g.mem[DMP(g, LastOf(d))].next]

-----------------------------------------------------------------------------
(* The operators. *)

\* A memory that holds the two lists and nothing else.
HeapWith(A, T) ==
  LET nA == Len(A)
      n  == nA + Len(T)
      val(a) == IF a <= nA THEN A[a] ELSE T[a - nA]
  IN  [mem  |-> [a \in Addr |->
                   [val |-> IF a <= n THEN val(a) ELSE NULL, u |-> NULL,
                    next |-> IF a < n /\ a # nA THEN a + 1 ELSE NULL]],
       half |-> 0,
       top  |-> n,
       root |-> [s \in Roots |-> CASE s = "A" /\ nA > 0 -> 1
                                   [] s = "T" /\ n > nA -> nA + 1
                                   [] OTHER -> NULL]]

Init ==
  /\ lvalueFirst \in Orders
  /\ op \in {"map", "filter", "split", "take", "concat"}
  /\ inA \in Lists
  /\ inT \in (IF op = "concat" THEN Lists ELSE {<<>>})
  /\ inN \in (IF op = "take" THEN Counts ELSE {0})
  /\ count = inN
  /\ Len(inA) + Len(inT) <= SIZE
  /\ heap = HeapWith(inA, inT)
  /\ pc = "begin"
  /\ ran = <<>>
  /\ lost = {}
  /\ result = <<>>

\* take with a number below 1, concat with an empty first list
begin_short ==
  /\ pc = "begin"
  /\ \/ op = "take" /\ count < 1 /\ result' = << <<>> >>
     \/ op = "concat" /\ heap.root["A"] = NULL /\ result' = <<ListAt(heap, heap.root["T"])>>
  /\ pc' = "done"
  /\ UNCHANGED <<heap, op, count, ran, inA, inT, inN, lvalueFirst, lost>>

begin_long ==
  /\ pc = "begin"
  /\ op = "take" => count >= 1
  /\ op = "concat" => heap.root["A"] # NULL
  /\ pc' = "dump1"
  /\ UNCHANGED <<heap, op, count, ran, inA, inT, inN, lvalueFirst, lost, result>>

NextDump(d) ==
  CASE d = "dump1" -> "dump2"
    [] d = "dump2" -> "dump3"
    [] d = "dump3" -> IF op = "split" THEN "dump4" ELSE "loop"
    [] d = "dump4" -> "dump5"
    [] d = "dump5" -> "loop"

\* The half in use is never full here: what newnode does then is in JoyMemory.
\* dump1 = newnode(LIST_, SAVED2->u, dump1), dump2 = LIST_NEWNODE(0L, dump2), ...
push_dump ==
  /\ pc \in Dumps
  /\ \E collects \in BOOLEAN :
       LET u == IF pc = "dump1" THEN heap.root["A"] ELSE NULL
           n == newnode(heap, collects, NULL, u, heap.root[pc])
       IN  heap' = [n.heap EXCEPT !.root[pc] = n.node]
  /\ heap'.top <= SIZE
  /\ pc' = NextDump(pc)
  /\ UNCHANGED <<op, count, ran, inA, inT, inN, lvalueFirst, lost, result>>

\* The condition of the while loops.
GoesOn == DMP(heap, "dump1") # NULL /\ (op = "take" => count > 0)

\* map: the element is pushed, P is executed, what it leaves is stored.
\* filter and split: what P leaves decides where the element goes.
exeterm ==
  /\ pc = "loop" /\ GoesOn
  /\ op \in {"map", "filter", "split"}
  /\ \E v \in (IF op = "map" THEN Vals ELSE BOOLEAN), collects \in BOOLEAN :
       LET h == IF collects THEN Collect(heap, {}) ELSE heap
       IN  /\ ran' = Append(ran, v)
           /\ IF op = "filter" /\ ~v
              THEN heap' = StepOld(h) /\ pc' = "loop"
              ELSE heap' = h /\ pc' = "store"
  /\ UNCHANGED <<op, count, inA, inT, inN, lvalueFirst, lost, result>>

\* take and concat: the element itself is stored.
copy_element ==
  /\ pc = "loop" /\ GoesOn
  /\ op \in {"take", "concat"}
  /\ count' = IF op = "take" THEN count - 1 ELSE count
  /\ pc' = "store"
  /\ UNCHANGED <<heap, op, ran, inA, inT, inN, lvalueFirst, lost, result>>

\* Mutant: split takes the lists for each other.
Target_swapped == IF op = "split" /\ ran[Len(ran)] THEN "dump4" ELSE "dump2"

\* The list the element goes to: split keeps those that fail apart.
Target == IF op = "split" /\ ~ran[Len(ran)] THEN "dump4" ELSE "dump2"

Element == IF op = "map" THEN ran[Len(ran)] ELSE heap.mem[DMP(heap, "dump1")].val

\* The place of the cursor's element in the list.
Position == Len(inA) - Len(ListAt(heap, DMP(heap, "dump1"))) + 1

\* A collection moves what a pointer loaded before it points to.
Outdates(collects) ==
  lost' = IF lvalueFirst /\ collects THEN lost \cup {Position} ELSE lost

store_first ==
  /\ pc = "store" /\ DMP(heap, Target) = NULL
  /\ \E collects \in BOOLEAN :
       /\ heap' = StepOld(First(heap, collects, Element, Target))
       /\ Outdates(collects)
  /\ heap'.top <= SIZE
  /\ pc' = "loop"
  /\ UNCHANGED <<op, count, ran, inA, inT, inN, lvalueFirst, result>>

store_further ==
  /\ pc = "store" /\ DMP(heap, Target) # NULL /\ DMP(heap, LastOf(Target)) # NULL
  /\ \E collects \in BOOLEAN :
       /\ heap' = StepOld(Further(heap, collects, Element, Target))
       /\ Outdates(collects)
  /\ heap'.top <= SIZE
  /\ pc' = "loop"
  /\ UNCHANGED <<op, count, ran, inA, inT, inN, lvalueFirst, result>>

\* DMP3->next with DMP3 = NULL.
store_null ==
  /\ pc = "store" /\ DMP(heap, Target) # NULL /\ DMP(heap, LastOf(Target)) = NULL
  /\ pc' = "crashed"
  /\ UNCHANGED <<heap, op, count, ran, inA, inT, inN, lvalueFirst, lost, result>>

\* take: DMP3->next = NULL; concat: DMP3->next = stk->u.lis;
tie ==
  /\ pc = "loop" /\ ~GoesOn /\ op \in {"take", "concat"}
  /\ LET last == DMP(heap, "dump3")
     IN  IF last = NULL
         THEN pc' = "crashed" /\ heap' = heap
         ELSE /\ pc' = "finish"
              /\ heap' = [heap EXCEPT !.mem[last].next =
                            IF op = "take" THEN NULL ELSE heap.root["T"]]
  /\ UNCHANGED <<op, count, ran, inA, inT, inN, lvalueFirst, lost, result>>

\* stk = LIST_NEWNODE(DMP2, SAVED3), for split LIST_NEWNODE(DMP4, ...) too;
\* the dumps are popped.
finish ==
  /\ \/ pc = "finish"
     \/ pc = "loop" /\ ~GoesOn /\ op \notin {"take", "concat"}
  /\ result' = <<ListAt(heap, DMP(heap, "dump2"))>> \o
               (IF op = "split" THEN <<ListAt(heap, DMP(heap, "dump4"))>> ELSE <<>>)
  /\ heap' = [heap EXCEPT !.root = [s \in Roots |->
                IF s \in Dumps /\ @[s] # NULL THEN heap.mem[@[s]].next ELSE @[s]]]
  /\ pc' = "done"
  /\ UNCHANGED <<op, count, ran, inA, inT, inN, lvalueFirst, lost>>

\* P ends with a run time error: abortexecution_ clears the dumps.
execerror ==
  /\ pc = "loop" /\ GoesOn /\ op \in {"map", "filter", "split"}
  /\ heap' = [heap EXCEPT !.root = [s \in Roots |-> IF s \in Dumps THEN NULL ELSE @[s]]]
  /\ pc' = "aborted"
  /\ UNCHANGED <<op, count, ran, inA, inT, inN, lvalueFirst, lost, result>>

Next ==
  \/ begin_short \/ begin_long \/ push_dump
  \/ exeterm \/ copy_element
  \/ store_first \/ store_further \/ store_null
  \/ tie \/ finish \/ execerror

Spec == Init /\ [][Next]_vars

-----------------------------------------------------------------------------
(* Properties. *)

TypeOK ==
  /\ heap \in Heap
  /\ lvalueFirst \in Orders /\ lost \subseteq 1 .. Len(inA)
  /\ op \in {"map", "filter", "split", "take", "concat"}
  /\ count \in Int
  /\ pc \in Dumps \cup {"begin", "loop", "store", "finish", "done", "aborted", "crashed"}
  /\ ran \in Seq(IF op = "map" THEN Vals ELSE BOOLEAN)
  /\ inA \in Lists /\ inT \in Lists \cup {<<>>} /\ inN \in Int
  /\ result \in Seq(Seq(Vals))

\* Of the first n elements of s those whose places are in keep.
At(s, n, keep) ==
  LET sub[m \in 0 .. n] ==
        IF m = 0 THEN <<>>
        ELSE sub[m - 1] \o (IF m \in keep THEN <<s[m]>> ELSE <<>>)
  IN  sub[n]

\* The places of the elements for which P returned b.
Chosen(b) == {n \in 1 .. Len(ran) : ran[n] = b}

\* How many elements take has to take.
Asked == IF inN < 1 THEN 0 ELSE IF inN < Len(inA) THEN inN ELSE Len(inA)

\* What the manual says of each operator: P's result for each element (map),
\* the elements that pass (filter), those that pass and those that fail
\* (split), the first N (take), both lists (concat); less what was lost.
Expected ==
  CASE op = "map"    -> <<At(ran, Len(ran), Int \ lost)>>
    [] op = "filter" -> <<At(inA, Len(ran), Chosen(TRUE) \ lost)>>
    [] op = "split"  -> <<At(inA, Len(ran), Chosen(TRUE) \ lost),
                          At(inA, Len(ran), Chosen(FALSE) \ lost)>>
    [] op = "take"   -> <<At(inA, Asked, Int \ lost)>>
    [] op = "concat" -> <<At(inA, Len(inA), Int \ lost) \o inT>>

\* An operator that ends leaves what its line in the manual says, whenever the
\* collector ran in between and however the compiler orders an assignment,
\* less exactly the elements in whose store a collection came after the left
\* pointer was loaded, as gcc may do (nothing else goes, none comes twice or
\* out of order).  It follows a null pointer only after such a loss, or when
\* take was given an empty list.
ResultCorrect ==
  /\ pc = "done" => /\ result = Expected
                    /\ op \in {"map", "filter", "split"} => Len(ran) = Len(inA)
  /\ pc = "crashed" => lost # {} \/ (op = "take" /\ inA = <<>>)

\* The lists an operator was given are not changed: they are shared with
\* other values on the stack.
ArgumentsKept ==
  /\ ListAt(heap, heap.root["A"]) = inA
  /\ ListAt(heap, heap.root["T"]) = inT

\* Lists for a run, whose elements differ, so that a lost or swapped one shows.
RunLists == {<<>>, <<1>>, <<1, 2>>, <<1, 2, 3>>}
=============================================================================
