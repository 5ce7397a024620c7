------------------------------- MODULE JoyExec -------------------------------
(***************************************************************************)
(* The combinators of the Joy interpreter                                  *)
(* (src/NetRexx/languages/netjoy/interp.c:1497-2319), on the evaluator of  *)
(* JoyEval.                                                                *)
(***************************************************************************)
EXTENDS JoyEval

-----------------------------------------------------------------------------
(* What a combinator asks of the stack: ONEPARAM, ..., ONEQUOTE, ... *)

\* The types that the IF_TYPE combinators look for.
IfType == [ifinteger |-> "INT", ifchar |-> "CHAR", iflogical |-> "BOOL", ifset |-> "SET",
           ifstring |-> "STRING", iflist |-> "LIST", iffloat |-> "FLOAT", iffile |-> "FILE"]

Params(c) ==
  CASE c \in {"i", "x", "nullary", "cond", "condlinrec", "condnestrec"} -> 1
    [] c \in {"dip", "unary", "times", "infra", "app1", "step", "map", "filter", "split", "while",
              "construct", "some", "all", "case", "treestep"} \cup DOMAIN IfType -> 2
    [] c \in {"binary", "app11", "app12", "cleave", "unary2", "fold", "branch", "ifte",
              "tailrec", "primrec", "treerec"} -> 3
    [] c \in {"ternary", "unary3", "linrec", "binrec", "genrec", "treegenrec"} -> 4
    [] c = "unary4" -> 5

Quotes(c) ==
  CASE c \in {"fold", "app12", "tailrec", "primrec", "split", "treerec", "treegenrec"} -> 0
    [] c \in {"i", "x", "nullary", "cond", "condlinrec", "condnestrec", "dip", "unary", "times",
              "infra", "app1", "step", "map", "filter", "some", "all", "case", "treestep",
              "binary", "app11", "unary2", "ternary", "unary3", "unary4"} -> 1
    [] c \in {"cleave", "branch", "while", "construct"} \cup DOMAIN IfType -> 2
    [] c = "ifte" -> 3
    [] c \in {"linrec", "binrec", "genrec"} -> 4

Checked(c) ==
  /\ Nth(stk, Params(c)) # NULL
  /\ \A k \in 1 .. Quotes(c) : Op(Nth(stk, k)) = "LIST"
  /\ c = "times" => Op(Next_(stk)) = "INT"
  /\ c = "infra" => Op(Next_(stk)) = "LIST"
  /\ c \in {"cond", "case", "condlinrec", "condnestrec"} => U(stk) # NULL

Begins(c) == c \in Combinators /\ Runs(c, "begin") /\ Checked(c)

combinator_error ==
  /\ Active /\ Top.proc \in Combinators /\ Top.at = "begin"
  /\ ~Checked(Top.proc)
  /\ execerror

\* SAVESTACK, and stk = s.
Saved        == Append(heap, Cell("LIST", stk, root.dump))
WithSaved(s) == [root EXCEPT !.dump = New, !.stk = s]

\* POP(dump), and the stack is what node p tops.
DumpPopped(p) == [root EXCEPT !.dump = Next_(root.dump), !.stk = p]

\* Combinator c saves the stack and runs the program at q on stack s.
Opens(c, s, q, l) == Begins(c) /\ Execute(Saved, WithSaved(s), At(l), q)

-----------------------------------------------------------------------------
(* Combinators that run one program. *)

x_begin == Begins("x") /\ Execute(heap, root, At("return"), stk)

returns ==
  /\ Active /\ Top.at = "return"
  /\ Return(heap, root)

i_begin      == Opens("i", Next_(stk), stk, "pop_dump")
app1_begin   == Opens("app1", Next_(stk), stk, "pop_dump")
dip_begin    == Opens("dip", Nth(stk, 3), stk, "restore")
branch_begin == Opens("branch", Nth(stk, 4),
                      IF Raw(heap[Nth(stk, 3)]) # 0 THEN Nth(stk, 2) ELSE stk, "pop_dump")

\* The type of X is asked for without a check that X is there.
iftype_begin ==
  \E c \in DOMAIN IfType :
    /\ Begins(c)
    /\ LET x == Nth(stk, 3)
       IN  IF x = NULL THEN Crash
           ELSE Opens(c, x, IF Op(x) = IfType[c] THEN Nth(stk, 2) ELSE stk, "pop_dump")

\* The clause whose first member has the value of X; the last one is the default,
\* which finds X where it was.
case_begin ==
  /\ Begins("case")
  /\ LET clauses == U(stk)
         n == LengthIn(heap, clauses)
         label(k) == Lis(Nth(clauses, k))
         differs(k) == label(k) # NULL /\ Raw(heap[label(k)]) # Raw(heap[Nth(stk, 2)])
         stops == {k \in 1 .. n : k = n \/ ~differs(k)}
         k == CHOOSE i \in stops : \A j \in stops : i <= j
     IN  IF k < n THEN ExecuteRest(heap, [root EXCEPT !.stk = Nth(stk, 3)], At("return"), label(k))
         ELSE Execute(heap, [root EXCEPT !.stk = Next_(stk)], At("return"), Nth(clauses, n))

pops_dump ==
  /\ Active /\ Top.at = "pop_dump"
  /\ Return(heap, DumpPopped(stk))

dip_restores ==
  /\ Runs("dip", "restore")
  /\ Return(Append(heap, Like(SAVED(2), stk)), DumpPopped(New))

\* The node of the saved stack under the result.
Below == [nullary |-> 2, unary |-> 3, binary |-> 4, ternary |-> 5]

nary_begin ==
  \E c \in DOMAIN Below : Opens(c, Next_(stk), stk, "result")

\* Mutant: the saved stack stays on dump.
nary_result_keeps ==
  \E c \in DOMAIN Below :
    /\ Runs(c, "result")
    /\ IF stk = NULL THEN execerror
       ELSE Return(Append(heap, Like(stk, SAVED(Below[c]))), [root EXCEPT !.stk = New])

nary_result ==
  \E c \in DOMAIN Below :
    /\ Runs(c, "result")
    /\ IF stk = NULL THEN execerror
       ELSE Return(Append(heap, Like(stk, SAVED(Below[c]))), DumpPopped(New))

infra_begin  == Opens("infra", U(Nth(stk, 2)), stk, "result")

infra_result ==
  /\ Runs("infra", "result")
  /\ Return(Append(heap, Cell("LIST", stk, SAVED(3))), DumpPopped(New))

-----------------------------------------------------------------------------
(* Writing to a node of the stack. *)

\* q->next = n, which is seen by whatever else reaches q by the roots r.
Writes(q, n, r, l) ==
  /\ heap' = [heap EXCEPT ![q].next = n]
  /\ frames' = Append(Pop, At(l))
  /\ spoiled' = (spoiled \/ q \in Reached(heap, r))
  /\ UNCHANGED <<image, chars, root, todo, status, run, given>>

\* app11 and app12 call app1 and unary2, and take out a node behind the result.
app1x_begin ==
  \/ Begins("app11") /\ Call(heap, root, At("unlink"), "app1")
  \/ Begins("app12") /\ Call(heap, root, At("unlink"), "unary2")

app1x_unlink ==
  \E c \in {"app11", "app12"} :
    /\ Runs(c, "unlink")
    /\ LET q == IF c = "app11" THEN stk ELSE Nth(stk, 2)
       IN  IF q = NULL \/ Nth(q, 2) = NULL THEN Crash
           ELSE Writes(q, Nth(q, 3), [root EXCEPT !.stk = NULL], "return")

while_begin == Opens("while", Nth(stk, 3), Nth(stk, 2), "test")

while_test ==
  /\ Runs("while", "test")
  /\ CASE stk = NULL -> Crash
       [] stk # NULL /\ LongTest = 0 -> Return(heap, DumpPopped(SAVED(3)))
       [] stk # NULL /\ LongTest # 0 ->
            Execute(heap, [root EXCEPT !.stk = SAVED(3)], At("do"), SAVED(1))

\* SAVED3 = stk: the next field of the node that holds the test.
while_do ==
  /\ Runs("while", "do")
  /\ Writes(SAVED(2), stk, [root EXCEPT !.dump = Next_(root.dump)], "again")

while_again ==
  /\ Runs("while", "again")
  /\ Execute(heap, [root EXCEPT !.stk = SAVED(3)], At("test"), SAVED(2))

-----------------------------------------------------------------------------
(* Combinators that run two programs. *)

cleave_begin == Opens("cleave", Nth(stk, 3), Nth(stk, 2), "first")

\* dump1 = newnode(stk->op,stk->u,dump1)
Collected == Append(heap, Like(stk, root.dump1))

cleave_first ==
  /\ Runs("cleave", "first")
  /\ IF stk = NULL THEN Crash
     ELSE Execute(Collected, [root EXCEPT !.dump1 = New, !.stk = SAVED(3)],
                  [At("last") EXCEPT !.n = 2], SAVED(1))

\* The results, on dump1, become the top of the stack: the last of n has come.
Results_(n) ==
  LET h == Collected
      deepest == NthIn(h, New, n)
  IN  IF stk = NULL THEN Crash
      ELSE Return([h EXCEPT ![deepest].next = SAVED(n + 2)],
                  [DumpPopped(New) EXCEPT !.dump1 = NthIn(h, New, n + 1)])

\* cleave keeps what is under its three parameters.
cleave_last ==
  /\ Runs("cleave", "last")
  /\ Results_(2)

Values == [unary2 |-> 2, unary3 |-> 3, unary4 |-> 4]

unaryn_begin ==
  \E c \in DOMAIN Values : Opens(c, Nth(stk, Values[c] + 1), stk, "value")

\* n results have come: the next value on top of what is under all of them.
unaryn_value ==
  \E c \in DOMAIN Values :
    LET n == Top.n + 1
        m == Values[c]
    IN  /\ Runs(c, "value")
        /\ IF n = m THEN Results_(m)
           ELSE IF stk = NULL THEN Crash
           ELSE Execute(Append(Collected, Like(SAVED(m + 1 - n), SAVED(m + 2))),
                        [root EXCEPT !.dump1 = New, !.stk = New + 1],
                        [Top EXCEPT !.n = n], SAVED(1))

ifte_begin == Opens("ifte", Nth(stk, 4), Nth(stk, 3), "test")

ifte_test ==
  /\ Runs("ifte", "test")
  /\ IF stk = NULL THEN Crash
     ELSE Execute(heap, [root EXCEPT !.stk = SAVED(4)], At("pop_dump"),
                  IF IntTest # 0 THEN SAVED(2) ELSE SAVED(1))

-----------------------------------------------------------------------------
(* Loops. *)

times_begin ==
  /\ Begins("times")
  /\ Continue(Saved, WithSaved(Nth(stk, 3)), [At("loop") EXCEPT !.n = U(Nth(stk, 2))])

\* for (i = 1; i <= n; i++) exeterm(SAVED1->u.lis), n being what is left.
counted_loop ==
  /\ Runs("times", "loop") \/ Runs("primrec", "loop")
  /\ IF Top.n > 0
     THEN Execute(heap, root, [Top EXCEPT !.n = @ - 1], SAVED(1))
     ELSE Return(heap, DumpPopped(stk))

\* The members of the aggregate v, or the numbers from v down to 1.
Members(v) ==
  CASE v.op = "INT" -> [k \in 1 .. (IF v.u < 0 THEN 0 ELSE v.u) |-> Value("INT", v.u + 1 - k)]
    [] v.op = "LIST" -> [k \in 1 .. LengthIn(heap, v.u) |->
                           Value(Op(Nth(v.u, k)), U(Nth(v.u, k)))]
    [] v.op \in {"STRING", "SET"} -> MemberValues(chars, v)

primrec_begin ==
  /\ Begins("primrec")
  /\ LET x    == heap[Nth(stk, 3)]
         rest == Nth(stk, 4)
     IN  IF x.op \notin Aggregates \cup {"INT"} THEN abortexecution_(Saved, rest)
         ELSE LET m == Pushed(Memory(Saved, chars, NULL), rest, Members(x))
              IN  Execute(m.heap, WithSaved(m.stk), [At("loop") EXCEPT !.n = Len(Members(x))],
                          Nth(stk, 2))

-----------------------------------------------------------------------------
(* Walking along an aggregate.  dump1 is stepped along a list; map, filter *)
(* and split have the head and the last node of each new list on dump2 and *)
(* dump3, dump4 and dump5.                                                 *)

Walkers == {"step", "map", "filter", "split", "some", "all"}
NewLists(c) == CASE c \in {"map", "filter"} -> <<"dump2", "dump3">>
                 [] c = "split" -> <<"dump2", "dump3", "dump4", "dump5">>
                 [] c \in {"step", "some", "all"} -> <<>>

Aggregate == Nth(stk, 2)

\* some and all: the result as long as no test says otherwise.
INITIAL == IF Top.proc = "all" THEN 1 ELSE 0

walker_begin ==
  \E c \in Walkers :
    LET s == IF c = "step" THEN Nth(stk, 3) ELSE stk
        ds == NewLists(c)
        place(d) == CHOOSE k \in DOMAIN ds : ds[k] = d
        h == Saved \o <<Cell("LIST", U(Aggregate), root.dump1)>>
               \o [k \in DOMAIN ds |-> Cell("LIST", NULL, root[ds[k]])]
        r == [d \in Roots |->
                IF d = "dump1" THEN New + 1
                ELSE IF \E k \in DOMAIN ds : ds[k] = d THEN New + 1 + place(d)
                ELSE WithSaved(s)[d]]
        f == [At("loop") EXCEPT !.n = INITIAL]
    IN  /\ Begins(c)
        /\ CASE Op(Aggregate) = "LIST" -> Continue(h, r, f)
             [] Op(Aggregate) \in {"STRING", "SET"} ->
                  Continue(Saved, WithSaved(s), [f EXCEPT !.left = Members(heap[Aggregate])])
             [] Op(Aggregate) \notin Aggregates -> abortexecution_(Saved, s)

DMP1Popped(r) == [r EXCEPT !.dump1 = Next_(root.dump1)]
DMP1Stepped(h) == [h EXCEPT ![root.dump1].u = Next_(DMP1)]

AlongList   == Op(SAVED(2)) = "LIST"
AtEnd       == IF AlongList THEN DMP1 = NULL ELSE Top.left = <<>>
Member      == IF AlongList THEN Value(Op(DMP1), U(DMP1)) ELSE Head(Top.left)
\* some and all are done when a test has said otherwise.
Decided     == Top.proc \in {"some", "all"} /\ Top.n # INITIAL

walker_loop ==
  \E c \in Walkers :
    /\ Runs(c, "loop") /\ ~AtEnd /\ ~Decided
    /\ Execute(Append(heap, Cell(Member.op, Member.u, IF c = "step" THEN stk ELSE SAVED(3))),
               [root EXCEPT !.stk = New], At("result"), SAVED(1))

\* A node of value v at the end of the new list of dump d, whose last node
\* dump l knows.
Appended(d, l, v) ==
  LET h == Append(heap, Cell(v.op, v.u, NULL))
      linked == IF U(root[d]) = NULL THEN [h EXCEPT ![root[d]].u = New]
                ELSE [h EXCEPT ![U(root[l])].next = New]
  IN  [linked EXCEPT ![root[l]].u = New]

\* What map keeps of the result in a string, a character, and in a set, the
\* number of bits that 1 is shifted; of an address nobody knows it.
Kept_(v) ==
  IF v.op \in Numeric THEN {IF Op(SAVED(2)) = "SET" THEN v.u % SETSIZE ELSE v.u}
  ELSE IF Op(SAVED(2)) = "SET" THEN 0 .. (SETSIZE - 1) ELSE {Unwritten, 0}

\* Mutant: the list is not stepped along.
walker_result_stays ==
  /\ Runs("step", "result")
  /\ Continue(heap, root, At("loop"))

\* After the program has run for a member.
walker_result ==
  \E c \in Walkers :
    LET on == [At("loop") EXCEPT !.left = IF AlongList THEN <<>> ELSE Tail(@)]
        passed == LongTest # 0
        goes(h, f) == Continue(IF AlongList THEN DMP1Stepped(h) ELSE h, root, f)
        keeps(d, l, v) == IF AlongList THEN goes(Appended(d, l, v), on)
                          ELSE IF d = "dump2" THEN goes(heap, [on EXCEPT !.yes = Append(@, v.u)])
                          ELSE goes(heap, [on EXCEPT !.no = Append(@, v.u)])
    IN  /\ Runs(c, "result")
        /\ CASE c = "step" -> goes(heap, on)
             [] c # "step" /\ stk = NULL -> Crash
             [] c = "map" /\ stk # NULL ->
                  IF AlongList THEN keeps("dump2", "dump3", heap[stk])
                  ELSE \E k \in Kept_(heap[stk]) : keeps("dump2", "dump3", Value("INT", k))
             [] c \in {"filter", "split"} /\ stk # NULL ->
                  IF passed THEN keeps("dump2", "dump3", Member)
                  ELSE IF c = "filter" THEN goes(heap, on)
                  ELSE keeps("dump4", "dump5", Member)
             [] c \in {"some", "all"} /\ stk # NULL ->
                  goes(heap, IF LongTest # INITIAL THEN [on EXCEPT !.n = 1 - INITIAL] ELSE on)

DumpsPopped(ds) ==
  LET lists == IF AlongList THEN {"dump1"} \cup {ds[k] : k \in DOMAIN ds} ELSE {}
  IN  [d \in Roots |-> IF d \in {"dump"} \cup lists THEN Next_(root[d]) ELSE root[d]]

\* The aggregate that a walker has put together, of the type it walked along.
\* map ends no string with a 0.
Gathered(m, d, found) ==
  CASE AlongList -> {[mem |-> m, val |-> Value("LIST", U(root[d]))]}
    [] Op(SAVED(2)) = "SET" ->
         {[mem |-> m, val |-> Value("SET", SetOf({found[k] : k \in DOMAIN found}))]}
    [] Op(SAVED(2)) = "STRING" ->
         LET with(n) == [mem |-> n, val |-> Value("STRING", StringAddress(m))]
         IN  {with(WithString(m, found))}
             \cup IF Top.proc = "map" THEN {with([m EXCEPT !.chars = Append(@, found)])} ELSE {}

walker_ends ==
  \E c \in Walkers :
    LET m == Memory(heap, chars, SAVED(3))
        r(s) == [DumpsPopped(NewLists(c)) EXCEPT !.stk = s]
        leaves(n) == /\ chars' = n.chars
                     /\ heap' = n.heap /\ root' = r(n.stk)
                     /\ frames' = Pop
                     /\ UNCHANGED <<image, todo, status, run, given, spoiled>>
    IN  /\ Runs(c, "loop") /\ (AtEnd \/ Decided)
        /\ CASE c = "step" -> Return(heap, r(stk))
             [] c \in {"some", "all"} ->
                  Return(Append(heap, Cell("BOOL", Top.n, SAVED(3))), r(New))
             [] c \in {"map", "filter"} ->
                  \E g \in Gathered(m, "dump2", Top.yes) : leaves(Pushed(g.mem, SAVED(3), <<g.val>>))
             [] c = "split" ->
                  \E g \in Gathered(m, "dump2", Top.yes) : \E g2 \in Gathered(g.mem, "dump4", Top.no) :
                    leaves(Pushed(g2.mem, SAVED(3), <<g.val, g2.val>>))

\* swapd, then step.
fold_begin ==
  /\ Begins("fold")
  /\ Call(heap \o <<Cell("LIST", stk, root.dump), Like(Nth(stk, 2), Nth(stk, 4)),
                    Like(Nth(stk, 3), New + 1), Like(stk, New + 2)>>,
          [root EXCEPT !.stk = New + 3], At("return"), "step")

cond_begin ==
  /\ Begins("cond")
  /\ Continue(Append(Saved, Cell("LIST", U(stk), root.dump1)),
              [WithSaved(stk) EXCEPT !.dump1 = New + 1], At("loop"))

\* The last clause is the default, the others begin with their test.
cond_loop ==
  /\ Runs("cond", "loop")
  /\ LET r == [root EXCEPT !.stk = SAVED(2)]
     IN  CASE Next_(DMP1) = NULL -> Execute(heap, r, At("pop_dumps"), DMP1)
           [] Next_(DMP1) # NULL -> Execute(heap, r, At("test"), Lis(DMP1))

cond_test ==
  /\ Runs("cond", "test")
  /\ CASE stk = NULL -> Crash
       [] stk # NULL /\ IntTest # 0 ->
            ExecuteRest(heap, [root EXCEPT !.stk = SAVED(2)], At("pop_dumps"), Lis(DMP1))
       [] stk # NULL /\ IntTest = 0 -> Continue(DMP1Stepped(heap), root, At("loop"))

cond_ends ==
  /\ Runs("cond", "pop_dumps")
  /\ Return(heap, DMP1Popped(DumpPopped(stk)))

-----------------------------------------------------------------------------
(* construct: the old stack with the results is dump2, dump1 holds the old *)
(* dump2, dump3 the stack that P leaves, dump4 the programs to come.       *)

construct_begin ==
  /\ Begins("construct")
  /\ Execute(Append(Saved, Cell("LIST", root.dump2, root.dump1)),
             [WithSaved(Nth(stk, 3)) EXCEPT !.dump1 = New + 1, !.dump2 = Nth(stk, 3)],
             At("progs"), Nth(stk, 2))

construct_progs ==
  /\ Runs("construct", "progs")
  /\ Continue(heap \o <<Cell("LIST", stk, root.dump3), Like(SAVED(1), root.dump4)>>,
              [root EXCEPT !.dump3 = New, !.dump4 = New + 1], At("loop"))

construct_loop ==
  /\ Runs("construct", "loop") /\ DMP4 # NULL
  /\ Execute(heap, [root EXCEPT !.stk = U(root.dump3)], At("result"), DMP4)

construct_result ==
  /\ Runs("construct", "result")
  /\ IF stk = NULL THEN Crash
     ELSE Continue(Append([heap EXCEPT ![root.dump4].u = Next_(DMP4)], Like(stk, root.dump2)),
                   [root EXCEPT !.dump2 = New], At("loop"))

construct_ends ==
  /\ Runs("construct", "loop") /\ DMP4 = NULL
  /\ Return(heap, [DMP1Popped(DumpPopped(root.dump2)) EXCEPT
                     !.dump2 = DMP1,
                     !.dump3 = Next_(root.dump3), !.dump4 = Next_(root.dump4)])

-----------------------------------------------------------------------------
(* linrec, tailrec, binrec: the programs are SAVED(k), ..., SAVED(1). *)

Aux == [linrec |-> "linrecaux", tailrec |-> "tailrecaux", binrec |-> "binrecaux"]
Rank(p) == IF p = "tailrecaux" THEN 3 ELSE 4

rec_begin ==
  \E c \in DOMAIN Aux :
    /\ Begins(c)
    /\ Call(Saved, WithSaved(Nth(stk, Params(c) + 1)), At("pop_dump"), Aux[c])

\* dump1 = LIST_NEWNODE(stk,dump1), and the test.
aux_begin ==
  \E p \in {"linrecaux", "tailrecaux", "binrecaux"} :
    /\ Runs(p, "begin")
    /\ Execute(Append(heap, Cell("LIST", stk, root.dump1)), [root EXCEPT !.dump1 = New],
               At("test"), SAVED(Rank(p)))

\* Mutant: the stack that the test left is not replaced by the saved one.
aux_test_consumes ==
  \E p \in {"linrecaux", "tailrecaux", "binrecaux"} :
    /\ Runs(p, "test")
    /\ IF stk = NULL THEN Crash
       ELSE LET r == DMP1Popped(root)
            IN  IF IntTest # 0
                THEN Execute(heap, r, At("return"), SAVED(Rank(p) - 1))
                ELSE Execute(heap, r, At("recurse"), SAVED(Rank(p) - 2))

aux_test ==
  \E p \in {"linrecaux", "tailrecaux", "binrecaux"} :
    /\ Runs(p, "test")
    /\ IF stk = NULL THEN Crash
       ELSE LET r == DMP1Popped([root EXCEPT !.stk = DMP1])
            IN  IF IntTest # 0
                THEN Execute(heap, r, At("return"), SAVED(Rank(p) - 1))
                ELSE Execute(heap, r, At("recurse"), SAVED(Rank(p) - 2))

linrecaux_recurses ==
  /\ Runs("linrecaux", "recurse")
  /\ Call(heap, root, At("combine"), "linrecaux")

\* goto tailrec
tailrecaux_recurses ==
  /\ Runs("tailrecaux", "recurse")
  /\ Continue(heap, root, At("begin"))

\* The second of the values that the split leaves waits on dump2.
binrecaux_recurses ==
  /\ Runs("binrecaux", "recurse")
  /\ IF stk = NULL THEN Crash
     ELSE Call(Append(heap, Like(stk, root.dump2)),
               [root EXCEPT !.dump2 = New, !.stk = Next_(stk)], At("first"), "binrecaux")

binrecaux_first ==
  /\ Runs("binrecaux", "first")
  /\ Call(Append(heap, Like(root.dump2, stk)),
          [root EXCEPT !.dump2 = Next_(root.dump2), !.stk = New], At("combine"), "binrecaux")

aux_combines ==
  /\ Runs("linrecaux", "combine") \/ Runs("binrecaux", "combine")
  /\ Execute(heap, root, At("return"), SAVED(1))

-----------------------------------------------------------------------------
(* condlinrec, condnestrec: dump1 is stepped along the clauses, dump2 has  *)
(* the stack, dump3 the programs of the clause that condnestrec takes.     *)

CondAux == [condlinrec |-> "condlinrecaux", condnestrec |-> "condnestrecaux"]
CondAuxes == {CondAux[c] : c \in DOMAIN CondAux}

condrec_begin ==
  \E c \in DOMAIN CondAux :
    /\ Begins(c)
    /\ Call(Saved, WithSaved(Next_(stk)), At("pop_dump"), CondAux[c])

condaux_begin ==
  \E p \in CondAuxes :
    /\ Runs(p, "begin")
    /\ Continue(heap \o <<Cell("LIST", U(SAVED(1)), root.dump1), Cell("LIST", stk, root.dump2)>>,
                [root EXCEPT !.dump1 = New, !.dump2 = New + 1], At("loop"))

\* The programs of the clause: a test comes before them, but in the default.
\* n tells whether the clause's test has said yes.
Clause(n) == IF n = 1 /\ Lis(DMP1) # NULL THEN Next_(Lis(DMP1)) ELSE Lis(DMP1)

Takes(n) ==
  LET f == [At("first") EXCEPT !.n = n]
      r == [root EXCEPT !.stk = DMP2]
  IN  IF Top.proc = "condlinrecaux" THEN Execute(heap, r, f, Clause(n))
      ELSE Execute(Append(heap, Cell("LIST", Clause(n), root.dump3)), [r EXCEPT !.dump3 = New],
                   f, Clause(n))

condaux_loop ==
  \E p \in CondAuxes :
    /\ Runs(p, "loop")
    /\ IF Next_(DMP1) = NULL THEN Takes(0)
       ELSE Execute(heap, [root EXCEPT !.stk = DMP2], At("test"), Lis(DMP1))

condaux_test ==
  \E p \in CondAuxes :
    /\ Runs(p, "test")
    /\ IF stk = NULL THEN Crash
       ELSE IF IntTest # 0 THEN Takes(1) ELSE Continue(DMP1Stepped(heap), root, At("loop"))

CondDumpsPopped == [DMP1Popped(root) EXCEPT !.dump2 = Next_(root.dump2)]

\* A clause of one program is done, one of two recurses between them.
condlinrecaux_first ==
  /\ Runs("condlinrecaux", "first")
  /\ IF Next_(Clause(Top.n)) = NULL THEN Return(heap, CondDumpsPopped)
     ELSE Call(heap, root, At("second"), "condlinrecaux")

condlinrecaux_second ==
  /\ Runs("condlinrecaux", "second")
  /\ Execute(heap, root, At("ends"), Next_(Clause(Top.n)))

condlinrecaux_ends ==
  /\ Runs("condlinrecaux", "ends")
  /\ Return(heap, CondDumpsPopped)

condnestrecaux_first ==
  /\ Runs("condnestrecaux", "first")
  /\ LET h == [heap EXCEPT ![root.dump3].u = Next_(DMP3)]
     IN  IF Next_(DMP3) = NULL THEN Return(h, [CondDumpsPopped EXCEPT !.dump3 = Next_(root.dump3)])
         ELSE Call(h, root, At("again"), "condnestrecaux")

condnestrecaux_again ==
  /\ Runs("condnestrecaux", "again")
  /\ Execute(heap, root, At("first"), DMP3)

-----------------------------------------------------------------------------
(* Trees. *)

treestep_begin ==
  /\ Begins("treestep")
  /\ CallOn(Saved, WithSaved(Nth(stk, 3)), At("pop_dump"), "treestepaux", Nth(stk, 2))

treestepaux_begin ==
  /\ Runs("treestepaux", "begin")
  /\ LET item == Top.n
     IN  IF Op(item) # "LIST"
         THEN Execute(Append(heap, Like(item, stk)), [root EXCEPT !.stk = New], At("return"), SAVED(1))
         ELSE Continue(Append(heap, Cell("LIST", U(item), root.dump1)),
                       [root EXCEPT !.dump1 = New], At("loop"))

treestepaux_loop ==
  /\ Runs("treestepaux", "loop")
  /\ IF DMP1 = NULL THEN Return(heap, DMP1Popped(root))
     ELSE CallOn(heap, root, At("next"), "treestepaux", DMP1)

treestepaux_next ==
  /\ Runs("treestepaux", "next")
  /\ Continue(DMP1Stepped(heap), root, At("loop"))

-----------------------------------------------------------------------------
(* Recursion by a node that stands for a procedure: the list [progs] with  *)
(* an ANON_FUNCT_ node behind it is a program that starts over.            *)

Gen == [treerec |-> [conses |-> 1, aux |-> "treerecaux"],
        treegenrec |-> [conses |-> 2, aux |-> "treegenrecaux"],
        genrec |-> [conses |-> 3, aux |-> "genrecaux"]]

Consed(k) ==
  LET cons(m) == Operate("cons", m)
      conses[i \in 0 .. k] == IF i = 0 THEN {Memory(heap, chars, stk)} ELSE Followed(conses[i - 1], cons)
  IN  conses[k]

\* The programs become one list.
gen_begin ==
  \E c \in DOMAIN Gen :
    /\ Begins(c)
    /\ \E m \in Consed(Gen[c].conses) :
         IF m.is = "error" THEN aborts(m)
         ELSE /\ heap' = m.heap /\ chars' = m.chars
              /\ root' = [root EXCEPT !.stk = m.stk]
              /\ frames' = Pop \o <<At("return"), Activation(Gen[c].aux, root)>>
              /\ UNCHANGED <<image, todo, status, run, given, spoiled>>

\* The memory with [progs p] in place of the list of programs on top.
Knots(m, p) ==
  LET cons(n) == Operate("cons", n)
  IN  Followed(LeavesList(m, 0, <<Value(p, 0)>>, NULL), cons)

treerecaux_begin ==
  /\ Runs("treerecaux", "begin")
  /\ IF Nth(stk, 2) = NULL THEN Crash
     ELSE IF Op(Next_(stk)) # "LIST"
     THEN Execute(heap, [root EXCEPT !.stk = Next_(stk)], At("return"), Lis(stk))
     ELSE \E m \in Knots(Memory(heap, chars, stk), "treerecaux") :
            ExecuteRest(m.heap, [root EXCEPT !.stk = m.stk], At("return"), Lis(stk))

genrecaux_begin ==
  /\ Runs("genrecaux", "begin")
  /\ IF stk = NULL THEN Crash
     ELSE Execute(Saved, WithSaved(Next_(stk)), At("test"), Lis(stk))

\* The k-th program on the list of genrec.
GenProgram(k) == Nth(Lis(SAVED(1)), k)

genrecaux_test ==
  /\ Runs("genrecaux", "test")
  /\ LET r == [root EXCEPT !.stk = SAVED(2)]
     IN  IF stk = NULL THEN Crash
         ELSE IF IntTest # 0 THEN Execute(heap, r, At("pop_dump"), GenProgram(2))
         ELSE Execute(heap, r, At("recurse"), GenProgram(3))

genrecaux_recurses ==
  /\ Runs("genrecaux", "recurse")
  /\ \E m \in Knots(Pushed(Memory(heap, chars, stk), stk, <<Value("LIST", Lis(SAVED(1)))>>),
                     "genrecaux") :
       ExecuteRest(m.heap, [root EXCEPT !.stk = m.stk], At("pop_dump"), GenProgram(3))

treegenrecaux_begin ==
  /\ Runs("treegenrecaux", "begin")
  /\ IF Nth(stk, 2) = NULL THEN Crash
     ELSE IF Op(Next_(stk)) # "LIST"
     THEN Execute(heap, [root EXCEPT !.stk = Next_(stk)], At("return"), Lis(stk))
     ELSE Execute(Saved, WithSaved(Next_(stk)), At("recurse"), Nth(Lis(stk), 2))

treegenrecaux_recurses ==
  /\ Runs("treegenrecaux", "recurse")
  /\ LET saved == SAVED(1)
     IN  \E m \in Knots(Pushed(Memory(heap, chars, stk), stk, <<Value(Op(saved), U(saved))>>),
                        "treegenrecaux") :
           ExecuteRest(m.heap, DumpPopped(m.stk), At("return"), Nth(Lis(saved), 2))

-----------------------------------------------------------------------------

execute ==
  \/ exeterm_constant \/ exeterm_undefined \/ exeterm_user \/ exeterm_tail
  \/ exeterm_combinator \/ exeterm_file \/ exeterm_ends \/ operates \/ body_

combine ==
  \/ combinator_error \/ returns \/ pops_dump
  \/ x_begin \/ i_begin \/ app1_begin \/ branch_begin \/ iftype_begin \/ case_begin
  \/ dip_begin \/ dip_restores \/ nary_begin \/ nary_result \/ infra_begin \/ infra_result
  \/ app1x_begin \/ app1x_unlink
  \/ while_begin \/ while_test \/ while_do \/ while_again
  \/ cleave_begin \/ cleave_first \/ cleave_last \/ unaryn_begin \/ unaryn_value
  \/ ifte_begin \/ ifte_test
  \/ times_begin \/ counted_loop \/ primrec_begin
  \/ walker_begin \/ walker_loop \/ walker_result \/ walker_ends \/ fold_begin
  \/ cond_begin \/ cond_loop \/ cond_test \/ cond_ends
  \/ construct_begin \/ construct_progs \/ construct_loop \/ construct_result \/ construct_ends
  \/ rec_begin \/ aux_begin \/ aux_test \/ linrecaux_recurses \/ tailrecaux_recurses
  \/ binrecaux_recurses \/ binrecaux_first \/ aux_combines
  \/ condrec_begin \/ condaux_begin \/ condaux_loop \/ condaux_test
  \/ condlinrecaux_first \/ condlinrecaux_second \/ condlinrecaux_ends
  \/ condnestrecaux_first \/ condnestrecaux_again
  \/ treestep_begin \/ treestepaux_begin \/ treestepaux_loop \/ treestepaux_next
  \/ gen_begin \/ treerecaux_begin \/ genrecaux_begin \/ genrecaux_test \/ genrecaux_recurses
  \/ treegenrecaux_begin \/ treegenrecaux_recurses

\* Nothing is left to do, or the bound is met.
Stopped == status = "crashed" \/ (status \in {"put", "error"} /\ todo = <<>>)

finished ==
  /\ Stopped \/ Len(heap) >= MaxCells
  /\ UNCHANGED vars

Next == main_program \/ main_autoput \/ execute \/ combine \/ finished

Spec     == Init /\ [][Next]_vars
\* One thread, which the operating system goes on running.
FairSpec == Spec /\ WF_vars(Next)

-----------------------------------------------------------------------------
(* Properties. *)

\* Pointers lead to nodes, and every activation of the evaluator belongs to a
\* running program.
TypeOK ==
  /\ heap \in Seq(Node)
  /\ \A q \in 1 .. Len(heap) :
       /\ Next_(q) \in Pointers
       /\ Op(q) = "LIST" => U(q) \in Pointers
       /\ Op(q) = "BOOL" => U(q) \in {0, 1}
  /\ chars \in Seq(Seq(Int))
  /\ root \in [Roots -> Pointers]
  /\ \A k \in 1 .. Len(frames) : frames[k].proc \in Procedures
  /\ status \in {"start", "running", "ended", "put", "error", "crashed"}
  /\ (frames # <<>>) = (status = "running" \/ status = "crashed")
  /\ run \in Pointers
  /\ spoiled \in BOOLEAN

\* What main checks with "the dumps are not empty" after every program, and
\* what longjmp leaves it.
DumpsEmpty ==
  frames = <<>> => \A d \in Kept : root[d] = NULL

\* A procedure returns with conts and the dumps as it found them.
DumpsRestored ==
  [][ status = "running" /\ status' # "error" /\ Len(frames') < Len(frames)
        => \A d \in Kept : root'[d] = Top.saved[d] ]_vars

\* A program whose loops and recursions come to an end gives the prompt back.
ProgramsEnd == status = "running" ~> status # "running"

=============================================================================
