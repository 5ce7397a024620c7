----------------------------- MODULE JoyOperators -----------------------------
(***************************************************************************)
(* The operators of Joy (src/NetRexx/languages/netjoy/interp.c): what each *)
(* asks of the stack, the nodes it makes and the nodes it writes to.  An   *)
(* operator maps a memory, which holds the nodes, the characters and the   *)
(* stack, to the set of its outcomes: more than one where the code reads   *)
(* what nobody has written.                                                *)
(*                                                                         *)
(* The field u of a node is C's union: a number, a truth value, the code   *)
(* of a character, the halves of a float, the bits of a set, the address   *)
(* of a list or of characters; 0 is NULL.                                  *)
(***************************************************************************)
EXTENDS Integers, Sequences, FiniteSets

CONSTANTS
  SETSIZE,   \* bits of C's int, which are the members a set can have
  Stride     \* addresses from the start of a string to that of the next one

ASSUME OperatorAssumption == SETSIZE \in Nat \ {0} /\ Stride \in Nat \ {0}

NULL == 0

Constants == {"INT", "BOOL", "CHAR", "FLOAT", "SET", "STRING", "LIST"}

Cell(o, u, n) == [op |-> o, u |-> u, next |-> n]

\* The k-th node of the list at p in the nodes h, NULL if there is none.
NthIn(h, p, k) ==
  LET from[q \in 0 .. Len(h), j \in 1 .. k] ==
        IF q = NULL \/ j = 1 THEN q ELSE from[h[q].next, j - 1]
  IN  from[p, k]

LengthIn(h, p) ==
  LET length[q \in 0 .. Len(h)] == IF q = NULL THEN 0 ELSE 1 + length[h[q].next]
  IN  length[p]

(***************************************************************************)
(* Characters.  chars is a row of strings that malloc gave room, each with *)
(* its terminating 0.  Behind them is what nobody wrote: Unwritten stands  *)
(* for it.                                                                 *)
(***************************************************************************)
Unwritten == -1

StringAt(chars, u) ==
  LET block == chars[u \div Stride]
      at    == (u % Stride) + 1
      ends  == {k \in at .. Len(block) : block[k] = 0}
      end   == CHOOSE k \in ends : \A j \in ends : k <= j
  IN  IF ends = {} THEN <<Unwritten>> ELSE SubSeq(block, at, end - 1)

\* opername(FLOAT_), in characters.
FloatName == <<32, 102, 108, 111, 97, 116, 32, 116, 121, 112, 101>>

\* GETSTRING, where the name is one that a string of a program may spell.
Spelled(v)     == v.op \in {"STRING", "FLOAT"}
GETSTRING(m, v) == IF v.op = "STRING" THEN StringAt(m.chars, v.u) ELSE FloatName

(***************************************************************************)
(* Sets, in the bits of an int that is extended with its sign: 1 << i has  *)
(* the sign bit for the last member.                                       *)
(***************************************************************************)
Power(i) == 2 ^ i
Bit(set, i) == ((set + 2 * Power(SETSIZE)) \div Power(i)) % 2 = 1
MembersOf(set) == {i \in 0 .. (SETSIZE - 1) : Bit(set, i)}
SetOf(S) ==
  LET sum[i \in 0 .. SETSIZE] ==
        IF i = 0 THEN 0
        ELSE sum[i - 1] + (IF i - 1 \notin S THEN 0
                           ELSE IF i = SETSIZE THEN -Power(i - 1) ELSE Power(i - 1))
  IN  sum[SETSIZE]

\* 1 << i: the processor takes the lowest bits of i.
Shifted(i) == SetOf({i % SETSIZE})
Lowest(set) == CHOOSE i \in MembersOf(set) : \A j \in MembersOf(set) : i <= j

\* The values that a string or a set has as members, in their order.
MemberValues(chars, v) ==
  IF v.op = "STRING" THEN LET s == StringAt(chars, v.u) IN [k \in 1 .. Len(s) |-> [op |-> "CHAR", u |-> s[k]]]
  ELSE LET S == MembersOf(v.u)
       IN  [k \in 1 .. Cardinality(S) |->
              [op |-> "INT", u |-> CHOOSE i \in S : Cardinality({j \in S : j < i}) = k - 1]]

-----------------------------------------------------------------------------
(* Memories and outcomes. *)

Memory(h, c, s) == [is |-> "ok", heap |-> h, chars |-> c, stk |-> s]
Error(m)        == {[m EXCEPT !.is = "error"]}
Crashes(m)      == {[m EXCEPT !.is = "crash"]}
Followed(outcomes, F(_)) ==
  UNION {IF m.is = "ok" THEN F(m) ELSE {m} : m \in outcomes}

Param(m, k)  == NthIn(m.heap, m.stk, k)
Arg(m, k)    == m.heap[Param(m, k)]
Under(m, k)  == Param(m, k + 1)
Value(o, u)  == [op |-> o, u |-> u]
Bool(b)      == Value("BOOL", IF b THEN 1 ELSE 0)

\* stk = newnode(v1, below), stk = newnode(v2, stk), ...
Pushed(m, below, vals) ==
  LET n == Len(m.heap)
  IN  [m EXCEPT !.heap = @ \o [k \in DOMAIN vals |->
                                 Cell(vals[k].op, vals[k].u, IF k = 1 THEN below ELSE n + k - 1)],
                !.stk = IF vals = <<>> THEN below ELSE n + Len(vals)]

\* NULLARY, UNARY, BINARY: the stack is left with one value for its k topmost.
Leaves(m, k, v)     == {Pushed(m, Under(m, k), <<v>>)}
LeavesTwo(m, k, v, w) == {Pushed(m, Under(m, k), <<v, w>>)}

\* A list of the values in front of the list at tail, made node after node.
WithList(m, vals, tail) ==
  LET n == Len(m.heap)
  IN  [m EXCEPT !.heap = @ \o [k \in DOMAIN vals |->
                                 Cell(vals[k].op, vals[k].u, IF k = Len(vals) THEN tail ELSE n + k + 1)]]
ListAddress(m, vals, tail) == IF vals = <<>> THEN tail ELSE Len(m.heap) + 1

\* A string that malloc gives room; the characters have a 0 at the end.
WithString(m, s) == [m EXCEPT !.chars = Append(@, s \o <<0>>)]
StringAddress(m) == (Len(m.chars) + 1) * Stride

LeavesList(m, k, vals, tail) ==
  Leaves(WithList(m, vals, tail), k, Value("LIST", ListAddress(m, vals, tail)))
LeavesString(m, k, s) == Leaves(WithString(m, s), k, Value("STRING", StringAddress(m)))

\* The first n nodes of the list at p, without their addresses.
Prefix(m, p, n) ==
  [k \in 1 .. n |-> LET q == NthIn(m.heap, p, k) IN Value(m.heap[q].op, m.heap[q].u)]

-----------------------------------------------------------------------------
(* Moving values about: what is popped and what is pushed, by position. *)

Shuffles ==
  [id |-> [asks |-> 0, pops |-> 0, pushes |-> <<>>],
   pop |-> [asks |-> 1, pops |-> 1, pushes |-> <<>>],
   dup |-> [asks |-> 1, pops |-> 0, pushes |-> <<1>>],
   swap |-> [asks |-> 2, pops |-> 2, pushes |-> <<1, 2>>],
   rollup |-> [asks |-> 3, pops |-> 3, pushes |-> <<1, 3, 2>>],
   rolldown |-> [asks |-> 3, pops |-> 3, pushes |-> <<2, 1, 3>>],
   rotate |-> [asks |-> 3, pops |-> 3, pushes |-> <<1, 2, 3>>],
   popd |-> [asks |-> 2, pops |-> 2, pushes |-> <<1>>],
   dupd |-> [asks |-> 2, pops |-> 1, pushes |-> <<2, 1>>],
   swapd |-> [asks |-> 3, pops |-> 3, pushes |-> <<2, 3, 1>>],
   rolldownd |-> [asks |-> 4, pops |-> 4, pushes |-> <<3, 2, 4, 1>>],
   rollupd |-> [asks |-> 4, pops |-> 4, pushes |-> <<2, 4, 3, 1>>],
   rotated |-> [asks |-> 4, pops |-> 4, pushes |-> <<2, 3, 4, 1>>]]

Shuffled(o, m) ==
  LET s == Shuffles[o]
  IN  {Pushed(m, Under(m, s.pops),
              [k \in DOMAIN s.pushes |-> Value(Arg(m, s.pushes[k]).op, Arg(m, s.pushes[k]).u)])}

-----------------------------------------------------------------------------
(* Numbers.  y is the value on top, x the one under it. *)

Numeric   == {"INT", "CHAR", "BOOL"}
Floatable == {"INT", "FLOAT"}
FLOATABLE2(x, y) == {x.op, y.op} \subseteq Floatable /\ "FLOAT" \in {x.op, y.op}
\* A product or a quotient that is no number of halves is cut to one.
FLOATVAL(v)      == IF v.op = "FLOAT" THEN v.u ELSE 2 * v.u

NaN            == 100001
Absolute(i)    == IF i < 0 THEN -i ELSE i
SignOf(i)      == IF i < 0 THEN -1 ELSE IF i > 0 THEN 1 ELSE 0
Quotient(i, j) == SignOf(i) * SignOf(j) * (Absolute(i) \div Absolute(j))
Remainder(i, j) == i - j * Quotient(i, j)

Unary == {"abs", "sign", "neg", "ord", "chr", "pred", "succ", "trunc", "floor", "ceil"}

UnaryNumber(o, m) ==
  LET y == Arg(m, 1)
      float == y.op = "FLOAT"
      accepts == CASE o \in {"ord", "chr", "pred", "succ"} -> Numeric
                   [] o \notin {"ord", "chr", "pred", "succ"} -> Floatable
      type == CASE o \in {"ord", "trunc"} -> "INT"
                [] o = "chr" -> "CHAR"
                [] o \in {"floor", "ceil"} -> "FLOAT"
                [] o \in {"pred", "succ"} -> IF y.op = "CHAR" THEN "CHAR" ELSE "INT"
                [] o \in {"abs", "sign", "neg"} -> y.op
      number == CASE o \in {"ord", "chr"} -> y.u
                  [] o = "pred" -> y.u - 1
                  [] o = "succ" -> y.u + 1
                  [] o = "abs" -> Absolute(y.u)
                  [] o = "sign" -> IF float THEN 2 * SignOf(y.u) ELSE SignOf(y.u)
                  [] o = "neg" -> -y.u
                  [] o = "trunc" -> Quotient(FLOATVAL(y), 2)
                  [] o = "floor" -> 2 * (FLOATVAL(y) \div 2)
                  [] o = "ceil" -> -2 * ((-FLOATVAL(y)) \div 2)
  IN  IF y.op \notin accepts THEN Error(m)
      ELSE IF o \in {"abs", "sign"} /\ y.op = "INT" /\ number = y.u THEN {m}
      ELSE Leaves(m, 1, Value(type, number))

Binary == {"+", "-", "*", "/", "rem", "div", "max", "min"}

BinaryNumber(o, m) ==
  LET x == Arg(m, 2)
      y == Arg(m, 1)
      a == FLOATVAL(x)
      b == FLOATVAL(y)
      float(v) == Leaves(m, 2, Value("FLOAT", v))
      ints == x.op = "INT" /\ y.op = "INT"
      int(v) == Leaves(m, 2, Value("INT", v))
      both == FLOATABLE2(x, y)
      first == CASE o = "max" -> IF y.u < x.u THEN x.u ELSE y.u
                 [] o = "min" -> IF y.u > x.u THEN x.u ELSE y.u
                 [] o = "+" -> x.u + y.u
                 [] o = "-" -> x.u - y.u
      zero == y.u = 0
  IN  CASE o \in {"+", "-"} ->
             IF both THEN float(IF o = "+" THEN a + b ELSE a - b)
             ELSE IF y.op # "INT" \/ x.op \notin {"INT", "CHAR"} THEN Error(m)
             ELSE Leaves(m, 2, Value(x.op, first))
        [] o = "*" -> IF both THEN float((a * b) \div 2) ELSE IF ints THEN int(x.u * y.u) ELSE Error(m)
        [] o = "/" -> IF y.op \in Floatable /\ zero THEN Error(m)
                      ELSE IF both THEN float(Quotient(2 * a, b))
                      ELSE IF ints THEN int(Quotient(x.u, y.u)) ELSE Error(m)
        [] o = "rem" -> IF both THEN float(IF zero THEN NaN ELSE Remainder(a, b))
                        ELSE IF ints /\ ~zero THEN int(Remainder(x.u, y.u)) ELSE Error(m)
        [] o = "div" -> IF ints /\ ~zero
                          THEN LeavesTwo(m, 2, Value("INT", Quotient(x.u, y.u)), Value("INT", Remainder(x.u, y.u)))
                        ELSE Error(m)
        [] o \in {"max", "min"} ->
             IF both THEN float(CASE o = "max" -> IF b < a THEN a ELSE b
                                  [] o = "min" -> IF b > a THEN a ELSE b)
             ELSE IF x.op # y.op \/ y.op \notin Numeric THEN Error(m)
             ELSE Leaves(m, 2, Value(IF y.op = "CHAR" THEN "CHAR" ELSE "INT", first))

-----------------------------------------------------------------------------
(* Truth values and sets. *)

AndOrXor(o, m) ==
  LET x == Arg(m, 2)
      y == Arg(m, 1)
      both(p, q) == CASE o = "and" -> p /\ q [] o = "or" -> p \/ q [] o = "xor" -> p # q
      kept == {i \in 0 .. (SETSIZE - 1) : both(Bit(x.u, i), Bit(y.u, i))}
  IN  CASE x.op # y.op -> Error(m)
        [] x.op = y.op /\ x.op = "SET" -> Leaves(m, 2, Value("SET", SetOf(kept)))
        [] x.op = y.op /\ x.op \in Numeric \cup {"LIST"} ->
             \* != in C's xor is of the numbers, not of what they stand for
             Leaves(m, 2, Bool(IF o = "xor" THEN x.u # y.u ELSE both(x.u # 0, y.u # 0)))
        [] x.op = y.op /\ x.op \notin Numeric \cup {"LIST", "SET"} -> Error(m)

not_(m) ==
  LET y == Arg(m, 1)
  IN  CASE y.op = "SET" -> Leaves(m, 1, Value("SET", SetOf((0 .. (SETSIZE - 1)) \ MembersOf(y.u))))
        [] y.op = "STRING" -> Leaves(m, 1, Bool(StringAt(m.chars, y.u) # <<>>))
        [] y.op \in Numeric \cup {"LIST"} -> Leaves(m, 1, Bool(y.u = 0))
        [] y.op \notin Numeric \cup {"LIST", "SET", "STRING"} -> Error(m)

\* u.num of a node that holds no number is an address, or a double's bits.
Far    == 100000
Raw(v) == IF v.op \in Numeric \cup {"SET"} THEN v.u ELSE v.u * Far

-----------------------------------------------------------------------------
(* Comparisons. *)

OrderOf(s, t) ==
  LET differ == {k \in 1 .. Len(s) : k > Len(t) \/ s[k] # t[k]}
      k == CHOOSE i \in differ : \A j \in differ : i <= j
  IN  IF differ = {} THEN (IF Len(s) < Len(t) THEN -1 ELSE 0)
      ELSE IF k > Len(t) THEN 1 ELSE SignOf(s[k] - t[k])

\* What strcmp may give for two nodes: C promises the sign only.  The names of
\* operators and definitions differ from each other and from every string here.
strcmp(m, x, y) ==
  LET s == GETSTRING(m, x)
      t == GETSTRING(m, y)
      unwritten == \E k \in DOMAIN (s \o t) : (s \o t)[k] = Unwritten
  IN  IF Spelled(x) /\ Spelled(y) THEN IF unwritten THEN -2 .. 2 ELSE {OrderOf(s, t), 2 * OrderOf(s, t)}
      ELSE IF x.op = y.op /\ (x.op = "USR" => x.u = y.u) THEN {0} ELSE {-2, -1, 1, 2}

\* SET: the index after the first difference, with the sign of that bit of y.
\* Nobody knows the bits of an address or a double.
SetDifference(x, y) ==
  LET differ == {i \in 0 .. (SETSIZE - 1) : Bit(x.u, i) # Bit(y.u, i)}
      first == CHOOSE i \in differ : \A j \in differ : i <= j
  IN  IF x.op \notin Numeric \cup {"SET"} /\ x.u # 0 THEN -SETSIZE .. SETSIZE
      ELSE IF differ = {} THEN {0}
      ELSE {IF Bit(y.u, (first + 1) % SETSIZE) THEN first + 1 ELSE -(first + 1)}

Relation(o, d) ==
  CASE o = "=" -> d = 0 [] o = "!=" -> d # 0 [] o = "<" -> d < 0
    [] o = "<=" -> d <= 0 [] o = ">" -> d > 0 [] o = ">=" -> d >= 0

Comparisons == {"=", "!=", "<", "<=", ">", ">=", "compare"}

\* COMPREL.  Differences are counted in halves.
Compares(o, m) ==
  LET x == Arg(m, 2)
      y == Arg(m, 1)
      comp(d) == IF o = "compare" THEN Value("INT", Quotient(d, 2)) ELSE Bool(Relation(o, d))
      result(d) == Leaves(m, 2, comp(d))
      other == y.op \notin Numeric \cup {"FLOAT", "SET", "LIST"}
  IN  CASE y.op \in Numeric \cup {"FLOAT"} /\ FLOATABLE2(x, y) -> result(FLOATVAL(x) - FLOATVAL(y))
        [] y.op \in Numeric /\ ~FLOATABLE2(x, y) -> result(2 * (Raw(x) - Raw(y)))
        [] y.op = "FLOAT" /\ ~FLOATABLE2(x, y) ->
             Leaves(m, 2, IF o = "compare" THEN Value("INT", 0) ELSE Bool(FALSE))
        [] y.op = "SET" -> UNION {result(2 * d) : d \in SetDifference(x, y)}
        [] y.op = "LIST" \/ (other /\ x.op = "LIST") -> Error(m)
        [] other /\ x.op # "LIST" -> UNION {result(2 * d) : d \in strcmp(m, x, y)}

\* equal_aux of the values of two nodes.
Equal(m, p, q) ==
  LET same[n \in 0 .. Len(m.heap), p1 \in 0 .. Len(m.heap), q1 \in 0 .. Len(m.heap)] ==
        \* the values of p1 and q1, and then n that follow them
        IF p1 = NULL \/ q1 = NULL THEN p1 = q1
        ELSE LET v == m.heap[p1]
                 w == m.heap[q1]
             IN  /\ CASE v.op \in Numeric -> w.op \in Numeric /\ v.u = w.u
                      [] v.op = "SET"  -> w.op = "SET" /\ v.u = w.u
                      [] v.op = "LIST" -> w.op = "LIST" /\ same[Len(m.heap), v.u, w.u]
                      [] v.op \notin Numeric \cup {"SET", "LIST"} -> 0 \in strcmp(m, v, w)
                 /\ n > 0 => same[n - 1, v.next, w.next]
  IN  same[0, p, q]

-----------------------------------------------------------------------------
(* Aggregates: lists, strings and sets. *)

Aggregates == {"LIST", "STRING", "SET"}

\* v of an aggregate with members: the first one, and the rest.
Empty(m, v) == IF v.op = "STRING" THEN StringAt(m.chars, v.u) = <<>> ELSE v.u = 0
FirstOf(m, v) ==
  CASE v.op = "LIST"   -> Value(m.heap[v.u].op, m.heap[v.u].u)
    [] v.op = "STRING" -> Value("CHAR", StringAt(m.chars, v.u)[1])
    [] v.op = "SET"    -> Value("INT", Lowest(v.u))
RestOf(m, v) ==
  CASE v.op = "LIST"   -> Value("LIST", m.heap[v.u].next)
    [] v.op = "STRING" -> Value("STRING", v.u + 1)
    [] v.op = "SET"    -> Value("SET", SetOf(MembersOf(v.u) \ {Lowest(v.u)}))

Taking == {"first", "rest", "uncons", "unswons"}
TakesApart(o, m) ==
  LET y == Arg(m, 1)
      f == FirstOf(m, y)
      r == RestOf(m, y)
  IN  IF y.op \notin Aggregates \/ Empty(m, y) THEN Error(m)
      ELSE CASE o = "first" -> Leaves(m, 1, f)
             [] o = "rest" -> Leaves(m, 1, r)
             [] o = "uncons" -> LeavesTwo(m, 1, f, r)
             [] o = "unswons" -> LeavesTwo(m, 1, r, f)

\* CONS_SWONS.
Conses(m, aggr, elem) ==
  CASE aggr.op = "LIST" -> LeavesList(m, 2, <<Value(elem.op, elem.u)>>, aggr.u)
    [] aggr.op = "SET" ->
         IF elem.op \notin {"INT", "CHAR"} \/ elem.u >= SETSIZE THEN Error(m)
         ELSE Leaves(m, 2, Value("SET", SetOf(MembersOf(aggr.u) \cup MembersOf(Shifted(elem.u)))))
    [] aggr.op = "STRING" ->
         IF elem.op # "CHAR" THEN Error(m)
         ELSE LeavesString(m, 2, <<elem.u>> \o StringAt(m.chars, aggr.u))
    [] aggr.op \notin Aggregates -> Error(m)

\* INHAS.  An address or a double shifts the 1 nobody knows how far.
Finds(m, aggr, elem) ==
  LET s == StringAt(m.chars, aggr.u)
      leaves(b) == Leaves(m, 2, Bool(b))
      n == LengthIn(m.heap, aggr.u)
  IN  CASE aggr.op = "SET" ->
             IF elem.op \notin Numeric THEN leaves(TRUE) \cup leaves(FALSE)
             ELSE \* (set & 1 << u) > 0
                  leaves(elem.u % SETSIZE \in MembersOf(aggr.u) \ {SETSIZE - 1})
        [] aggr.op = "STRING" -> leaves(\E k \in DOMAIN s : s[k] = Raw(elem))
        [] aggr.op = "LIST" ->
             leaves(\E k \in 1 .. n : Raw(m.heap[NthIn(m.heap, aggr.u, k)]) = Raw(elem))
        [] aggr.op \notin Aggregates -> Error(m)

\* OF_AT.  The index of the terminating 0 is not too large.
Indexes(m, aggr, index) ==
  LET i == index.u
      s == StringAt(m.chars, aggr.u)
      q == NthIn(m.heap, aggr.u, i + 1)
      S == MemberValues(m.chars, aggr)
  IN  IF index.op # "INT" \/ i < 0 \/ aggr.op \notin Aggregates THEN Error(m)
      ELSE CASE aggr.op = "SET" -> IF i >= Len(S) THEN Error(m) ELSE Leaves(m, 2, S[i + 1])
             [] aggr.op = "STRING" ->
                  IF i > Len(s) THEN Error(m)
                  ELSE Leaves(m, 2, Value("CHAR", IF i = Len(s) THEN 0 ELSE s[i + 1]))
             [] aggr.op = "LIST" ->
                  IF q = NULL THEN Error(m) ELSE Leaves(m, 2, Value(m.heap[q].op, m.heap[q].u))

\* n of drop and take: what an address or a double is cut to, nobody knows.
Counts(y) == IF y.op \in Numeric \cup {"SET"} THEN {y.u} ELSE {0, Far}

DropsFrom(m, x, n) ==
  LET s == StringAt(m.chars, x.u)
      most(k) == IF n < 0 THEN 0 ELSE IF n > k THEN k ELSE n
      S == MemberValues(m.chars, x)
  IN  CASE x.op = "SET" ->
             Leaves(m, 2, Value("SET", SetOf({S[k].u : k \in {k \in DOMAIN S : k > n}})))
        [] x.op = "STRING" -> Leaves(m, 2, Value("STRING", x.u + most(Len(s))))
        [] x.op = "LIST" ->
             Leaves(m, 2, Value("LIST", NthIn(m.heap, x.u, most(LengthIn(m.heap, x.u)) + 1)))
        [] x.op \notin Aggregates -> Error(m)

\* A string gets room for what is dropped, and no 0 at its end: the characters
\* go on with what malloc's memory holds, and too many overwrite what follows.
TakesFrom(m, x, n) ==
  LET s == StringAt(m.chars, x.u)
      i == IF n < 0 THEN 0 ELSE n
      some == SubSeq(s, 1, i)
      unended == [m EXCEPT !.chars = Append(@, some)]
      S == MemberValues(m.chars, x)
      k == LengthIn(m.heap, x.u)
  IN  CASE x.op = "SET" ->
             Leaves(m, 2, Value("SET", SetOf({S[j].u : j \in {j \in DOMAIN S : j <= n}})))
        [] x.op = "STRING" ->
             IF i > Len(s) THEN {[m EXCEPT !.stk = Under(m, 1)]}
             ELSE LeavesString(m, 2, some)
                  \cup Leaves(unended, 2, Value("STRING", StringAddress(m)))
                  \cup IF 2 * i > Len(s) + 1 THEN Crashes(m) ELSE {}
        [] x.op = "LIST" ->
             IF n >= 1 /\ x.u = NULL THEN Crashes(m)
             ELSE LeavesList(m, 2, Prefix(m, x.u, IF n > k THEN k ELSE i), NULL)
        [] x.op \notin Aggregates -> Error(m)

\* concat of strings steps the pointers in its arguments' own nodes.
Concatenates(m) ==
  LET x == Arg(m, 2)
      y == Arg(m, 1)
      s == StringAt(m.chars, x.u)
      t == StringAt(m.chars, y.u)
      stepped == [m EXCEPT !.heap[Param(m, 2)].u = @ + Len(s) + 1,
                           !.heap[Param(m, 1)].u = @ + Len(t) + 1]
  IN  IF x.op # y.op \/ x.op \notin Aggregates THEN Error(m)
      ELSE CASE x.op = "SET" ->
                  Leaves(m, 2, Value("SET", SetOf(MembersOf(x.u) \cup MembersOf(y.u))))
             [] x.op = "STRING" -> LeavesString(stepped, 2, s \o t)
             [] x.op = "LIST" ->
                  LeavesList(m, 2, Prefix(m, x.u, LengthIn(m.heap, x.u)), y.u)

Enconcatenates(m) ==
  LET cons(a)   == Conses(a, Arg(a, 1), Arg(a, 2))
  IN  IF Arg(m, 1).op # Arg(m, 2).op THEN Error(m)
      ELSE Followed(Followed(Shuffled("swapd", m), cons), Concatenates)

size_(m) ==
  LET y == Arg(m, 1)
  IN  CASE y.op = "LIST" -> Leaves(m, 1, Value("INT", LengthIn(m.heap, y.u)))
        [] y.op \in {"STRING", "SET"} -> Leaves(m, 1, Value("INT", Len(MemberValues(m.chars, y))))
        [] y.op \notin Aggregates -> Error(m)

null_(m) ==
  LET y == Arg(m, 1)
  IN  Leaves(m, 1, Bool(IF y.op = "STRING" THEN Empty(m, y) ELSE y.u = 0))

\* Mutant: anything is taken for a list.
unstack_any(m) == {[m EXCEPT !.stk = Arg(m, 1).u]}

\* The list itself becomes the stack: no node is copied.
unstack_(m) == IF Arg(m, 1).op = "LIST" THEN {[m EXCEPT !.stk = Arg(m, 1).u]} ELSE Error(m)

small_(m) ==
  LET y == Arg(m, 1)
  IN  CASE y.op \in {"BOOL", "INT"} -> Leaves(m, 1, Bool(y.u < 2))
        [] y.op = "LIST" -> Leaves(m, 1, Bool(LengthIn(m.heap, y.u) < 2))
        [] y.op \in {"STRING", "SET"} -> Leaves(m, 1, Bool(Len(MemberValues(m.chars, y)) < 2))
        [] y.op \notin Aggregates \cup {"BOOL", "INT"} -> Error(m)

-----------------------------------------------------------------------------
(* Choices. *)

choice_(m) ==
  LET v == Arg(m, IF Arg(m, 3).u # 0 THEN 2 ELSE 1)
  IN  Leaves(m, 3, Value(v.op, v.u))

\* opcase: the clause whose first member has the type of X, which stays where
\* it is; X is looked at without a check that it is there.
opcase_(m) ==
  LET y == Arg(m, 1)
      n == LengthIn(m.heap, y.u)
      clause(k) == m.heap[NthIn(m.heap, y.u, k)]
      goes(k) == /\ k < n /\ clause(k).op = "LIST"
                 /\ clause(k).u # NULL /\ Param(m, 2) # NULL
                 /\ m.heap[clause(k).u].op # Arg(m, 2).op
      k == CHOOSE k \in 1 .. n : ~goes(k) /\ \A j \in 1 .. (k - 1) : goes(j)
      c == clause(k)
      followed == k < n /\ c.op = "LIST" /\ (c.u = NULL \/ Param(m, 2) = NULL)
  IN  IF y.op # "LIST" \/ y.u = NULL THEN Error(m)
      ELSE IF followed THEN Crashes(m)
      ELSE IF c.op # "LIST" THEN Error(m)
      ELSE Leaves(m, 1, Value("LIST", IF k < n THEN m.heap[c.u].next ELSE c.u))

-----------------------------------------------------------------------------

\* TYPE: leaf is "not a list".
Types == [integer |-> {"INT"}, char |-> {"CHAR"}, logical |-> {"BOOL"}, string |-> {"STRING"},
          set |-> {"SET"}, list |-> {"LIST"}, leaf |-> {"LIST"}, float |-> {"FLOAT"},
          file |-> {"FILE"}, user |-> {"USR"}]

\* PUSH.
Pushing == [true |-> Bool(TRUE), false |-> Bool(FALSE), setsize |-> Value("INT", SETSIZE)]

\* USETOP: what is printed, and popped.  put prints anything.
Printing == {"put", "putch", "putchars"}

Others == {"stack", "unstack", "abort", "not", "null", "size", "small", "equal", "in", "has",
           "of", "at", "cons", "swons", "drop", "take", "concat", "enconcat", "choice", "opcase"}

Operators == DOMAIN Shuffles \cup DOMAIN Types \cup DOMAIN Pushing \cup Printing \cup Unary
             \cup Binary \cup {"and", "or", "xor"} \cup Comparisons \cup Taking \cup Others

\* ONEPARAM, TWOPARAMS, ...
Asks(o) ==
  CASE o \in DOMAIN Shuffles -> Shuffles[o].asks
    [] o \in DOMAIN Pushing \cup {"stack", "abort"} -> 0
    [] o \in DOMAIN Types \cup Printing \cup Unary \cup Taking
             \cup {"unstack", "not", "null", "size", "small", "opcase"} -> 1
    [] o \in Binary \cup {"and", "or", "xor"} \cup Comparisons
             \cup {"equal", "in", "has", "of", "at", "cons", "swons", "drop", "take", "concat"} -> 2
    [] o \in {"enconcat", "choice"} -> 3

Operates(o, m) ==
  LET x == Arg(m, 2)
      y == Arg(m, 1)
      popped == {[m EXCEPT !.stk = Under(m, 1)]}
  IN  CASE o \in DOMAIN Shuffles -> Shuffled(o, m)
        [] o \in DOMAIN Types -> Leaves(m, 1, Bool((y.op \in Types[o]) = (o # "leaf")))
        [] o \in DOMAIN Pushing -> Leaves(m, 0, Pushing[o])
        [] o \in Unary -> UnaryNumber(o, m)
        [] o \in Binary -> BinaryNumber(o, m)
        [] o \in {"and", "or", "xor"} -> AndOrXor(o, m)
        [] o \in Comparisons -> Compares(o, m)
        [] o \in Taking -> TakesApart(o, m)
        [] o = "put" -> popped
        [] o = "putch" -> IF y.op \in Numeric THEN popped ELSE Error(m)
        [] o = "putchars" -> IF y.op = "STRING" THEN popped ELSE Error(m)
        [] o = "abort" -> Error(m)
        [] o = "stack" -> Leaves(m, 0, Value("LIST", m.stk))
        [] o = "unstack" -> unstack_(m)
        [] o = "not" -> not_(m)
        [] o = "null" -> null_(m)
        [] o = "size" -> size_(m)
        [] o = "small" -> small_(m)
        [] o = "equal" -> Leaves(m, 2, Bool(Equal(m, Param(m, 1), Param(m, 2))))
        [] o = "in" -> Finds(m, y, x)
        [] o = "has" -> Finds(m, x, y)
        [] o = "of" -> Indexes(m, y, x)
        [] o = "at" -> Indexes(m, x, y)
        [] o = "cons" -> Conses(m, y, x)
        [] o = "swons" -> Conses(m, x, y)
        [] o = "drop" -> UNION {DropsFrom(m, x, n) : n \in Counts(y)}
        [] o = "take" -> UNION {TakesFrom(m, x, n) : n \in Counts(y)}
        [] o = "concat" -> Concatenates(m)
        [] o = "enconcat" -> Enconcatenates(m)
        [] o = "choice" -> choice_(m)
        [] o = "opcase" -> opcase_(m)

\* The outcomes of operator o.  drop and take look at the top of the stack
\* before they ask whether there is one.
Operate(o, m) ==
  IF o \in {"drop", "take"} /\ m.stk = NULL THEN Crashes(m)
  ELSE IF Asks(o) > 0 /\ Param(m, Asks(o)) = NULL THEN Error(m)
  ELSE Operates(o, m)
=============================================================================
