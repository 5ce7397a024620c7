------------------------------ MODULE JoyManual ------------------------------
(***************************************************************************)
(* What the manual of the Joy interpreter says of each operator and        *)
(* combinator (the texts of optable, interp.c:2430-2940), as functions     *)
(* from stacks to stacks; and that the evaluator, which shares nodes,      *)
(* saves stacks on dump and writes to nodes, computes the same.            *)
(*                                                                         *)
(* A stack, a list and a program is a sequence of values, the top first.   *)
(***************************************************************************)
EXTENDS JoyExec

LOCAL INSTANCE SequencesExt

CONSTANTS
  Fuel,      \* bound: the depth of the recursion of Exec and Do
  Forgiven   \* where the code is known to differ from the manual: not compared

Ok(s) == [is |-> "ok", st |-> s]
Refused == [is |-> "error", st |-> <<>>]

\* The manual does not say, or Fuel is spent.
Unsaid == [is |-> "unsaid", st |-> <<>>]

Forgive(d, r) == IF d \in Forgiven THEN Unsaid ELSE r
When(b, r)    == IF b THEN r ELSE Unsaid

Then(r, F(_)) == IF r.is = "ok" THEN F(r.st) ELSE r

\* F of the value on top, which the program that ran has to leave there.
ThenTop(r, F(_)) ==
  IF r.is = "ok" /\ r.st = <<>> THEN Unsaid ELSE Then(r, LAMBDA s : F(Head(s)))

Number(k)  == [op |-> "INT", num |-> k, lis |-> <<>>]
Logical(b) == [op |-> "BOOL", num |-> IF b THEN 1 ELSE 0, lis |-> <<>>]
Char(k)    == [op |-> "CHAR", num |-> k, lis |-> <<>>]
Halves(k)  == [op |-> "FLOAT", num |-> k, lis |-> <<>>]
List(s)    == [op |-> "LIST", num |-> 0, lis |-> s]

\* The set with the members S, as the manual counts them: 0, 1, ...
SetOfNumbers(S) ==
  [op |-> "SET", num |-> 0,
   lis |-> SelectSeq([k \in 1 .. SETSIZE |-> Number(k - 1)], LAMBDA v : v.num \in S)]
NumbersIn(v) == {v.lis[k].num : k \in DOMAIN v.lis}

\* An aggregate of the same type as a, with the members ms.
SameType(a, ms) ==
  IF a.op = "SET" THEN SetOfNumbers({ms[k].num : k \in DOMAIN ms}) ELSE [a EXCEPT !.lis = ms]
MayHave(a, v) ==
  CASE a.op = "LIST"   -> TRUE
    [] a.op = "STRING" -> v.op = "CHAR"
    [] a.op = "SET"    -> v.op = "INT" /\ v.num \in 0 .. (SETSIZE - 1)

\* What counts as true: truth values, numbers, and lists with members.
SaysTruth(v) == v.op \in Numeric \cup {"LIST"}
Truth(v)     == v.num # 0 \/ v.lis # <<>>

\* How many parameters the manual shows: "X Y1 Y2 [P]" are four.
Shown(c) ==
  CASE c \in Operators \ {"opcase"} -> Asks(c)
    [] c \in Library -> LibraryAsks[c]
    [] c \in {"body", "i", "x", "nullary", "cond", "condlinrec", "condnestrec"} -> 1
    [] c \in {"opcase", "dip", "app1", "unary", "construct", "while", "step", "times", "infra",
              "some", "all", "map", "filter", "split", "case", "treestep"} -> 2
    [] c \in {"app11", "unary2", "binary", "cleave", "branch", "ifte", "tailrec", "fold",
              "primrec", "treerec"} \cup DOMAIN IfType -> 3
    [] c \in {"app12", "ternary", "unary3", "linrec", "binrec", "genrec", "treegenrec"} -> 4
    [] c = "unary4" -> 5

\* The parameters that are programs, or lists of them.
Programs(c) ==
  CASE c \in {"i", "x", "nullary", "cond", "condlinrec", "condnestrec", "dip", "app1", "unary",
              "times", "fold", "app11", "unary2", "unary3", "unary4", "binary", "app12", "ternary",
              "step", "map", "filter", "split", "infra", "some", "all", "case", "treestep"} -> {1}
    [] c \in {"cleave", "branch", "while", "construct", "primrec", "treerec"}
             \cup DOMAIN IfType -> {1, 2}
    [] c \in {"ifte", "tailrec", "treegenrec"}  -> 1 .. 3
    [] c \in {"linrec", "binrec", "genrec"} -> 1 .. 4

Drop(s, k) == SubSeq(s, k + 1, Len(s))

-----------------------------------------------------------------------------
(* Operators.  y is the value on top of the stack, x the one under it.     *)

\* By position from the top: what the stack begins with afterwards.
Moves ==
  [id |-> [takes |-> 0, leaves |-> <<>>],
   pop |-> [takes |-> 1, leaves |-> <<>>],
   dup |-> [takes |-> 1, leaves |-> <<1, 1>>],
   swap |-> [takes |-> 2, leaves |-> <<2, 1>>],
   rollup |-> [takes |-> 3, leaves |-> <<2, 3, 1>>],
   rolldown |-> [takes |-> 3, leaves |-> <<3, 1, 2>>],
   rotate |-> [takes |-> 3, leaves |-> <<3, 2, 1>>]]

\* popd == [pop] dip, and so on.
Dipped == [popd |-> "pop", dupd |-> "dup", swapd |-> "swap", rollupd |-> "rollup",
           rolldownd |-> "rolldown", rotated |-> "rotate"]

Moved(o, s) == Ok([k \in DOMAIN Moves[o].leaves |-> s[Moves[o].leaves[k]]] \o Drop(s, Moves[o].takes))

\* The number of v in halves, and the value of a result in halves.
InHalves(v) == IF v.op = "FLOAT" THEN v.num ELSE 2 * v.num

Calculated(o, x, y) ==
  LET floats == FLOATABLE2(x, y)
      numbers == x.op \in Numeric /\ y.op \in Numeric
      integers == x.op = "INT" /\ y.op = "INT"
      a == IF floats THEN InHalves(x) ELSE x.num
      b == IF floats THEN InHalves(y) ELSE y.num
      like(n) == IF floats THEN Halves(n) ELSE [x EXCEPT !.num = n]
      exact == CASE o = "+" -> a + b [] o = "-" -> a - b
                 [] o = "max" -> IF a >= b THEN a ELSE b
                 [] o = "min" -> IF a <= b THEN a ELSE b
                 [] o \in {"*", "/", "rem"} -> 0
  IN  CASE o \in {"+", "-"} -> When(floats \/ (y.op = "INT" /\ x.op \in {"INT", "CHAR"}), Ok(<<like(exact)>>))
        [] o \in {"max", "min"} -> When(floats \/ (x.op = y.op /\ x.op \in {"INT", "CHAR"}), Ok(<<like(exact)>>))
        [] o = "*" -> When((floats /\ (a * b) % 2 = 0) \/ integers,
                           Ok(<<IF floats THEN Halves((a * b) \div 2) ELSE Number(a * b)>>))
        [] o = "/" -> IF b = 0 THEN Unsaid
                      ELSE When((floats /\ Remainder(2 * a, b) = 0) \/ (integers /\ Remainder(a, b) = 0),
                                Ok(<<IF floats THEN Halves(Quotient(2 * a, b)) ELSE Number(Quotient(a, b))>>))
        [] o = "rem" -> When(a >= 0 /\ b > 0 /\ (floats \/ integers), Ok(<<like(a % b)>>))
        [] o = "div" -> When(integers /\ a >= 0 /\ b > 0, Ok(<<Number(a % b), Number(a \div b)>>))

OfNumber(o, y) ==
  LET like(n) == [y EXCEPT !.num = n]
      float == y.op = "FLOAT"
      real == y.op \in Floatable
  IN  CASE o = "abs"  -> When(real, Ok(<<like(IF y.num < 0 THEN -y.num ELSE y.num)>>))
        [] o = "neg"  -> When(real, Ok(<<like(-y.num)>>))
        [] o = "sign" -> When(real, Ok(<<like((IF float THEN 2 ELSE 1) *
                                             (IF y.num > 0 THEN 1 ELSE IF y.num < 0 THEN -1 ELSE 0))>>))
        [] o = "ord"  -> When(y.op \in Numeric, Ok(<<Number(y.num)>>))
        [] o = "chr"  -> When(y.op \in Numeric, Ok(<<Char(y.num)>>))
        [] o = "pred" -> When(y.op \in {"INT", "CHAR"}, Ok(<<like(y.num - 1)>>))
        [] o = "succ" -> When(y.op \in {"INT", "CHAR"}, Ok(<<like(y.num + 1)>>))
        [] o = "trunc" -> When(float, Ok(<<Number(IF y.num >= 0 THEN y.num \div 2 ELSE -((-y.num) \div 2))>>))
        [] o = "floor" -> When(float, Ok(<<Halves(IF y.num % 2 = 0 THEN y.num ELSE y.num - 1)>>))
        [] o = "ceil"  -> When(float, Ok(<<Halves(IF y.num % 2 = 0 THEN y.num ELSE y.num + 1)>>))

\* X and Y are sets, or truth values.
Combined(o, x, y) ==
  LET both(p, q) == CASE o = "and" -> p /\ q [] o = "or" -> p \/ q [] o = "xor" -> (p /\ ~q) \/ (q /\ ~p)
      A == NumbersIn(x)
      B == NumbersIn(y)
  IN  CASE x.op = "SET" /\ y.op = "SET" ->
             Ok(<<SetOfNumbers({i \in A \cup B : both(i \in A, i \in B)})>>)
        [] x.op = "BOOL" /\ y.op = "BOOL" -> Ok(<<Logical(both(Truth(x), Truth(y)))>>)
        [] {x.op, y.op} \notin {{"SET"}, {"BOOL"}} -> Unsaid

\* -1, 0 or 1 for two strings, member by member.
StringsCompare(s, t) ==
  LET common == {k \in 0 .. Len(s) : k <= Len(t) /\ SubSeq(s, 1, k) = SubSeq(t, 1, k)}
      k == CHOOSE i \in common : \A j \in common : j <= i
  IN  CASE k = Len(s) /\ k = Len(t) -> 0
        [] k = Len(s) /\ k < Len(t) -> -1
        [] k < Len(s) /\ k = Len(t) -> 1
        [] k < Len(s) /\ k < Len(t) -> IF s[k + 1].num < t[k + 1].num THEN -1 ELSE 1

Compared(o, x, y) ==
  LET numbers == {x.op, y.op} \subseteq Numeric \/ FLOATABLE2(x, y)
      strings == x.op = "STRING" /\ y.op = "STRING"
      d == IF strings THEN StringsCompare(x.lis, y.lis) ELSE InHalves(x) - InHalves(y)
  IN  IF o = "compare" THEN When(strings, IF d = 0 THEN Ok(<<Number(0)>>) ELSE Forgive("compare", Ok(<<Number(d)>>)))
      ELSE When(numbers \/ strings,
                Ok(<<Logical(CASE o = "=" -> d = 0 [] o = "!=" -> d # 0 [] o = "<" -> d < 0
                               [] o = "<=" -> ~(d > 0) [] o = ">" -> d > 0 [] o = ">=" -> ~(d < 0))>>))

RECURSIVE Coarse(_)

\* v without the types of its numbers, and without what its floats and streams are.
Coarse(v) ==
  [op |-> IF v.op \in Numeric THEN "INT" ELSE v.op, num |-> IF v.op = "FLOAT" THEN 0 ELSE v.num,
   lis |-> IF v.op = "FILE" THEN <<>> ELSE [k \in DOMAIN v.lis |-> Coarse(v.lis[k])]]

\* equal takes numbers of different types, and all floats, for the same.
Identical(x, y) ==
  IF Coarse(x) = Coarse(y) /\ x # y THEN Forgive("equal", Ok(<<Logical(FALSE)>>))
  ELSE Ok(<<Logical(x = y)>>)

\* in and has look at numbers only, and miss the largest member of a set.
Found(a, v) ==
  LET plain == CASE a.op = "SET" -> v.op = "INT" /\ v.num \in 0 .. (SETSIZE - 2)
                 [] a.op = "STRING" -> v.op = "CHAR"
                 [] a.op = "LIST" -> v.op \in Numeric /\ \A k \in DOMAIN a.lis : a.lis[k].op = v.op
      said == Ok(<<Logical(\E k \in DOMAIN a.lis : a.lis[k] = v)>>)
  IN  IF a.op \notin Aggregates THEN Unsaid ELSE IF plain THEN said ELSE Forgive("has", said)

OfAggregate(o, y) ==
  LET f == Head(y.lis)
      r == SameType(y, Tail(y.lis))
  IN  When(y.op \in Aggregates /\ y.lis # <<>>,
           CASE o = "first" -> Ok(<<f>>) [] o = "rest" -> Ok(<<r>>)
             [] o = "uncons" -> Ok(<<r, f>>) [] o = "unswons" -> Ok(<<f, r>>))

With(a, v) ==
  When(a.op \in Aggregates /\ MayHave(a, v), Ok(<<SameType(a, <<v>> \o a.lis)>>))
Position(a, i) ==
  When(a.op \in Aggregates /\ i.op = "INT" /\ i.num + 1 \in DOMAIN a.lis, Ok(<<a.lis[i.num + 1]>>))
Deleted(a, i) ==
  When(a.op \in Aggregates /\ i.op = "INT" /\ i.num >= 0, Ok(<<SameType(a, Drop(a.lis, i.num))>>))

\* take leaves a string without an end, and follows a pointer of the empty list.
Retained(a, i) ==
  LET said == Ok(<<SameType(a, SubSeq(a.lis, 1, IF i.num > Len(a.lis) THEN Len(a.lis) ELSE i.num))>>)
      odd  == (a.op = "STRING" /\ i.num <= Len(a.lis)) \/ (a.op = "LIST" /\ a.lis = <<>> /\ i.num > 0)
  IN  When(a.op \in Aggregates /\ i.op = "INT" /\ i.num >= 0, IF odd THEN Forgive("take", said) ELSE said)

Joined(x, y) == When(x.op = y.op /\ x.op \in {"LIST", "STRING"}, Ok(<<[x EXCEPT !.lis = @ \o y.lis]>>))

\* -5 counts as 0 or 1 for small.
IsSmall(y) ==
  LET said == Ok(<<Logical(y.num \in {0, 1})>>)
  IN  CASE y.op \in Aggregates -> Ok(<<Logical(Len(y.lis) <= 1)>>)
        [] y.op \in {"INT", "BOOL"} -> IF y.num < 0 THEN Forgive("small", said) ELSE said
        [] y.op \notin Aggregates \cup {"INT", "BOOL"} -> Unsaid

\* X [..[X Xs]..] -> [Xs]: X is taken, if the code's leaving it is not forgiven.
ByType(x, clauses, s) ==
  LET lists == {k \in DOMAIN clauses : clauses[k].op = "LIST" /\ clauses[k].lis # <<>>}
      same  == {k \in lists : Head(clauses[k].lis).op = x.op}
      k     == CHOOSE i \in same : \A j \in same : i <= j
      rest  == IF "opcase" \in Forgiven THEN <<x>> \o s ELSE s
  IN  When(lists = DOMAIN clauses /\ same \ {Len(clauses)} # {},
           Ok(<<List(Tail(clauses[k].lis))>> \o rest))

-----------------------------------------------------------------------------
(* Text, times and streams.  What C's library is asked for is taken for    *)
(* granted: that the right thing is asked, and what becomes of it, is not. *)

Text(cs)  == [op |-> "STRING", num |-> 0, lis |-> [k \in DOMAIN cs |-> Char(cs[k])]]
Letters(v) == [k \in DOMAIN v.lis |-> v.lis[k].num]
Numbers(ks) == [k \in DOMAIN ks |-> Number(ks[k])]

\* N C I J -> S
Formatted(o, n, c, i, j) ==
  LET float == o = "formatf"
      s == IF float THEN sprintf_f(InHalves(n), i.num, j.num) ELSE sprintf_l(n.num, i.num, j.num, c.num)
      odd == Len(s) >= INPLINEMAX \/ (float /\ n.op = "INT")
  IN  When(/\ i.op = "INT" /\ j.op = "INT" /\ c.op = "CHAR"
           /\ IF float THEN n.op \in Floatable /\ c.num = Fractional ELSE n.op = "INT" /\ c.num \in IntegerModes,
           IF odd THEN Forgive("format", Ok(<<Text(s)>>)) ELSE Ok(<<Text(s)>>))

\* The time a list in the format of localtime is of, and that list.
ListOf(t) == [k \in DOMAIN Times(tm(t)) |-> [op |-> Times(tm(t))[k].op, num |-> Times(tm(t))[k].u, lis |-> <<>>]]
TimeOf(v) ==
  LET f(k) == v.lis[k].num
  IN  mktime([year |-> f(1) - 1900, mon |-> f(2) - 1, mday |-> f(3), hour |-> f(4), min |-> f(5), sec |-> f(6)])
IsTime(v) == /\ v.op = "LIST" /\ Len(v.lis) = 9 /\ \A k \in 1 .. 9 : v.lis[k].op \in {"INT", "BOOL"}
             /\ TimeOf(v) # Elsewhen /\ v.lis = ListOf(TimeOf(v))

\* A name of the day that does not fit, and the one of a Sunday, are forgiven.
Dated(v, format) ==
  LET s == strftime(Letters(format), tm(TimeOf(v)))
      odd == Len(s) > 3 * Len(format.lis) \/ v.lis[9].num = 7
  IN  When(IsTime(v) /\ format.op = "STRING", IF odd THEN Forgive("strftime", Ok(<<Text(s)>>)) ELSE Ok(<<Text(s)>>))

OfText(o, s) ==
  LET y == s[1]
      x == s[2]
  IN  CASE o = "strtol" -> When(x.op = "STRING" /\ y.op = "INT", Ok(<<Number(strtol(Letters(x), y.num))>>))
        [] o = "strtod" -> When(y.op = "STRING", Ok(<<Halves(strtod(Letters(y)))>>))
        [] o \in {"format", "formatf"} -> Formatted(o, s[4], s[3], x, y)
        [] o \in {"localtime", "gmtime"} -> When(y.op = "INT", Ok(<<List(ListOf(y.num))>>))
        [] o = "mktime" -> When(IsTime(y), Ok(<<Number(TimeOf(y))>>))
        [] o = "strftime" -> Dated(x, y)

\* A stream, and the one of file k at its beginning.
IsStream(v) == v.op = "FILE" /\ v.lis # <<>>
StreamAs(s) == [op |-> "FILE", num |-> 0, lis |-> Numbers(<<s.file, s.pos, s.eof, s.error>>)]
NoStream   == [op |-> "FILE", num |-> 0, lis |-> <<>>]
AsStream(v) == [file |-> v.lis[1].num, pos |-> v.lis[2].num, eof |-> v.lis[3].num, error |-> v.lis[4].num]

RECURSIVE HasStream(_)
HasStream(v) == v.op = "FILE" \/ \E k \in DOMAIN v.lis : HasStream(v.lis[k])

\* The line at the position of s, which has one.
NextLine(s) ==
  LET rest == SubSeq(Holds(s), s.pos + 1, Len(Holds(s)))
      ends == {k \in DOMAIN rest : rest[k] = NewLine}
  IN  IF ends = {} THEN rest ELSE SubSeq(rest, 1, CHOOSE k \in ends : \A j \in ends : k <= j)

\* S -> S and what is read: n characters.  The end of the file is seen when it
\* is looked for.
Reads(s, n, value) ==
  Ok(<<value, StreamAs([s EXCEPT !.pos = @ + n])>>)

\* The operators that go on with a stream s; y is what stands above it.
OfStream(o, y, x, s) ==
  LET left == Len(Holds(s)) - s.pos
      line == NextLine(s)
      to   == x.num + (CASE y.num = 1 -> s.pos [] y.num = 2 -> Len(Holds(s)) [] y.num \notin {1, 2} -> 0)
      same(v) == Ok(<<v, StreamAs(s)>>)
      \* nothing can be written
      written == Ok(<<StreamAs([s EXCEPT !.error = 1])>>)
      long == Len(line) >= 2 * INPLINEMAX
  IN  CASE o = "fclose" -> Ok(<<>>)
        [] o = "fflush" -> Ok(<<StreamAs(s)>>)
        [] o = "feof"   -> same(Logical(s.eof = 1))
        [] o = "ferror" -> same(Logical(s.error = 1))
        [] o = "ftell"  -> same(Number(s.pos))
        [] o = "fgetch" -> When(left > 0, Reads(s, 1, Char(Holds(s)[s.pos + 1])))
        [] o = "fgets"  -> When(left > 0 /\ line[Len(line)] = NewLine,
                                IF long THEN Forgive("fgets", Reads(s, Len(line), Text(line)))
                                ELSE Reads(s, Len(line), Text(line)))
        [] o = "fread"  -> When(y.op = "INT" /\ y.num \in 0 .. left,
                                Forgive("fread", Reads(s, y.num, List(Numbers(Following(s, y.num))))))
        [] o = "fput"   -> written
        [] o = "fputch" -> When(y.op = "CHAR", Forgive("fputch", written))
        [] o = "fputchars" -> When(y.op = "STRING" /\ y.lis # <<>>, written)
        [] o = "fwrite" -> When(y.op = "LIST" /\ y.lis # <<>> /\ \A k \in DOMAIN y.lis : y.lis[k].op = "INT", written)
        [] o = "fseek"  -> When(y.op = "INT" /\ x.op = "INT" /\ y.num \in 0 .. 2 /\ to >= 0,
                                Forgive("fseek", Ok(<<StreamAs([s EXCEPT !.pos = to, !.eof = 0])>>)))

LibraryMeans(o, s) ==
  LET y == s[1]
      x == s[2]
      k == LibraryAsks[o]
      found == {f \in DOMAIN Disk : Disk[f].path = Letters(x)}
      below == Drop(s, k)
      alone == \A i \in DOMAIN s : i # k => ~HasStream(s[i])
  IN  CASE o \in {"strtol", "strtod", "format", "formatf", "localtime", "gmtime", "mktime", "strftime"} ->
             Then(OfText(o, s), LAMBDA t : Ok(t \o below))
        [] o = "fopen" ->
             When(x.op = "STRING" /\ y.op = "STRING",
                  Ok(<<IF Letters(y) = ReadMode /\ found # {}
                         THEN StreamAs([file |-> CHOOSE f \in found : TRUE, pos |-> 0, eof |-> 0, error |-> 0])
                       ELSE NoStream>> \o below))
        [] o \in {"fremove", "frename"} ->
             When(y.op = "STRING" /\ (o = "frename" => x.op = "STRING"), Ok(<<Logical(FALSE)>> \o below))
        [] o = "fclose" /\ y = NoStream -> Ok(below)
        [] o \notin {"fopen", "fremove", "frename", "strtol", "strtod", "format", "formatf", "localtime",
                     "gmtime", "mktime", "strftime"} /\ ~(o = "fclose" /\ y = NoStream) ->
             When(IsStream(s[k]) /\ alone, Then(OfStream(o, y, x, AsStream(s[k])), LAMBDA t : Ok(t \o below)))

Means(o, s) ==
  LET y    == s[1]
      x    == s[2]
      on(k, r) == Then(r, LAMBDA t : Ok(t \o Drop(s, k)))
  IN  CASE o \in DOMAIN Moves -> Moved(o, s)
        [] o \in DOMAIN Dipped -> Then(Moved(Dipped[o], Tail(s)), LAMBDA t : Ok(<<y>> \o t))
        [] o = "choice" -> When(s[3].op = "BOOL", Ok(<<IF Truth(s[3]) THEN x ELSE y>> \o Drop(s, 3)))
        [] o \in DOMAIN Types \ {"leaf"} -> on(1, Ok(<<Logical({y.op} = Types[o])>>))
        [] o = "leaf" -> on(1, Ok(<<Logical(y.op # "LIST")>>))
        [] o \in {"true", "false"} -> Ok(<<Logical(o = "true")>> \o s)
        [] o = "setsize" -> Ok(<<Number(SETSIZE)>> \o s)
        [] o \in Unary -> on(1, OfNumber(o, y))
        [] o \in Binary -> on(2, Calculated(o, x, y))
        [] o \in {"and", "or", "xor"} -> on(2, Combined(o, x, y))
        [] o = "not" -> on(1, CASE y.op = "SET" -> Ok(<<SetOfNumbers((0 .. (SETSIZE - 1)) \ NumbersIn(y))>>)
                                [] y.op = "BOOL" -> Ok(<<Logical(~Truth(y))>>)
                                [] y.op \notin {"SET", "BOOL"} -> Unsaid)
        [] o \in Comparisons -> on(2, Compared(o, x, y))
        [] o = "equal" -> on(2, Identical(x, y))
        [] o = "in" -> on(2, Found(y, x))
        [] o = "has" -> on(2, Found(x, y))
        [] o \in Taking -> on(1, OfAggregate(o, y))
        [] o = "cons" -> on(2, With(y, x))
        [] o = "swons" -> on(2, With(x, y))
        [] o = "at" -> on(2, Position(x, y))
        [] o = "of" -> on(2, Position(y, x))
        [] o = "drop" -> on(2, Deleted(x, y))
        [] o = "take" -> on(2, Retained(x, y))
        [] o = "concat" -> on(2, Joined(x, y))
        \* swapd cons concat
        [] o = "enconcat" -> on(3, Then(With(y, s[3]), LAMBDA t : Joined(x, t[1])))
        [] o = "size" -> on(1, When(y.op \in Aggregates, Ok(<<Number(Len(y.lis))>>)))
        [] o = "null" -> on(1, When(y.op \in Aggregates \cup Numeric \cup {"FLOAT"},
                                    Ok(<<Logical(y.num = 0 /\ y.lis = <<>>)>>)))
        [] o = "small" -> on(1, IsSmall(y))
        [] o = "opcase" -> When(y.op = "LIST", ByType(x, y.lis, Drop(s, 2)))
        [] o = "stack" -> Ok(<<List(s)>> \o s)
        [] o = "unstack" -> When(y.op = "LIST", Ok(y.lis))
        [] o \in Printing ->
             When(o = "put" \/ (o = "putch" /\ y.op = "CHAR") \/ (o = "putchars" /\ y.op = "STRING"),
                  Ok(Tail(s)))
        [] o = "abort" -> Refused

-----------------------------------------------------------------------------
(* Programs and combinators. *)

RECURSIVE Exec(_, _, _), Do(_, _, _), Combine(_, _, _), Results(_, _, _), Walk(_, _, _, _),
          Clauses(_, _, _)

\* The stack after the program prog on the stack s.
Exec(prog, s, n) ==
  CASE prog = <<>> -> Ok(s)
    [] prog # <<>> /\ n = 0 -> Unsaid
    [] prog # <<>> /\ n > 0 ->
         Then(Do(Head(prog), s, n - 1), LAMBDA t : Exec(Tail(prog), t, n - 1))

\* The code does not ask for all the parameters of these.
Unchecked == {"drop", "take", "opcase", "app12"} \cup DOMAIN IfType

\* What a program that starts over stands for: [[O] C] treerec, ...
Over == [genrecaux |-> "genrec", treerecaux |-> "treerec", treegenrecaux |-> "treegenrec"]

Do(v, s, n) ==
  CASE v.op \in Constants -> Ok(<<v>> \o s)
    [] v.op = "FILE" -> Forgive("file", Ok(<<v>> \o s))
    [] v.op = "USR" ->
         LET body == image.bodies[v.num]
         IN  IF body = NULL /\ image.undeferror THEN Refused
             ELSE Exec(ListAt(image.heap, image.chars, body), s, n)
    [] v.op \in Anonymous -> \* the programs are one list: [B] [T] [R1] and what R2 is made of
         LET ps == s[1].lis
             k  == CASE v.op = "treerecaux" -> 1 [] v.op = "treegenrecaux" -> 2 [] v.op = "genrecaux" -> 3
         IN  IF s = <<>> \/ Len(ps) < k \/ Len(s) + k < Shown(Over[v.op]) THEN Unsaid
             ELSE Combine(Over[v.op],
                          <<List(Drop(ps, k))>> \o [i \in 1 .. k |-> ps[k + 1 - i]] \o Tail(s), n)
    [] v.op \in Operators \cup Library \cup Combinators \cup {"body"} ->
         IF Len(s) < Shown(v.op)
         THEN IF v.op \in Unchecked THEN Forgive("parameters", Refused) ELSE Refused
         ELSE CASE v.op \in Operators -> Means(v.op, s)
                [] v.op \in Library -> LibraryMeans(v.op, s)
                [] v.op \in Combinators -> Combine(v.op, s, n)
                [] v.op = "body" ->
                     When(s[1].op = "USR",
                          Ok(<<List(ListAt(image.heap, image.chars, image.bodies[s[1].num]))>> \o Tail(s)))

\* The values that the runs leave, the last one first, in front of acc.
Results(runs, acc, n) ==
  IF runs = <<>> THEN Ok(acc)
  ELSE LET r == Head(runs)
       IN  IF r.prog.op # "LIST" THEN Unsaid
           ELSE ThenTop(Exec(r.prog.lis, r.on, n),
                        LAMBDA v : Results(Tail(runs), <<v>> \o acc, n))

OneRun(p, t) == [prog |-> p, on |-> t]

\* P for each leaf of the trees.
Walk(trees, p, t, n) ==
  IF trees = <<>> THEN Ok(t)
  ELSE LET v == Head(trees)
       IN  Then(IF v.op = "LIST" THEN Walk(v.lis, p, t, n) ELSE Exec(p, <<v>> \o t, n),
                LAMBDA u : Walk(Tail(trees), p, u, n))

Malformed(clauses, tested) ==
  clauses = <<>> \/ \E k \in DOMAIN clauses :
                      \/ clauses[k].op # "LIST"
                      \/ /\ k < Len(clauses) \/ ~tested
                         /\ \/ clauses[k].lis = <<>>
                            \/ \E j \in DOMAIN clauses[k].lis :
                                 (j = 1 \/ ~tested) /\ clauses[k].lis[j].op # "LIST"

\* What is left of the first clause whose test says yes, or all of the default.
Clauses(clauses, t, n) ==
  LET clause == Head(clauses)
  IN  IF Len(clauses) = 1 THEN Ok(clause.lis)
      ELSE ThenTop(Exec(Head(clause.lis).lis, t, n), LAMBDA v :
             IF ~SaysTruth(v) THEN Unsaid
             ELSE IF Truth(v) THEN Ok(Tail(clause.lis)) ELSE Clauses(Tail(clauses), t, n))

\* c on the stack s.  Run(k, t) executes the k-th parameter on t.
Combine(c, s, m) ==
  LET n           == m - 1
      Run(k, t)   == Exec(s[k].lis, t, n)
      Test(k, t, F(_)) == ThenTop(Run(k, t), LAMBDA v : When(SaysTruth(v), F(Truth(v))))
      Again(a, t) == Combine(c, a \o t, n)
      progs       == SubSeq(s, 1, Shown(c))
      rest        == Drop(s, Shown(c))
      agg         == s[2].lis
      aggregate   == s[2].op \in Aggregates
      \* the value that P leaves for each member
      values      == Results([k \in DOMAIN agg |-> OneRun(s[1], <<agg[k]>> \o rest)], <<>>, n)
      AsTests(F(_)) == Then(values, LAMBDA vs :
                         When(\A k \in DOMAIN vs : SaysTruth(vs[k]),
                              F([k \in DOMAIN vs |-> Truth(Reverse(vs)[k])])))
      Chosen(passes) == LET at == SelectSeq([k \in DOMAIN agg |-> k], LAMBDA k : passes[k])
                        IN  SameType(s[2], [k \in DOMAIN at |-> agg[at[k]]])
  IN  IF m = 0 \/ \E k \in Programs(c) : s[k].op # "LIST" THEN Unsaid
      ELSE
        CASE c \in {"i", "app1"} -> Run(1, Tail(s))
          [] c = "x"   -> Run(1, s)
          [] c = "dip" -> Then(Run(1, rest), LAMBDA t : Ok(<<s[2]>> \o t))
          [] c \in {"nullary", "unary", "binary", "ternary"} ->
               ThenTop(Run(1, Tail(s)), LAMBDA v : Ok(<<v>> \o rest))
          \* X Y [P]: the result of P, and X taken from behind it.
          [] c = "app11" ->
               Then(Run(1, Tail(s)),
                    LAMBDA t : IF Len(t) < 2 THEN Unsaid ELSE Ok(<<Head(t)>> \o Drop(t, 2)))
          [] c = "app12" ->
               Results(<<OneRun(s[1], <<s[3]>> \o Drop(s, 3)),
                         OneRun(s[1], <<s[2]>> \o Drop(s, 3))>>, rest, n)
          [] c \in DOMAIN Values ->
               LET k == Values[c]
               IN  Results([i \in 1 .. k |-> OneRun(s[1], <<s[k + 2 - i]>> \o rest)], rest, n)
          [] c = "cleave" ->
               Results(<<OneRun(s[2], Drop(s, 2)), OneRun(s[1], Drop(s, 2))>>, rest, n)
          [] c = "construct" ->
               Then(Run(2, rest), LAMBDA t :
                      Results([k \in 1 .. Len(s[1].lis) |-> OneRun(s[1].lis[k], t)], rest, n))
          [] c = "infra" ->
               When(s[2].op = "LIST", Then(Run(1, agg), LAMBDA t : Ok(<<List(t)>> \o rest)))
          [] c \in DOMAIN IfType -> Run(IF s[3].op = IfType[c] THEN 2 ELSE 1, Drop(s, 2))
          [] c = "branch" -> When(SaysTruth(s[3]), Run(IF Truth(s[3]) THEN 2 ELSE 1, rest))
          [] c = "ifte"   -> Test(3, rest, LAMBDA b : Run(IF b THEN 2 ELSE 1, rest))
          [] c = "cond"   ->
               When(~Malformed(s[1].lis, TRUE),
                    Then(Clauses(s[1].lis, rest, n), LAMBDA p : Exec(p, rest, n)))
          \* case looks at numbers only.
          [] c = "case" ->
               LET cs == s[1].lis
                   plain == \A k \in DOMAIN cs : s[2].op \in Numeric /\ Head(cs[k].lis).op = s[2].op
                   same == {k \in DOMAIN cs : Head(cs[k].lis) = s[2]}
                   k == CHOOSE i \in same : \A j \in same : i <= j
                   formed == cs # <<>> /\ \A j \in DOMAIN cs : cs[j].op = "LIST" /\ cs[j].lis # <<>>
               IN  IF ~formed \/ same \ {Len(cs)} = {} THEN Unsaid
                   ELSE IF plain THEN Exec(Tail(cs[k].lis), rest, n)
                   ELSE Forgive("case", Exec(Tail(cs[k].lis), rest, n))
          [] c = "while"  ->
               Test(2, rest, LAMBDA b :
                      IF b THEN Then(Run(1, rest), LAMBDA t : Again(progs, t)) ELSE Ok(rest))
          [] c = "times" ->
               IF s[2].op # "INT" THEN Unsaid
               ELSE IF s[2].num <= 0 THEN Ok(rest)
               ELSE Then(Run(1, rest), LAMBDA t : Again(<<s[1], Number(s[2].num - 1)>>, t))
          [] c = "step" ->
               IF ~aggregate THEN Unsaid
               ELSE IF agg = <<>> THEN Ok(rest)
               ELSE Then(Run(1, <<Head(agg)>> \o rest),
                         LAMBDA t : Again(<<s[1], SameType(s[2], Tail(agg))>>, t))
          [] c = "fold" -> Combine("step", <<s[1], s[3], s[2]>> \o rest, n)
          \* map leaves a string without an end.
          [] c = "map" ->
               When(aggregate, Then(values, LAMBDA vs :
                 When(\A k \in DOMAIN vs : MayHave(s[2], vs[k]),
                      LET said == Ok(<<SameType(s[2], Reverse(vs))>> \o rest)
                      IN  IF s[2].op = "STRING" THEN Forgive("map", said) ELSE said)))
          [] c = "filter" -> When(aggregate, AsTests(LAMBDA b : Ok(<<Chosen(b)>> \o rest)))
          [] c = "split" ->
               When(aggregate, AsTests(LAMBDA b :
                      Ok(<<Chosen([k \in DOMAIN b |-> ~b[k]]), Chosen(b)>> \o rest)))
          [] c \in {"some", "all"} ->
               IF ~aggregate THEN Unsaid
               ELSE IF agg = <<>> THEN Ok(<<Logical(c = "all")>> \o rest)
               ELSE ThenTop(Run(1, <<Head(agg)>> \o rest), LAMBDA v :
                      IF v.op # "BOOL" THEN Unsaid
                      ELSE IF Truth(v) = (c = "some") THEN Ok(<<v>> \o rest)
                      ELSE Again(<<s[1], SameType(s[2], Tail(agg))>>, rest))
          \* The members of X, the first of a number's and the last of an aggregate's
          \* on top, then I, then C for each member.
          [] c = "primrec" ->
               LET members == IF s[3].op = "INT" THEN [k \in 1 .. s[3].num |-> Number(k)]
                              ELSE Reverse(s[3].lis)
               IN  IF s[3].op \notin Aggregates \cup {"INT"} THEN Unsaid
                   ELSE Then(Run(2, members \o rest), LAMBDA t :
                               Combine("times", <<s[1], Number(Len(members))>> \o t, n))
          [] c = "tailrec" ->
               Test(3, rest, LAMBDA b :
                      IF b THEN Run(2, rest)
                      ELSE Then(Run(1, rest), LAMBDA t : Again(progs, t)))
          [] c = "linrec" ->
               Test(4, rest, LAMBDA b :
                      IF b THEN Run(3, rest)
                      ELSE Then(Then(Run(2, rest), LAMBDA t : Again(progs, t)),
                                LAMBDA u : Run(1, u)))
          [] c = "binrec" ->
               LET Recurse(t) == Then(Again(progs, Tail(t)),
                                      LAMBDA u : Again(progs, <<Head(t)>> \o u))
               IN  Test(4, rest, LAMBDA b :
                          IF b THEN Run(3, rest)
                          ELSE Then(Run(2, rest), LAMBDA t :
                                 IF t = <<>> THEN Unsaid
                                 ELSE Then(Recurse(t), LAMBDA w : Run(1, w))))
          \* [[B] [T] [R1] R2], and what starts over.
          [] c = "genrec" ->
               LET starts == List(<<List(<<s[4], s[3], s[2]>> \o s[1].lis),
                                    [op |-> "genrecaux", num |-> 0, lis |-> <<>>]>>)
               IN  Test(4, rest, LAMBDA b :
                          IF b THEN Run(3, rest)
                          ELSE Then(Run(2, rest), LAMBDA t : Run(1, <<starts>> \o t)))
          [] c = "treestep" -> Walk(<<s[2]>>, s[1].lis, rest, n)
          [] c = "treerec" ->
               LET starts == List(<<List(<<s[2]>> \o s[1].lis),
                                    [op |-> "treerecaux", num |-> 0, lis |-> <<>>]>>)
               IN  IF s[3].op # "LIST" THEN Run(2, Drop(s, 2)) ELSE Run(1, <<starts>> \o Drop(s, 2))
          [] c = "treegenrec" ->
               LET starts == List(<<List(<<s[3], s[2]>> \o s[1].lis),
                                    [op |-> "treegenrecaux", num |-> 0, lis |-> <<>>]>>)
               IN  IF s[4].op # "LIST" THEN Run(3, Drop(s, 3))
                   ELSE Then(Run(2, Drop(s, 3)), LAMBDA t : Run(1, <<starts>> \o t))
          \* The programs of the clause taken, with a recursion between any two.
          [] c \in {"condlinrec", "condnestrec"} ->
               LET Between(ps) ==
                     LET after[k \in 1 .. Len(ps)] ==
                           IF k = 1 THEN Exec(ps[1].lis, rest, n)
                           ELSE Then(after[k - 1], LAMBDA t :
                                       Then(Again(<<s[1]>>, t), LAMBDA u : Exec(ps[k].lis, u, n)))
                     IN  IF ps = <<>> \/ (c = "condlinrec" /\ Len(ps) > 2) THEN Unsaid
                         ELSE after[Len(ps)]
               IN  When(~Malformed(s[1].lis, FALSE), Then(Clauses(s[1].lis, rest, n), Between))

-----------------------------------------------------------------------------

\* What the manual says that the program which ran last comes to.
Promised == Exec(ListAt(heap, chars, run), given, Fuel)

KeepsPromise ==
  CASE Promised.is = "unsaid" -> TRUE
    [] Promised.is = "ok"     -> status = "ended" /\ ListAt(heap, chars, stk) = Promised.st
    [] Promised.is = "error"  -> status = "error"

\* A program leaves the stack that the manual promises, and stops with an error
\* only where the manual says so, unless a combinator has changed a node that
\* something else points to: the saved stacks, the C locals in the frames and
\* the nodes shared by all of them add up to plain functions on stacks.
ResultAsManual == status \in {"ended", "error", "crashed"} /\ ~spoiled => KeepsPromise

\* The same whether or not such a node has been changed.
ResultAlwaysAsManual == status \in {"ended", "error", "crashed"} => KeepsPromise
=============================================================================
