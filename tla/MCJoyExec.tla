------------------------------ MODULE MCJoyExec ------------------------------
(* Joy programs for TLC. *)
EXTENDS JoyManual

N(k) == Number(k)
Q(t) == List(t)
W(o) == [op |-> o, num |-> 1, lis |-> <<>>]
D(k) == [op |-> "USR", num |-> k, lis |-> <<>>]
S(ks) == SetOfNumbers(ks)
Str(ks) == [op |-> "STRING", num |-> 0, lis |-> [k \in DOMAIN ks |-> Char(ks[k])]]

\* The nodes and characters m with those of the text in front, which p points to.
RECURSIVE Put(_, _)
Put(text, m) ==
  IF text = <<>> THEN [p |-> NULL, h |-> m.h, c |-> m.c]
  ELSE LET v    == Head(text)
           tail == Put(Tail(text), m)
           lis  == IF v.op = "LIST" THEN Put(v.lis, tail) ELSE tail
           cs   == IF v.op # "STRING" THEN lis.c
                   ELSE Append(lis.c, [k \in DOMAIN v.lis |-> v.lis[k].num] \o <<0>>)
           u    == CASE v.op = "LIST" -> lis.p
                     [] v.op = "STRING" -> Len(cs) * Stride
                     [] v.op = "SET" -> SetOf(NumbersIn(v))
                     [] v.op \notin Aggregates -> v.num
       IN  [p |-> Len(lis.h) + 1, h |-> Append(lis.h, Cell(v.op, u, tail.p)), c |-> cs]

\* The same for all the texts.  (The test has TLC place one text before the next.)
RECURSIVE PutAll(_, _)
PutAll(texts, m) ==
  IF texts = <<>> THEN [ps |-> <<>>, h |-> m.h, c |-> m.c]
  ELSE LET one  == Put(Head(texts), m)
           more == PutAll(Tail(texts), one)
       IN  IF Len(one.h) >= Len(m.h) THEN [more EXCEPT !.ps = <<one.p>> \o @] ELSE more

Placed(bodies) == PutAll(bodies, [h |-> <<>>, c |-> <<>>])
NoBodies == Placed(<<>>)

Image(progs, b, flags) ==
  LET p == PutAll(progs, b)
  IN  [heap |-> p.h, chars |-> p.c, progs |-> p.ps, bodies |-> b.ps,
       autoput |-> flags.autoput, undeferror |-> flags.undeferror]

\* The interpreter's own settings, and the others.
Default == [autoput |-> 1, undeferror |-> FALSE]
Other   == [autoput |-> 0, undeferror |-> TRUE]

Program(text) == Image(<<text>>, NoBodies, Default)

Ops(o)    == Q(<<W(o)>>)
Nil       == Q(<<>>)
Quoted    == {Nil, Q(<<N(9)>>), Q(<<W("pop"), W("pop")>>), Q(<<W("stack")>>)}
               \cup {Ops(o) : o \in {"pop", "dup", "swap", "pred", "null", "+", "unstack"}}
Stacks    == {<<>>, <<N(2)>>, <<N(3), N(1)>>, <<N(8), N(2), N(0)>>, <<Q(<<N(2), N(0)>>)>>,
              <<N(3), Q(<<N(1), N(2)>>)>>, <<N(1), Q(<<N(1)>>), N(1)>>, <<Nil, N(3), N(2)>>}

\* A stack, a quotation, and a combinator that checks for what it uses.
OneQuotation ==
  {s \o <<q, W(c)>> : s \in Stacks, q \in Quoted,
     c \in {"i", "x", "dip", "nullary", "unary", "binary", "ternary", "times", "infra", "app1",
            "app11", "unary2", "step", "fold", "some", "all"}}
  \cup {<<N(5)>> \o s \o <<q, W("app12")>> : s \in {<<N(8), N(2), N(0)>>, <<Nil, N(3), N(2)>>},
                                             q \in Quoted}
  \cup {<<N(99), W("unstack")>>}

Few   == {Nil, Q(<<N(9)>>), Ops("pop"), Ops("pred"), Ops("null"), Ops("dup"), Ops("stack")}
Short == {<<>>, <<N(2)>>, <<Q(<<N(2), N(0)>>)>>, <<N(8), Nil>>, <<N(5), N(3), N(1)>>}

TwoQuotations ==
  {s \o <<p, q, W(c)>> : s \in Short, p \in Few, q \in Few \ {Nil},
                         c \in {"cleave", "branch", "construct", "primrec"}}
  \cup {s \o <<p, q, W("iflist")>> : s \in Short \ {<<>>}, p \in Few, q \in Few}
  \cup {s \o <<p, Q(<<q, Q(<<N(7)>>)>>), W("construct")>> : s \in Short, p \in Few, q \in Few}
  \cup {s \o <<Q(<<Q(<<p, W("dup")>>), Q(<<q>>)>>), W("cond")>> : s \in Short, p \in Few, q \in Few}
  \cup {s \o <<p, q, Q(<<N(4)>>), W("ifte")>> : s \in Short, p \in Few, q \in Few}

\* Loops and recursions that end: each counts down to 0.
Tests == {Nil, Ops("dup"), Q(<<W("null"), W("null")>>)}
Down  == {Ops("pred"), Q(<<W("dup"), W("pop"), W("pred")>>)}
Zero  == {Ops("null"), Q(<<W("dup"), W("null")>>)}

Ending ==
  {<<N(6), N(k), t, d, W("while")>> : k \in 0 .. 3, t \in Tests, d \in Down}
  \cup {<<N(k), z, q, d, W("tailrec")>> : k \in 0 .. 3, z \in Zero, q \in Few, d \in Down}
  \cup {<<N(k), z, q, Q(<<W("dup"), W("pred")>>), c, W("linrec")>> :
          k \in 0 .. 2, z \in Zero, q \in Few, c \in {Ops("+"), Ops("pop"), Nil}}
  \cup {<<N(k), Ops("null"), q, Q(<<W("pred"), W("dup")>>), c, W("binrec")>> :
          k \in 0 .. 2, q \in Few, c \in {Ops("+"), Ops("swap"), Ops("pop")}}

\* Combinators in one another: a quotation and a combinator, quoted.
Inner == {Q(<<N(2), Ops("dup"), W("times")>>), Q(<<Ops("pred"), W("unary")>>),
          Q(<<Q(<<W("dup"), W("abort")>>), W("i")>>),
          Q(<<Ops("pop"), Q(<<Ops("dup"), Ops("null")>>), W("construct")>>),
          Q(<<Ops("null"), Nil, Q(<<W("pred"), W("dup")>>), Ops("+"), W("binrec")>>),
          Q(<<Ops("pred"), Ops("dup"), W("cleave")>>)}

Nested == {s \o <<q, W(c)>> : s \in Stacks, q \in Inner,
             c \in {"i", "x", "dip", "nullary", "binary", "infra", "unary2", "step", "some"}}

\* Definitions: a recursion by name, a tail call, an undefined name, a tail
\* recursion in a quotation, and a tail call of an undefined name.
Bodies ==
  << <<Ops("null"), Nil, Q(<<W("dup"), W("pred"), D(1), W("+")>>), W("ifte")>>,
     <<W("dup"), D(4)>>,
     <<>>,
     <<W("pred"), W("swap")>>,
     <<W("dup"), W("null"), Nil, Q(<<W("pred"), D(5)>>), W("branch")>>,
     <<N(1), D(3)>> >>

PlacedBodies == Placed(Bodies)

\* Programs that go on with the stack that those before them left.
Typed ==
  {<<>>, <<Q(<<D(4)>>), W("first"), W("body")>>, <<N(2), D(1)>>, <<D(2), D(2)>>, <<N(2), D(5), D(2)>>,
   <<D(6), N(4)>>, <<N(1), D(6)>>,
   <<Q(<<D(2), N(3)>>), W("i"), D(3), N(5)>>, <<Q(<<N(3), W("abort")>>), W("nullary")>>,
   <<W("stack"), Ops("abort"), W("step")>>,
   <<Q(<<N(1), N(0), N(2)>>), Q(<<Ops("pop"), Q(<<Nil, Ops("+")>>), W("construct")>>), W("step")>>}

-----------------------------------------------------------------------------
(* Operators, on values of all types. *)

Plain == {N(-1), N(0), N(2), Logical(FALSE), Logical(TRUE), Char(1), Halves(3), Halves(-3)}
Some  == {Nil, Q(<<N(2)>>), Q(<<N(0), Nil>>), S({}), S({0, 2}), S({3}), Str(<<>>), Str(<<1>>),
          Str(<<1, 2>>)}
Values_ == Plain \cup Some

Tops    == Values_ \ {Logical(TRUE), Halves(-3), S({}), Q(<<N(0), Nil>>)}

OfOne   == {o \in Operators : Asks(o) <= 1}
OfTwo   == {o \in Operators : Asks(o) = 2} \cup {"opcase"}
OfMore  == {o \in Operators : Asks(o) > 2}

\* What only a quoted program delivers: a name, an operator.
Parts == {<<Q(<<v>>), W("first")>> : v \in {D(1), W("dup")}}

Operating ==
  {<<v, W(o)>> : v \in Values_, o \in OfOne}
  \cup {<<v, w, W(o)>> : v \in Values_ \ {Logical(FALSE), Halves(-3), S({0, 2})}, w \in Tops, o \in OfTwo}
  \cup {p \o <<W(o)>> : p \in Parts, o \in OfOne}
  \cup {p \o <<v, W(o)>> : v \in {N(2), Str(<<1>>), Q(<<N(2)>>), S({3})}, p \in Parts, o \in OfTwo}
  \cup {<<v>> \o p \o <<W(o)>> : v \in {N(2), Str(<<1>>), Q(<<N(2)>>), S({3})}, p \in Parts, o \in OfTwo}
  \cup {<<N(5), N(4), v, w, W(o)>> : v \in Some, w \in Some, o \in OfMore}
  \cup {<<v, Nil, Str(<<2>>), W(o)>> : v \in Values_, o \in OfMore}
  \cup {<<N(3), Char(1), v, v, W("enconcat")>> : v \in Some}
  \cup {<<N(2), W(o)>> : o \in OfTwo \cup OfMore}
  \cup {<<W(o)>> : o \in Operators}

\* Clauses by type, and by value.
ByTypes == Q(<<Q(<<N(0), N(7)>>), Q(<<Str(<<>>), N(8)>>), Q(<<Nil>>), Q(<<N(9)>>)>>)
ByValue == {Q(<<Q(<<N(2), W("dup")>>), Q(<<Char(1), N(7)>>), Q(<<Nil, N(8)>>), Q(<<W("pop")>>)>>),
            Q(<<Q(<<N(0), N(7)>>), Q(<<N(2)>>), Q(<<W("dup")>>)>>)}

Choosing ==
  {<<N(5), v, ByTypes, W("opcase")>> : v \in Values_}
  \cup {<<N(5), v, b, W("case")>> : v \in Values_, b \in ByValue}
  \cup {<<N(5), v, Ops("dup"), Ops("pop"), W(c)>> : v \in Values_, c \in DOMAIN IfType}

-----------------------------------------------------------------------------
(* Aggregates, trees, and recursions of more than one case. *)

Walking ==
  {<<N(5), a, q, W(c)>> :
     a \in {N(2), Q(<<N(2), N(0)>>), S({}), S({0, 3}), Str(<<>>), Str(<<1, 2>>), Q(<<Nil, N(1)>>)},
     q \in {Nil, Ops("pop"), Ops("null"), Ops("succ"), Ops("dup"), Q(<<N(0), W(">")>>),
            Q(<<W("pop"), Halves(3)>>), Q(<<W("pop"), W("pop")>>)},
     c \in {"step", "map", "filter", "split", "some", "all", "treestep"}}
  \cup {<<N(6), a, N(0), Ops(o), W("fold")>> :
           a \in {Q(<<N(2), N(1)>>), S({1, 3}), Str(<<1, 2>>), N(3)}, o \in {"+", "-", "swap"}}
  \cup {<<N(6), a, p, q, W("primrec")>> :
           a \in {Nil, S({1, 3}), Str(<<1, 2>>), Halves(3), N(-1)}, p \in {Nil, Ops("dup")},
           q \in {Ops("pop"), Ops("swons"), Ops("-")}}

Several ==
  {<<N(9), N(8), N(2), N(1), q, W(c)>> : q \in Few, c \in {"unary3", "unary4"}}
  \cup {<<N(2), N(1), Ops("dup"), W(c)>> : c \in {"unary3", "unary4"}}

Tree == Q(<<N(2), Q(<<N(1), Nil, N(3)>>), Q(<<Nil>>)>>)

Trees ==
  {<<N(0), t, q, W("treestep")>> : t \in {Tree, Nil, Q(<<Tree>>)}, q \in {Ops("+"), Ops("pop"), Nil}}
  \cup {<<t, o, c, W("treerec")>> :
           t \in {Tree, Nil, N(3)}, o \in {Ops("succ"), Ops("dup")}, c \in {Ops("map"), Ops("pop"), Ops("step")}}
  \cup {<<t, o, p, c, W("treegenrec")>> :
           t \in {Tree, Nil, N(3)}, o \in {Ops("succ"), Ops("pop")}, p \in {Nil, Ops("rest"), Ops("dup")},
           c \in {Ops("map"), Ops("pop"), Ops("step")}}

\* Two clauses, the second of them the default: either may be the one that recurses.
Down1 == {<<Ops("pred")>>, <<Ops("pred"), Ops("succ")>>, <<Q(<<W("dup"), W("pred")>>), Ops("pop")>>}
Down2 == {<<Ops("pred"), Nil, Nil>>, <<Q(<<W("dup"), W("pred")>>), Nil, Ops("+")>>}
Ground == {<<Nil>>, <<>>, <<Ops("succ")>>}

Branching(c) ==
  {<<N(5), N(k), Q(<<Q(<<z>> \o g), Q(d)>>), W(c)>> :
     k \in 0 .. 2, z \in Zero, g \in Ground, d \in Down1}
  \cup {<<N(5), N(k), Q(<<Q(<<t>> \o d), Q(g)>>), W(c)>> :
          k \in 0 .. 2, t \in {Nil, Ops("dup")}, g \in Ground, d \in Down1}
  \cup {<<N(5), N(k), Q(<<Q(<<z, Nil>>), Q(d)>>), W(c)>> : k \in 0 .. 2, z \in Zero, d \in Down2}

Starting ==
  {<<N(k), z, q, p, c, W("genrec")>> :
     k \in 0 .. 2, z \in Zero, q \in {Nil, Ops("succ"), Ops("pop")},
     p \in {Ops("pred"), Q(<<W("dup"), W("pred")>>)}, c \in {Ops("i"), Q(<<W("i"), W("+")>>), Ops("pop"), Q(<<W("i"), W("swap")>>)}}

-----------------------------------------------------------------------------
(* Text, times and streams. *)

\* ab, c; and a line longer than twice the room for one, x, and no end.
MCDisk == << [path |-> <<1>>, holds |-> <<97, 98, 10, 99, 10>>],
             [path |-> <<2>>, holds |-> <<97, 98, 99, 100, 101, 102, 103, 104, 105, 106, 10, 120, 10, 121>>] >>

Opening(k) == <<Str(<<k>>), Str(ReadMode), W("fopen")>>

\* What may be done with a stream, which is on top again afterwards.
Steps ==
  {<<W(o), W("swap")>> : o \in {"fgetch", "fgets", "feof", "ferror", "ftell"}}
  \cup {<<W("fflush")>>, <<W("fclose")>>, <<W("dup")>>, <<N(2), W("fread")>>, <<N(-1), W("fread")>>}
  \cup {<<Char(97), W("fputch")>>, <<N(97), W("fputch")>>, <<Str(<<1>>), W("fputchars")>>,
         <<N(1), W("fputchars")>>, <<Q(<<N(97)>>), W("fwrite")>>, <<Nil, W("fwrite")>>, <<N(5), W("fput")>>}
  \cup {<<N(p), N(w), W("fseek"), W("pop")>> : p \in {-1, 2}, w \in 0 .. 3}
  \cup {<<Nil, W("cons"), W("i")>>, <<Ops("fgetch"), W("i")>>, <<N(0), W("swap"), Nil, Ops("pop"), W("iffile")>>}

Reading == {<<W("fgetch"), W("swap")>>, <<W("fgets"), W("swap")>>, <<W("feof"), W("swap")>>}

Streaming ==
  {Opening(1) \o s \o t : s \in Steps, t \in Steps}
  \cup {Opening(k) \o s : k \in 2 .. 3, s \in Steps}
  \cup {Opening(2) \o s \o t \o u \o v : s \in Reading, t \in Reading, u \in Reading, v \in Reading}

Odd == {N(2), Str(<<1>>), Q(<<N(2)>>), Q(<<Nil>>), Char(100)}

Librarian ==
  {<<v, W(o)>> : v \in Odd, o \in {o \in Library : LibraryAsks[o] = 1}}
  \cup {<<v, w, W(o)>> : v \in Odd, w \in Odd, o \in {o \in Library : LibraryAsks[o] = 2}}
  \cup {<<N(0), v, w, W("fseek")>> : v \in Odd, w \in Odd}
  \cup {<<N(5), Char(100), v, w, W("format")>> : v \in Odd, w \in Odd}
  \cup {<<N(2), W(o)>> : o \in {o \in Library : LibraryAsks[o] > 1}}

Numerals == {<<>>, <<49, 50>>, <<45, 55>>, <<48, 120, 49, 102>>, <<48, 49, 55>>, <<49, 46, 53>>,
             <<45, 50, 46, 55, 49>>, <<122>>}

Converting ==
  {<<N(9), Str(s), N(b), W("strtol")>> : s \in Numerals, b \in {0, 1, 8, 16, 36}}
  \cup {<<N(9), Str(s), W("strtod")>> : s \in Numerals}
  \cup {<<N(9), n, Char(c), N(i), N(j), W(o)>> :
           n \in {N(0), N(83), N(-5), Char(7), Halves(3), Halves(-5), Str(<<1>>)},
           c \in {100, 111, 88, 102, 101}, i \in {-3, 5}, j \in {0, 2}, o \in {"format", "formatf"}}

\* 1970-01-01 is a Thursday.
Instants == {-1, 3 * Day, 365 * Day + 59 * Day + 3723}

Timing ==
  {<<N(9), N(t), W("gmtime")>> : t \in Instants}
  \cup {<<N(9), N(t), W("localtime"), W("mktime")>> : t \in Instants}
  \cup {<<N(t), W("localtime"), Str(<<46, 37, 65>>), W("strftime")>> : t \in Instants}
  \cup {<<N(3 * Day), W("gmtime"), Str(<<37, 65>>), W("strftime")>>}
  \cup {<<Q(t), W("mktime")>> :
           t \in {<<N(1970)>>, <<N(1970), N(2), N(3)>>, <<N(1970), N(1), N(2), Logical(FALSE), N(3), N(4)>>,
                   <<N(1970), N(1), N(1), N(0), N(0), N(0), Logical(FALSE), N(9), N(4)>>, <<Char(1), N(1)>>}}

MCImages ==
  {Program(t) : t \in OneQuotation \cup TwoQuotations \cup Nested \cup Ending
                     \cup Operating \cup Choosing \cup Walking \cup Several \cup Trees \cup Starting
                     \cup Streaming \cup Librarian \cup Converting \cup Timing
                     \cup Branching("condlinrec") \cup Branching("condnestrec")}
  \cup {Image(<<p \o <<W("body")>>>>, PlacedBodies, Default) : p \in Parts \cup {<<N(1)>>, <<>>}}
  \cup {Image(s, PlacedBodies, f) : s \in [1 .. 2 -> Typed], f \in {Default, Other}}
  \cup {Image(s \o s, PlacedBodies, Default) : s \in [1 .. 2 -> Typed]}

\* Where the code differs from the manual: programs that write to a node of the
\* saved stack, to its strings or to the body of a definition, and operators that
\* do not do what their text says.
MCShared ==
  {Program(<<N(5), Ops("dup"), Ops("pred"), Q(<<W("while")>>), W("nullary")>>),
   Program(<<Str(<<1>>), Str(<<2>>), Ops("concat"), W("nullary")>>),
   Program(<<Halves(3), Halves(5), W("equal")>>),
   Program(<<S({3}), N(3), W("has")>>),
   Program(<<Str(<<3>>), Str(<<1>>), W("compare")>>),
   Program(<<N(5), ByTypes, W("opcase")>>),
   Program(<<Nil, N(1), W("take")>>),
   Program(<<N(1), N(2), Ops("dup"), W("app12")>>),
   Program(<<Ops("dup"), Nil, W("iflist")>>),
   Program(Opening(2) \o <<W("fgets")>>),
   Program(Opening(1) \o <<N(2), W("fread")>>),
   Program(Opening(1) \o <<Nil, W("cons"), W("i")>>),
   Program(<<N(3 * Day), W("gmtime"), Str(<<37, 65>>), W("strftime")>>),
   Image(<< <<D(1)>>, <<D(1)>> >>,
         Placed(<< <<Q(<<N(3), N(2), N(1)>>), W("unstack"), Nil, W("app11")>> >>),
         [Default EXCEPT !.autoput = 0])}
=============================================================================
