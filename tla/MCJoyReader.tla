------------------------------ MODULE MCJoyReader ------------------------------
(***************************************************************************)
(* What the reader of netjoy is for: each program is the term that is      *)
(* written, and the symbols of the files come in their order.              *)
(*                                                                         *)
(* Files for TLC: a library with a comment and a line for the system;      *)
(* sources with nested terms, errors, and files that include others; and   *)
(* every line of LineLength symbols between two programs.                 *)
(***************************************************************************)
EXTENDS JoyReader

\* The members of a set that is written at the beginning of t, and what follows.
RECURSIVE SetText(_, _)
SetText(t, members) ==
  IF t[1].sym = "RBRACE" THEN [value |-> Value(Sign("SET"), members, <<>>), rest |-> Tail(t)]
  ELSE SetText(Tail(t), members \cup {t[1].num % SETSIZE})

\* The values that are written at the beginning of t, and what follows them.
RECURSIVE TermText(_)
TermText(t) ==
  LET followed(value, rest) ==
        LET more == TermText(rest)
        IN  [list |-> <<value>> \o more.list, rest |-> more.rest]
  IN  IF t = <<>> \/ t[1].sym \in {"RBRACK", "RBRACE", "RPAREN", "PERIOD", "SEMICOL", "END"}
        THEN [list |-> <<>>, rest |-> t]
      ELSE CASE t[1].sym = "LBRACK" ->
                  LET inner == TermText(Tail(t))
                  IN  followed(Value(Sign("LIST"), {}, inner.list), Tail(inner.rest))
             [] t[1].sym = "LBRACE" ->
                  LET s == SetText(Tail(t), {}) IN followed(s.value, s.rest)
             [] OTHER -> followed(Value(t[1], {}, <<>>), Tail(t))

\* A program without an error is the list of what is written before the symbol
\* that ends it, each list in brackets a list of its own; the values that were
\* on the stack are below it, unchanged, and dump is what it was.  This is about
\* readterm, which moves each factor from the stack to the end of the list that
\* dump leads to, while lists within lists are read on the same stack.
ReadAsWritten ==
  At("run") /\ ~erred =>
    LET t == TermText(program)
    IN  /\ t.rest = <<sym>>
        /\ stk # 0 /\ ChainOf(heap, heap[stk].lis) = t.list
        /\ ChainOf(heap, heap[stk].next) = before
        /\ dump = 0

-----------------------------------------------------------------------------
\* The files that programs of one line include, in order.
IncludedBy(l) ==
  LET at == {i \in 1..Len(l) - 2 : /\ l[i].sym = "STRING" /\ l[i + 1] = Atom("include")
                                   /\ l[i + 2].sym = "PERIOD"}
  IN  [k \in 1..Cardinality(at) |-> l[SetToSortSeq(at, <)[k]].id]

\* The text of files with that of the files they include, where depth files are
\* open; the file opened last is read first.  A line has an end, a file a mark.
RECURSIVE FileText(_, _), FilesText(_, _)
FilesText(names, depth) ==
  IF names = <<>> THEN <<>>
  ELSE IF depth >= INPSTACKMAX \/ Head(names) \notin DOMAIN Files THEN FilesText(Tail(names), depth)
  ELSE FilesText(Tail(names), depth + 1)
         \o FileText(Files[Head(names)], depth + 1) \o <<Sign("eof")>>

FileText(f, depth) ==
  IF f.lines = <<>> THEN <<>>
  ELSE LET l == Head(f.lines)
       IN  IF Len(f.lines) = 1 /\ ~f.terminated THEN IF depth = 1 THEN <<>> ELSE l
           ELSE l \o <<Sign("eol")>> \o FilesText(IncludedBy(l), depth)
                  \o FileText([f EXCEPT !.lines = Tail(@)], depth)

RECURSIVE PastLine(_)
PastLine(t) == IF Head(t).sym = "eol" THEN Tail(t) ELSE PastLine(Tail(t))

\* The symbols of a text, without comments and lines for the system.
RECURSIVE SymbolsOf(_, _, _)
SymbolsOf(t, fresh, inside) ==
  IF t = <<>> THEN <<>>
  ELSE LET s == Head(t).sym
           next == SymbolsOf(Tail(t), s = "eol", IF inside THEN s # "*)" ELSE s = "(*")
       IN  CASE fresh /\ s = "$" -> SymbolsOf(PastLine(t), TRUE, inside)
             [] ~inside /\ s = "#" -> SymbolsOf(PastLine(t), TRUE, FALSE)
             [] inside \/ s \in {"(*", "*)", "eol", "eof"} -> next
             [] s = "open string" -> <<String(Head(t).id)>> \o next
             [] s = "$" -> <<Atom(Head(t).id)>> \o next
             [] OTHER -> <<Head(t)>> \o next

Written == SymbolsOf(FilesText(<<Usrlib>>, 1) \o FileText(source, 1), TRUE, FALSE)

\* getsym returns the symbols of the library, of the source and of the files
\* they include, each once and in order, those of a file after the line that
\* includes it; when the program ends it has returned all.  This is about getch,
\* whose stack of files is popped in the middle of a line, about doinclude, which
\* pushes on it while the rest of a line is in the buffer, and its limit.
InputInOrder ==
  /\ IsPrefix(delivered, Written)
  /\ quit => delivered = Written

-----------------------------------------------------------------------------
(***************************************************************************)
(* The files.                                                              *)
(***************************************************************************)
CONSTANT LineLength

One == Integer(1)
Two == Integer(2)
Dot == Sign("PERIOD")
Open == Sign("LBRACK")
Close == Sign("RBRACK")
Include(f) == <<String(f), Atom("include"), Dot>>
Autoputs(n) == <<Integer(n), Atom("setautoput"), Dot>>

Texts ==
  [usrlib |-> <<<<Sign("$"), Atom("date")>>,
                Autoputs(0),
                <<Sign("#"), One>>,
                <<Sign("(*"), Atom("a"), Sign("#")>>, <<Sign("*)"), Dot>>>>,
   nested |-> <<<<Open, One, Open, Close, Open, Two, Open, Atom("dup"), Close, Close, Close>>,
                <<Sign("LBRACE"), Two, One, Char(33), Close, Sign("RBRACE"), Boolean(1), Dot, Two>>,
                <<Sign("$"), Sign("*)")>>,
                <<Sign("LBRACE"), Two, One, Sign("RBRACE"), Open, Sign("LBRACE"), Sign("RBRACE"),
                  Float(0, "1.5"), Close, Dot>>,
                Autoputs(1), <<Open, Float(2, ""), Char(1), Close, Dot>>, <<One, Sign("END")>>,
                Autoputs(2), <<Close, Sign("SEMICOL"), Sign("RPAREN")>>, <<Open, One, Dot>>,
                <<Atom("dup"), String("a"), Dot>>>>,
   gets   |-> <<<<Atom("get"), Open, One, Open, Close, Close, Two, Dot, Atom("get"), Dot>>,
                <<Sign("LPAREN"), Dot>>, <<Atom("get"), Sign("LPAREN"), Two, Dot>>, <<Atom("get")>>,
                <<Dot, Sign("LBRACE"), Two>>, <<Sign("RBRACE"), Dot>>,
                <<Atom("setautoput"), Dot>>, <<Atom("include"), Dot>>>>,
   twice  |-> <<<<One>> \o Include("open") \o Include("short") \o <<Two, Dot>>,
                <<Sign("$"), One, Dot>>, <<Sign("$"), Two, Dot>>, <<One, Dot>>,
                Include("none") \o <<One, Dot>>, <<Two, Dot>>>>,
   deep   |-> <<<<One, Dot>>, Include("deep") \o <<Two, Dot>>, <<Integer(3), Dot>>>>,
   \* Its last line has no end, and begins a comment.
   short  |-> <<<<Open, One>>, <<Two, Close, Dot, Sign("#")>>>>,
   open   |-> <<<<Sign("open string")>>, <<Dot, Sign("(*")>>, <<One, Sign("*)"), Two, Dot>>>>,
   bare   |-> <<<<One, Sign("LPAREN"), Two, Dot>>>>,
   barer  |-> <<<<Sign("LPAREN"), Two, Dot>>>>,
   empty  |-> <<>>,
   lost   |-> <<Include("short") \o Include("empty"), <<Sign("$"), One, Dot>>, <<One, Dot>>, <<Two, Dot>>>>]

\* Lines of a few symbols, each with a number, between programs that leave
\* something on the stack.
Alphabet == <<Open, Close, Sign("LBRACE"), Sign("RBRACE"), Sign("LPAREN"), One, Atom("dup"), Dot>>
Size == Len(Alphabet)
Numbers == 0..Size ^ LineLength - 1
Line(n) == [i \in 1..LineLength |-> Alphabet[1 + ((n \div Size ^ (i - 1)) % Size)]]
Around(l) == <<<<Open, Two, Close, Two, Dot>>, l, <<Two, Sign("LBRACE"), Two, Sign("RBRACE"), Dot>>>>

MCFiles == [f \in DOMAIN Texts |-> File(Texts[f], f \notin {"short", "lost"})]
MCSources == {MCFiles[f] : f \in {"nested", "gets", "twice", "deep", "lost", "bare", "barer"}}
               \cup {File(Around(Line(n)), TRUE) : n \in Numbers}
=============================================================================
