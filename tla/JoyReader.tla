------------------------------ MODULE JoyReader ------------------------------
(***************************************************************************)
(* The scanner and the reader of netjoy.  The scanner (scan.c) has files   *)
(* that include one another, a buffer of one line, and getsym, which takes *)
(* symbols out of it.                                                      *)
(*                                                                         *)
(* The reader is readfactor and readterm (utils.c) and the loop of main    *)
(* that reads a program and runs it.  Terms are read onto the stack:       *)
(* readterm pushes an empty list, readfactor pushes each factor on top of  *)
(* it, and the factor is moved from there to the end of the list, which is *)
(* the node dump leads to.                                                 *)
(*                                                                         *)
(* A line is a sequence of lexemes: the symbols themselves, and what       *)
(* getsym passes over.  How numbers, names and the characters of a string  *)
(* are spelled is left out, and so are the length of a line and what is    *)
(* printed.  Of a program that runs, only literals and the operators are   *)
(* modelled that have to do with the input: include, get, and setautoput.  *)
(* Names are looked up in JoySymtab; here a name is an atom.               *)
(***************************************************************************)
EXTENDS Integers, Sequences, SequencesExt

CONSTANTS
  Files,         \* the files that can be included, by their names
  INPSTACKMAX,   \* the number of files that can be open
  Sources,       \* the files the program may be started with
  Usrlib,        \* the name of the library
  SETSIZE        \* the number of bits of a set

ASSUME ReaderAssumption == INPSTACKMAX \in Nat \ {0} /\ SETSIZE \in Nat \ {0}

\* A file: its lines, and whether the last of them has an end.  What is left to
\* read of a file is a file.
File(lines, terminated) == [lines |-> lines, terminated |-> terminated]

\* Symbols, with their num, and with their id: a name, the text of a string, the
\* digits of a float that is not whole.
Lexeme(s, n, i) == [sym |-> s, num |-> n, id |-> i]
Atom(i) == Lexeme("ATOM", 0, i)
Integer(n) == Lexeme("INTEGER", n, "")
Char(n) == Lexeme("CHAR", n, "")
Boolean(n) == Lexeme("BOOLEAN", n, "")
Float(n, i) == Lexeme("FLOAT", n, i)
String(i) == Lexeme("STRING", 0, i)
Sign(s) == Lexeme(s, 0, "")

\* What is no symbol: comments, a string without its second quote, a '$', and
\* the mark that getc returns at the end of a file.
Passed == {"(*", "*)", "#", "eof"}

VARIABLES
  infile,      \* the open files: what is left of each
  line,        \* what is left of linbuf
  comment,     \* getsym is in a comment
  sym,         \* the symbol: sym, num and id
  quit,        \* quit_ has ended the program
  errorcount,
  source,      \* the file it was started with
  heap,        \* nodes in the order in which they were made
  stk, dump, prog,
  pc,          \* what runs: see the actions
  getting,     \* getsym has been called
  calls,       \* the calls of readterm and readfactor in progress
  set,         \* the set readfactor collects
  autoput, mustinclude,
  program,     \* the symbols of this program
  before,      \* the values on the stack when it began
  erred,       \* error has been called since
  delivered    \* all symbols getsym has returned

scanVars == <<infile, line, comment, sym, quit, errorcount>>
readVars == <<heap, stk, dump, prog, pc, calls, set, autoput, mustinclude, before, erred>>
vars == <<source, scanVars, getting, program, delivered, readVars>>

-----------------------------------------------------------------------------
(***************************************************************************)
(* getch at the end of the line buffer.  The end of a file goes back to    *)
(* the file before, in the middle of the line.                             *)
(***************************************************************************)
Top == Len(infile)

RECURSIVE ReadLine(_, _)
ReadLine(files, had) ==
  LET top == Len(files)
      rest == files[top].lines
      text == had \o (IF rest = <<>> THEN <<>> ELSE Head(rest))
      pastEnd == rest = <<>> \/ (Len(rest) = 1 /\ ~files[top].terminated)
  IN  IF ~pastEnd THEN [files |-> [files EXCEPT ![top].lines = Tail(rest)], line |-> text,
                         quit |-> FALSE]
      ELSE IF top = 1 THEN [files |-> <<>>, line |-> <<>>, quit |-> TRUE]
      ELSE ReadLine(SubSeq(files, 1, top - 1), Append(text, Sign("eof")))

IsShell(l) == l # <<>> /\ l[1].sym = "$"

\* A line that begins with '$' is given to the system, and the next one is read.
RECURSIVE NextLine(_)
NextLine(files) ==
  LET r == ReadLine(files, <<>>)
  IN  IF ~r.quit /\ IsShell(r.line) THEN NextLine(r.files) ELSE r

SetLine(r) == infile' = r.files /\ line' = r.line /\ quit' = r.quit

-----------------------------------------------------------------------------
(***************************************************************************)
(* getsym, one lexeme at a time; `then' says what runs when it returns.    *)
(***************************************************************************)
Refill ==
  /\ line = <<>>
  /\ SetLine(NextLine(infile))
  /\ UNCHANGED <<comment, sym, errorcount>>

\* In a comment only its end counts.
Skip ==
  /\ line # <<>>
  /\ comment \/ Head(line).sym \in Passed
  /\ line' = IF ~comment /\ Head(line).sym = "#" THEN <<>> ELSE Tail(line)
  /\ comment' = IF comment THEN Head(line).sym # "*)" ELSE Head(line).sym = "(*"
  /\ UNCHANGED <<infile, sym, quit, errorcount>>

IsSymbol == line # <<>> /\ ~comment /\ Head(line).sym \notin Passed

\* A string ends with its line at the latest, and then the next line is read
\* already; a '$' inside a line begins a name.
TakeSymbol ==
  /\ IsSymbol
  /\ CASE Head(line).sym = "open string" ->
            sym' = String(Head(line).id) /\ SetLine(NextLine(infile))
       [] Head(line).sym = "$" ->
            sym' = Atom(Head(line).id) /\ line' = Tail(line) /\ UNCHANGED <<infile, quit>>
       [] OTHER ->
            sym' = Head(line) /\ line' = Tail(line) /\ UNCHANGED <<infile, quit>>
  /\ UNCHANGED <<comment, errorcount>>

\* error prints a message, and nothing else happens.
Reported == errorcount' = errorcount + 1

\* doinclude, when it does not end in execerror.
CanInclude(f) == Top < INPSTACKMAX /\ f \in DOMAIN Files

\* Mutant: the file takes the place of the one that includes it.
OpenedInstead(f) == [infile EXCEPT ![Top] = Files[f]]

Opened(f) == Append(infile, Files[f])

-----------------------------------------------------------------------------
(***************************************************************************)
(* Nodes.                                                                  *)
(***************************************************************************)
LastNode == Len(heap)
Cell(s, members, lis) == [s |-> s, set |-> members, lis |-> lis, next |-> stk]

\* The value of a node and of a chain of nodes; a list's is that of its chain.
Value(s, members, list) == [s |-> s, set |-> members, list |-> list]

RECURSIVE ChainOf(_, _)
ChainOf(h, n) ==
  IF n = 0 THEN <<>>
  ELSE <<Value(h[n].s, h[n].set, ChainOf(h, h[n].lis))>> \o ChainOf(h, h[n].next)

Push(c) == heap' = Append(heap, c) /\ stk' = LastNode + 1

-----------------------------------------------------------------------------
Init ==
  /\ source \in Sources /\ infile = <<source>> /\ line = <<>> /\ comment = FALSE
  /\ sym = Sign("ILLEGAL") /\ quit = FALSE /\ errorcount = 0
  /\ heap = <<>> /\ stk = 0 /\ dump = 0 /\ prog = 0
  /\ pc = "main" /\ getting = FALSE /\ calls = <<>> /\ set = {}
  /\ autoput = 1 /\ mustinclude = TRUE
  /\ program = <<>> /\ before = <<>> /\ erred = FALSE /\ delivered = <<>>

\* getsym goes on, and returns.
Scan ==
  /\ getting /\ ~quit
  /\ Refill \/ Skip
  /\ UNCHANGED <<getting, program, delivered, readVars>>

Getsym ==
  /\ getting /\ ~quit
  /\ TakeSymbol
  /\ getting' = FALSE
  /\ program' = IF quit' THEN program ELSE Append(program, sym')
  /\ delivered' = IF quit' THEN delivered ELSE Append(delivered, sym')
  /\ UNCHANGED readVars

At(label) == pc = label /\ ~getting /\ ~quit

Goto(label) == pc' = label /\ UNCHANGED getting
GetsymThen(label) == pc' = label /\ getting' = TRUE

Input == <<infile, line, comment, quit, sym>>
Reading == <<autoput, mustinclude, before, program, delivered, prog>>
NoError == UNCHANGED <<errorcount, erred>>
Error == Reported /\ erred' = TRUE

\* A pointer that is NULL is followed.
Crash == pc' = "crash" /\ UNCHANGED <<getting, heap, stk, dump, calls, set>>

IsFactorStart == sym.sym \in {"LBRACK", "LBRACE", "LPAREN", "ATOM", "BOOLEAN", "CHAR",
                              "INTEGER", "STRING", "FLOAT"}

-----------------------------------------------------------------------------
(***************************************************************************)
(* readterm, from its first line.                                          *)
(***************************************************************************)
Called(c) == calls' = Append(calls, c)
Caller == calls[Len(calls)]
Returned == calls' = SubSeq(calls, 1, Len(calls) - 1)

Term ==
  /\ At("term")
  /\ IF IsFactorStart THEN Goto("factor") /\ Called("first")
                      ELSE Goto("term ends") /\ UNCHANGED calls
  /\ UNCHANGED <<Input, Reading, heap, stk, dump, set>> /\ NoError

TermGoesOn ==
  /\ At("more")
  /\ IF IsFactorStart
       THEN Goto("factor") /\ Called("later") /\ UNCHANGED dump
       ELSE Goto("term ends") /\ UNCHANGED calls /\ dump' = heap[dump].next
  /\ UNCHANGED <<Input, Reading, heap, stk, set>> /\ NoError

\* readterm returns, to main or to the readfactor of a list in brackets.
TermEnds ==
  /\ At("term ends")
  /\ IF Caller = "main" THEN Goto("run") /\ NoError
     ELSE /\ Goto("factor ends")
          /\ IF sym.sym = "RBRACK" THEN NoError ELSE Error
  /\ Returned
  /\ UNCHANGED <<Input, Reading, heap, stk, dump, set>>

-----------------------------------------------------------------------------
(***************************************************************************)
(* readfactor.                                                             *)
(***************************************************************************)
Literal ==
  /\ At("factor") /\ sym.sym \in {"ATOM", "BOOLEAN", "CHAR", "INTEGER", "STRING", "FLOAT"}
  /\ Push(Cell(sym, {}, 0))
  /\ Goto("factor ends")
  /\ UNCHANGED <<Input, Reading, dump, calls, set>> /\ NoError

OpenSet ==
  /\ At("factor") /\ sym.sym = "LBRACE"
  /\ set' = {} /\ GetsymThen("set")
  /\ UNCHANGED <<Input, Reading, heap, stk, dump, calls>> /\ NoError

\* 1 << num, where the shift takes num modulo the size of an int.
Member ==
  /\ At("set") /\ sym.sym # "RBRACE"
  /\ IF sym.sym \in {"CHAR", "INTEGER"}
       THEN set' = set \cup {sym.num % SETSIZE} /\ NoError
       ELSE UNCHANGED set /\ Error
  /\ GetsymThen("set")
  /\ UNCHANGED <<Input, Reading, heap, stk, dump, calls>>

CloseSet ==
  /\ At("set") /\ sym.sym = "RBRACE"
  /\ Push(Cell(Sign("SET"), set, 0))
  /\ Goto("factor ends")
  /\ UNCHANGED <<Input, Reading, dump, calls, set>> /\ NoError

OpenList ==
  /\ At("factor") /\ sym.sym = "LBRACK"
  /\ GetsymThen("list")
  /\ UNCHANGED <<Input, Reading, heap, stk, dump, calls, set>> /\ NoError

\* Nothing is pushed for a '(' (the next symbol is read) and for what begins no
\* factor, which only get can meet.
NoFactor ==
  /\ At("factor")
  /\ \/ sym.sym = "LPAREN" /\ GetsymThen("factor ends")
     \/ ~IsFactorStart /\ Goto("factor ends")
  /\ Error
  /\ UNCHANGED <<Input, Reading, heap, stk, dump, calls, set>>

\* readterm begins with an empty list on the stack.
BeginTerm(caller) ==
  /\ Push(Cell(Sign("LIST"), {}, 0)) /\ Called(caller) /\ Goto("term")

BeginList ==
  /\ At("list") /\ BeginTerm("list")
  /\ UNCHANGED <<Input, Reading, dump, set>> /\ NoError

(***************************************************************************)
(* readterm with the factor that has been read.                            *)
(***************************************************************************)
LinkFirst ==
  LET list == heap[stk].next
  IN  IF list = 0 THEN Crash
      ELSE /\ heap' = Append([heap EXCEPT ![list].lis = stk, ![list].s.num = 0,
                                          ![list].s.id = "", ![list].set = {}, ![stk].next = 0],
                             [Cell(Sign("LIST"), {}, stk) EXCEPT !.next = dump])
           /\ stk' = list /\ dump' = LastNode + 1
           /\ Returned /\ GetsymThen("more") /\ UNCHANGED set

\* Mutant: the end of the list stays where it was.
LinkLaterStill ==
  LET last == heap[dump].lis
  IN  IF stk = 0 THEN Crash
      ELSE /\ heap' = [heap EXCEPT ![last].next = stk, ![stk].next = 0]
           /\ stk' = heap[stk].next
           /\ Returned /\ GetsymThen("more") /\ UNCHANGED <<dump, set>>

LinkLater ==
  LET last == heap[dump].lis
  IN  IF stk = 0 THEN Crash
      ELSE /\ heap' = [heap EXCEPT ![last].next = stk, ![stk].next = 0, ![dump].lis = stk]
           /\ stk' = heap[stk].next
           /\ Returned /\ GetsymThen("more") /\ UNCHANGED <<dump, set>>

FactorEnds ==
  /\ At("factor ends")
  /\ CASE Caller = "first" -> LinkFirst
       [] Caller = "later" -> LinkLater
       [] OTHER -> Returned /\ Goto("next") /\ UNCHANGED <<heap, stk, dump, set>>
  /\ UNCHANGED <<Input, Reading>> /\ NoError

-----------------------------------------------------------------------------
(***************************************************************************)
(* main.  The library is included before the first program is read.        *)
(***************************************************************************)
Loop ==
  /\ At("main")
  /\ mustinclude' = FALSE
  /\ infile' = IF mustinclude /\ CanInclude(Usrlib) THEN Opened(Usrlib) ELSE infile
  /\ program' = <<>> /\ before' = ChainOf(heap, stk) /\ erred' = FALSE
  /\ GetsymThen("program")
  /\ UNCHANGED <<line, comment, quit, sym, errorcount, delivered, heap, stk, dump,
                 prog, calls, set, autoput>>

BeginProgram ==
  /\ At("program") /\ BeginTerm("main")
  /\ UNCHANGED <<Input, Reading, dump, set>> /\ NoError

Run ==
  /\ At("run")
  /\ IF stk = 0 THEN Crash /\ UNCHANGED prog
     ELSE /\ prog' = heap[stk].lis /\ stk' = heap[stk].next
          /\ Goto("exec") /\ UNCHANGED <<heap, dump, calls, set>>
  /\ UNCHANGED <<Input, autoput, mustinclude, before, program, delivered>> /\ NoError

Op == heap[prog].s.id

\* execerror: the program is given up, and main's loop begins again.
Abort ==
  /\ dump' = 0 /\ calls' = <<>> /\ Goto("main")
  /\ UNCHANGED <<Input, Reading, heap, stk, set>> /\ NoError

Exec ==
  /\ At("exec") /\ prog # 0
  /\ heap[prog].s.sym # "ATOM"
  /\ Push([heap[prog] EXCEPT !.next = stk])
  /\ Goto("next")
  /\ UNCHANGED <<Input, Reading, dump, calls, set>> /\ NoError

\* A name without a body, when undeferror is 0.
ExecUndefined ==
  /\ At("exec") /\ prog # 0
  /\ heap[prog].s.sym = "ATOM" /\ Op \notin {"include", "get", "setautoput"}
  /\ Goto("next")
  /\ UNCHANGED <<Input, Reading, heap, stk, dump, calls, set>> /\ NoError

ExecInclude ==
  /\ At("exec") /\ prog # 0 /\ heap[prog].s.sym = "ATOM" /\ Op = "include"
  /\ IF stk # 0 /\ heap[stk].s.sym = "STRING" /\ CanInclude(heap[stk].s.id)
       THEN /\ infile' = Opened(heap[stk].s.id)
            /\ stk' = heap[stk].next /\ Goto("next")
            /\ UNCHANGED <<line, comment, quit, sym, Reading, heap, dump, calls, set>> /\ NoError
       ELSE Abort

ExecGet ==
  /\ At("exec") /\ prog # 0 /\ heap[prog].s.sym = "ATOM" /\ Op = "get"
  /\ Called("get") /\ GetsymThen("factor")
  /\ UNCHANGED <<Input, Reading, heap, stk, dump, set>> /\ NoError

ExecSetautoput ==
  /\ At("exec") /\ prog # 0 /\ heap[prog].s.sym = "ATOM" /\ Op = "setautoput"
  /\ IF stk # 0 /\ heap[stk].s.sym = "INTEGER"
       THEN /\ autoput' = heap[stk].s.num /\ stk' = heap[stk].next /\ Goto("next")
            /\ UNCHANGED <<Input, mustinclude, before, program, delivered, prog,
                           heap, dump, calls, set>> /\ NoError
       ELSE Abort

ExecNext ==
  /\ At("next")
  /\ prog' = heap[prog].next /\ Goto("exec")
  /\ UNCHANGED <<Input, autoput, mustinclude, before, program, delivered,
                 heap, stk, dump, calls, set>> /\ NoError

\* The end of a program: autoput 1 takes the value it prints off the stack.
Autoput ==
  /\ At("exec") /\ prog = 0
  /\ stk' = IF autoput = 1 /\ stk # 0 THEN heap[stk].next ELSE stk
  /\ Goto("main")
  /\ IF sym.sym \in {"END", "PERIOD"} THEN NoError ELSE Error
  /\ UNCHANGED <<Input, Reading, heap, dump, calls, set>>

Step ==
  \/ Scan \/ Getsym
  \/ Term \/ TermGoesOn \/ TermEnds
  \/ Literal \/ OpenSet \/ Member \/ CloseSet \/ OpenList \/ NoFactor \/ BeginList
  \/ FactorEnds
  \/ Loop \/ BeginProgram \/ Run
  \/ Exec \/ ExecUndefined \/ ExecInclude \/ ExecGet \/ ExecSetautoput \/ ExecNext \/ Autoput

\* The program has ended, by quit_ or by following a null pointer.
Ended == (quit \/ pc = "crash") /\ UNCHANGED vars

Next == (Step /\ UNCHANGED source) \/ Ended

Spec == Init /\ [][Next]_vars
=============================================================================
