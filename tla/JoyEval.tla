------------------------------- MODULE JoyEval -------------------------------
(***************************************************************************)
(* The evaluator of the Joy interpreter: exeterm, the operators it calls,  *)
(* and what its combinators (JoyExec) are built from                       *)
(* (src/NetRexx/languages/netjoy/interp.c).                                *)
(*                                                                         *)
(* exeterm runs a program, a list of nodes, from a node on conts that is   *)
(* stepped along the list.  A combinator saves the stack on dump, sets stk *)
(* to what its program is to see, calls exeterm, and puts together the new *)
(* stack from what it saved (SAVED1, SAVED2, ...).  The activations of     *)
(* exeterm and of the combinators, C's own stack, are the variable frames; *)
(* one action is what a procedure does up to its next call.                *)
(*                                                                         *)
(* Nodes are shared by stacks, lists and programs, and some combinators    *)
(* write to them; so nodes are cells of a heap, as in the code.  Nothing   *)
(* is collected here: a collection keeps the graph that the roots reach    *)
(* (JoyMemory).                                                            *)
(***************************************************************************)
EXTENDS JoyLibrary

CONSTANTS
  Images,      \* what the reader delivers: nodes, programs, definitions, flags
  MaxCells,    \* bound: the nodes that are ever made
  MaxDepth     \* bound: how deep lists in lists are compared

ASSUME ImageAssumption ==
  /\ \A im \in Images : im.autoput \in 0 .. 2 /\ im.undeferror \in BOOLEAN
  /\ MaxCells \in Nat /\ MaxDepth \in Nat

\* The roots that procedures have to leave as they found them.
Kept  == {"conts", "dump", "dump1", "dump2", "dump3", "dump4", "dump5"}
Roots == Kept \cup {"stk"}

Combinators == {"i", "x", "dip", "nullary", "unary", "binary", "ternary", "times", "infra",
                "app1", "app11", "app12", "cleave", "unary2", "unary3", "unary4", "step",
                "map", "filter", "split", "fold", "cond", "case", "branch", "ifinteger",
                "ifchar", "iflogical", "ifset", "ifstring", "iflist", "iffloat", "iffile", "while",
                "ifte", "linrec", "tailrec", "binrec", "genrec", "condnestrec",
                "condlinrec", "primrec", "construct", "some", "all", "treestep", "treerec",
                "treegenrec"}

\* What an ANON_FUNCT_ node may execute.
Anonymous  == {"genrecaux", "treerecaux", "treegenrecaux"}

\* exeterm, and the procedures behind the recursive combinators.
Procedures == Combinators \cup Anonymous
              \cup {"exeterm", "linrecaux", "tailrecaux", "binrecaux", "treestepaux",
                    "condlinrecaux", "condnestrecaux"}

Node == [op : Constants \cup {"USR", "FILE", "body"} \cup Operators \cup Library \cup Combinators
              \cup Anonymous,
         u : Int, next : Nat]

VARIABLES
  image,    \* the program text, the bodies of the definitions, and the flags
            \* autoput and undeferror
  heap,     \* the nodes, in the order they were made
  chars,    \* the characters of the strings, and the streams
  root,     \* stk, conts and the dumps
  frames,   \* the activations of exeterm and the combinators
  todo,     \* the programs main has still to read
  status,   \* "start", "running", "ended", "put", "error", "crashed"
  run,      \* history: the program that runs, or ran last
  given,    \* history: the stack it was given
  spoiled   \* history: a node that something else points to has been changed

vars == <<image, heap, chars, root, frames, todo, status, run, given, spoiled>>

Pointers == 0 .. Len(heap)
stk      == root.stk
Op(p)    == heap[p].op
U(p)     == heap[p].u
Next_(p) == heap[p].next

Nth(p, k) == NthIn(heap, p, k)

\* SAVED1, SAVED2, ... are nodes of the stack saved on dump.
SAVED(k) == Nth(U(root.dump), k)
DMP1     == U(root.dump1)
DMP2     == U(root.dump2)
DMP3     == U(root.dump3)
DMP4     == U(root.dump4)

\* The node that is made next, and its value copied from node p.
New        == Len(heap) + 1
Like(p, n) == Cell(Op(p), U(p), n)

\* The list at p as values, the members of lists, strings and sets with them,
\* lists in lists to the depth MaxDepth.
ListAt(h, c, p) ==
  LET member(v) == [op |-> v.op, num |-> v.u, lis |-> <<>>]
      val[d \in 0 .. MaxDepth, n \in 0 .. Len(h)] ==
        [q \in 0 .. Len(h) |->
           IF d = 0 \/ n = 0 \/ q = NULL THEN <<>>
           ELSE LET v == h[q]
                    lis == CASE v.op = "LIST" -> val[d - 1, Len(h)][v.u]
                             [] v.op \in {"STRING", "SET"} ->
                                  LET ms == MemberValues(c, v)
                                  IN  [k \in DOMAIN ms |-> member(ms[k])]
                             [] v.op = "FILE" /\ v.u # NULL ->
                                  [k \in DOMAIN c[Block(v)] |-> member(Value("INT", c[Block(v)][k]))]
                             [] v.op \notin Aggregates /\ (v.op = "FILE" => v.u = NULL) -> <<>>
                IN  <<[op  |-> v.op,
                       num |-> IF v.op \in Aggregates \cup {"FILE"} THEN 0 ELSE v.u,
                       lis |-> lis]>>
                    \o val[d, n - 1][v.next]]
  IN  val[MaxDepth, Len(h)][p]

Init ==
  /\ image \in Images
  /\ heap = image.heap
  /\ chars = image.chars
  /\ root = [r \in Roots |-> NULL]
  /\ frames = <<>>
  /\ todo = image.progs
  /\ status = "start"
  /\ run = NULL
  /\ given = <<>>
  /\ spoiled = FALSE


-----------------------------------------------------------------------------
(* Calls and returns. *)

Top == frames[Len(frames)]
Pop == SubSeq(frames, 1, Len(frames) - 1)

\* The activation of procedure p, called with the roots r.  Its locals are a
\* number or a node, the members of a string or a set that are still to come,
\* and those found so far.  saved is history.
Activation(p, r) ==
  [proc |-> p, at |-> "begin", n |-> 0, left |-> <<>>, yes |-> <<>>, no |-> <<>>,
   saved |-> [d \in Kept |-> r[d]]]

\* The activation that runs, at its next label.
At(l) == [Top EXCEPT !.at = l]

Active     == status = "running" /\ Len(heap) < MaxCells
Runs(p, l) == Active /\ Top.proc = p /\ Top.at = l

\* Nothing but the heap, the roots and the activations changes.
Only == UNCHANGED <<image, chars, todo, run, given, spoiled>>

\* The running procedure, now f, goes on with heap h and roots r.
Continue(h, r, f) ==
  /\ heap' = h /\ root' = r
  /\ frames' = Append(Pop, f)
  /\ Only /\ UNCHANGED status

\* It calls procedure p, with the item q.
CallOn(h, r, f, p, q) ==
  /\ heap' = h /\ root' = r
  /\ frames' = Pop \o <<f, [Activation(p, r) EXCEPT !.n = q]>>
  /\ Only /\ UNCHANGED status
Call(h, r, f, p) == CallOn(h, r, f, p, NULL)

\* It calls exeterm(n): nothing for an empty program, else conts gets a node.
Exeterm(h, r, f, n) ==
  IF n = NULL
  THEN Continue(h, r, f)
  ELSE /\ heap' = Append(h, Cell("LIST", n, r.conts))
       /\ root' = [r EXCEPT !.conts = Len(h) + 1]
       /\ frames' = Pop \o <<f, [Activation("exeterm", r) EXCEPT !.at = "loop"]>>
       /\ Only /\ UNCHANGED status

\* It returns, to main if nothing else called it.
Return(h, r) ==
  /\ heap' = h /\ root' = r
  /\ frames' = Pop
  /\ status' = IF Len(frames) = 1 THEN "ended" ELSE status
  /\ Only

\* Mutant: the dumps are left alone.
aborts_keeps(m) ==
  /\ heap' = m.heap /\ chars' = m.chars
  /\ root' = [root EXCEPT !.conts = NULL, !.stk = m.stk]
  /\ frames' = <<>>
  /\ status' = "error"
  /\ UNCHANGED <<image, todo, run, given, spoiled>>

\* abortexecution_: back to main, whatever was going on in the memory m.
aborts(m) ==
  /\ heap' = m.heap /\ chars' = m.chars
  /\ root' = [r \in Roots |-> IF r = "stk" THEN m.stk ELSE NULL]
  /\ frames' = <<>>
  /\ status' = "error"
  /\ UNCHANGED <<image, todo, run, given, spoiled>>

abortexecution_(h, s) == aborts(Memory(h, chars, s))

execerror == abortexecution_(heap, stk)

\* A null pointer is followed.
Crash ==
  /\ status' = "crashed"
  /\ UNCHANGED <<image, heap, chars, root, frames, todo, run, given, spoiled>>

\* It calls exeterm(q->u.lis).  Only NULL stands for an empty list among the
\* values that are no lists.
Execute(h, r, f, q) ==
  IF q = NULL THEN Crash
  ELSE IF Op(q) # "LIST" /\ U(q) # 0 THEN Crash
  ELSE Exeterm(h, r, f, U(q))

\* It calls exeterm(q->next).
ExecuteRest(h, r, f, q) == IF q = NULL THEN Crash ELSE Exeterm(h, r, f, Next_(q))

\* q->u.lis, where that is a list with members.
Lis(q) == IF q = NULL THEN NULL ELSE IF Op(q) # "LIST" THEN NULL ELSE U(q)

\* The test that a program left on the stack: stk->u.num as a long, or cut to an
\* int, which is 0 for a float unless it is a very precise one.
LongTest == Raw(heap[stk])
IntTest  == IF Op(stk) = "FLOAT" THEN 0 ELSE LongTest

-----------------------------------------------------------------------------
(* main: prog = stk->u.lis; conts = NULL; exeterm(prog); what autoput asks. *)

main_program ==
  /\ status \in {"start", "put", "error"}
  /\ todo # <<>> /\ Len(heap) < MaxCells
  /\ todo' = Tail(todo)
  /\ run' = Head(todo)
  /\ given' = ListAt(heap, chars, stk)
  /\ IF Head(todo) = NULL
     THEN /\ status' = "ended"
          /\ root' = [root EXCEPT !.conts = NULL]
          /\ UNCHANGED <<heap, frames>>
     ELSE /\ status' = "running"
          /\ heap' = Append(heap, Cell("LIST", Head(todo), NULL))
          /\ root' = [root EXCEPT !.conts = New]
          /\ frames' = << [Activation("exeterm", [root EXCEPT !.conts = NULL])
                             EXCEPT !.at = "loop"] >>
  /\ UNCHANGED <<image, chars, spoiled>>

\* autoput 1 prints the top value and pops it.
main_autoput ==
  /\ status = "ended"
  /\ status' = "put"
  /\ root' = IF image.autoput = 1 /\ stk # NULL THEN [root EXCEPT !.stk = Next_(stk)] ELSE root
  /\ UNCHANGED <<image, heap, chars, frames, todo, run, given, spoiled>>

-----------------------------------------------------------------------------
(* exeterm. *)

\* The node that exeterm is about to execute.
stepper == U(root.conts)

\* conts->u.lis = conts->u.lis->next
Stepped == [heap EXCEPT ![root.conts].u = Next_(stepper)]

Executing == Runs("exeterm", "loop") /\ stepper # NULL

exeterm_constant ==
  /\ Executing /\ Op(stepper) \in Constants
  /\ Continue(Append(Stepped, Like(stepper, stk)), [root EXCEPT !.stk = New], Top)

\* The body of the definition that the node names.
Body == image.bodies[U(stepper)]

exeterm_undefined ==
  /\ Executing /\ Op(stepper) = "USR" /\ Body = NULL /\ image.undeferror
  /\ abortexecution_(Stepped, stk)

Defined == Op(stepper) = "USR" /\ (Body = NULL => ~image.undeferror)

exeterm_user ==
  /\ Executing /\ Defined /\ Next_(stepper) # NULL
  /\ Exeterm(Stepped, root, Top, Body)

\* The last name of a program takes over the activation: POP(conts); goto start;
exeterm_tail ==
  /\ Executing /\ Defined /\ Next_(stepper) = NULL
  /\ LET outer == Next_(root.conts)
     IN  IF Body = NULL
         THEN Return(Stepped, [root EXCEPT !.conts = outer])
         ELSE Continue(Append(Stepped, Cell("LIST", Body, outer)),
                       [root EXCEPT !.conts = New], Top)

\* A stream in a program is taken for an operator, and called.
exeterm_file == Executing /\ Op(stepper) = "FILE" /\ Crash

exeterm_combinator ==
  /\ Executing /\ Op(stepper) \in Combinators \cup Anonymous
  /\ Call(Stepped, root, Top, Op(stepper))

exeterm_ends ==
  /\ Runs("exeterm", "loop") /\ stepper = NULL
  /\ Return(heap, [root EXCEPT !.conts = Next_(root.conts)])

-----------------------------------------------------------------------------
(* Operators. *)

\* The nodes that the roots r, the program or a definition reach.
Reached(h, r) ==
  LET entry == {r[d] : d \in Roots} \cup {run} \cup {image.bodies[k] : k \in DOMAIN image.bodies}
      reach[n \in 0 .. Len(h)] ==
        IF n = 0 THEN entry \ {NULL}
        ELSE LET at == reach[n - 1]
             IN  (at \cup {h[q].next : q \in at}
                     \cup {h[q].u : q \in {q \in at : h[q].op = "LIST"}}) \ {NULL}
      depth == CHOOSE n \in 1 .. Len(h) : reach[n] = reach[n - 1]
  IN  reach[depth]

\* The heap h comes to be in place of before, which r still reaches.
Spoils(before, h, r) ==
  LET changed == {q \in DOMAIN before : before[q] # h[q]}
  IN  changed # {} /\ changed \cap Reached(h, r) # {}

operates ==
  /\ Executing /\ Op(stepper) \in Operators \cup Library
  /\ \E m \in {Memory(Stepped, chars, stk)} : \E o \in Performs(Op(stepper), m) :
       CASE o.is = "ok" ->
              LET r == [root EXCEPT !.stk = o.stk]
              IN  /\ heap' = o.heap /\ chars' = o.chars /\ root' = r
                  /\ spoiled' = (spoiled \/ Spoils(Stepped, o.heap, r))
                  /\ UNCHANGED <<image, frames, todo, status, run, given>>
         [] o.is = "error" -> aborts(o)
         [] o.is = "crash" -> Crash

\* body: what the name on top of the stack stands for.
body_ ==
  /\ Executing /\ Op(stepper) = "body"
  /\ IF stk = NULL THEN abortexecution_(Stepped, stk)
     ELSE IF Op(stk) # "USR" THEN abortexecution_(Stepped, stk)
     ELSE Continue(Append(Stepped, Cell("LIST", image.bodies[U(stk)], Next_(stk))),
                   [root EXCEPT !.stk = New], Top)
=============================================================================
