------------------------------ MODULE CrxGrammar ------------------------------
(***************************************************************************)
(* Grammars in basic form, every production a left side and a row of       *)
(* operands, and the language and the calls of actions such a grammar      *)
(* stands for.  A grammar is what Counting (Counting.h) leaves of it:      *)
(* nonterminals 0..P-1, terminals P..P+T-1, the productions in the order   *)
(* of Gram, those of one left side together.  The first production is      *)
(* Starter's and the first terminal is the end of source.                  *)
(***************************************************************************)
EXTENDS Integers, Sequences, FiniteSets, FiniteSetsExt, SequencesExt

CONSTANTS
  Grammars,   \* the grammars a run is about
  MaxInput    \* the tokens of a program, without the end of source

ASSUME GrammarsAssumption ==
  /\ MaxInput \in Nat
  /\ \A g \in Grammars :
       /\ g.P \in Nat \ {0} /\ g.T \in Nat \ {0}
       /\ \A k \in DOMAIN g.prods :
            /\ g.prods[k].lhs \in 0..(g.P - 1)
            /\ \A i \in DOMAIN g.prods[k].rhs : g.prods[k].rhs[i] \in 0..(g.P + g.T - 1)

Nonterminals(g) == 0..(g.P - 1)
Terminals(g) == g.P..(g.P + g.T - 1)
IsMsg(g, d) == d \in DOMAIN g.msg      \* a terminal that is an error message
Eos(g) == g.P
Starter(g) == g.prods[1].lhs
Words(g) == Terminals(g) \ ({Eos(g)} \cup DOMAIN g.msg)

\* The number after the dot in the name of a production.
ActionOf(g, lhs) == IF lhs \in DOMAIN g.action THEN g.action[lhs] ELSE 0

Programs(g) == {Append(p, Eos(g)) : p \in SeqOf(Words(g), MaxInput)}

(***************************************************************************)
(* The language by its definition: for every nonterminal the rows of       *)
(* terminals, of bounded length, it stands for, each with the actions of   *)
(* the productions recognised on the way, a production being recognised    *)
(* when its right side is complete.  Starter itself is never recognised.   *)
(***************************************************************************)
Joined(g, L, rhs) ==
  FoldLeft(LAMBDA acc, x :
             LET parts == IF x \in Terminals(g) THEN {<< <<x>>, <<>> >>} ELSE L[x]
             IN  {q \in {<<a[1] \o b[1], a[2] \o b[2]>> : a \in acc, b \in parts} :
                    Len(q[1]) <= MaxInput + 1},
           {<< <<>>, <<>> >>}, rhs)

RECURSIVE Derive(_, _)
Derive(g, L) ==
  LET calls(n) == IF ActionOf(g, n) = 0 THEN <<>> ELSE <<ActionOf(g, n)>>
      legal(n) == {k \in DOMAIN g.prods :
                     g.prods[k].lhs = n /\ Range(g.prods[k].rhs) \cap DOMAIN g.msg = {}}
      more     == [n \in Nonterminals(g) |->
                     UNION {{<<q[1], q[2] \o calls(n)>> : q \in Joined(g, L, g.prods[k].rhs)}
                            : k \in legal(n)}] @@ <<>>
  IN  IF more = L THEN L ELSE Derive(g, more)

Sentences == [g \in Grammars |-> Derive(g, [n \in Nonterminals(g) |-> {}])[Starter(g)]]

\* The words that are keywords somewhere can be symbols elsewhere.
IsReading(g, p, q) ==
  /\ Len(q) = Len(p)
  /\ \A i \in DOMAIN p : q[i] = p[i] \/ (p[i] \in g.keys /\ q[i] = g.symbol)
=============================================================================
