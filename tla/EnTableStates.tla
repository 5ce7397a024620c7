---------------------------- MODULE EnTableStates ----------------------------
(***************************************************************************)
(* The grammar states of EnTable, the generator of the CRX parser tables   *)
(* (States.h): from a grammar in basic form, every production a left side  *)
(* and a row of operands, NoteStates builds the states of an LALR(1)       *)
(* parser.  A state is a core of caret positions; each position carries    *)
(* the terminals that may follow the left side of its production.          *)
(***************************************************************************)
EXTENDS CrxGrammar

CONSTANT Split   \* a position packs a production and a caret: production * Split + caret

ASSUME SplitAssumption ==
  \A g \in Grammars : \A k \in DOMAIN g.prods : Len(g.prods[k].rhs) \in 1..(Split - 1)

VARIABLES
  grammar,    \* the grammar the program was started with
  States,     \* the vector of states, numbered from 0
  inPlay,     \* the cursor of the pass over States
  Uncertains, \* how many states are marked Uncertain, counted along the way
  flaw,       \* ReductionsFlaw: a state with two reductions, or -1
  doubts,     \* what makes the tables judge otherwise than the grammar; only
              \* properties look at it
  phase       \* the part of the program that runs next

statesVars == <<grammar, States, inPlay, Uncertains, flaw, doubts, phase>>

Break == -1

\* A set of numbers in the order an STL map keeps its keys.
Ascending(S) == [i \in 1..Cardinality(S) |-> CHOOSE x \in S : Cardinality({y \in S : y < x}) = i - 1]

(***************************************************************************)
(* Positions.                                                              *)
(***************************************************************************)
\* The operand the caret of p is in front of, and the one behind that.
Operand(g, p, n) ==
  LET r == g.prods[p \div Split].rhs  c == (p % Split) + n
  IN  IF c < Len(r) THEN r[c + 1] ELSE Break

\* The productions of a group, in the order of Gram.
Variants(g, group) ==
  SelectSeq([k \in DOMAIN g.prods |-> k], LAMBDA k : g.prods[k].lhs = group)

(***************************************************************************)
(* What can start a production: the heads of its variants, then Warshall's *)
(* closure, one nonterminal at a time.                                     *)
(***************************************************************************)
Heads(g) ==
  [n \in Nonterminals(g) |->
     LET heads == {g.prods[k].rhs[1] : k \in {i \in DOMAIN g.prods : g.prods[i].lhs = n}}
     IN  [prods |-> heads \cap Nonterminals(g), terms |-> heads \cap Terminals(g)]]

Warshall(g) ==
  FoldLeft(LAMBDA b, q : [p \in Nonterminals(g) |->
                            IF q \notin b[p].prods THEN b[p]
                            ELSE [prods |-> b[p].prods \cup b[q].prods,
                                  terms |-> b[p].terms \cup b[q].terms]],
           Heads(g), [i \in 1..g.P |-> i - 1])

Begins == [g \in Grammars |-> Warshall(g)]

(***************************************************************************)
(* CloseIt: the core and everything it leads to without a move, as a list  *)
(* of positions with their lookaheads.  When the lookaheads of a position  *)
(* that has been dealt with grow, the work goes back to it.                *)
(***************************************************************************)
AheadOf(g, item) ==
  LET f == Operand(g, item.p, 1)
  IN  CASE f = Break          -> item.ahead
        [] f \in Terminals(g) -> {f}
        [] OTHER              -> Begins[g][f].terms

RECURSIVE AddVariants(_, _, _, _)
AddVariants(cl, k, variants, ahead) ==
  IF variants = <<>> THEN [cl |-> cl, k |-> k + 1]
  ELSE LET f    == Head(variants) * Split
           at   == {s \in DOMAIN cl : cl[s].p = f}
           s    == Min(at)
           wide == cl[s].ahead \cup ahead
           new  == [cl EXCEPT ![s].ahead = wide]
       IN  IF at = {}
             THEN AddVariants(Append(cl, [p |-> f, ahead |-> ahead]), k, Tail(variants), ahead)
           ELSE IF wide # cl[s].ahead /\ s < k
             THEN [cl |-> new, k |-> s]
           ELSE AddVariants(new, k, Tail(variants), wide)

RECURSIVE CloseFrom(_, _, _)
CloseFrom(g, cl, k) ==
  IF k > Len(cl) THEN cl
  ELSE LET group == Operand(g, cl[k].p, 0)
           r     == AddVariants(cl, k, Variants(g, group), AheadOf(g, cl[k]))
       IN  IF group \in Nonterminals(g) THEN CloseFrom(g, r.cl, r.k)
                                        ELSE CloseFrom(g, cl, k + 1)

CloseIt(g, core) ==
  LET ps == Ascending(DOMAIN core)
  IN  CloseFrom(g, [i \in DOMAIN ps |-> [p |-> ps[i], ahead |-> core[ps[i]]]], 1)

(***************************************************************************)
(* Gotos: the coreset reached by the move over each operand.               *)
(***************************************************************************)
Gotos(g, cl) ==
  [m \in {Operand(g, cl[c].p, 0) : c \in DOMAIN cl} \ {Break} |->
     LET over == {c \in DOMAIN cl : Operand(g, cl[c].p, 0) = m}
     IN  [t \in {cl[c].p + 1 : c \in over} |->
            cl[CHOOSE c \in over : cl[c].p + 1 = t].ahead]]

NewState(core) ==
  [Core |-> core, Uncertain |-> TRUE, Transits |-> <<>>,
   HasRed |-> FALSE, RedPos |-> 0, RedAhead |-> {},
   MsgMN |-> 0, Froms |-> <<>>, RedSwitch |-> <<>>, Action |-> 0, KeysOffset |-> 0,
   Reference |-> 0, Prune |-> 0, ParseStateNum |-> 0]

(***************************************************************************)
(* A goto has reached a state that exists: its lookaheads may grow.  Then  *)
(* it is processed again; when it is the state in play (self) the pass     *)
(* leaves it at the first position that grew.                              *)
(***************************************************************************)
Grown(state, core) == {p \in DOMAIN core : ~(core[p] \subseteq state.Core[p])}

\* Mutant of Enlarge: the state that grew is not processed again.
EnlargeOnce(state, core, self) ==
  [state EXCEPT !.Core = [p \in DOMAIN core |-> @[p] \cup core[p]]]

Enlarge(state, core, self) ==
  LET grown == Grown(state, core)
      taken == IF self THEN {Min(grown)} ELSE grown
      wide  == [p \in DOMAIN core |->
                  IF p \in taken THEN state.Core[p] \cup core[p] ELSE state.Core[p]]
  IN  IF grown = {} THEN state
      ELSE IF state.Uncertain THEN [state EXCEPT !.Core = wide]
      ELSE [state EXCEPT !.Core = wide, !.Uncertain = TRUE,
                         !.HasRed = FALSE, !.Transits = <<>>]

SameCore(S, core) == {s \in DOMAIN S : DOMAIN S[s].Core = DOMAIN core}

\* One element of Gotos; acc.left says that the pass has left the state in
\* play, acc.n counts the states marked Uncertain.
Transit(g, acc, j, m, core) ==
  LET S     == acc.S
      found == SameCore(S, core)
      s     == IF found = {} THEN Cardinality(DOMAIN S) ELSE Min(found)
      old   == IF found = {} THEN S ELSE [S EXCEPT ![s] = Enlarge(@, core, s = j)]
      all   == IF found = {} /\ ~IsMsg(g, m)
                 THEN [i \in 0..s |-> IF i = s THEN NewState(core) ELSE S[i]]
                 ELSE old
      marks == IF found = {} THEN ~IsMsg(g, m) ELSE ~S[s].Uncertain /\ old[s].Uncertain
      n     == IF marks THEN acc.n + 1 ELSE acc.n
  IN  IF acc.left THEN acc
      ELSE IF s = j /\ old[j].Uncertain THEN [S |-> old, n |-> n, left |-> TRUE]
      ELSE [S    |-> [all EXCEPT ![j].Transits =
                        Append(@, <<m, IF IsMsg(g, m) THEN 0 ELSE s>>)],
            n    |-> n,
            left |-> FALSE]

\* The reductions of a closure, as indices of the list.
Reductions(g, cl) == {c \in DOMAIN cl : Operand(g, cl[c].p, 0) = Break}

FanOut(g, S, j) ==
  LET cl    == CloseIt(g, S[j].Core)
      reds  == Reductions(g, cl)
      c     == Max(reds)
      start == IF reds = {} THEN [S EXCEPT ![j].Uncertain = FALSE]
               ELSE [S EXCEPT ![j].Uncertain = FALSE, ![j].HasRed = TRUE,
                              ![j].RedPos = cl[c].p \div Split,
                              ![j].RedAhead = cl[c].ahead]
      gotos == Gotos(g, cl)
  IN  FoldLeft(LAMBDA acc, m : Transit(g, acc, j, m, gotos[m]),
               [S |-> start, n |-> 0, left |-> FALSE], Ascending(DOMAIN gotos))

(***************************************************************************)
(* NoteStates.                                                             *)
(***************************************************************************)
Init ==
  /\ grammar \in Grammars
  /\ States = [s \in {0} |-> NewState([p \in {Split} |-> {}])]
  /\ inPlay = 0
  /\ Uncertains = 1
  /\ flaw = -1
  /\ doubts = {}
  /\ phase = "fan"

\* The loops over the states: the next one, or the end of the pass.
NoteState ==
  /\ phase = "fan" /\ inPlay \in DOMAIN States
  /\ States[inPlay].Uncertain
  /\ LET fan == FanOut(grammar, States, inPlay)
     IN  /\ States' = fan.S
         /\ Uncertains' = Uncertains - 1 + fan.n
  /\ flaw' = IF Cardinality(Reductions(grammar, CloseIt(grammar, States[inPlay].Core))) > 1
               THEN inPlay ELSE flaw
  /\ inPlay' = inPlay + 1
  /\ UNCHANGED <<grammar, doubts, phase>>

PassState ==
  /\ phase = "fan" /\ inPlay \in DOMAIN States
  /\ ~States[inPlay].Uncertain
  /\ inPlay' = inPlay + 1
  /\ UNCHANGED <<grammar, States, Uncertains, flaw, doubts, phase>>

EndPass ==
  /\ phase = "fan" /\ inPlay \notin DOMAIN States
  /\ inPlay' = 0
  /\ phase' = IF Uncertains > 0 THEN "fan" ELSE "conflicts"
  /\ UNCHANGED <<grammar, States, Uncertains, flaw, doubts>>

\* A terminal that could be shifted and could follow the reduction: the
\* conflict is resolved in favour of the shift.  Messages are exempt.
ConflictTerms(g, state) ==
  IF state.HasRed
    THEN {d \in state.RedAhead : ~IsMsg(g, d) /\ \E t \in DOMAIN state.Transits : state.Transits[t][1] = d}
    ELSE {}

ResolveConflicts ==
  /\ phase = "conflicts"
  /\ States' = [s \in DOMAIN States |->
                  [States[s] EXCEPT !.HasRed = @ /\ ConflictTerms(grammar, States[s]) = {}]]
  /\ doubts' = IF \E s \in DOMAIN States : ConflictTerms(grammar, States[s]) # {}
                 THEN {"conflict"} ELSE doubts
  /\ phase' = "messages"
  /\ UNCHANGED <<grammar, inPlay, Uncertains, flaw>>

NoteStates == NoteState \/ PassState \/ EndPass \/ ResolveConflicts

(***************************************************************************)
(* The LALR(1) lookaheads by their definition: the canonical LR(1) item    *)
(* sets as least fixed points, those with the same positions put together. *)
(* An item is a position and one terminal, or Break for the end of Starter.*)
(***************************************************************************)
FirstOf(g, operand, la) ==
  CASE operand = Break          -> {la}
    [] operand \in Terminals(g) -> {operand}
    [] OTHER ->
         LET RECURSIVE reach(_)
             reach(N) == LET M == N \cup {g.prods[k].rhs[1] : k \in {i \in DOMAIN g.prods : g.prods[i].lhs \in N}}
                         IN  IF M = N THEN N ELSE reach(M)
         IN  reach({operand}) \cap Terminals(g)

RECURSIVE LR1Closure(_, _)
LR1Closure(g, items) ==
  LET more == items \cup
        UNION {{<<k * Split, a>> : k \in {v \in DOMAIN g.prods : g.prods[v].lhs = Operand(g, i[1], 0)},
                                   a \in FirstOf(g, Operand(g, i[1], 1), i[2])}
               : i \in {j \in items : Operand(g, j[1], 0) \in Nonterminals(g)}}
  IN  IF more = items THEN items ELSE LR1Closure(g, more)

LR1Gotos(g, items) ==
  LET full == LR1Closure(g, items)
      over == {Operand(g, i[1], 0) : i \in full} \ ({Break} \cup DOMAIN g.msg)
  IN  {{<<i[1] + 1, i[2]>> : i \in {j \in full : Operand(g, j[1], 0) = m}} : m \in over}

RECURSIVE LR1States(_, _)
LR1States(g, sets) ==
  LET more == sets \cup UNION {LR1Gotos(g, s) : s \in sets}
  IN  IF more = sets THEN sets ELSE LR1States(g, more)

Positions(items) == {i[1] : i \in items}

\* The cores of the LALR(1) states with the lookaheads of every position.
LALR ==
  [g \in Grammars |->
     LET canon == LR1States(g, {{<<Split, Break>>}})
     IN  {[p \in ps |-> UNION {{i[2] : i \in {j \in s : j[1] = p}} \ {Break}
                               : s \in {c \in canon : Positions(c) = ps}}]
          : ps \in {Positions(s) : s \in canon}}]
=============================================================================
