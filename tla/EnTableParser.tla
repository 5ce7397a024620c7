---------------------------- MODULE EnTableParser ----------------------------
(***************************************************************************)
(* The parser of CRX (SYNTAX.AS, 149-418) running on the tables EnTable    *)
(* has made.  Its stack holds reference states only: a state is stacked    *)
(* when a shift leaves it, a reduction prunes as many as its state says    *)
(* and may then test the one on top.  A token is asked for only in a state *)
(* with shifts; a symbol is a keyword where the list of the state has it.  *)
(***************************************************************************)
EXTENDS EnTablePack

VARIABLES
  given,     \* the tokens of the program being parsed
  coming,    \* those not shifted yet; the first is the latest token
  known,     \* the latest token, a symbol, was found to be a keyword (TokNow)
  current,   \* StateBx
  stacked,   \* the stack of reference states, the top last
  read,      \* what was shifted, symbols being read as what they were taken for
  done,      \* the actions called
  outcome    \* "none", "parsing", "accepted", "message", "error" or "lost"

parserVars == <<given, coming, known, current, stacked, read, done, outcome>>

InitParser ==
  /\ given = <<>> /\ coming = <<>> /\ known = FALSE /\ current = 0
  /\ stacked = <<>> /\ read = <<>> /\ done = <<>> /\ outcome = "none"

tables == <<grammar, States, inPlay, Uncertains, flaw, doubts, stackVars, packVars>>

\* The registers are set up and the parser starts in State0.
Compiling ==
  /\ phase = "done"
  /\ \E p \in Programs(grammar) : given' = p /\ coming' = p
  /\ known' = FALSE /\ current' = 0 /\ stacked' = <<>> /\ read' = <<>> /\ done' = <<>>
  /\ outcome' = "parsing"
  /\ phase' = "parse"
  /\ UNCHANGED tables

(***************************************************************************)
(* The words of a state.                                                   *)
(***************************************************************************)
HasShift == States[current].Transits # <<>>
HasRed   == States[current].HasRed
MsgMN    == States[current].MsgMN

\* QueryKey goes from the entry at an offset to the first that ends a list.
Entries == SelectSeq([i \in DOMAIN Merged |-> i], LAMBDA i : Merged[i] >= 0)
EndList(e) == Merged[Entries[e] + 1] = Separator
KeyList(offset) ==
  IF offset = 0 THEN {}
  ELSE LET last == Min({e \in offset..Len(Entries) : EndList(e)})
       IN  {Merged[Entries[e]] : e \in offset..last}

\* Words that are keywords somewhere are symbols (VAR_SYMBOL) elsewhere.
IsKeyHere == Head(coming) \in grammar.keys /\ ~known /\ Head(coming) \in KeyList(States[current].KeysOffset)
TokNow == IF Head(coming) \in grammar.keys /\ ~known /\ ~IsKeyHere THEN grammar.symbol ELSE Head(coming)

\* The bit of the group and the state; keywords have no bits to be tested.
Accepted ==
  TokNow \notin grammar.keys =>
    StateAcceptsGroups[current] \in AcceptBits[Groups[GroupNum[TokNow]].AcceptNdx]

\* The field Aim of the token: a state, or the index for the array.
Aim == LET group == Groups[GroupNum[TokNow]]
       IN  IF group.UseArray THEN Ws[group.ShiftNdx][ShiftNdx[current]] ELSE group.Tentative

(***************************************************************************)
(* Reduction: the action, the prune, then the tests of the top of stack in *)
(* the order of the steps.  GeTest compares addresses, which the ranking   *)
(* makes a test whether the reference is one of those split off, and Arith *)
(* adds the gap.  Nowhere stands for a number the tables say nothing of.   *)
(***************************************************************************)
Nowhere == -1

Decide(s, top) ==
  LET holder == IF RedSubsetOf[s] = 0 THEN s ELSE RedSubsetOf[s]
      hit(step) == step[1] # "GeTest" \/ top \in step[3]
      first  == SelectSeq(RedStep[holder], hit)
      gap    == {p \in first[1][3] : p[2] = top}
  IN  IF Len(States[s].RedSwitch) = 1 THEN States[s].RedSwitch[1][2]
      ELSE IF first = <<>> THEN Nowhere
      ELSE IF first[1][1] # "Arith" THEN first[1][2]
      ELSE IF gap = {} THEN Nowhere ELSE (CHOOSE p \in gap : TRUE)[1]

Reduction ==
  LET s     == States[current]
      left  == Len(stacked) - s.Prune
      top   == IF left > 0 THEN stacked[left] ELSE Nowhere
      state == Decide(current, top)
  IN  /\ done' = IF s.Action = 0 THEN done ELSE Append(done, s.Action)
      /\ stacked' = SubSeq(stacked, 1, left)
      /\ IF left < 0 \/ state = Nowhere
           THEN outcome' = "lost" /\ UNCHANGED current
           ELSE current' = state /\ UNCHANGED outcome
      /\ UNCHANGED <<given, coming, read>>

Stop(how) ==
  /\ outcome' = how
  /\ UNCHANGED <<given, coming, current, stacked, read, done>>

Cycling == phase = "parse" /\ outcome = "parsing"

\* As long as there is no chance of a shift, keep recognising.
Reducing ==
  /\ Cycling /\ ~HasShift /\ HasRed
  /\ Reduction
  /\ UNCHANGED <<tables, phase, known>>

ErrorAlone ==
  /\ Cycling /\ ~HasShift /\ ~HasRed
  /\ Stop(IF MsgMN # 0 THEN "message" ELSE "error")
  /\ UNCHANGED <<tables, phase, known>>

\* Must now reduce or is in error.
NonAccept ==
  /\ Cycling /\ HasShift /\ ~Accepted
  /\ CASE MsgMN # 0 -> Stop("message")
       [] MsgMN = 0 /\ HasRed -> Reduction
       [] OTHER -> Stop("error")
  /\ UNCHANGED <<tables, phase, known>>

\* Target 0 is a reduction that takes place on particular tokens.
MockShift ==
  /\ Cycling /\ HasShift /\ Accepted /\ Aim = 0
  /\ known' = (TokNow \in grammar.keys)
  /\ IF HasRed THEN Reduction ELSE Stop("error")
  /\ UNCHANGED <<tables, phase>>

\* Mutant of RealShift: the state that is entered is stacked, not the one left.
RealShiftStacksTarget ==
  /\ Cycling /\ HasShift /\ Accepted /\ Aim # 0
  /\ coming' = Tail(coming)
  /\ read' = Append(read, TokNow)
  /\ known' = FALSE
  /\ current' = Aim
  /\ stacked' = IF States[Aim].Reference = 1 THEN Append(stacked, Aim) ELSE stacked
  /\ outcome' = IF Head(coming) = Eos(grammar) THEN "accepted" ELSE "parsing"
  /\ UNCHANGED <<tables, phase, given, done>>

\* The end of source is the last thing that is shifted.
RealShift ==
  /\ Cycling /\ HasShift /\ Accepted /\ Aim # 0
  /\ coming' = Tail(coming)
  /\ read' = Append(read, TokNow)
  /\ known' = FALSE
  /\ current' = Aim
  /\ stacked' = IF States[current].Reference = 1 THEN Append(stacked, current) ELSE stacked
  /\ outcome' = IF Head(coming) = Eos(grammar) THEN "accepted" ELSE "parsing"
  /\ UNCHANGED <<tables, phase, given, done>>

Cycle == Reducing \/ ErrorAlone \/ NonAccept \/ MockShift \/ RealShift

allVars == <<tables, phase, parserVars>>

Next ==
  \/ NextPack /\ UNCHANGED parserVars
  \/ Compiling
  \/ Cycle

\* One of the grammars, and nothing of its tables.
InitTables == \E g \in Grammars : grammar = g /\ Init /\ InitStack /\ InitPack /\ InitParser

\* The parser is a loop without waits; nothing is assumed of the generator.
Spec ==
  /\ InitTables
  /\ [][Next]_allVars
  /\ WF_allVars(Cycle)

(***************************************************************************)
(* Properties.                                                             *)
(***************************************************************************)
\* A program is given to the recognizer when nothing is in doubt about the tables.
Judged == outcome # "none" /\ doubts = {}

Recognizer == INSTANCE CrxRecognizer WITH
  program <- IF Judged THEN given ELSE <<>>,
  verdict <- CASE ~Judged              -> "none"
               [] outcome = "parsing"  -> "open"
               [] outcome = "accepted" -> "accepted"
               [] OTHER                -> "rejected",
  reading <- IF Judged /\ outcome = "accepted" THEN read ELSE <<>>,
  calls   <- IF Judged /\ outcome = "accepted" THEN done ELSE <<>>

\* The tables and the parser together implement the recognizer of the grammar:
\* a parse ends; a program is accepted only as a sentence, with the actions of a
\* derivation, and turned away only when it is none (States.h, Stack.h and
\* Pack.h, with the loop at SYNTAX.AS:149-347).  This is promised for grammars
\* with nothing in doubt: without conflicts, with no state that takes for a symbol
\* what could follow as a keyword, with every prune count lowered by the
\* reference bit of its own state (Stack.h:513 takes the bit of another where the
\* number changed) and with no states made one that a switch tells apart
\* (Stack.h:326, which the loop at Stack.h:367 does not see of the last state,
\* nor Stack.h:381 of a pair met in the other order).
ImplementsRecognizer == Recognizer!Spec

Phases == {"fan", "conflicts", "messages", "reductions", "tokens", "keywords", "references",
           "prune", "matrix", "compare", "renumber", "switches", "reprune", "squeeze", "groups",
           "regroup", "pack", "direct", "array", "subsets", "steps", "done", "parse",
           "throw 7", "throw 8", "throw 9", "crash"}

\* The type invariant: states refer to states, groups and terminals that exist.
TypeOK ==
  /\ grammar \in Grammars /\ phase \in Phases
  /\ DOMAIN States = 0..(Cardinality(DOMAIN States) - 1)
  /\ inPlay \in 0..Cardinality(DOMAIN States) /\ flaw \in {-1} \cup DOMAIN States
  /\ Uncertains \in 0..Cardinality(DOMAIN States)
  /\ doubts \subseteq {"conflict", "symbol", "prune", "merged"}
  /\ \A s \in DOMAIN States :
       /\ \A t \in Range(States[s].Transits) : t[2] \in DOMAIN States
       /\ States[s].HasRed => States[s].RedPos \in DOMAIN grammar.prods
       /\ States[s].Reference \in {0, 1} /\ States[s].Prune \in 0..65535
  /\ BitMatrix \subseteq {p \in Nat \X Nat : TRUE}
  /\ current \in DOMAIN States \cup {0} /\ Range(stacked) \subseteq DOMAIN States
  /\ outcome \in {"none", "parsing", "accepted", "message", "error", "lost"}
  /\ outcome # "none" => given = SubSeq(given, 1, Len(read)) \o coming

\* The passes over the states that may grow under way, with a closure that goes
\* back and a state that is left in mid-pass, come to the LALR(1) states of the
\* grammar, every position with exactly its lookaheads (States.h:97-325).
LookaheadsExact ==
  phase = "conflicts" => {States[s].Core : s \in DOMAIN States} = LALR[grammar]

\* However the lists were merged, with keywords swapped inside lists that had
\* labels already, a state finds exactly the keywords it can shift from its
\* offset to the end of the list (Stack.h:697-777, SYNTAX.AS:349-418).
KeywordsExact ==
  phase = "references" =>
    \A s \in DOMAIN States : KeyList(States[s].KeysOffset) = ShiftKeys(grammar, States[s])

\* The squeezed matrices are read back as they were: a group that is no keyword
\* is accepted exactly where it has a transition, and every transition to a
\* state other than 0 is found (Pack.h:84-195, :394-420).
PackedLookups ==
  phase = "done" =>
    \A s \in DOMAIN States :
      LET row == States[s].Transits IN
      /\ row # <<>> =>
           \A d \in 0..(NonKeyCount - 1) :
             d \in Range(Discrims(row)) <=> StateAcceptsGroups[s] \in AcceptBits[Groups[d].AcceptNdx]
      /\ \A t \in Range(row) :
           t[2] # 0 => t[2] = IF Groups[t[1]].UseArray
                                THEN Ws[Groups[t[1]].ShiftNdx][ShiftNdx[s]]
                                ELSE Groups[t[1]].Tentative

\* The steps chosen for a reduction, those of another switch that includes it
\* too, lead where the switch says (Pack.h:206-298), unless a switch has
\* come to say two things of one state (Stack.h:367, :381).
StepsDecideSwitch ==
  phase = "done" /\ "merged" \notin doubts =>
    \A s \in DOMAIN States : \A r \in Range(States[s].RedSwitch) : Decide(s, r[1]) = r[2]
====
