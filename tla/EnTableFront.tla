----------------------------- MODULE EnTableFront -----------------------------
(***************************************************************************)
(* The first half of EnTable: ReadIn checks the text of a grammar and puts *)
(* every production in Polish notation (ReadIn.h), Simplify rewrites the   *)
(* productions, with invented names, until every one is a row of operands  *)
(* (Simplify.h), and Counting numbers the names (Counting.h).  The         *)
(* productions that the code keeps one behind the other, with Break after  *)
(* each, are a sequence of records here.  throw ends the program.          *)
(***************************************************************************)
EXTENDS CrxBnf

CONSTANTS
  TermLimit, ProdLimit,   \* the capacities of the bitsets
  MaxSource               \* bound: a longer row of productions is not followed further

VARIABLES
  text,          \* the text being read
  Source,        \* the productions: left side, right side in Polish notation
  NewNameCount,  \* how many names were invented
  Eliminee,      \* the productions of the name that is being replaced
  Operands,      \* the number of every name used
  grammar,       \* the grammar in basic form
  phase,
  meaning,       \* what the text means; only properties look at it
  circular,      \* some name of the text stands for itself alone; only properties
                 \* look at it
  twice          \* an empty production was dropped that one production referred
                 \* to twice; only properties look at it

frontVars == <<text, Source, NewNameCount, Eliminee, Operands, grammar, phase, meaning, circular, twice>>

Abuttal == -8
Break == -9

\* The dictionary is alphabetical: the invented names #0..#9, #Empty, the others.
MaxNames == 10
Empty == MaxNames
IsInvented(n) == n < Empty

Prod(lhs, rhs) == [lhs |-> lhs, rhs |-> rhs]
Count(row, t) == Cardinality({i \in DOMAIN row : row[i] = t})
IsOperand(t) == IsName(t)

(***************************************************************************)
(* ReadIn.  NextToken finds the end of a production when it looks behind a *)
(* name and sees ':='; it answers Break then and holds the name for the    *)
(* next call.  r.out is the right side so far, r.ok that nothing is wrong. *)
(***************************************************************************)
NoName == -1

NextToken(r) ==
  LET t == Head(r.rest)
  IN  IF r.held # NoName THEN [r EXCEPT !.tok = r.held, !.held = NoName]
      ELSE IF r.rest \in {<<>>, <<Blank>>} THEN [r EXCEPT !.tok = Break, !.rest = <<>>]
      ELSE IF t = Assign THEN [r EXCEPT !.ok = FALSE]
      ELSE IF IsOperand(t) /\ t \notin Literals /\ Len(r.rest) > 1 /\ r.rest[2] = Assign
        THEN [r EXCEPT !.tok = Break, !.held = t, !.rest = SubSeq(@, 3, Len(@))]
      ELSE [r EXCEPT !.tok = t, !.rest = Tail(@)]

Put(r, t) == [r EXCEPT !.out = Append(@, t)]
PutAll(r, t, n) == [r EXCEPT !.out = @ \o [i \in 1..n |-> t]]
\* Mutant: what is expected is not looked at.
ExpectAnything(r, t) == r

Expect(r, t) == IF r.tok = t THEN r ELSE [r EXCEPT !.ok = FALSE]

RECURSIVE Ors(_, _)

Prim(r) ==
  LET inside == Ors(NextToken(r), 0)
      prim   == CASE IsOperand(r.tok)     -> NextToken(Put(r, r.tok))
                  [] r.tok = LeftParen    -> NextToken(Expect(inside, RightParen))
                  [] r.tok = LeftBracket  -> NextToken(Put(Put(Expect(inside, RightBracket), Empty), SpecialOr))
                  [] OTHER                -> [r EXCEPT !.ok = FALSE]
  IN  IF prim.tok = Plus THEN NextToken(Put(prim, Plus)) ELSE prim

RECURSIVE Cats(_, _)
Cats(r, count) ==
  LET prim == Prim(r)
  IN  IF ~r.ok THEN r
      ELSE IF prim.ok /\ (IsOperand(prim.tok) \/ prim.tok \in {LeftParen, LeftBracket})
        THEN Cats(prim, count + 1)
      ELSE PutAll(prim, Abuttal, count)

Ors(r, count) ==
  LET cats == Cats(r, 0)
  IN  IF cats.ok /\ cats.tok = SpecialOr THEN Ors(NextToken(cats), count + 1)
                                         ELSE PutAll(cats, SpecialOr, count)

\* The loop over the productions; prods are those done.  It ends at the end of the
\* source, whether or not a left side is held: that left side is dropped.
RECURSIVE Bnf(_, _)
Bnf(r, prods) ==
  LET left == NextToken(r)
      body == Expect(Ors(NextToken([left EXCEPT !.out = <<>>]), 0), Break)
      all  == Append(prods, Prod(left.tok, body.out))
  IN  IF ~IsOperand(left.tok) \/ ~left.ok \/ ~body.ok THEN [ok |-> FALSE, prods |-> prods]
      ELSE IF body.rest # <<>> THEN Bnf(body, all)
      ELSE [ok |-> TRUE, prods |-> all]

ReadIn ==
  /\ phase = "read"
  /\ LET first == NextToken([rest |-> text, held |-> NoName, tok |-> Break, out |-> <<>>, ok |-> TRUE])
         bnf   == Bnf(first, <<>>)
     IN  IF first.ok /\ first.tok = Break /\ bnf.ok
           THEN Source' = bnf.prods /\ phase' = "divide"
           ELSE phase' = "throw 5" /\ UNCHANGED Source
  /\ UNCHANGED <<text, NewNameCount, Eliminee, Operands, grammar, meaning, circular, twice>>

(***************************************************************************)
(* Simplify, the passes that divide productions.  A production with one    *)
(* kind of operation is written out, one with more has its first operation *)
(* made a production of its own, with an invented name.                    *)
(***************************************************************************)
OperandsIn(row) == SelectSeq(row, IsOperand)

IsSimple(p) ==
  /\ Count(p.rhs, Plus) = 0
  /\ Count(p.rhs, SpecialOr) \in {0, Len(OperandsIn(p.rhs)) - 1}

WriteOut(p) ==
  LET parts == SelectSeq(p.rhs, LAMBDA t : t # SpecialOr)
  IN  IF Count(p.rhs, SpecialOr) > 0
        THEN [i \in DOMAIN parts |-> Prod(p.lhs, <<parts[i]>>)]
        ELSE <<Prod(p.lhs, SelectSeq(p.rhs, LAMBDA t : t # Abuttal))>>

\* Mutant: the operation taken out stays behind its new name.
TakeOutKeeping(p, new) ==
  LET k == Min({i \in DOMAIN p.rhs : ~IsOperand(p.rhs[i])})
  IN  <<Prod(new, <<p.rhs[k - 1]>>),
        Prod(p.lhs, SubSeq(p.rhs, 1, k - 2) \o <<new>> \o SubSeq(p.rhs, k, Len(p.rhs)))>>

TakeOut(p, new) ==
  LET k     == Min({i \in DOMAIN p.rhs : ~IsOperand(p.rhs[i])})
      op    == p.rhs[k]
      begin == IF op = Plus THEN k - 1 ELSE k - 2
      B     == p.rhs[begin]
      C     == p.rhs[k - 1]
      taken == CASE op = Plus    -> <<Prod(new, <<B>>), Prod(new, <<new, B, Abuttal>>)>>
                 [] op = Abuttal -> <<Prod(new, <<B, C, Abuttal>>)>>
                 [] OTHER        -> <<Prod(new, <<B>>), Prod(new, <<C>>)>>
  IN  Append(taken, Prod(p.lhs, SubSeq(p.rhs, 1, begin - 1) \o <<new>> \o SubSeq(p.rhs, k + 1, Len(p.rhs))))

DividePass ==
  /\ phase = "divide"
  /\ LET divide(acc, p) ==
           IF IsSimple(p) THEN [acc EXCEPT !.Target = @ \o WriteOut(p)]
           ELSE [Target |-> acc.Target \o TakeOut(p, acc.names), names |-> acc.names + 1]
         pass == FoldLeft(divide, [Target |-> <<>>, names |-> NewNameCount], Source)
     IN  Source' = pass.Target /\ NewNameCount' = pass.names
  /\ phase' = IF \A i \in DOMAIN Source : IsSimple(Source[i]) THEN "choose" ELSE "divide"
  /\ UNCHANGED <<text, Eliminee, Operands, grammar, meaning, circular, twice>>

(***************************************************************************)
(* Simplify, the elimination of names: an invented one that its own        *)
(* productions do not refer to, or one that is another name for one thing. *)
(***************************************************************************)
Refers(p, n) == n \in Range(p.rhs)
GroupOf(n) == SelectSeq(Source, LAMBDA p : p.lhs = n)

Eligible(n) ==
  LET group == GroupOf(n)
  IN  \/ IsInvented(n) /\ \A i \in DOMAIN group : ~Refers(group[i], n)
      \/ Len(group) = 1 /\ Len(group[1].rhs) = 1 /\ n \notin DOMAIN Dotted /\ n # StarterName

\* Mutant: the productions of the name that is replaced are not taken out.
ChooseElimineeKept ==
  /\ phase = "choose"
  /\ LET eligible == {i \in DOMAIN Source : Eligible(Source[i].lhs)}
     IN  IF eligible = {} THEN phase' = "elide" /\ UNCHANGED Eliminee
         ELSE Eliminee' = GroupOf(Source[Min(eligible)].lhs) /\ phase' = "expand"
  /\ UNCHANGED <<text, Source, NewNameCount, Operands, grammar, meaning, circular, twice>>

ChooseEliminee ==
  /\ phase = "choose"
  /\ LET eligible == {i \in DOMAIN Source : Eligible(Source[i].lhs)}
         n        == Source[Min(eligible)].lhs
     IN  IF eligible = {} THEN phase' = "elide" /\ UNCHANGED <<Source, Eliminee>>
         ELSE /\ Eliminee' = GroupOf(n)
              /\ Source' = SelectSeq(Source, LAMBDA p : p.lhs # n)
              /\ phase' = "expand"
  /\ UNCHANGED <<text, NewNameCount, Operands, grammar, meaning, circular, twice>>

\* ToTarget: nothing is appended behind a message.
CutAtMessage(p) ==
  LET at == {i \in DOMAIN p.rhs : p.rhs[i] \in DOMAIN Messages \cap DOMAIN Dotted}
  IN  IF at = {} THEN p ELSE [p EXCEPT !.rhs = SubSeq(@, 1, Min(at))]

LastRef(p, n) == Max({i \in DOMAIN p.rhs : p.rhs[i] = n})
Replaced(p, i, row) == [p EXCEPT !.rhs = SubSeq(@, 1, i - 1) \o row \o SubSeq(@, i + 1, Len(@))]


\* One copy of the production for every alternative of what it refers to.
Expansions(p) ==
  IF Refers(p, Eliminee[1].lhs)
    THEN [k \in DOMAIN Eliminee |->
            CutAtMessage(Replaced(p, LastRef(p, Eliminee[1].lhs), Eliminee[k].rhs))]
    ELSE <<CutAtMessage(p)>>

\* A pass of Eliminate.
ExpandPass ==
  /\ phase = "expand"
  /\ Source' = FlattenSeq([i \in DOMAIN Source |-> Expansions(Source[i])])
  /\ phase' = IF \E i \in DOMAIN Source : Refers(Source[i], Eliminee[1].lhs) THEN "expand" ELSE "choose"
  /\ UNCHANGED <<text, NewNameCount, Eliminee, Operands, grammar, meaning, circular, twice>>

(***************************************************************************)
(* Simplify, the empty operands, and productions that have nothing else:   *)
(* such a one is dropped, and one reference to its name is made optional   *)
(* wherever there is any.                                                  *)
(***************************************************************************)
ElideEmpty ==
  /\ phase = "elide"
  /\ Source' = [i \in DOMAIN Source |-> [Source[i] EXCEPT !.rhs = SelectSeq(@, LAMBDA t : t # Empty)]]
  /\ phase' = "empties"
  /\ UNCHANGED <<text, NewNameCount, Eliminee, Operands, grammar, meaning, circular, twice>>

Optional(p, n) ==
  IF Refers(p, n) THEN <<Replaced(p, LastRef(p, n), <<>>), p>> ELSE <<p>>

DropEmpty ==
  /\ phase = "empties" /\ Len(Source) <= MaxSource
  /\ LET empties == {i \in DOMAIN Source : i > 1 /\ Source[i].rhs = <<>>}
         k       == Min(empties)
     IN  IF empties = {} THEN phase' = "count" /\ UNCHANGED <<Source, twice>>
         ELSE /\ Source' = FlattenSeq([i \in DOMAIN Source |->
                              IF i = k THEN <<>> ELSE Optional(Source[i], Source[k].lhs)])
              /\ twice' = (twice \/ \E i \in DOMAIN Source : Count(Source[i].rhs, Source[k].lhs) > 1)
              /\ UNCHANGED phase
  /\ UNCHANGED <<text, NewNameCount, Eliminee, Operands, grammar, meaning, circular>>

(***************************************************************************)
(* Counting: the names that are left are numbered in alphabetical order,   *)
(* those of productions first.                                             *)
(***************************************************************************)
Counting ==
  /\ phase = "count"
  /\ LET lefts == {Source[i].lhs : i \in DOMAIN Source}
         used  == lefts \cup UNION {Range(Source[i].rhs) : i \in DOMAIN Source}
         terms == used \ lefts
         below(S, n) == Cardinality({m \in S : m < n})
         number == [n \in used |-> IF n \in lefts THEN below(lefts, n)
                                   ELSE Cardinality(lefts) + below(terms, n)]
         renumber(S) == {number[n] : n \in S}
     IN  /\ Operands' = number
         /\ grammar' =
              [P |-> Cardinality(lefts), T |-> Cardinality(terms),
               prods |-> [i \in DOMAIN Source |->
                            Prod(number[Source[i].lhs],
                                 [k \in DOMAIN Source[i].rhs |-> number[Source[i].rhs[k]]])],
               msg |-> [d \in renumber(terms \cap DOMAIN Messages) |->
                          Messages[CHOOSE n \in terms : number[n] = d]],
               keys |-> renumber(terms \cap KeyNames),
               action |-> [d \in renumber(lefts \cap DOMAIN Dotted) |->
                             Dotted[CHOOSE n \in lefts : number[n] = d]],
               symbol |-> IF SymbolName \in terms THEN number[SymbolName] ELSE -1]
         /\ phase' = IF Cardinality(terms) > TermLimit \/ Cardinality(lefts) > ProdLimit
                       THEN "throw 7" ELSE "counted"
  /\ UNCHANGED <<text, Source, NewNameCount, Eliminee, meaning, circular, twice>>

\* What the code takes for the text: a left side that is the very end of the
\* source is dropped.  Behind it even a blank is a production without a right side.
Kept(txt) ==
  LET n == Len(txt)
  IN  IF n > 1 /\ txt[n] = Assign /\ IsName(txt[n - 1]) /\ txt[n - 1] \notin Literals
        THEN SubSeq(txt, 1, n - 2)
        ELSE Unblanked(txt)

Init ==
  /\ text \in Texts
  /\ Source = <<>> /\ NewNameCount = 0 /\ Eliminee = <<>> /\ Operands = <<>>
  /\ grammar = <<>> /\ phase = "read"
  /\ meaning = Language(Kept(text)) /\ circular = StandsForItself(Kept(text)) /\ twice = FALSE

Ended == phase \in {"counted", "throw 5", "throw 7"}
\* No step changes anything: the end, a pass that repeats itself, and the bound.
Stands ==
  \/ Ended
  \/ /\ phase = "expand"
     /\ \A i \in DOMAIN Source : Expansions(Source[i]) = <<Source[i]>>
     /\ \E i \in DOMAIN Source : Refers(Source[i], Eliminee[1].lhs)
  \/ phase = "empties" /\ Len(Source) > MaxSource

Terminated == Stands /\ UNCHANGED frontVars

Next ==
  \/ ReadIn \/ DividePass \/ ChooseEliminee \/ ExpandPass
  \/ ElideEmpty \/ DropEmpty \/ Counting \/ Terminated

\* A program of loops that waits for nothing.  This is the weak fairness of Next,
\* whose steps change something except where it stands, without ENABLED.
KeepsRunning == []<><<TRUE>>_frontVars \/ <>[]Stands

Spec == Init /\ [][Next]_frontVars /\ KeepsRunning

(***************************************************************************)
(* Properties.                                                             *)
(***************************************************************************)
Phases == {"read", "divide", "choose", "expand", "elide", "empties", "count", "counted",
           "throw 5", "throw 7"}

\* The type invariant.
TypeOK ==
  /\ phase \in Phases
  /\ NewNameCount \in 0..MaxNames
  /\ \A i \in DOMAIN Source : IsOperand(Source[i].lhs) /\ Range(Source[i].rhs) \subseteq (Abuttal..Plus) \cup {SpecialOr} \cup Nat

\* A text is refused exactly when the grammar of the comment does not have it,
\* but for a second '+' behind an operand, which the code takes for an error,
\* and for a left side at the very end, which it drops (ReadIn.h:101-254), where
\* the comment has no production without a right side (ReadIn.h:297).
SyntaxChecked ==
  /\ phase = "throw 5" => ~IsGrammarText(Kept(text))
  /\ phase = "divide" => IsGrammarText(Kept(text))

\* The value of a right side, a row without signs being abutted.
Polish(L, row) ==
  LET top(s) == s[Len(s)]
      under(s) == s[Len(s) - 1]
      apply(s, t) ==
        CASE IsOperand(t)  -> Append(s, IF t = Empty THEN {<<>>} ELSE Named(L, t))
          [] t = Plus      -> Append(Front(s), Repeats(top(s), top(s)))
          [] t = Abuttal   -> Append(SubSeq(s, 1, Len(s) - 2), Then(under(s), top(s)))
          [] OTHER         -> Append(SubSeq(s, 1, Len(s) - 2), under(s) \cup top(s))
  IN  FoldLeft(Then, {<<>>}, FoldLeft(apply, <<>>, row))

RECURSIVE SourceLanguage(_, _)
SourceLanguage(prods, L) ==
  LET more == [n \in DOMAIN L |-> UNION {Polish(L, prods[i].rhs) : i \in {k \in DOMAIN prods : prods[k].lhs = n}}] @@ <<>>
  IN  IF more = L THEN L[StarterName] ELSE SourceLanguage(prods, more)

\* How the language L of a pass is related to that of the text, M.
Preserves(L, M) == L \subseteq M /\ (~twice => L = M)


\* The passes come to an end (Simplify.h:43-131, :143-178, :196-238, :262-298), if
\* the text has no name that stands for itself alone and repeats nothing that may
\* be empty.  Of those other texts some are rewritten for ever (:143, :196).
SimplifyEnds == ~circular => <>Ended
=============================================================================
