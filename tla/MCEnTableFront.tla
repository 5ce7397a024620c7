---------------------------- MODULE MCEnTableFront ----------------------------
(***************************************************************************)
(* Texts of grammars for EnTable: starter := a '', with every short right  *)
(* side for a and a fixed p := 'X' | y, and some longer ones.              *)
(***************************************************************************)
EXTENDS EnTableFront

\* The dictionary, in alphabetical order.
eos == 11
X == 12
Msg21 == 13
VAR_SYMBOL == 14
a == 15
p == 16
q3 == 17
starter == 18
y == 19

LiteralsMC == {eos, X}
DottedMC == Msg21 :> 1 @@ q3 :> 3
MessagesMC == Msg21 :> 5377
KeyNamesMC == {X}

First == <<starter, Assign, a, eos, a, Assign>>
ForP == <<p, Assign, X, SpecialOr, y>>
Signs == {LeftParen, RightParen, LeftBracket, RightBracket, SpecialOr, Plus}

ForEmptyP == <<p, Assign, LeftBracket, y, RightBracket>>

Rows(n) == UNION {[1..k -> {X, Msg21, p} \cup Signs] : k \in 1..n}
Assigned == [1..3 -> {X, p, Assign, SpecialOr}]

Long ==
  {First \o <<X, Plus, SpecialOr, LeftParen, p, Msg21, SpecialOr, LeftBracket, X, RightBracket, RightParen, y>> \o ForP,
   First \o <<LeftBracket, X, SpecialOr, p, RightBracket, LeftBracket, y, RightBracket, Msg21, p>> \o ForP,
   First \o <<p, SpecialOr, a, X, p>> \o <<p, Assign, y>>,
   First \o <<LeftParen, X, SpecialOr, p, Plus, RightParen, Plus, y>> \o ForP,
   First \o <<q3, SpecialOr, p, LeftBracket, q3, RightBracket, X>> \o <<q3, Assign, VAR_SYMBOL>> \o <<p, Assign, q3>>,
   First \o <<q3, X>> \o <<q3, Assign, LeftBracket, p, RightBracket, SpecialOr, y, q3>> \o ForP}

\* Grammars in which a name stands for itself alone.
Circular ==
  {First \o <<p, SpecialOr, X>> \o <<p, Assign, a, SpecialOr, y>>,
   First \o <<p>> \o <<p, Assign, a>>,
   First \o <<p, a, SpecialOr, X>> \o ForEmptyP,
   First \o <<p, a, SpecialOr, p>> \o ForEmptyP}

\* Texts that end behind ':=', and the same with a blank there.
Unfinished ==
  {First, First \o <<Blank>>, First \o <<p, p, Assign>>, First \o <<p, p, Assign, Blank>>,
   First \o <<p, X, Assign>>, <<a, Assign>>, <<>>, <<Blank>>, <<a>>, <<X, Assign, X>>}

TextsMC ==
  {First \o e \o ForP : e \in Rows(4)} \cup {First \o e \o ForEmptyP : e \in Rows(3)} \cup {First \o e \o ForP : e \in Assigned} \cup Long
    \cup Circular \cup Unfinished

=============================================================================
