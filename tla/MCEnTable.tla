------------------------------ MODULE MCEnTable ------------------------------
(***************************************************************************)
(* Small grammars for the generator of the parser tables.                  *)
(***************************************************************************)
EXTENDS EnTableParser

P(lhs, rhs) == [lhs |-> lhs, rhs |-> rhs]

\* starter := c '' ; c := SAY e | x = e | SAY ; e := t | e + t ; t := x | ( e ) :
\* a switch decided by tests, one switch inside another, states that are merged
Clauses ==
  [P |-> 4, T |-> 7,
   prods |-> <<P(2, <<0, 4>>), P(0, <<9, 1>>), P(0, <<10, 8, 1>>), P(0, <<9>>),
               P(1, <<3>>), P(1, <<1, 7, 3>>), P(3, <<10>>), P(3, <<5, 1, 6>>)>>,
   msg |-> <<>>, keys |-> {9}, action |-> <<>>, symbol |-> 10]

\* Actions, a reduction decided by arithmetic, a keyword list inside another.
Actions ==
  [P |-> 5, T |-> 6,
   prods |-> <<P(4, <<3, 5>>), P(3, <<0, 3>>), P(3, <<0>>), P(0, <<6, 1>>), P(0, <<7>>),
               P(0, <<8>>), P(1, <<7, 9>>), P(1, <<8, 9>>), P(1, <<2>>), P(2, <<7>>),
               P(2, <<8, 10>>)>>,
   msg |-> <<>>, keys |-> {6, 7, 8}, action |-> 0 :> 1 @@ 1 :> 2 @@ 2 :> 3, symbol |-> 9]

\* The sets of keywords {A, B, C}, {A, B}, {C} and {A, C}.
KeywordSets ==
  [P |-> 5, T |-> 6,
   prods |-> <<P(4, <<3, 5>>), P(3, <<6, 0>>), P(3, <<7, 1>>), P(3, <<8, 2>>), P(0, <<6, 9>>),
               P(0, <<7, 10>>), P(1, <<8, 9>>), P(2, <<6, 10>>), P(2, <<8, 10>>)>>,
   msg |-> <<>>, keys |-> {6, 7, 8}, action |-> 2 :> 1, symbol |-> 9]

\* n := n B | x Msg35.1 | A n | m n ; m := x B | Msg21.1 | C z | x : two messages
\* and mock shifts between them.
Messages ==
  [P |-> 3, T |-> 8,
   prods |-> <<P(2, <<1, 3>>), P(1, <<1, 5>>), P(1, <<9, 8>>), P(1, <<4, 1>>), P(1, <<0, 1>>),
               P(0, <<9, 5>>), P(0, <<7>>), P(0, <<6, 10>>), P(0, <<9>>)>>,
   msg |-> 7 :> 5377 @@ 8 :> 8961, keys |-> {4, 5, 6}, action |-> <<>>, symbol |-> 9]

\* LALR(1) but not SLR(1), with the action of a.1.
Lookaheads ==
  [P |-> 3, T |-> 6,
   prods |-> <<P(2, <<1, 3>>), P(1, <<5, 7>>), P(1, <<4, 5, 8>>), P(1, <<6, 8>>),
               P(1, <<4, 6, 7>>), P(0, <<6>>)>>,
   msg |-> <<>>, keys |-> {4}, action |-> 0 :> 1, symbol |-> 7]

\* s := A x | B Msg27.1 : a state that has a message and nothing else
ErrorAfter ==
  [P |-> 2, T |-> 5, prods |-> <<P(1, <<0, 2>>), P(0, <<3, 6>>), P(0, <<4, 5>>)>>,
   msg |-> 5 :> 6913, keys |-> {3, 4}, action |-> <<>>, symbol |-> 6]

\* s := A n d | B n e | C n d | C x e ; n := x | y : behind C the state of x is
\* another one, so that the switch of x is a part of the switch of y
Contexts ==
  [P |-> 3, T |-> 8,
   prods |-> <<P(2, <<1, 3>>), P(1, <<4, 0, 7>>), P(1, <<5, 0, 8>>), P(1, <<6, 0, 7>>),
               P(1, <<6, 9, 8>>), P(0, <<9>>), P(0, <<10>>)>>,
   msg |-> <<>>, keys |-> {4, 5, 6}, action |-> 0 :> 1, symbol |-> 9]

\* c := A A | n | y n | B ; n := x : the two states behind A A and n are one, all
\* states behind them get other numbers, and a prune count is lowered wrongly
Renumbered ==
  [P |-> 3, T |-> 5,
   prods |-> <<P(2, <<1, 3>>), P(1, <<4, 4>>), P(1, <<0>>), P(1, <<7, 0>>), P(1, <<5>>), P(0, <<6>>)>>,
   msg |-> <<>>, keys |-> {4, 5}, action |-> 0 :> 1, symbol |-> 7]

\* c := A B n d | n n e ; n := x | x Msg21.1 : a production that starts with two words,
\* a switch that tests the first state and one that is entered by a reduction, mock shifts
TwoWords ==
  [P |-> 3, T |-> 7,
   prods |-> <<P(2, <<1, 3>>), P(1, <<4, 5, 0, 6>>), P(1, <<0, 0, 7>>), P(0, <<9>>), P(0, <<9, 8>>)>>,
   msg |-> 8 :> 5377, keys |-> {4, 5}, action |-> 0 :> 1, symbol |-> 9]

\* c := x n | x ; n := A n | n A z | A : the grammar has a conflict
Conflicting ==
  [P |-> 3, T |-> 4,
   prods |-> <<P(2, <<1, 3>>), P(1, <<5, 0>>), P(1, <<5>>), P(0, <<4, 0>>), P(0, <<0, 4, 6>>), P(0, <<4>>)>>,
   msg |-> <<>>, keys |-> {4}, action |-> <<>>, symbol |-> 5]

\* c := y n y | z n z | B B y ; n := z B A : the switch of the last state tests two
\* states that are made one
LastSwitch ==
  [P |-> 3, T |-> 5,
   prods |-> <<P(2, <<1, 3>>), P(1, <<5, 0, 5>>), P(1, <<6, 0, 6>>), P(1, <<7, 7, 5>>),
               P(0, <<7, 6, 4>>)>>,
   msg |-> <<>>, keys |-> {4, 5}, action |-> 0 :> 1, symbol |-> 7]

GrammarsAll ==
  {Contexts, Clauses, Actions, KeywordSets, Messages, Lookaheads, ErrorAfter,
   Renumbered, TwoWords, Conflicting, LastSwitch}
=============================================================================
