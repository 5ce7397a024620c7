-------------------------------- MODULE CrxBnf --------------------------------
(***************************************************************************)
(* The texts EnTable reads, by the grammar ReadIn.h (lines 3-12) gives for *)
(* them, and the language such a text stands for.  A text is a row of      *)
(* tokens: names are natural numbers in alphabetical order, signs are      *)
(* negative.  What is written behind a message has no meaning.             *)
(***************************************************************************)
EXTENDS CrxGrammar

CONSTANTS
  Texts,        \* the texts a run is about
  Literals,     \* the names in quotes, which no production can have
  StarterName,  \* the first production
  Dotted,       \* the names with a dot: the number behind it
  Messages,     \* the names that begin with Msg: the number they stand for
  KeyNames,     \* the literals that begin with a letter
  SymbolName    \* VAR_SYMBOL

Assign == -1
LeftParen == -2
RightParen == -3
LeftBracket == -4
RightBracket == -5
SpecialOr == -6
Plus == -7
Blank == -10   \* blanks or a comment behind the last word

Unblanked(text) == IF text # <<>> /\ Last(text) = Blank THEN Front(text) ELSE text

IsName(t) == t >= 0
Part(e, i, j) == SubSeq(e, i, j)

RECURSIVE IsExpression(_), IsAbuttal(_)
IsPrimary(e) ==
  \/ Len(e) = 1 /\ IsName(e[1])
  \/ Len(e) > 2 /\ <<e[1], Last(e)>> \in {<<LeftParen, RightParen>>, <<LeftBracket, RightBracket>>}
                /\ IsExpression(Part(e, 2, Len(e) - 1))

\* The grammar of the comment has any number of signs '+' here.
IsRepeated(e) == IsPrimary(e) \/ (Len(e) > 1 /\ Last(e) = Plus /\ IsPrimary(Front(e)))

AbuttedAt(e) ==
  {k \in 1..(Len(e) - 1) : IsRepeated(Part(e, k + 1, Len(e))) /\ IsAbuttal(Part(e, 1, k))}
IsAbuttal(e) == IsRepeated(e) \/ AbuttedAt(e) # {}

OrAt(e) ==
  {k \in 2..(Len(e) - 1) : /\ e[k] = SpecialOr
                           /\ IsAbuttal(Part(e, k + 1, Len(e))) /\ IsExpression(Part(e, 1, k - 1))}
IsExpression(e) == IsAbuttal(e) \/ OrAt(e) # {}

\* The places where a production begins, and its right side.
Begun(text) == {i \in 1..(Len(text) - 1) : text[i + 1] = Assign}
Right(text, i) ==
  LET after == {k \in Begun(text) : k > i}
  IN  Part(text, i + 2, IF after = {} THEN Len(text) ELSE Min(after) - 1)

IsGrammarText(text) ==
  /\ 1 \in Begun(text)
  /\ \A i \in Begun(text) : /\ IsName(text[i]) /\ text[i] \notin Literals
                            /\ IsExpression(Right(text, i))

(***************************************************************************)
(* Languages, of words of bounded length that end at the first message.    *)
(***************************************************************************)
Ends(w) == w # <<>> /\ Last(w) \in DOMAIN Messages
Then(A, B) ==
  {w \in {a \in A : Ends(a)} \cup {a \o b : a \in {x \in A : ~Ends(x)}, b \in B} : Len(w) <= MaxInput + 1}

RECURSIVE Repeats(_, _)
Repeats(A, R) == LET more == R \cup Then(R, A) IN IF more = R THEN R ELSE Repeats(A, more)

\* The meaning of a name under the meanings L of the productions so far.
Named(L, n) == IF n \in DOMAIN L THEN L[n] ELSE {<<n>>}

RECURSIVE Meaning(_, _)
Meaning(L, e) ==
  CASE OrAt(e) # {}      -> LET k == Min(OrAt(e))
                            IN  Meaning(L, Part(e, 1, k - 1)) \cup Meaning(L, Part(e, k + 1, Len(e)))
    [] AbuttedAt(e) # {} -> LET k == Min(AbuttedAt(e))
                            IN  Then(Meaning(L, Part(e, 1, k)), Meaning(L, Part(e, k + 1, Len(e))))
    [] Len(e) = 1        -> Named(L, e[1])
    [] Last(e) = Plus    -> LET A == Meaning(L, Front(e)) IN Repeats(A, A)
    [] e[1] = LeftParen  -> Meaning(L, Part(e, 2, Len(e) - 1))
    [] OTHER             -> Meaning(L, Part(e, 2, Len(e) - 1)) \cup {<<>>}

\* (@@ <<>> has TLC evaluate the function, not its elements over and over.)
RECURSIVE Languages(_, _)
Languages(text, L) ==
  LET more == [n \in DOMAIN L |-> UNION {Meaning(L, Right(text, i)) : i \in {k \in Begun(text) : text[k] = n}}] @@ <<>>
  IN  IF more = L THEN L ELSE Languages(text, more)

NameLanguages(text) == Languages(text, [n \in {text[i] : i \in Begun(text)} |-> {}])

Language(text) == IF IsGrammarText(text) THEN NameLanguages(text)[StarterName] ELSE {}

\* Some name can be replaced in steps by itself alone, or what is repeated may be
\* empty.  (Alone: every name may stand for itself, or for nothing when it may.)
StandsForItself(text) ==
  LET L == NameLanguages(text)
      N == DOMAIN L
      alone == [n \in N |-> (L[n] \cap {<<>>}) \cup {<<n>>}]
      next == [n \in N |-> {m \in N : \E i \in Begun(text) : text[i] = n /\ <<m>> \in Meaning(alone, Right(text, i))}]
      reached(S) == S \cup UNION {next[m] : m \in S}
      closed(S) == FoldLeft(LAMBDA T, k : reached(T), S, [k \in 1..Cardinality(N) |-> k])
  IN  IsGrammarText(text) /\
        \/ \E n \in N : n \in closed(next[n])
        \/ \E i, k \in 1..(Len(text) - 1) : /\ i <= k /\ text[k + 1] = Plus
                                            /\ IsPrimary(Part(text, i, k))
                                            /\ <<>> \in Meaning(L, Part(text, i, k))
=============================================================================
