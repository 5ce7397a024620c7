---------------------------- MODULE MCCrxReadIn ----------------------------
(***************************************************************************)
(* What ReadIn is to do, said without its algorithm: which texts are       *)
(* grammars, what Text says of one, and what the symbols remember.         *)
(*                                                                         *)
(* Texts for ReadIn: every right side of up to four lexemes in each        *)
(* flavour of assignment, words in every order of appearance, and texts    *)
(* with several productions, comments, marks and mistakes.                 *)
(***************************************************************************)
EXTENDS CrxReadIn, SequencesExt

(***************************************************************************)
(* The grammar of grammars, on the lexemes that count.                     *)
(***************************************************************************)
Counts(lexeme) == lexeme.kind \notin {"white", "hash"}
Lexemes == SelectSeq(input, Counts)

Is(i, signs) == Lexemes[i].kind = "sign" /\ Lexemes[i].text \in signs
IsSymbol(i) == Lexemes[i].kind \in {"word", "quoted"}

RECURSIVE IsOrs(_, _)
IsBase(i, j) ==
  \/ i = j /\ IsSymbol(i)
  \/ i < j /\ Is(i, {"("}) /\ Is(j, {")"}) /\ IsOrs(i + 1, j - 1)
  \/ i < j /\ Is(i, {"["}) /\ Is(j, {"]"}) /\ IsOrs(i + 1, j - 1)
IsPrim(i, j) == IsBase(i, j) \/ (i < j /\ Is(j, {"+"}) /\ IsBase(i, j - 1))
RECURSIVE IsCats(_, _)
IsCats(i, j) == IsPrim(i, j) \/ \E k \in i .. j - 1 : IsPrim(i, k) /\ IsCats(k + 1, j)
IsOrs(i, j) ==
  \/ IsCats(i, j)
  \/ \E k \in i + 1 .. j - 1 : Is(k, {"|"}) /\ IsCats(i, k - 1) /\ IsOrs(k + 1, j)

\* A production begins with a word before ':' or '=' and ends before the next.
Heads == {i \in 1 .. Len(Lexemes) - 1 : Lexemes[i].kind = "word" /\ Is(i + 1, {":", "="})}
HeadOf(i) == CHOOSE h \in Heads : h <= i /\ \A g \in Heads : g <= i => g <= h
EndOf(h) == LET after == {g \in Heads : g > h}
            IN  IF after = {} THEN Len(Lexemes)
                ELSE (CHOOSE g \in after : \A f \in after : g <= f) - 1

Signs == [f \in Flavours |->
  CASE f = "::=" -> {<<":", ":", "=">>}
    [] f = "==" -> {<<"=", ">">>}
    [] f = ":=" -> {<<":", "=">>, <<":", "+">>}
    [] OTHER -> {<<"=">>}]
Width == Len(CHOOSE s \in Signs[flavour] : TRUE)

IsProduction(h) ==
  /\ h + Width <= EndOf(h)
  /\ \A i \in h + 1 .. h + Width : Lexemes[i].kind = "sign"
  /\ [i \in 1 .. Width |-> Lexemes[h + i].text] \in Signs[flavour]
  /\ h + Width = EndOf(h) \/ IsOrs(h + Width + 1, EndOf(h))

\* A mark belongs to a symbol, and none may stand before an assignment.
MarkBeforeAssignment ==
  \E i, j \in DOMAIN input :
    /\ i < j /\ input[i] = Hash /\ input[j] \in {TheSign(":"), TheSign("=")}
    /\ \A k \in i .. j - 1 : ~Counts(input[k])

IsGrammar ==
  /\ 1 \in Heads /\ ~MarkBeforeAssignment
  /\ \A h \in Heads : IsProduction(h)
  /\ \A i \in DOMAIN input : input[i].kind \notin {"odd", "slash"}

\* What Text says, and what it should say: a break before each production and
\* after the last, one sign for the assignment, and everything else as it is.
Said(t) == IF t > 0 THEN dict.node[t].word
           ELSE IF t = Break THEN "Break"
           ELSE IF t = Permute THEN "Permute"
           ELSE IF t = TheEnd THEN "TheEnd" ELSE Special[-t]

Piece(i) ==
  IF i \in Heads THEN <<"Break", Lexemes[i].text>>
  ELSE IF i < HeadOf(i) + Width THEN <<>>
  ELSE IF i = HeadOf(i) + Width THEN <<IF Lexemes[i].text = "+" THEN "Permute" ELSE "=">>
  ELSE <<Lexemes[i].text>>

Meant == FlattenSeq([i \in DOMAIN Lexemes |-> Piece(i)]) \o <<"Break", "TheEnd">>

\* ReadIn accepts exactly the texts that are grammars, and Text then says what
\* was written: each offset in it leads to the word that stood there, although
\* the tree has been rearranged and the dictionary has grown since.
ReadAsWritten ==
  /\ goal = "fail" => ~IsGrammar
  /\ goal = "done" => IsGrammar /\ [i \in DOMAIN Text |-> Said(Text[i])] = Meant

-----------------------------------------------------------------------------
(***************************************************************************)
(* The texts.                                                              *)
(***************************************************************************)
MCAlphabet == <<"'and'", "'||'", "Msg27", "Msg8.x", "Q1", "Q2", "VAR", "VAR_SYMBOL",
                "item", "list", "x.y">>
MCMessages == {"Msg27", "Msg8.x"}
MCDotted == {"Msg8.x", "x.y"}
MCNames == <<"Q1", "Q2">>
MCFlavours == {"=", "==", ":=", "::="}

SignsOf(f) == CASE f = "::=" -> <<TheSign(":"), TheSign(":"), TheSign("=")>>
                [] f = "==" -> <<TheSign("="), TheSign(">")>>
                [] f = ":=" -> <<TheSign(":"), TheSign("=")>>
                [] OTHER -> <<TheSign("=")>>

Rule(f, w, rhs) == <<Word(w)>> \o SignsOf(f) \o rhs

UpTo(S, n) == UNION {[1 .. k -> S] : k \in 0 .. n}

Parts == {Word("item")} \cup {TheSign(s) : s \in {"(", ")", "[", "]", "|", "+"}}
OneRule == {Rule("=", "list", r) : r \in UpTo(Parts, 4)}

Spoken == {Word(w) : w \in {"Msg27", "item", "x.y", "Msg8.x"}} \cup {Quoted("'and'")}
Vocabularies == {Rule("=", "list", r) : r \in [1 .. 4 -> Spoken]}

Between == {White, Hash, Odd, Slash, TheSign("="), TheSign(":"), TheSign("+"), Word("item"), Quoted("'and'")}
TwoRules(f) == {Rule(f, "list", <<Word("x.y")>> \o b) \o Rule(f, v, <<Word("list")>>)
                : b \in UpTo(Between, 2), v \in {"item", "list"}}

Permuting == {<<Word("list"), TheSign(":"), TheSign("+"), Word("item")>>,
              <<White, Word("list"), White, TheSign("="), White>>,
              Rule("=", "list", <<Word("VAR_SYMBOL"), Quoted("'||'"), Word("VAR")>>),
              <<Quoted("'and'"), TheSign("="), Word("item")>>, <<Word("list")>>, <<>>}

MCGrammars == OneRule \cup Vocabularies \cup Permuting \cup UNION {TwoRules(f) : f \in MCFlavours}
=============================================================================
