------------------------------ MODULE CrxReadIn ------------------------------
(***************************************************************************)
(* ReadIn of crx's older tools (CRX1999/Tools/rd.c): a grammar is divided  *)
(* into tokens, each symbol is looked up in the dictionary, and the tokens *)
(* are placed in Text while a recursive descent checks that they are a     *)
(* grammar.  At the end the symbols are numbered in the order of a walk.   *)
(*                                                                         *)
(* The text of the grammar is a sequence of lexemes; a lexeme is a run of  *)
(* characters that NextToken passes in one go.  A token is a number as in  *)
(* the code: positive, the offset of a symbol; negative, a special sign;   *)
(* zero, the end.                                                          *)
(***************************************************************************)
EXTENDS WalkTree, FiniteSets

CONSTANTS
  Grammars,    \* the texts that may be read: sequences of lexemes
  Flavours,    \* the flavours of assignment Switches may ask for
  Names,       \* the names NewName makes up, Q1 first, as many as are asked for
  CatWords,    \* the words that begin the string '||' in quotes, it among them
  VarWords     \* those that begin VAR_SYMBOL

Special == <<":", "(", ")", "<", ">", "[", "]", "|", "=", ";", "+">>
Code(sign) == -(CHOOSE i \in DOMAIN Special : Special[i] = sign)
Break == -12
Permute == -99
TheEnd == 0

\* Lexemes: white space or a comment; a sign; a word; something in quotes; what
\* no token begins with (an open quote, or any other character); a slash that
\* begins no comment, or one that never ends; and the # of an action.
White == [kind |-> "white", text |-> ""]
Odd == [kind |-> "odd", text |-> ""]
Slash == [kind |-> "slash", text |-> ""]
Hash == [kind |-> "hash", text |-> ""]
TheSign(s) == [kind |-> "sign", text |-> s]
Word(w) == [kind |-> "word", text |-> w]
Quoted(w) == [kind |-> "quoted", text |-> w]

Kinds == {"white", "odd", "slash", "hash", "sign", "word", "quoted"}

ASSUME ReadInAssumption ==
  /\ Names \in Seq(Words)
  /\ \A g \in Grammars :
       /\ g \in Seq([kind : Kinds, text : STRING])
       /\ \A i \in DOMAIN g : /\ g[i].kind \in {"word", "quoted"} => g[i].text \in Words
                              /\ g[i].kind = "sign" => \E k \in DOMAIN Special : Special[k] = g[i].text

VARIABLES
  input,       \* Fmem: the text of the grammar
  flavour,     \* Switches
  at,          \* p and q: the lexeme that comes next
  scanning,    \* NextTokenState, or "done" once the last Break is out
  HeldToken,   \* the symbol a Break was put before
  TrapReduce,  \* a # waits for its symbol
  dict,        \* WalkBase
  search,      \* the LookUp in progress
  goal,        \* what runs: the label to go on at; see the actions
  Token,
  wanted,      \* NextToken has been called and has not returned
  closers,     \* the brackets of the calls of Ors in progress
  step,        \* how far into the assignment
  Text,
  count,       \* TermCount, ProdCount, BothCount, CatNum, VarNum and MsgFlag
  Num2Sym,
  named        \* the names NewName has returned

reading == <<input, flavour>>
scanner == <<at, scanning, HeldToken, TrapReduce>>
parser == <<goal, wanted, closers, step, Text>>
results == <<count, Num2Sym, named>>
vars == <<reading, scanner, dict, search, Token, parser, results>>

-----------------------------------------------------------------------------
Init ==
  /\ input \in Grammars
  /\ flavour \in Flavours
  /\ at = 1 /\ scanning = "free" /\ HeldToken = TheEnd /\ TrapReduce = FALSE
  /\ dict = EmptyTree /\ search = NoSearch
  /\ Token = TheEnd /\ wanted = TRUE /\ goal = "start"
  /\ closers = <<>> /\ step = 1
  /\ Text = <<Break>>
  /\ count = [Term |-> 0, Prod |-> 0, Both |-> 0, Cat |-> 0, Var |-> 0, Msg |-> FALSE]
  /\ Num2Sym = <<>> /\ named = <<>>

Searching == search # NoSearch

-----------------------------------------------------------------------------
(***************************************************************************)
(* NextToken.  It looks at one lexeme after the other until it has a       *)
(* token; a symbol is looked up first.                                     *)
(***************************************************************************)
Scanning == wanted /\ ~Searching /\ goal # "fail"

Lexeme == IF at <= Len(input) THEN input[at] ELSE [kind |-> "nul", text |-> ""]

Deliver(t) == Token' = t /\ wanted' = FALSE

Skip ==
  /\ Scanning /\ scanning = "free"
  /\ Lexeme.kind \in {"white", "hash"}
  /\ at' = at + 1
  /\ TrapReduce' = (TrapReduce \/ Lexeme.kind = "hash")
  /\ UNCHANGED <<reading, scanning, HeldToken, dict, search, Token, parser, results>>

TakeSign ==
  /\ Scanning /\ scanning = "free"
  /\ Lexeme.kind = "sign"
  /\ Deliver(Code(Lexeme.text))
  /\ at' = at + 1
  /\ UNCHANGED <<reading, scanning, HeldToken, TrapReduce, dict, search, goal,
                 closers, step, Text, results>>

TakeSymbol ==
  /\ Scanning /\ scanning = "free"
  /\ Lexeme.kind \in {"word", "quoted"}
  /\ search' = Begin(dict, Lexeme.text)
  /\ at' = at + 1
  /\ UNCHANGED <<reading, scanning, HeldToken, TrapReduce, dict, Token, parser, results>>

\* The nul at the end counts as a Break once, and is the end after that.
TakeNul ==
  /\ Scanning
  /\ \/ scanning = "free" /\ Lexeme.kind = "nul" /\ Deliver(Break)
     \/ scanning = "done" /\ Deliver(TheEnd)
  /\ scanning' = "done"
  /\ UNCHANGED <<reading, at, HeldToken, TrapReduce, dict, search, goal,
                 closers, step, Text, results>>

TakeHeld ==
  /\ Scanning /\ scanning = "held"
  /\ Deliver(HeldToken)
  /\ scanning' = "free"
  /\ UNCHANGED <<reading, at, HeldToken, TrapReduce, dict, search, goal,
                 closers, step, Text, results>>

TakeOdd ==
  /\ Scanning /\ scanning = "free" /\ Lexeme.kind \in {"odd", "slash"}
  /\ goal' = "fail"
  /\ UNCHANGED <<reading, scanner, dict, search, Token, wanted, closers, step, Text, results>>

-----------------------------------------------------------------------------
(***************************************************************************)
(* LookUp, one turn of its loop at a time.  With the symbol found or made, *)
(* NextToken goes on: a word that ':' or '=' follows, white space and      *)
(* comments aside, begins a production, and a Break is returned before it. *)
(***************************************************************************)
ComesNext == LET more == {i \in at .. Len(input) : input[i].kind # "white"}
             IN  IF more = {} THEN [kind |-> "nul", text |-> ""]
                 ELSE input[CHOOSE i \in more : \A j \in more : i <= j]

\* Mutant: an '=' without a colon begins nothing.
BeginsAtColon == ComesNext.kind = "sign" /\ ComesNext.text = ":"

BeginsProduction == ComesNext.kind = "sign" /\ ComesNext.text \in {":", "="}

Probe ==
  /\ Searching /\ search.Look # 0
  /\ LET order == IsIt(dict.node[search.Look].word, search.word)
         turn == IF order < 0 THEN ProbeLow(dict, search) ELSE ProbeHigh(dict, search)
     IN  order # 0 /\ dict' = turn[1] /\ search' = turn[2]
  /\ UNCHANGED <<reading, scanner, Token, parser, results>>

\* Mutant: the mark stays for the words that follow.
FinishWordTrapping(d, n) ==
  /\ dict' = [d EXCEPT !.node[n].Hatch = @ \/ TrapReduce,
                      !.node[n].IsExit = @ \/ d.node[n].word \in Dotted]
  /\ UNCHANGED TrapReduce
  /\ IF ComesNext.kind = "slash"
       THEN /\ goal' = "fail"
            /\ UNCHANGED <<scanning, HeldToken, Token, wanted>>
       ELSE /\ UNCHANGED goal
            /\ IF BeginsProduction
                 THEN HeldToken' = n /\ scanning' = "held" /\ Deliver(Break)
                 ELSE UNCHANGED <<HeldToken, scanning>> /\ Deliver(n)

\* The rest of NextToken for a symbol at offset n of the dictionary d.
FinishWord(d, n) ==
  /\ dict' = [d EXCEPT !.node[n].Hatch = @ \/ TrapReduce,
                      !.node[n].IsExit = @ \/ d.node[n].word \in Dotted]
  /\ TrapReduce' = FALSE
  /\ IF ComesNext.kind = "slash"
       THEN /\ goal' = "fail"
            /\ UNCHANGED <<scanning, HeldToken, Token, wanted>>
       ELSE /\ UNCHANGED goal
            /\ IF BeginsProduction
                 THEN HeldToken' = n /\ scanning' = "held" /\ Deliver(Break)
                 ELSE UNCHANGED <<HeldToken, scanning>> /\ Deliver(n)

FinishQuoted(d, n) ==
  /\ dict' = d /\ Deliver(n)
  /\ UNCHANGED <<TrapReduce, scanning, HeldToken, goal>>

FinishName(d, n) ==
  /\ dict' = [d EXCEPT !.node[n].Temp = TRUE]
  /\ named' = Append(named, n)
  /\ UNCHANGED <<TrapReduce, scanning, HeldToken, goal, Token, wanted>>

\* LookUp returns n, to NextToken or to NewName.
Return(d, n) ==
  /\ search' = NoSearch
  /\ IF wanted
       THEN /\ IF input[at - 1].kind = "word" THEN FinishWord(d, n) ELSE FinishQuoted(d, n)
            /\ UNCHANGED named
       ELSE FinishName(d, n)
  /\ UNCHANGED <<reading, at, closers, step, Text, count, Num2Sym>>

FindIt ==
  /\ Searching /\ search.Look # 0
  /\ dict.node[search.Look].word = search.word
  /\ Return(Found(dict, search), search.Look)

MakeIt ==
  /\ Searching /\ search.Look = 0
  /\ LET made == Make(dict, search) IN Return(made, made.Root)

-----------------------------------------------------------------------------
(***************************************************************************)
(* Bnf, Ors, Cats and Prim: each looks at the token NextToken has left.    *)
(***************************************************************************)
Parsing(label) == ~wanted /\ ~Searching /\ goal = label

Goto(label) == goal' = label /\ UNCHANGED wanted
NextThen(label) == goal' = label /\ wanted' = TRUE
Fail == Goto("fail") /\ UNCHANGED <<closers, step, Text>>

Unparsed == <<reading, scanner, search, Token, results>>

\* Bnf begins: the Break of the first production.
Bnf ==
  /\ Parsing("start")
  /\ IF Token = Break THEN NextThen("lhs") /\ UNCHANGED <<closers, step, Text>> ELSE Fail
  /\ UNCHANGED <<Unparsed, dict>>

Lhs ==
  /\ Parsing("lhs")
  /\ IF Token <= 0 THEN Fail /\ UNCHANGED dict
     ELSE /\ dict' = [dict EXCEPT !.node[Token].Prod = TRUE,
                                  !.node[Token].ProdPos = IF @ = 0 THEN Len(Text) ELSE @]
          /\ Text' = Append(Text, Token)
          /\ step' = 1 /\ NextThen("assign") /\ UNCHANGED closers
  /\ UNCHANGED Unparsed

\* What each flavour is written with; a '+' at the end asks for Permute.
Spelling(f) ==
  CASE f = "::=" -> <<{Code(":")}, {Code(":")}, {Code("=")}>>
    [] f = "==" -> <<{Code("=")}, {Code(">")}>>
    [] f = ":=" -> <<{Code(":")}, {Code("="), Code("+")}>>
    [] OTHER -> <<{Code("=")}>>

AssignSign ==
  /\ Parsing("assign") /\ step <= Len(Spelling(flavour))
  /\ IF Token \in Spelling(flavour)[step]
       THEN /\ step' = step + 1
            /\ IF step < Len(Spelling(flavour))
                 THEN NextThen("assign") /\ UNCHANGED Text
                 ELSE /\ Text' = Append(Text, IF Token = Code("+") THEN Permute ELSE Code("="))
                      /\ NextThen("rhs")
            /\ UNCHANGED closers
       ELSE Fail
  /\ UNCHANGED <<Unparsed, dict>>

\* A production may have nothing on its right.
Rhs ==
  /\ Parsing("rhs")
  /\ Goto(IF Token = Break THEN "end" ELSE "prim")
  /\ UNCHANGED <<Unparsed, dict, closers, step, Text>>

Place(label) == Text' = Append(Text, Token) /\ NextThen(label)

Closer(opener) == IF opener = Code("(") THEN Code(")") ELSE Code("]")
Openers == {Code("("), Code("[")}

Prim ==
  /\ Parsing("prim")
  /\ \/ Token > 0 /\ Place("plus") /\ UNCHANGED <<closers, step>>
     \/ /\ Token \in Openers
        /\ closers' = Append(closers, Closer(Token))
        /\ Place("prim") /\ UNCHANGED step
     \/ Token <= 0 /\ Token \notin Openers /\ Fail
  /\ UNCHANGED <<Unparsed, dict>>

AfterPrim ==
  /\ Parsing("plus")
  /\ IF Token = Code("+") THEN Place("cats") ELSE Goto("cats") /\ UNCHANGED Text
  /\ UNCHANGED <<Unparsed, dict, closers, step>>

Cats ==
  /\ Parsing("cats")
  /\ Goto(IF Token > 0 \/ Token \in Openers THEN "prim" ELSE "ors")
  /\ UNCHANGED <<Unparsed, dict, closers, step, Text>>

\* An alternative, or Ors returns: to Prim that waits for a bracket, or to Bnf.
Ors ==
  /\ Parsing("ors")
  /\ \/ Token = Code("|") /\ Place("prim") /\ UNCHANGED <<closers, step>>
     \/ /\ Token # Code("|") /\ closers = <<>>
        /\ Goto("end") /\ UNCHANGED <<closers, step, Text>>
     \/ /\ Token # Code("|") /\ closers # <<>>
        /\ IF Token = closers[Len(closers)]
             THEN /\ closers' = SubSeq(closers, 1, Len(closers) - 1)
                  /\ Place("plus") /\ UNCHANGED step
             ELSE Fail
  /\ UNCHANGED <<Unparsed, dict>>

EndOfProduction ==
  /\ Parsing("end")
  /\ IF Token = Break THEN Place("more") /\ UNCHANGED <<closers, step>> ELSE Fail
  /\ UNCHANGED <<Unparsed, dict>>

More ==
  /\ Parsing("more")
  /\ Goto(IF Token = TheEnd THEN "count" ELSE "lhs")
  /\ UNCHANGED <<Unparsed, dict, closers, step, Text>>

-----------------------------------------------------------------------------
(***************************************************************************)
(* The walks at the end.  The terminals are numbered first, the            *)
(* productions after them; Num2Sym leads from a number to its symbol.      *)
(***************************************************************************)
PlacesOf(order, S) == {i \in DOMAIN order : order[i] \in S}

\* The place of a symbol among those of S, in the order of the walk.
Among(order, S, n) ==
  Cardinality({i \in PlacesOf(order, S) : \E j \in DOMAIN order : order[j] = n /\ i < j})

Terminals == {n \in DOMAIN dict.node : ~dict.node[n].Prod}
Productions == {n \in DOMAIN dict.node : dict.node[n].Prod /\ ~dict.node[n].Temp}

Number(n) ==
  IF n \in Terminals THEN Among(Walk(dict), Terminals, n)
  ELSE IF n \in Productions
    THEN Cardinality(Terminals) + Among(Walk(dict), Productions, n)
    ELSE dict.node[n].Num

IsMessage(n) == n \in Terminals /\ dict.node[n].word \in Messages

Numbered(n) == [dict.node[n] EXCEPT !.Num = Number(n), !.IsMsg = IsMessage(n),
                                    !.IsExit = @ /\ ~IsMessage(n)]

\* The number of the symbol among those of S that the walk meets last.
LastOf(S) ==
  LET places == PlacesOf(Walk(dict), {n \in DOMAIN dict.node : dict.node[n].word \in S})
  IN  IF places = {} THEN 0
      ELSE Number(Walk(dict)[CHOOSE i \in places : \A j \in places : j <= i])

CountThem ==
  /\ Parsing("count")
  /\ count' = [Term |-> Cardinality(Terminals), Prod |-> Cardinality(Productions),
               Both |-> Len(dict.node), Cat |-> LastOf(CatWords), Var |-> LastOf(VarWords),
               Msg |-> \E n \in DOMAIN dict.node : IsMessage(n)]
  /\ dict' = [dict EXCEPT !.node = [n \in DOMAIN @ |-> Numbered(n)]]
  /\ Num2Sym' = [k \in {Number(n) : n \in DOMAIN dict.node} |->
                   LET last == {i \in DOMAIN Walk(dict) : Number(Walk(dict)[i]) = k}
                   IN  Walk(dict)[CHOOSE i \in last : \A j \in last : j <= i]]
  /\ Text' = Append(Text, TheEnd)
  /\ Goto("done") /\ UNCHANGED <<closers, step>>
  /\ UNCHANGED <<reading, scanner, search, Token, named>>

\* Simplify asks for the name of a production of its own.
NewName ==
  /\ Parsing("done") /\ Len(named) < Len(Names)
  /\ search' = Begin(dict, Names[Len(named) + 1])
  /\ UNCHANGED <<reading, scanner, dict, Token, parser, results>>

-----------------------------------------------------------------------------
Ended == goal = "fail" \/ (goal = "done" /\ Len(named) = Len(Names))

Next ==
  \/ Skip \/ TakeSign \/ TakeSymbol \/ TakeNul \/ TakeHeld \/ TakeOdd
  \/ Probe \/ FindIt \/ MakeIt
  \/ Bnf \/ Lhs \/ AssignSign \/ Rhs \/ Prim \/ AfterPrim \/ Cats \/ Ors
  \/ EndOfProduction \/ More
  \/ CountThem \/ NewName
  \/ Ended /\ UNCHANGED vars

Spec == Init /\ [][Next]_vars /\ WF_vars(Next)

-----------------------------------------------------------------------------
(***************************************************************************)
(* The tree.                                                               *)
(***************************************************************************)
InOrder(s) == \A i \in 1 .. Len(s) - 1 : IsIt(dict.node[s[i]].word, dict.node[s[i + 1]].word) < 0

\* The three trees a search works on, with nothing in the slots that are trash.
Cut == WriteSlot(WriteSlot(dict, search.low, 0), search.high, 0)
LowSide == Walk2(Cut, Cut.LowHeld)
HighSide == Walk2(Cut, Cut.HighHeld)
Looked == Walk2(Cut, search.Look)

\* Between any two turns of LookUp's loop no symbol is lost or met twice, the
\* parts taken together are in the order of IsIt, and the word that is looked
\* for belongs into the part that is still to be looked at; between two calls
\* the tree has every symbol once, in order.  So no word gets two offsets.
TreesOrdered ==
  LET all == IF Searching THEN LowSide \o Looked \o HighSide ELSE Walk(dict)
  IN  /\ Len(all) = Len(dict.node) /\ {all[i] : i \in DOMAIN all} = DOMAIN dict.node
      /\ InOrder(all)
      /\ Searching =>
           /\ \A i \in DOMAIN LowSide : IsIt(dict.node[LowSide[i]].word, search.word) < 0
           /\ \A i \in DOMAIN HighSide : IsIt(dict.node[HighSide[i]].word, search.word) > 0

-----------------------------------------------------------------------------
(***************************************************************************)
(* What is remembered of each symbol.                                      *)
(***************************************************************************)
InText(n) == \E i \in DOMAIN Text : Text[i] = n
LhsAt(n) == {i \in 2 .. Len(Text) : Text[i] = n /\ Text[i - 1] = Break}

\* Among the first k lexemes: after a # the next word, not what is in quotes, is
\* the one that is marked.
Trapped(k, w) == \E i, j \in 1 .. k :
  /\ i < j /\ input[i].kind = "hash" /\ input[j].kind = "word" /\ input[j].text = w
  /\ \A l \in i .. j - 1 : input[l].kind # "word"

\* After ReadIn the numbers go from 0 without a gap, terminals before
\* productions and each kind in the order of its words with messages last;
\* Num2Sym leads back; and each symbol knows whether it is a production, where
\* its first one begins, and whether it was marked.
SymbolsDescribed ==
  goal = "done" =>
    \A n \in {m \in DOMAIN dict.node : InText(m)} :
      LET s == dict.node[n]
      IN  /\ s.Num \in 0 .. count.Both - 1 /\ Num2Sym[s.Num] = n
          /\ count.Both = count.Term + count.Prod
          /\ s.Prod <=> s.Num >= count.Term
          /\ s.Prod <=> LhsAt(n) # {}
          /\ s.Prod => s.ProdPos + 1 \in LhsAt(n) /\ \A i \in LhsAt(n) : s.ProdPos < i
          /\ s.Hatch <=> Trapped(Len(input), s.word)
          /\ s.IsMsg <=> s.word \in Messages /\ ~s.Prod
          /\ \A m \in DOMAIN dict.node :
               InText(m) /\ dict.node[m].Prod = s.Prod /\ IsIt(dict.node[m].word, s.word) < 0
                 => dict.node[m].Num < s.Num
=============================================================================
