------------------------------- MODULE MCBcode -------------------------------
(***************************************************************************)
(* What the compiler from Pcode to Bcode must keep: the routines, with the *)
(* fragments they call put in, are the code it started from.               *)
(*                                                                         *)
(* Programs of one, two and three routines for TLC.                        *)
(***************************************************************************)
EXTENDS BcodeOutput

LOCAL INSTANCE SequencesExt
LOCAL INSTANCE FiniteSetsExt

(***************************************************************************)
(* Code as a list of leaves [Type, Value, Delta, arg0, to, in, nth]: to is *)
(* the number of the leaf a jump goes to; the leaf is the nth item of the  *)
(* fragment 'in', 0 for the routine itself.                                *)
(***************************************************************************)
Leaf(cell, arg0, to, in, nth) ==
  [Type |-> cell.Type, Value |-> cell.Value, Delta |-> cell.Delta, arg0 |-> arg0, to |-> to,
   in |-> in, nth |-> nth]

KeptOf(k) == SelectSeq(FromTo(Scp[k].Lo, UpTo(k) - 1), LAMBDA i : plain[i].Type # "PartOf")

\* The routine as it was before code was shared.
PlainLeaves(k) ==
  LET kept == KeptOf(k)
      before(a) == Cardinality({l \in DOMAIN kept : kept[l] < a})
  IN  [l \in DOMAIN kept |->
         LET c == plain[kept[l]]
         IN  Leaf(c, ArgSpace(k) + 1, IF c.Type = "Jump" THEN before(kept[l] + c.Value) + 1 ELSE 0, 0, l)]

\* What is written, with the fragments put in; number is that of the fragment, or 0.
Unfold(out, number, inner) ==
  LET items  == out.items
      isCall(l) == items[l].Type = "Fragment" /\ items[l].Value \in DOMAIN inner
      width(l) == IF isCall(l) THEN Len(inner[items[l].Value]) ELSE 1
      first[l \in 1 .. Len(items) + 1] == IF l = 1 THEN 1 ELSE first[l - 1] + width(l - 1)
      landing(off) == IF off = out.size THEN first[Len(items) + 1]
                      ELSE LET at == {l \in DOMAIN items : items[l].off = off}
                           IN  IF at = {} THEN 0 ELSE first[Min(at)]
      leaves(l) == LET it == items[l]
                   IN  IF isCall(l)
                         THEN [m \in DOMAIN inner[it.Value] |->
                                 [inner[it.Value][m] EXCEPT !.to = IF @ = 0 THEN 0 ELSE @ + first[l] - 1]]
                       ELSE <<Leaf(it, out.arg0, IF it.Type = "Jump" THEN landing(it.to) ELSE 0, number, l)>>
  IN  FlattenSeq([l \in DOMAIN items |-> leaves(l)])

Unfolded ==
  LET inner == FoldLeft(LAMBDA done, out : Append(done, Unfold(out, Len(done) + 1, done)), <<>>, frags)
  IN  [k \in DOMAIN routines |-> Unfold(routines[k], 0, inner)]

(***************************************************************************)
(* Where a variable is: a place in the frame of its routine, the same      *)
(* numbers for variables and for arguments; 0 if it is addressed by name.  *)
(***************************************************************************)
Position(x) ==
  LET c == Varsp[x].VarNum
  IN  IF x < VarLo \/ Varsp[x].System \/ c = 0 THEN 0
      ELSE IF c > 0 THEN c ELSE AliasPlace(Varsp[x].ScopeNum, c)

SameLeaf(a, b) ==
  /\ a.Type = b.Type /\ a.Delta = b.Delta /\ a.to = b.to
  /\ CASE a.Type \in {"Var", "OpVar"} -> a.Value = b.Value \/ (Position(a.Value) # 0 /\ Position(a.Value) = Position(b.Value))
       [] a.Type = "Arg" -> a.Value = b.Value /\ a.arg0 = b.arg0
       [] a.Type = "Jump" -> TRUE
       [] OTHER -> a.Value = b.Value

\* With the fragments put in, the routines are what they were before: the same operators
\* on the same constants, jumps to the same places, every variable and argument at the
\* place of the frame that it was given.  That another variable of the routine may have
\* been given the same place, which is not noted as used (EnTableBF.cpp:796, :869), it
\* does not see: whether the routine then does what it did depends on what it runs on.
CodeKept ==
  phase = "done" =>
    \A k \in ScopeNums :
      LET was == PlainLeaves(k)
          now == Unfolded[k + 1]
      IN  Len(was) = Len(now) /\ \A l \in DOMAIN was : SameLeaf(was[l], now[l])

\* "Opcode with its argument should be atomic": no call and no return comes between an
\* operator and what it reads from the code.
OperandsKept ==
  phase = "done" =>
    \A k \in ScopeNums :
      LET now == Unfolded[k + 1]
      IN  \A l \in DOMAIN now \ {1} :
            now[l - 1].Type = "OpCode" /\ now[l].Type \in {"Number", "Jump", "OpVar"}
              => now[l].in = now[l - 1].in /\ now[l].nth = now[l - 1].nth + 1

(***************************************************************************)
(* What is found out about routines.                                       *)
(***************************************************************************)
\* The number of arguments of a routine is kept behind the last variable, where anything
\* may come to be written (EnTableBF.cpp:941).
StoredOutside == \E j \in DOMAIN Consp : Consp[j].ArgsSet /\ j \notin DOMAIN Varsp

\* The depth of the stack is that of the code, whichever way it is reached: a jump finds
\* it as it is behind the jump, one out of a loop without what the loop took; at the end
\* of a routine the loops have given back everything.  That is so if the numbers of
\* arguments find their place.
OfJump(i) == plain[Max({l \in First .. i : plain[l].Type = "OpCode"})].Value
DepthsAgree ==
  phase = "matching" /\ ~StoredOutside =>
    /\ \A k \in ScopeNums : MapThenSumSet(LAMBDA i : plain[i].DoDelta, Extent(k)) = 0
    /\ \A i \in Scoped :
         plain[i].Type = "Jump" =>
           plain[i + plain[i].Value].Delta
             = plain[i + 2].Delta - (IF LoopStart(OfJump(i)) THEN Dod ELSE 0)

\* A routine keeps the variables of the open routines it calls, directly or through
\* other open ones, and no others.
RECURSIVE OpenReach(_)
OpenReach(ks) == LET more == ks \cup UNION {OpenCallees(k) : k \in ks}
                 IN  IF more = ks THEN ks ELSE OpenReach(more)
AliveComplete ==
  phase = "homes" =>
    \A k \in ScopeNums :
      Scp[k].Alive = IF Consp[Scp[k].Index].Open THEN {}
                     ELSE {x \in UNION {VarsOf(j) : j \in OpenReach({k})} : ~Varsp[x].System}

(***************************************************************************)
(* Why a file is refused.                                                  *)
(***************************************************************************)
IsSymbol(is) == {k \in DOMAIN file.symbols : file.symbols[k].is = is}
Code(i) == IF i \in DOMAIN file.code THEN file.code[i] ELSE More
InvokedWith(j) == {Code(i + 1).v : i \in {l \in DOMAIN file.code : Code(l) = Op("Invoke") /\ Code(l + 2).v.n = j}}

\* A jump out of the code, or one of a loop to another place than behind its end.
LoopWord(i) == Code(i - 1) \in {Op("Rep"), Op("RepEver")} \/ Code(i - 3) = Op("ControlVar")
LostWord(i) == /\ Code(i).is = "word"
               /\ \/ Code(i).v > CodeLen
                  \/ LoopWord(i) /\ Code(Code(i).v - 1) \notin {Op(o) : o \in Iterators}

\* The arguments a routine names, from its label b on: in ARG(n) and in ARG(n,'E').
Begins == {file.symbols[k].label : k \in IsSymbol("label")} \cap DOMAIN file.code
Within(b) == b .. Min({e \in Begins : e > b} \cup {CodeLen + 1}) - 1
Loads(i) == IF Code(i + 2) = Op("Bifq") /\ Code(i + 3) = Num(2 * HereARG + 128) THEN {Code(i).v} ELSE {}
Asks(i)  == IF Code(i + 4) = Op("Bifq") /\ Code(i + 5) = Num(2 * HereARG + 1) THEN {Code(i).v} ELSE {}
Times(b, r) == Cardinality({i \in Within(b) : r \in Loads(i) \cup Asks(i)})
Numbered(r, n) == Consp[r.n].text = Digits[n]

\* (A third use of any argument counts as two of the fourth.)
Once(b, r) == Times(b, r) = 1 /\ (Numbered(r, 4) => \A i \in Within(b) : \A s \in Loads(i) \cup Asks(i) : Times(b, s) < 3)

\* The routine asks whether it has an argument, used nowhere else, before it does
\* anything but assign such arguments to variables of its own.
Assigns(b, i) == /\ \E r \in Loads(i) : Once(b, r)
                 /\ Code(i + 4) = Op("Assign") /\ Code(i + 5).is = "load" /\ ~Varsp[Code(i + 5).v.n].System
AsksFirst(b) ==
  LET asks[i \in Within(b) \cup {CodeLen + 1}] ==
        IF Assigns(b, i) THEN asks[i + 7] ELSE \E r \in Asks(i) : Once(b, r)
  IN  asks[b]

\* The reasons, with their numbers: too many variables; nothing but inbuilt functions; a
\* routine that is called with different numbers of arguments, a jump that is lost, a
\* question about an argument where only its value is looked for.
Refusal ==
  IF Cardinality(IsSymbol("var")) > VarLimit THEN 8
  ELSE IF \A k \in IsSymbol("label") : file.symbols[k].label >= BifBase THEN 7
  ELSE IF \/ \E j \in DOMAIN Consp : Cardinality(InvokedWith(j)) > 1
          \/ \E i \in DOMAIN file.code : LostWord(i)
          \/ \E b \in Begins : AsksFirst(b)
         THEN 10
  ELSE 0

\* A file is refused for one of these reasons, with its number, and for no other: what
\* the later passes throw at (Matching, where two variables cannot be merged after all,
\* above all) does not come about.  That holds for code that is balanced, with routines
\* whose jumps and stacks fit in a byte (WriteBcode.h:21, 38, 47 ask for that), and if the
\* numbers of arguments find their place.
ProperFailure == phase \in {"done", "thrown"} /\ ~StoredOutside => thrown = Refusal

Passes == <<"absorb", "grist", "order", "uses", "propagate", "homes", "delta", "alias", "relative",
            "matching", "fragments", "done", "thrown">>
(***************************************************************************)
(* Types.                                                                  *)
(***************************************************************************)
TypeOK ==
  /\ phase \in Range(Passes)
  /\ thrown \in {0, 7, 8, 10} /\ (phase = "thrown" <=> thrown # 0)
  /\ p \in First .. CodeLen + 1 /\ q \in First .. CodeLen + 1
  /\ \A i \in DOMAIN Grist : /\ Grist[i].Type \in Range(Types) \cup {"none"}
                             /\ Grist[i].Delta \in 0 .. 255
  /\ \A k \in ScopeNums : Scp[k].Alive \subseteq DOMAIN Varsp /\ Scp[k].Args \in 0 .. 7
  /\ \A x \in DOMAIN Varsp : x >= VarLo => Varsp[x].VarNum \in -7 .. VarLimit - 1
  /\ DeltaNow \in 0 .. 255 /\ DoTotal \in 0 .. 255 /\ Points \in 0 .. 65535

(***************************************************************************)
(* Every pass comes to its end: each step goes on to a later pass or gets  *)
(* nearer to the end of its own.                                           *)
(***************************************************************************)
Rank(ph) == CHOOSE n \in DOMAIN Passes : Passes[n] = ph

Inversions == Cardinality({kl \in ScopeNums \X ScopeNums :
                             kl[1] < kl[2] /\ LabelOf(Scp, kl[1]) > LabelOf(Scp, kl[2])})
ToRewrite  == Cardinality({i \in DOMAIN Codep : Codep[i] = Op("AssignConst")})
Dropped    == Cardinality({i \in DOMAIN Grist : Grist[i].Type = "PartOf"})
AliveCount == MapThenSumSet(LAMBDA k : Cardinality(Scp[k].Alive), ScopeNums)

Nearer ==
  CASE phase \in {"grist", "delta", "alias"} -> p' > p \/ ToRewrite' < ToRewrite
    [] phase = "order"     -> Inversions' < Inversions
    [] phase = "propagate" -> AliveCount' > AliveCount
    [] phase = "matching"  -> Dropped' > Dropped
    [] phase = "fragments" -> Cardinality(Pending') < Cardinality(Pending) \/ Len(routines') > Len(routines)
    [] OTHER               -> FALSE

\* No pass goes on for ever, and none stops before its end (there is no deadlock).
PassesEnd == [][Rank(phase') > Rank(phase) \/ Nearer]_vars

-----------------------------------------------------------------------------
(***************************************************************************)
(* An assembler: the word of a jump holds the distance to its target.      *)
(***************************************************************************)
Resolve(code) == [k \in DOMAIN code |-> IF code[k].is = "word" THEN Word(k + code[k].v) ELSE code[k]]

\* With the stem, that has two, as many variables as constants are called: the first few
\* are all that a small program has.
VarNames == <<".", "x", "y", "u", "v", "#g", "s.", "w">>
FewNames == SubSeq(VarNames, 1, 6)
VarSymbol(name) ==
  [is |-> "var", first |-> IF name = "#g" THEN "#" ELSE "x", len |-> 1, text |-> name, stem |-> name = "s.",
   label |-> 0, hex |-> FALSE]

ConNames == <<"", "1", "2", "A", "B", "_C", "_D", "EXT", "abc">>
ConLens  == <<0, 1, 1, 1, 1, 2, 2, 3, 3>>
ConSymbol(k, label) ==
  [is |-> IF label = 0 THEN "const" ELSE "label", first |-> IF k \in {6, 7} THEN "_" ELSE "c",
   len |-> ConLens[k], text |-> ConNames[k], stem |-> FALSE, label |-> label, hex |-> FALSE]

Var(name) == V((CHOOSE k \in DOMAIN VarNames : VarNames[k] = name) - 1)
Con(text) == C(CHOOSE k \in DOMAIN ConNames : ConNames[k] = text)

\* The routines in the order of their code: pairs of a name and a body.
LabelsOf(routine, k) == First + FoldLeft(LAMBDA n, l : n + Len(routine[l][2]), 0, [l \in 1 .. k - 1 |-> l])
ProgramOf(names, routine) ==
  [symbols |-> [k \in DOMAIN names |-> VarSymbol(names[k])]
               \o [k \in DOMAIN ConNames |->
                     LET at == {l \in DOMAIN routine : routine[l][1] = ConNames[k]}
                     IN  ConSymbol(k, IF at = {} THEN 0 ELSE LabelsOf(routine, CHOOSE l \in at : TRUE))],
   code |-> Resolve(<<More>> \o FlattenSeq([l \in DOMAIN routine |-> routine[l][2]]))]
Program(routine) == ProgramOf(VarNames, routine)

(***************************************************************************)
(* Expressions and statements, as the compiler of the standard's program   *)
(* writes them.                                                            *)
(***************************************************************************)
Get(x)        == <<Load(Var(x)), More>>
Lit(t)        == <<Load(Con(t)), More>>
Plus(e, f)    == e \o f \o <<Op("Add")>>
Same(e, f)    == e \o f \o <<Op("Bool"), Op("Eq")>>
Arg(n)        == Lit(n) \o <<Op("Bifq"), Num(130)>>
HasArg(n)     == Lit(n) \o Lit("") \o <<Op("Bifq"), Num(3)>>
Length(e)     == e \o <<Op("Bif"), Num(0)>>
Ask(t, e)     == e \o <<Op("Invoke"), Num(1), Load(Con(t)), More>>

Ask2(t, e, f) == e \o f \o <<Op("Invoke"), Num(2), Load(Con(t)), More>>

Set(x, e)     == e \o <<Op("Assign"), Load(Var(x)), More>>
Let(x, t)     == <<Op("AssignConst"), Load(Con(t)), More, Load(Var(x)), More>>
Put(x, e)     == e \o <<Target(Var(x)), More>>
Say(e)        == e \o <<Op("Say")>>
CallTo(t)     == <<Op("Call"), Load(Con(t)), More>>
If(o, e, f, b) == e \o f \o <<Op(o), Word(Len(b) + 2), More>> \o b
IfEq(e, f, b) == If("Eq", e, f, b)
Else(b)       == <<Op("Jump"), Word(Len(b) + 2), More>> \o b
IfElse(e, f, b, c) == IfEq(e, f, b \o <<Op("Jump"), Word(Len(c) + 2), More>>) \o c
Repeat(e, b)  == e \o <<Op("Rep"), Word(Len(b) + 3), More>> \o b \o <<Op("IterRep")>>
DoTo(x, e, f, b) == e \o <<Op("Number")>> \o f \o <<Op("To"), Op("ControlVar"), Load(Var(x)), More,
                    Word(Len(b) + 3), More>> \o b \o <<Op("IterCV")>>
Parsed(x, e)  == e \o <<Op("Parse"), Num(1), Target(Var(x)), More, Sub(mParseEnd)>>
Select(e, f, b) == IfEq(e, f, b \o <<Op("Jump"), Word(4), More>>) \o <<Op("Raise"), Num(7)>>
Return        == <<Op("Return")>>
Returns(e)    == e \o <<Op("Returns")>>

(***************************************************************************)
(* The programs.                                                           *)
(***************************************************************************)
MCBifs == <<[f |-> "LENGTH", MinArgs |-> 1], [f |-> "ARG", MinArgs |-> 0]>>

Count(x) == Set(x, Plus(Get(x), Lit("1")))
Blocks(x) ==
  <<Count(x) \o Say(Get(x)),
    IfEq(Get(x), Lit("1"), Say(Lit("abc"))),
    Repeat(Lit("2"), Count(x) \o Repeat(Lit("1"), Say(Get(x)))),
    Set("#g", Ask("EXT", Get(x))),
    IfElse(Get(x), Lit("1"), Count(x), Put(x, Length(Get("#g")))),
    Let(x, "abc") \o Set(x, Same(Get(x), Lit("2"))),
    DoTo(x, Lit("1"), Get("#g"), IfEq(Get(x), Lit("2"), Say(Get(x)))),
    Parsed(x, Lit("abc")) \o Select(Get(x), Lit("1"), Count(x)),
    Say(Arg("1")) \o IfEq(HasArg("2"), Lit("1"), Count(x)),
    CallTo("_C") \o Say(Get(x))>>

Body(ks, x) == FlattenSeq([l \in DOMAIN ks |-> Blocks(x)[ks[l]]])

\* Routines A and B of two blocks each, B with an argument under another name; _C and _D
\* have no variables of their own.
Routines3(ks, ls) ==
  Program(<<<<"B", Set("y", Arg("1")) \o Body(ls, "y") \o <<Op("Exit")>> \o Return>>,
            <<"A", Body(ks, "x") \o Returns(Get("x"))>>,
            <<"_D", Count("u") \o Return>>,
            <<"_C", CallTo("_D") \o Set("#g", Get("v")) \o Return>>>>)

Refused ==
  {Program(<<>>),
   [Program(<<<<"A", Return>>>>) EXCEPT !.symbols = [k \in 1 .. 3 |-> VarSymbol("x")] \o @],
   Program(<<<<"A", Say(Ask2("EXT", Get("x"), Lit("1"))) \o Ask("EXT", Get("x")) \o CallTo("_C") \o Return>>,
             <<"_C", Say(Lit("2")) \o Return>>>>),
   Program(<<<<"A", <<Op("Jump"), Word(9), More>> \o Return>>>>),
   Program(<<<<"A", Lit("2") \o <<Op("Rep"), Word(4), More>> \o Say(Lit("2")) \o Return>>>>),
   Program(<<<<"A", Set("x", Arg("2")) \o IfEq(HasArg("1"), Lit("1"), Count("x")) \o Return>>>>)}

\* EXT is a constant behind the last variable.
Beyond == ProgramOf(FewNames, <<<<"A", Repeat(Lit("2"), Set("x", Ask("EXT", Get("x"))))
                                       \o Say(Ask("EXT", Get("x"))) \o Return>>>>)

\* B's frame grows to that of A as they come to share what they do with their first
\* arguments; then A's second argument, x there, can be what y is in B.
Argued(x) == Say(Plus(Arg("1"), Plus(Lit("abc"), Arg("1")))) \o CallTo("_C") \o Count(x) \o Say(Get(x))
Aliased == Program(<<<<"A", Set("x", Arg("2")) \o Argued("x") \o Return>>,
                     <<"B", Argued("y") \o Return>>,
                     <<"_C", Say(Lit("2")) \o Return>>>>)

\* A does with x and u what B does with y and v.
Count2(x, y) == Count(x) \o Say(Get(x)) \o Count(y) \o Say(Get(y))
Paired == Program(<<<<"A", Count2("x", "u") \o Return>>, <<"B", Count2("y", "v") \o Return>>>>)

\* B has the blocks of A, in the same order or in the other.
Pair(k, l) == Routines3(<<k, l>>, IF (k + l) % 2 = 0 THEN <<k, l>> ELSE <<l, k>>)
MCInputs == Refused \cup {Beyond, Aliased, Paired} \cup UNION {{Pair(k, l) : l \in k + 1 .. 10} : k \in 1 .. 9}
=============================================================================
