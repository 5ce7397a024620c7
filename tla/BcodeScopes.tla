----------------------------- MODULE BcodeScopes -----------------------------
(***************************************************************************)
(* The compiler from Pcode to Bcode, second part (main of EnTableBF.cpp    *)
(* and SetDelta of Grist.h): where the routines begin and end, which       *)
(* variables each of them keeps on the stack, how deep the stack is at     *)
(* every element, which variables are arguments under another name, and    *)
(* what is prepared for the search for equal code.                         *)
(***************************************************************************)
EXTENDS BcodeGrist

LOCAL INSTANCE SequencesExt
LOCAL INSTANCE FiniteSetsExt

CONSTANT LookHash      \* how many elements are looked at ahead to find equal code

ASSUME ScopesAssumption == LookHash \in Nat \ {0}

VARIABLES
  DeltaNow,     \* the depth of the stack
  DoTotal,      \* what running loops take of it
  MaxDelta,     \* the deepest it gets
  plain         \* (history) Grist as it is before equal code is shared

scopeVars == <<DeltaNow, DoTotal, MaxDelta, plain>>
scanVars  == <<q, VoidJump, DoEndsAt, Codep>>

ScopeNums == DOMAIN Scp
FromTo(a, b) == [k \in 1 .. b - a + 1 |-> a + k - 1]

\* The elements of routine k, up to the next one.
UpTo(k) == IF k + 1 \in ScopeNums THEN Scp[k + 1].Lo ELSE CodeLen + 1
Extent(k) == Scp[k].Lo .. UpTo(k) - 1
Scoped == IF Scp[0].Lo > CodeLen THEN {} ELSE Scp[0].Lo .. CodeLen

(***************************************************************************)
(* Disorder: the labels are sorted, one pass after the other.              *)
(***************************************************************************)
LabelOf(S, k) == Consp[S[k].Index].Label
SwapDown(S, k) ==
  IF LabelOf(S, k - 1) > LabelOf(S, k)
    THEN [S EXCEPT ![k - 1].Index = S[k].Index, ![k].Index = S[k - 1].Index] ELSE S

Disorder ==
  /\ phase = "order"
  /\ LET sorted == FoldLeft(SwapDown, Scp, FromTo(1, Cardinality(ScopeNums) - 1))
     IN  IF sorted # Scp THEN Scp' = sorted /\ UNCHANGED <<Consp, phase>>
         ELSE /\ Consp' = [j \in DOMAIN Consp |->
                             LET at == {k \in ScopeNums : Scp[k].Index = j}
                             IN  IF at = {} THEN Consp[j]
                                 ELSE [Consp[j] EXCEPT !.ScopeNum = CHOOSE k \in at : TRUE]]
              /\ Scp' = [k \in ScopeNums |-> [Scp[k] EXCEPT !.Lo = LabelOf(Scp, k)]]
              /\ phase' = "uses"
  /\ UNCHANGED <<file, thrown, readVars, WithinParse, Varsp, Grist, scopeVars>>

(***************************************************************************)
(* Which routine uses which variables and arguments.                       *)
(***************************************************************************)
VarsOf(k) == {Grist[i].Value : i \in {j \in Extent(k) : Grist[j].Type \in {"Var", "OpVar"}}}
ArgCells(k) == SelectSeq(FromTo(Scp[k].Lo, UpTo(k) - 1), LAMBDA i : Grist[i].Type = "Arg")
ArgsIn(k) == [n \in 1 .. Len(ArgCells(k)) |-> Grist[ArgCells(k)[n]].Value - 1]

\* One more use of argument r: of three uses the code means to count two only, and
\* sets the count of the argument 3 instead.
CountArg(ct, r) ==
  LET more == [ct EXCEPT ![r] = @ + 1]
  IN  IF more[r] = 3 THEN [more EXCEPT ![3] = 2] ELSE more

NoteUses ==
  /\ phase = "uses"
  /\ Scp' = [k \in ScopeNums |->
               [Scp[k] EXCEPT
                  !.Alive = {j \in VarsOf(k) : ~Varsp[j].System},
                  !.ArgCt = FoldLeft(CountArg, @, ArgsIn(k)),
                  !.Args = Max({0} \cup {r + 1 : r \in Range(ArgsIn(k))})]]
  /\ Grist' = [i \in DOMAIN Grist |->
                 LET in == {k \in ScopeNums : i \in Extent(k)}
                 IN  IF Grist[i].Type = "Arg" /\ in # {} THEN [Grist[i] EXCEPT !.ArgScp = CHOOSE k \in in : TRUE]
                     ELSE Grist[i]]
  /\ phase' = "propagate"
  /\ UNCHANGED <<file, thrown, readVars, WithinParse, Varsp, Consp, scopeVars>>

\* A routine keeps the variables of the open routines it calls; pass after pass, until
\* no routine gets more.  Then the open ones keep none.
OpenCallees(k) ==
  {Consp[Grist[i].Value].ScopeNum :
     i \in {j \in Extent(k) : /\ Grist[j].Type = "OpCon"
                              /\ Consp[Grist[j].Value].Open /\ ~Consp[Grist[j].Value].External}}

AddAlive(S, k) == [S EXCEPT ![k].Alive = @ \cup UNION {S[j].Alive : j \in OpenCallees(k)}]

\* Mutant of Propagate: there is one pass only.
PropagateOnce ==
  /\ phase = "propagate"
  /\ LET wider == FoldLeft(AddAlive, Scp, FromTo(0, Cardinality(ScopeNums) - 1))
     IN  Scp' = [k \in ScopeNums |-> IF Consp[Scp[k].Index].Open THEN [wider[k] EXCEPT !.Alive = {}]
                                     ELSE wider[k]]
  /\ phase' = "homes"
  /\ UNCHANGED <<file, thrown, readVars, WithinParse, Varsp, Consp, Grist, scopeVars>>

Propagate ==
  /\ phase = "propagate"
  /\ LET wider == FoldLeft(AddAlive, Scp, FromTo(0, Cardinality(ScopeNums) - 1))
     IN  IF wider # Scp THEN Scp' = wider /\ UNCHANGED phase
         ELSE /\ Scp' = [k \in ScopeNums |-> IF Consp[Scp[k].Index].Open THEN [Scp[k] EXCEPT !.Alive = {}]
                                             ELSE Scp[k]]
              /\ phase' = "homes"
  /\ UNCHANGED <<file, thrown, readVars, WithinParse, Varsp, Consp, Grist, scopeVars>>

\* The routine a variable belongs to: the last of those that keep it.
Homes ==
  /\ phase = "homes"
  /\ Varsp' = [j \in DOMAIN Varsp |->
                 LET in == {k \in ScopeNums : j \in Scp[k].Alive}
                 IN  IF j >= VarLo /\ in # {} THEN [Varsp[j] EXCEPT !.ScopeNum = Max(in)] ELSE Varsp[j]]
  /\ phase' = "delta" /\ p' = First
  /\ UNCHANGED <<file, thrown, scanVars, WithinParse, Consp, Scp, Grist, scopeVars>>

(***************************************************************************)
(* SetDelta.  The depth of the stack at every element, counted from one    *)
(* element to the next whatever the jumps; calls empty the stack but for   *)
(* the loops that run.                                                     *)
(***************************************************************************)
Byte(n) == n % 256

BifArgs(n) == Bifs[BifNum(n) + 1].MinArgs + XtraArgs(n)

\* What the operator at p takes off the stack, its result counted in.
Pops ==
  LET o == Grist[p].Value
  IN  Down(o)
      - (IF o \in WithJump /\ Grist[p + 1].Type = "Number" /\ Grist[p + 1].Value = 0 THEN 1 ELSE 0)
      + (IF o = "Bifq" THEN BifArgs(Grist[p + 1].Value) - 1 ELSE 0)
      + (IF o \in {"Min", "Max"} THEN Grist[p + 1].Value ELSE 0)

EndsParse == WithinParse /\ Grist[p].Type = "Number" /\ Grist[p].Value = mParseEnd

\* A routine called as a function leaves its result; the arguments are as many as the
\* stack is deep, unless they are known.
Callee == Consp[Grist[p].Value]
Counted(now) ==
  IF Grist[p].Type = "OpCon" /\ ~Callee.ArgsSet THEN ArgsOf(Varsp, Grist[p].Value, now) ELSE Varsp

After(now, total, use) ==
  CASE Grist[p].Type \in {"Con", "Arg", "Var"} -> IF WithinParse THEN now ELSE now + 1
    [] Grist[p].Type = "OpCode" -> now - Pops
    [] Grist[p].Type = "OpCon"  -> IF Callee.Invoked THEN now - (use - 1) ELSE total
    [] EndsParse -> now - 1
    [] OTHER -> now

SetDelta ==
  /\ phase = "delta" /\ p <= CodeLen
  /\ LET now   == Byte(DeltaNow + Grist[p].DoDelta)
         total == Byte(DoTotal + Grist[p].DoDelta)
     IN  /\ DoTotal' = total
         /\ MaxDelta' = Max({MaxDelta, now})
         /\ \E use \in IF Grist[p].Type = "OpCon" THEN ArgUses(Counted(now), Grist[p].Value) ELSE {0} :
              DeltaNow' = Byte(After(now, total, use))
         /\ Varsp' = Counted(now)
         /\ Consp' = IF Grist[p].Type = "OpCon" THEN [Consp EXCEPT ![Grist[p].Value].ArgsSet = TRUE] ELSE Consp
  /\ Grist' = [Grist EXCEPT ![p].Delta = DeltaNow]
  /\ WithinParse' = ((WithinParse /\ ~EndsParse) \/ (Grist[p].Type = "OpCode" /\ Grist[p].Value = "Parse"))
  /\ p' = p + 1
  /\ UNCHANGED <<file, phase, thrown, scanVars, Scp, plain>>

DeltaSet ==
  /\ phase = "delta" /\ p > CodeLen
  /\ phase' = "alias" /\ p' = Scp[0].Lo
  /\ UNCHANGED <<file, thrown, scanVars, WithinParse, Varsp, Consp, Scp, Grist, scopeVars>>

(***************************************************************************)
(* An argument that is used once, at the very beginning of its routine, to *)
(* be assigned to a variable: the variable is that argument's other name.  *)
(***************************************************************************)
RoutineAt(i) == CHOOSE k \in ScopeNums : i \in Extent(k)
UsedOnce  == Grist[p].Type = "Arg" /\ Scp[RoutineAt(p)].ArgCt[Grist[p].Value - 1] = 1
Assigned  == Grist[p + 2].Type = "OpCode" /\ Grist[p + 2].Value = "Assign"
Unforeseen == Grist[p + 1].Type # "PartOf" \/ (Assigned /\ Grist[p + 3].Type # "OpVar")
Aliasing  == phase = "alias" /\ p <= CodeLen

AliasSkip ==
  /\ Aliasing /\ Grist[p].Type = "PartOf"
  /\ p' = p + 1
  /\ UNCHANGED <<file, phase, thrown, scanVars, WithinParse, Varsp, Consp, Scp, Grist, scopeVars>>

AliasArg ==
  /\ Aliasing /\ UsedOnce /\ ~Unforeseen /\ Assigned /\ ~Varsp[Grist[p + 3].Value].System
  /\ Varsp' = [Varsp EXCEPT ![Grist[p + 3].Value].VarNum = -Grist[p].Value]
  /\ Grist' = [Grist EXCEPT ![p] = PartOf(@), ![p + 2] = PartOf(@), ![p + 3] = PartOf(@)]
  /\ p' = p + 1
  /\ UNCHANGED <<file, phase, thrown, scanVars, WithinParse, Consp, Scp, scopeVars>>

AliasStop ==
  /\ Aliasing /\ Grist[p].Type # "PartOf"
  /\ UsedOnce /\ ~Unforeseen => ~Assigned \/ Varsp[Grist[p + 3].Value].System
  /\ IF UsedOnce /\ Unforeseen THEN Throw(10) /\ UNCHANGED p
     ELSE p' = UpTo(RoutineAt(p)) /\ UNCHANGED <<phase, thrown>>
  /\ UNCHANGED <<file, scanVars, WithinParse, Varsp, Consp, Scp, Grist, scopeVars>>

AliasEnd ==
  /\ phase = "alias" /\ p > CodeLen
  /\ phase' = "relative"
  /\ UNCHANGED <<file, thrown, readVars, WithinParse, Varsp, Consp, Scp, Grist, scopeVars>>

(***************************************************************************)
(* Jumps become relative, and every element gets the address of the next   *)
(* one that is worth comparing with it: one followed by elements of the    *)
(* same types at the same distances, as far as a product of them tells.    *)
(***************************************************************************)
Types == <<"Number", "OpVar", "OpCon", "Jump", "PartOf", "Fragment", "OpCode", "Var", "Con", "Arg">>
TypeNumber(t) == (CHOOSE n \in DOMAIN Types : Types[n] = t) - 1

Ahead(G, k, i) ==
  LET kept  == SelectSeq(FromTo(i, UpTo(k) - 1), LAMBDA l : G[l].Type # "PartOf")
      looks == SubSeq(kept, 1, Min({Len(kept), LookHash}))
  IN  FoldLeft(LAMBDA al, l : al * (l - i + TypeNumber(G[l].Type)), 1, looks)

Relative ==
  /\ phase = "relative"
  /\ LET G  == [i \in DOMAIN Grist |-> IF i \in Scoped /\ Grist[i].Type = "Jump"
                                         THEN [Grist[i] EXCEPT !.Value = (@ - i) % 65536] ELSE Grist[i]]
         al == [i \in Scoped |-> Ahead(G, RoutineAt(i), i)]
         later(i) == {l \in Scoped : l > i /\ al[l] = al[i]}
     IN  /\ Grist' = [i \in DOMAIN G |-> IF i \in Scoped /\ later(i) # {}
                                           THEN [G[i] EXCEPT !.SkipTo = Min(later(i))] ELSE G[i]]
         /\ plain' = Grist'
  /\ phase' = "matching"
  /\ UNCHANGED <<file, thrown, readVars, WithinParse, Varsp, Consp, Scp, DeltaNow, DoTotal, MaxDelta>>

ScopesFound ==
  \/ Disorder \/ NoteUses \/ Propagate \/ Homes \/ SetDelta \/ DeltaSet
  \/ AliasSkip \/ AliasArg \/ AliasStop \/ AliasEnd \/ Relative

InitScopes == DeltaNow = 0 /\ DoTotal = 0 /\ MaxDelta = 0 /\ plain = <<>>
=============================================================================
