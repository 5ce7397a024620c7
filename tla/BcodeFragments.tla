---------------------------- MODULE BcodeFragments ----------------------------
(***************************************************************************)
(* The compiler from Pcode to Bcode, third part (Matching in               *)
(* EnTableBF.cpp).  Code that occurs twice becomes a fragment, called from *)
(* both places.  Again and again the longest pair of equal stretches is    *)
(* looked for, one from m and one from n; n becomes a call of what is at   *)
(* m.  Local variables of two routines are equal if they can be given one  *)
(* place in the frames of both.                                            *)
(***************************************************************************)
EXTENDS BcodeScopes

LOCAL INSTANCE SequencesExt
LOCAL INSTANCE FiniteSetsExt

CONSTANT MeritProposal     \* how long a stretch must be, and more

ASSUME FragmentsAssumption == MeritProposal \in Nat /\ MeritProposal >= 2

IsVar(cell) == cell.Type \in {"Var", "OpVar"}
ParseDot    == 0
Unshared(o) == o \in {"IterRep", "Iterate", "IterCV", "Leave", "While", "Until", "Return", "Returns"}

ArgSpace(k) == Scp[k].LocalVars + Scp[k].Args

\* The smaller of two frames can still grow.
CanLevel(a, b, i, j) == (i > j => ~Scp[b].Sized) /\ (j > i => ~Scp[a].Sized)

ArgsMatch(u, v) ==
  LET a == Grist[u].ArgScp
      b == Grist[v].ArgScp
  IN  a = b \/ CanLevel(a, b, ArgSpace(a), ArgSpace(b))

(***************************************************************************)
(* Variables x and y of two routines: VarNum is 0 while a variable has no  *)
(* place, negative for an argument, else the place.  Where x has one, y    *)
(* takes it if its routine has not given it away.                          *)
(***************************************************************************)
Free(k, place) == place \notin Scp[k].Mapped /\ place <= Scp[k].LocalVars

AliasPlace(a, c) == ArgSpace(a) + 1 + c

VarsMayMatch(x, y) ==
  LET a == Varsp[x].ScopeNum
      b == Varsp[y].ScopeNum
      c == Varsp[x].VarNum
      d == Varsp[y].VarNum
  IN  /\ ~Varsp[x].System /\ ~Varsp[y].System
      /\ x # ParseDot /\ y # ParseDot
      /\ a # b
      /\ \/ c = 0 /\ d = 0
         \/ c < 0 /\ d = c /\ CanLevel(a, b, Scp[a].LocalVars, Scp[b].LocalVars)
         \/ c < 0 /\ d = 0 /\ Free(b, AliasPlace(a, c))
         \/ d < 0 /\ c = 0 /\ Free(a, AliasPlace(b, d))
         \/ c > 0 /\ d = c
         \/ c > 0 /\ d = 0 /\ Free(b, c)
         \/ d > 0 /\ c = 0 /\ Free(a, d)

(***************************************************************************)
(* Elements u and v of two stretches.                                      *)
(***************************************************************************)
SameElement(u, v) ==
  LET s == Grist[u].Type
      x == Grist[u].Value
      y == Grist[v].Value
  IN  CASE s = "PartOf"   -> TRUE
        [] s = "Fragment" -> FALSE
        [] OTHER ->
             /\ Grist[u].Delta = Grist[v].Delta
             /\ s = "OpCode" => ~Unshared(x)
             /\ x = y \/ (IsVar(Grist[u]) /\ VarsMayMatch(x, y))
             /\ s = "Arg" => ArgsMatch(u, v)

\* The pair of variables that are to get one place, if they are one.
NewPair(u, v) ==
  LET x == Grist[u].Value
      y == Grist[v].Value
  IN  IF IsVar(Grist[u]) /\ x # y /\ ~(Varsp[x].VarNum > 0 /\ Varsp[y].VarNum > 0) THEN {x, y} ELSE {}

\* A place that is branched to needs the branch in the stretch as well.
BranchesInside(r, u, v) == r >= Grist[u].From /\ r >= Grist[v].From

\* The stretches from i and from j go on at the distance r; no variable is in two pairs.
GoesOn(i, j, r) ==
  LET u == i + r
      v == j + r
  IN  /\ Grist[u].Type = Grist[v].Type
      /\ Grist[u].Overlap = Grist[i].Overlap /\ Grist[v].Overlap = Grist[j].Overlap
      /\ SameElement(u, v)
      /\ \A s \in 0 .. r - 1 : NewPair(i + s, j + s) \cap NewPair(u, v) \in {{}, NewPair(u, v)}
      /\ BranchesInside(r, u, v)

\* Mutant of Reach: an operator is taken without what belongs to it.
ReachOfJumps(i, r) == IF Grist[i + r].Type = "Jump" THEN r + Grist[i + r].Value ELSE 0

\* Mutant of Reach: a jump is taken without the place it goes to.
ReachOfOps(i, r) == IF Grist[i + r].Type = "OpCode" THEN r + Grist[i + r].OpLen ELSE 0

\* How far a stretch must go if it has the element at distance r.
Reach(i, r) ==
  CASE Grist[i + r].Type = "OpCode" -> r + Grist[i + r].OpLen
    [] Grist[i + r].Type = "Jump"   -> r + Grist[i + r].Value
    [] OTHER -> 0

\* The length of the longest stretches from i (in routine k) and from j that are equal
\* and complete.
Stretch(k, i, j) ==
  LET equal[r \in 0 .. UpTo(k) - i] == IF r < UpTo(k) - i /\ GoesOn(i, j, r) THEN equal[r + 1] ELSE r
      complete == {l \in 1 .. equal[0] : \A r \in 0 .. l - 1 : Reach(i, r) <= l}
  IN  Max({0} \cup complete)

\* Operands are good places to start, except within PARSE.
GoodStart(i) == Grist[i].Type \in {"OpCode", "Var", "Con", "Arg"} /\ ~Grist[i].WithinP

Candidates(i) ==
  LET chain[j \in Scoped \cup {0}] == IF j = 0 THEN {} ELSE {j} \cup chain[Grist[j].SkipTo]
  IN  chain[Grist[i].SkipTo]

Proposals ==
  {pr \in UNION {{<<k, i, j, Stretch(k, i, j)>> : j \in Candidates(i)} :
                   <<k, i>> \in {ki \in ScopeNums \X Scoped : ki[2] \in Extent(ki[1]) /\ GoodStart(ki[2])}} :
     pr[4] > 0}

\* The longest one; of equals, the first that is met.
Before(a, b) == a[4] > b[4] \/ (a[4] = b[4] /\ (a[2] < b[2] \/ (a[2] = b[2] /\ a[3] <= b[3])))
Best(props)  == CHOOSE pr \in props : \A other \in props : Before(pr, other)

(***************************************************************************)
(* A proposal turned to fact.  acc is [vars, scp, bad].                    *)
(***************************************************************************)
Level(acc, a, b, i, j) ==
  IF ~((i > j => ~acc.scp[b].Sized) /\ (j > i => ~acc.scp[a].Sized)) THEN [acc EXCEPT !.bad = TRUE]
  ELSE [acc EXCEPT !.scp[a] = [@ EXCEPT !.Sized = TRUE, !.LocalVars = IF j > i THEN @ + j - i ELSE @],
                   !.scp[b] = [@ EXCEPT !.Sized = TRUE, !.LocalVars = IF i > j THEN @ + i - j ELSE @]]

LevelArgs(acc, u, v) ==
  LET a == Grist[u].ArgScp
      b == Grist[v].ArgScp
  IN  IF a = b THEN acc
      ELSE Level(acc, a, b, acc.scp[a].LocalVars + acc.scp[a].Args, acc.scp[b].LocalVars + acc.scp[b].Args)

\* y takes the place of x, an argument by another name, in the frame of b.
TakeAlias(acc, a, b, c, y) ==
  LET place == acc.scp[a].LocalVars + acc.scp[a].Args + 1 + c
  IN  IF place \in acc.scp[b].Mapped \/ place > acc.scp[b].LocalVars THEN [acc EXCEPT !.bad = TRUE]
      ELSE [acc EXCEPT !.vars[y].VarNum = place, !.scp[b].Mapped = @ \cup {place}, !.scp[a].Sized = TRUE]

\* Both are placed at the first place that is free in both frames; neither frame is
\* told, and of the two last cases one tells it.
Unmapped(acc, a, b) == (1 .. VarLimit - 1) \ (acc.scp[a].Mapped \cup acc.scp[b].Mapped)
PlaceBoth(acc, a, b, x, y) ==
  LET places == Unmapped(acc, a, b)
  IN  IF places = {} THEN [acc EXCEPT !.bad = TRUE]
      ELSE [acc EXCEPT !.vars[x].VarNum = Min(places), !.vars[y].VarNum = Min(places)]

\* An argument by another name that has got a place in the meantime takes that place.
MergeVars(acc, x, y) ==
  LET a == acc.vars[x].ScopeNum
      b == acc.vars[y].ScopeNum
      c == acc.vars[x].VarNum
      d == acc.vars[y].VarNum
  IN  CASE x = y                              -> acc
        [] x # y /\ c < 0 /\ d < 0 /\ c # d   -> [acc EXCEPT !.bad = TRUE]
        [] x # y /\ c < 0 /\ d = c            -> Level(acc, a, b, acc.scp[a].LocalVars, acc.scp[b].LocalVars)
        [] c < 0 /\ d = 0                     -> TakeAlias(acc, a, b, c, y)
        [] d < 0 /\ c = 0                     -> TakeAlias(acc, b, a, d, x)
        [] x # y /\ c = 0 /\ d = 0            -> PlaceBoth(acc, a, b, x, y)
        [] x # y /\ c > 0 /\ d = c            -> acc
        [] c > 0 /\ d > 0 /\ c # d            -> [acc EXCEPT !.bad = TRUE]
        [] c > 0 /\ d <= 0                    -> [acc EXCEPT !.vars[y].VarNum = c, !.scp[b].Mapped = @ \cup {c}]
        [] d > 0 /\ c <= 0                    -> [acc EXCEPT !.vars[x].VarNum = d]

MergeElements(acc, u, v) ==
  CASE acc.bad -> acc
    [] ~acc.bad /\ Grist[u].Type = "Arg" -> LevelArgs(acc, u, v)
    [] ~acc.bad /\ IsVar(Grist[u])       -> MergeVars(acc, Grist[u].Value, Grist[v].Value)

\* What is lost is not looked at again, should the stretches overlap.
Commit(m, n, w) ==
  LET named == SelectSeq(FromTo(0, Min({w, n - m}) - 1),
                         LAMBDA r : IsVar(Grist[m + r]) \/ Grist[m + r].Type = "Arg")
  IN  FoldLeft(LAMBDA acc, r : MergeElements(acc, m + r, n + r), [vars |-> Varsp, scp |-> Scp, bad |-> FALSE], named)

\* Mutant of Lost: both copies are kept.
LostNothing(m, n, w) ==
  [i \in DOMAIN Grist |-> [Grist[i] EXCEPT !.Overlap = IF i \in m .. m + w - 1 THEN m ELSE @]]

\* One copy is kept, one is lost.
Lost(m, n, w) ==
  [i \in DOMAIN Grist |->
     [(IF i \in n .. n + w - 1 THEN PartOf(Grist[i]) ELSE Grist[i])
        EXCEPT !.Overlap = IF i \in m .. m + w - 1 THEN m ELSE @]]

\* The first three elements of the call tell what it calls: where, how long, in which
\* routine.
CallOf(G, g, m, n, w) ==
  [G EXCEPT ![n] = [@ EXCEPT !.Type = "Fragment", !.FragFact = m],
            ![n + 1].FragFact = w, ![n + 2].FragFact = g]

Share ==
  /\ phase = "matching"
  /\ LET props == Proposals
         best  == Best(props)
     IN  /\ props # {} /\ best[4] > MeritProposal
         /\ LET done == Commit(best[2], best[3], best[4])
            IN  IF done.bad THEN Throw(10) /\ UNCHANGED <<Grist, Varsp, Scp>>
                ELSE /\ Grist' = CallOf(Lost(best[2], best[3], best[4]), best[1], best[2], best[3], best[4])
                     /\ Varsp' = done.vars /\ Scp' = done.scp
                     /\ UNCHANGED <<phase, thrown>>
  /\ UNCHANGED <<file, readVars, WithinParse, Consp, scopeVars>>

NoMore ==
  /\ phase = "matching"
  /\ \A pr \in Proposals : pr[4] <= MeritProposal
  /\ phase' = "fragments"
  /\ UNCHANGED <<file, thrown, readVars, WithinParse, Varsp, Consp, Scp, Grist, scopeVars>>

Matching == Share \/ NoMore
=============================================================================
