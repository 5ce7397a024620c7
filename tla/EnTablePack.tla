----------------------------- MODULE EnTablePack -----------------------------
(***************************************************************************)
(* The layout of the parser tables (Pack.h).  Pack squeezes the two        *)
(* matrices the parser consults for a token, which groups a state accepts  *)
(* and which state a group leads to, and chooses for the switch of every   *)
(* reduction a way to decide it in at most three steps.                    *)
(***************************************************************************)
EXTENDS EnTableStack

VARIABLES
  StateAcceptsGroupsV,  \* the different sets of groups, without keywords, a state accepts
  StateAcceptsGroups,   \* which of them is the state's
  Groups,               \* of every group: AcceptNdx, UseArray, Tentative, ShiftNdx
  AcceptBits,           \* the rows WriteAccept puts out, as sets of columns
  ShiftNdx,             \* the row of Vs for every state that shifts
  Vs, Ws,               \* the targets squeezed along the states, then along the groups
  RedSubsetOf,          \* the state whose switch includes the state's, or 0
  RedStep,              \* the steps that decide the switches, <<kind, next, discriminators>>
  Gaps, Ranking,        \* what those steps demand of the final numbering
  Physical              \* how many slots every state takes

packVars == <<StateAcceptsGroupsV, StateAcceptsGroups, Groups, AcceptBits, ShiftNdx, Vs, Ws,
              RedSubsetOf, RedStep, Gaps, Ranking, Physical>>

InitPack ==
  /\ StateAcceptsGroupsV = <<>> /\ StateAcceptsGroups = <<>> /\ Groups = <<>>
  /\ AcceptBits = <<>> /\ ShiftNdx = <<>> /\ Vs = <<>> /\ Ws = <<>>
  /\ RedSubsetOf = <<>> /\ RedStep = <<>> /\ Gaps = {} /\ Ranking = {} /\ Physical = <<>>

stackBut == <<grammar, States, Uncertains, flaw, doubts, stackVars>>

AllStates == [i \in 1..ParseStateNum |-> i - 1]
AllGroups == [i \in 1..GroupCount |-> i - 1]

\* The different elements of a row, in the order they first turn up, and where
\* an element is among them.
Uniques(row) == FoldLeft(LAMBDA acc, x : IF x \in Range(acc) THEN acc ELSE Append(acc, x), <<>>, row)
IndexIn(row, x) == CHOOSE i \in DOMAIN row : row[i] = x

(***************************************************************************)
(* Acceptance, for the groups that are not keywords.                       *)
(***************************************************************************)
Accepts(s) == {d \in Range(Discrims(States[s].Transits)) : d < NonKeyCount}

\* The row of a column is made from the first group that has it.
WriteAccept(V, first) ==
  [c \in DOMAIN first |-> {r \in DOMAIN V : first[c] \in V[r]}]

AcceptMatrix ==
  /\ phase = "pack"
  /\ LET V     == Uniques([i \in 1..ParseStateNum |-> Accepts(i - 1)])
         col   == [g \in 0..(NonKeyCount - 1) |-> {s \in DOMAIN States : g \in Accepts(s)}]
         cols  == Uniques([i \in 1..NonKeyCount |-> col[i - 1]])
         first == [c \in DOMAIN cols |-> Min({g \in DOMAIN col : col[g] = cols[c]})]
     IN  /\ StateAcceptsGroupsV' = V
         /\ StateAcceptsGroups' = [s \in DOMAIN States |-> IndexIn(V, Accepts(s))]
         /\ Groups' = [g \in 0..(GroupCount - 1) |->
                         [AcceptNdx |-> IF g < NonKeyCount THEN IndexIn(cols, col[g]) ELSE 0,
                          UseArray |-> FALSE, Tentative |-> 0, ShiftNdx |-> 0]]
         /\ AcceptBits' = WriteAccept(V, first)
         /\ phase' = IF Len(V) > 32 THEN "throw 7" ELSE "direct"
  /\ UNCHANGED <<stackBut, inPlay, ShiftNdx, Vs, Ws, RedSubsetOf, RedStep, Gaps, Ranking, Physical>>

(***************************************************************************)
(* Targets.  A group that leads to one state from everywhere has it as its *)
(* Tentative target, where 0 says that there is none yet; the targets of   *)
(* the other groups are rows of an array, 0 where nothing is looked up,    *)
(* and a row goes into the first row it does not contradict.               *)
(***************************************************************************)
Propose(group, target) ==
  LET t == IF group.Tentative = 0 THEN target ELSE group.Tentative
  IN  IF group.UseArray THEN group
      ELSE [group EXCEPT !.Tentative = t, !.UseArray = (t # target)]

Proposals == FlattenSeq([i \in 1..ParseStateNum |-> States[i - 1].Transits])

\* Mutant of Fits: rows that agree somewhere are taken to agree.
FitsSomewhere(old, new) == \E i \in DOMAIN new : new[i] = 0 \/ old[i] = 0 \/ old[i] = new[i]

Fits(old, new) == \A i \in DOMAIN new : new[i] = 0 \/ old[i] = 0 \/ old[i] = new[i]
Fill(old, new) == [i \in DOMAIN new |-> IF old[i] = 0 THEN new[i] ELSE old[i]]

\* acc.rows are the rows so far, acc.at[x] the number of the row x went into.
FitIn(acc, x, new) ==
  LET fitting == {v \in DOMAIN acc.rows : Fits(acc.rows[v], new)}
      v       == Min(fitting)
  IN  IF fitting = {}
        THEN [rows |-> Append(acc.rows, new), at |-> (x :> Len(acc.rows) + 1) @@ acc.at]
        ELSE [rows |-> [acc.rows EXCEPT ![v] = Fill(@, new)], at |-> (x :> v) @@ acc.at]

FitAll(xs, rows) ==
  FoldLeft(LAMBDA acc, x : FitIn(acc, x, rows[x]), [rows |-> <<>>, at |-> <<>>], xs)

DirectTargets ==
  /\ phase = "direct"
  /\ Groups' = FoldLeft(LAMBDA acc, t : [acc EXCEPT ![t[1]] = Propose(@, t[2])], Groups, Proposals)
  /\ phase' = "array"
  /\ UNCHANGED <<stackBut, inPlay, StateAcceptsGroupsV, StateAcceptsGroups, AcceptBits, ShiftNdx,
                 Vs, Ws, RedSubsetOf, RedStep, Gaps, Ranking, Physical>>

TargetArray ==
  /\ phase = "array"
  /\ LET arrayRow == [s \in DOMAIN States |-> [g \in DOMAIN Groups |->
                           LET over == {t \in Range(States[s].Transits) : t[1] = g /\ Groups[g].UseArray}
                           IN  IF over = {} THEN 0 ELSE (CHOOSE t \in over : TRUE)[2]]]
         byState == FitAll(SelectSeq(AllStates, LAMBDA s : States[s].Transits # <<>>), arrayRow)
         byGroup == FitAll(AllGroups, [g \in DOMAIN Groups |->
                                        [v \in DOMAIN byState.rows |-> byState.rows[v][g]]])
     IN  /\ Vs' = byState.rows
         /\ ShiftNdx' = byState.at
         /\ Ws' = byGroup.rows
         /\ Groups' = [g \in DOMAIN Groups |-> [Groups[g] EXCEPT !.ShiftNdx = byGroup.at[g]]]
  /\ phase' = "subsets"
  /\ UNCHANGED <<stackBut, inPlay, StateAcceptsGroupsV, StateAcceptsGroups, AcceptBits,
                 RedSubsetOf, RedStep, Gaps, Ranking, Physical>>

(***************************************************************************)
(* Reductions.  A switch that is part of another needs no steps of its     *)
(* own.  Otherwise the target of most discriminators is split off by       *)
(* ranking those apart from all others, until every target has one         *)
(* discriminator left and adding a constant does.                          *)
(***************************************************************************)
Switched(s) == Len(States[s].RedSwitch) > 1

\* Mutant of NoteSubset: a switch that is included in this one is taken for it.
NoteSubsetReversed(of, s) ==
  LET others == {k \in DOMAIN of \ {s} : of[k] = 0 /\ Switched(k)
                    /\ Range(States[k].RedSwitch) \subseteq Range(States[s].RedSwitch)}
  IN  IF ~Switched(s) \/ others = {} THEN of ELSE [of EXCEPT ![s] = Min(others)]

\* IsSubset finds the first of the switches that include the one of s.
NoteSubset(of, s) ==
  LET others == {k \in DOMAIN of \ {s} : of[k] = 0 /\ Range(States[s].RedSwitch) \subseteq Range(States[k].RedSwitch)}
  IN  IF ~Switched(s) \/ others = {} THEN of ELSE [of EXCEPT ![s] = Min(others)]

RECURSIVE EndOfChain(_, _)
EndOfChain(of, s) == IF of[s] = 0 THEN s ELSE EndOfChain(of, of[s])

Subsets ==
  /\ phase = "subsets"
  /\ LET of == FoldLeft(NoteSubset, [s \in DOMAIN States |-> 0], AllStates)
     IN  RedSubsetOf' = [s \in DOMAIN of |-> IF of[s] = 0 THEN 0 ELSE EndOfChain(of, of[s])]
  /\ RedStep' = [s \in DOMAIN States |-> <<>>]
  /\ inPlay' = 0
  /\ phase' = "steps"
  /\ UNCHANGED <<stackBut, StateAcceptsGroupsV, StateAcceptsGroups, Groups, AcceptBits, ShiftNdx,
                 Vs, Ws, Gaps, Ranking, Physical>>

\* What the steps so far leave of the switch of s: targets and their discriminators.
TargetsLeft(s) ==
  LET split == {step[2] : step \in Range(RedStep[s])}
      to(t) == {r[1] : r \in {q \in Range(States[s].RedSwitch) : q[2] = t}}
  IN  [t \in Range(Targets(States[s].RedSwitch)) \ split |-> to(t)]

\* The sort puts one with the most discriminators first, any one.
Frequent(left) == {t \in DOMAIN left : \A u \in DOMAIN left : Cardinality(left[u]) <= Cardinality(left[t])}

InSteps == phase = "steps" /\ inPlay < ParseStateNum
NeedsSteps(s) == Switched(s) /\ RedSubsetOf[s] = 0

SkipSteps ==
  /\ InSteps /\ ~NeedsSteps(inPlay)
  /\ inPlay' = inPlay + 1
  /\ UNCHANGED <<stackBut, phase, packVars>>

LastStep ==
  /\ InSteps /\ NeedsSteps(inPlay) /\ Len(RedStep[inPlay]) < 3
  /\ LET left == TargetsLeft(inPlay)
         gap  == {<<t, CHOOSE d \in left[t] : TRUE>> : t \in DOMAIN left}
     IN  /\ \A t \in DOMAIN left : Cardinality(left[t]) = 1
         /\ IF Cardinality(DOMAIN left) = 1
              THEN /\ RedStep' = [RedStep EXCEPT ![inPlay] =
                                    Append(@, <<"Simple", CHOOSE t \in DOMAIN left : TRUE, {}>>)]
                   /\ UNCHANGED Gaps
              ELSE /\ RedStep' = [RedStep EXCEPT ![inPlay] = Append(@, <<"Arith", -1, gap>>)]
                   /\ Gaps' = Gaps \cup {gap}
  /\ inPlay' = inPlay + 1
  /\ UNCHANGED <<stackBut, phase, StateAcceptsGroupsV, StateAcceptsGroups, Groups, AcceptBits,
                 ShiftNdx, Vs, Ws, RedSubsetOf, Ranking, Physical>>

\* With one target left the second element of Targets, past its end, is read.
SplitStep ==
  /\ InSteps /\ NeedsSteps(inPlay) /\ Len(RedStep[inPlay]) < 3
  /\ LET left == TargetsLeft(inPlay)
     IN  \E t \in Frequent(left) :
           /\ Cardinality(left[t]) > 1
           /\ RedStep' = [RedStep EXCEPT ![inPlay] = Append(@, <<"GeTest", t, left[t]>>)]
           /\ Ranking' = Ranking \cup {<<left[t], UNION {left[u] : u \in DOMAIN left \ {t}}>>}
           /\ phase' = IF DOMAIN left = {t} THEN "crash"
                       ELSE IF Len(RedStep[inPlay]) = 2 THEN "throw 9" ELSE "steps"
  /\ UNCHANGED <<stackBut, inPlay, StateAcceptsGroupsV, StateAcceptsGroups, Groups, AcceptBits,
                 ShiftNdx, Vs, Ws, RedSubsetOf, Gaps, Physical>>

\* One slot to shift and one for the message, one to reduce and one for the
\* action, two more for every test of the first two steps.
Slots(s) ==
  LET one(b) == IF b THEN 1 ELSE 0
      x      == States[s]
      shift  == IF x.Transits = <<>> THEN 0 ELSE 1 + one(x.MsgMN # 0)
      tests  == Cardinality({i \in DOMAIN RedStep[s] \cap {1, 2} : RedStep[s][i][1] = "GeTest"})
  IN  shift + (IF x.HasRed THEN 1 + one(x.Action # 0) + 2 * tests ELSE 0)

PhysicalSizes ==
  /\ phase = "steps" /\ inPlay = ParseStateNum
  /\ Physical' = [s \in DOMAIN States |-> Slots(s)]
  /\ phase' = "done"
  /\ UNCHANGED <<stackBut, inPlay, StateAcceptsGroupsV, StateAcceptsGroups, Groups, AcceptBits,
                 ShiftNdx, Vs, Ws, RedSubsetOf, RedStep, Gaps, Ranking>>

Pack ==
  \/ AcceptMatrix \/ DirectTargets \/ TargetArray
  \/ Subsets \/ SkipSteps \/ LastStep \/ SplitStep \/ PhysicalSizes

NextPack ==
  \/ NoteStates /\ UNCHANGED <<stackVars, packVars>>
  \/ NoteStack /\ UNCHANGED packVars
  \/ Pack
=============================================================================
