----------------------------- MODULE BcodeOutput -----------------------------
(***************************************************************************)
(* The compiler from Pcode to Bcode, last part (writeasm.h, WriteBcode.h): *)
(* the fragments that are still worth it are written first, the shortest   *)
(* before the others, and what is no longer worth it is copied back; then  *)
(* the routines are written.                                               *)
(***************************************************************************)
EXTENDS BcodeFragments

LOCAL INSTANCE SequencesExt
LOCAL INSTANCE FiniteSetsExt

CONSTANTS MeritCommit,    \* how many bytes a fragment must save, and more
          ConSizes        \* the texts of constants that have a code point of their own

ASSUME OutputAssumption == MeritCommit \in Nat

VARIABLES
  frags,        \* the fragments that are written, [items, size, arg0], by number
  routines,     \* the routines that are written
  TgtRange, Points

outVars == <<frags, routines, TgtRange, Points>>

(***************************************************************************)
(* Bcode.  Elements from .. upto-1 as they are written.  An item is an     *)
(* element with its byte offset and, for a jump, that of its target.       *)
(***************************************************************************)
ConSize(c) ==
  CASE c.Scope \/ c.External \/ c.text \in ConSizes -> 1
    [] c.HexIt /\ ~(c.Scope \/ c.External \/ c.text \in ConSizes) -> c.len + 2
    [] OTHER -> c.len + 1 + (IF c.len > 2 THEN 1 ELSE 0)

\* The operator that was written last, of those from the element 'from' on.
OpBefore(from, i) ==
  LET ops == {l \in from .. i - 1 : Grist[l].Type = "OpCode"}
  IN  IF ops = {} THEN "none" ELSE Grist[Max(ops)].Value

SizeOf(from, i) ==
  LET cell == Grist[i]
  IN  CASE cell.Type = "PartOf" -> 0
        [] cell.Type = "Jump" -> IF LoopStart(OpBefore(from, i)) THEN 2 ELSE 1
        [] cell.Type \in {"Con", "OpCon"} -> ConSize(Consp[cell.Value])
        [] cell.Type = "OpCode" /\ cell.Value = "Assign" -> 0
        [] OTHER -> 1

\* Every element from .. upto has its offset, in the field that was SkipTo.
Laid(from, upto, f) ==
  LET off[i \in from .. upto] == IF i = from THEN f ELSE off[i - 1] + SizeOf(from, i - 1)
  IN  [i \in DOMAIN Grist |-> IF i \in from .. upto THEN [Grist[i] EXCEPT !.SkipTo = off[i]] ELSE Grist[i]]

JumpTo(laid, i) == laid[i + laid[i].Value].SkipTo

\* What the loops around the element take of the stack.
LoopDepth(from, i) == Byte(MapThenSumSet(LAMBDA l : Grist[l].DoDelta, from .. i))

Written(from, upto) == {i \in from .. upto - 1 : Grist[i].Type # "PartOf"}

Throws(laid, from, upto, scoped) ==
  \E i \in Written(from, upto) :
    \/ Grist[i].Delta > 100
    \/ /\ Grist[i].Type = "Jump" /\ ~LoopStart(OpBefore(from, i))
       /\ (JumpTo(laid, i) - laid[i].SkipTo) % 65536 > 255
    \/ /\ Grist[i].Type = "OpCode" /\ Grist[i].Value \in {"Return", "Returns"}
       /\ ~scoped \/ Grist[i].Delta - LoopDepth(from, i) # (IF Grist[i].Value = "Returns" THEN 1 ELSE 0)

Items(laid, from, upto) ==
  LET order == SelectSeq(FromTo(from, upto - 1), LAMBDA i : Grist[i].Type # "PartOf")
  IN  [l \in DOMAIN order |->
         LET cell == laid[order[l]]
         IN  [Type |-> cell.Type, Value |-> cell.Value, Delta |-> cell.Delta, off |-> cell.SkipTo,
              to |-> IF cell.Type = "Jump" THEN JumpTo(laid, order[l]) ELSE 0]]

Output(laid, from, upto, k) ==
  [items |-> Items(laid, from, upto), size |-> laid[upto].SkipTo, arg0 |-> ArgSpace(k) + 1]

(***************************************************************************)
(* NextFrag.  The bytes a fragment has, roughly; not worth a fragment, its *)
(* code goes back to where it is called, with the variables that were      *)
(* there.                                                                  *)
(***************************************************************************)
Bsize(from, upto) ==
  MapThenSumSet(LAMBDA i : CASE Grist[i].Type = "Con" -> 1 + Consp[Grist[i].Value].len
                             [] Grist[i].Type = "OpCode" /\ Grist[i].Value = "Assign" -> 0
                             [] OTHER -> 1,
                Written(from, upto))

CallsIn(G)  == {i \in Scoped : G[i].Type = "Fragment"}
Pending     == {i \in CallsIn(Grist) : Grist[i + 1].FragFact < CodeLen}
Shortest    == LET w == Min({Grist[i + 1].FragFact : i \in Pending})
               IN  Min({i \in Pending : Grist[i + 1].FragFact = w})
SameCall(G, n, w) == {i \in CallsIn(G) : G[i].FragFact = n /\ G[i + 1].FragFact = w}

\* The subject itself becomes a call, like the others.
Called(G, n, w, number) ==
  LET cleared == [i \in DOMAIN G |-> IF i \in n .. n + w - 1 THEN PartOf(G[i]) ELSE G[i]]
      marked  == [cleared EXCEPT ![n] = [@ EXCEPT !.Type = "Fragment", !.FragFact = n],
                                 ![n + 1].FragFact = w]
      calls   == SameCall(marked, n, w)
  IN  [i \in DOMAIN G |->
         [marked[i] EXCEPT !.Value    = IF i \in calls THEN number ELSE @,
                           !.FragFact = IF i - 1 \in calls THEN CodeLen ELSE @]]

\* Element after element, should the two places overlap.
CopyBack(G, n, w, at) ==
  [i \in DOMAIN G |->
     IF i \notin at .. at + w - 1 THEN G[i]
     ELSE LET from == G[n + ((i - at) % (at - n))]
          IN  IF IsVar(from) THEN [from EXCEPT !.Value = G[i].ValueWas] ELSE from]

EmitFragment ==
  /\ phase = "fragments" /\ Pending # {}
  /\ LET n == Grist[Shortest].FragFact
         w == Grist[Shortest + 1].FragFact
         k == Grist[Shortest + 2].FragFact
         laid == Laid(n, n + w, 0)
     IN  /\ Bsize(n, n + w) > MeritCommit
         /\ IF Throws(laid, n, n + w, FALSE) THEN Throw(10) /\ UNCHANGED <<Grist, frags>>
            ELSE /\ frags' = Append(frags, Output(laid, n, n + w, k))
                 /\ Grist' = Called(laid, n, w, Len(frags) + 1)
                 /\ UNCHANGED <<phase, thrown>>
  /\ UNCHANGED <<file, readVars, WithinParse, Varsp, Consp, Scp, scopeVars, routines, TgtRange, Points>>

ExpandFragment ==
  /\ phase = "fragments" /\ Pending # {}
  /\ LET n == Grist[Shortest].FragFact
         w == Grist[Shortest + 1].FragFact
     IN  /\ Bsize(n, n + w) <= MeritCommit
         /\ Grist' = FoldLeft(LAMBDA G, i : CopyBack(G, n, w, i), Grist,
                              SelectSeq(FromTo(1, CodeLen), LAMBDA i : i \in SameCall(Grist, n, w)))
  /\ UNCHANGED <<file, phase, thrown, readVars, WithinParse, Varsp, Consp, Scp, scopeVars, outVars>>

(***************************************************************************)
(* The routines, and at the end how many code points are left.             *)
(***************************************************************************)
NextRoutine == Len(routines)

EmitRoutine ==
  /\ phase = "fragments" /\ Pending = {} /\ NextRoutine \in ScopeNums
  /\ LET k == NextRoutine
         laid == Laid(Scp[k].Lo, UpTo(k), 1)
     IN  IF Grist[Scp[k].Lo].Delta # 0 \/ Throws(laid, Scp[k].Lo, UpTo(k), TRUE)
           THEN Throw(10) /\ UNCHANGED <<Grist, routines>>
         ELSE /\ routines' = Append(routines, Output(laid, Scp[k].Lo, UpTo(k), k))
              /\ Grist' = laid
              /\ UNCHANGED <<phase, thrown>>
  /\ UNCHANGED <<file, readVars, WithinParse, Varsp, Consp, Scp, scopeVars, frags, TgtRange, Points>>

Internals == {j \in DOMAIN Consp : j >= ConLo /\ Consp[j].Callee /\ ~Consp[j].External}
Globals   == {j \in DOMAIN Varsp : j >= VarLo /\ Varsp[j].System}

CountPoints ==
  /\ phase = "fragments" /\ Pending = {} /\ NextRoutine \notin ScopeNums
  /\ TgtRange' = Max({0} \cup {Scp[k].Args : k \in ScopeNums})
                 + Max({0} \cup {Scp[k].LocalVars : k \in ScopeNums}) + MaxDelta
  /\ Points' = (256 - 2 * TgtRange' - Len(frags) - Cardinality(Internals)
                - 2 * Cardinality(Globals)) % 65536
  /\ phase' = "done"
  /\ UNCHANGED <<file, thrown, readVars, WithinParse, Varsp, Consp, Scp, Grist, scopeVars, frags, routines>>

WriteOut == EmitFragment \/ ExpandFragment \/ EmitRoutine \/ CountPoints

InitOutput == frags = <<>> /\ routines = <<>> /\ TgtRange = 0 /\ Points = 0

(***************************************************************************)
(* The compiler.                                                           *)
(***************************************************************************)
earlier == <<file, phase, thrown, readVars, WithinParse, Varsp, Consp, Scp, Grist, scopeVars>>
vars == <<earlier, outVars>>

Init == \E f \in Inputs : file = f /\ InitGrist /\ InitScopes /\ InitOutput

Next ==
  \/ (Absorb \/ PcodeToGrist) /\ UNCHANGED <<scopeVars, outVars>>
  \/ (ScopesFound \/ Matching) /\ UNCHANGED outVars
  \/ WriteOut
  \/ phase \in {"done", "thrown"} /\ UNCHANGED vars

Spec == Init /\ [][Next]_vars
=============================================================================
