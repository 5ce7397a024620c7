------------------------------ MODULE BcodeGrist ------------------------------
(***************************************************************************)
(* The compiler from Pcode to Bcode (EnTableBF), first part: Absorb.h      *)
(* reads the symbols of a Pcode file, PcodeToGrist (Grist.h) spreads the   *)
(* code over the array Grist, one element for every byte.                  *)
(*                                                                         *)
(* A byte of Pcode is abstracted to what PcodeToGrist makes of it:         *)
(*   Op(o)      an operator, by its name in the table Pcodes;              *)
(*   Num(n)     the number after an operator;                              *)
(*   Sub(s)     a subcode of PARSE;                                        *)
(*   Load(r)    the first byte of a reference to the variable or constant  *)
(*   Target(r)  r, and of one to the variable it assigns to;               *)
(*   Word(a)    the first byte of the address a jump goes to;              *)
(*   More       the second byte of any of these three.                     *)
(***************************************************************************)
EXTENDS Integers, Sequences, FiniteSets

LOCAL INSTANCE SequencesExt

CONSTANTS
  Inputs,     \* the files: records [symbols, code]
  Junk,       \* what a field nobody initialised, or behind an array, may hold
  Bifs,       \* the table Bifs of codes.h, or part of it: [f, MinArgs]
  VarLo,      \* the number of variables always present
  ConLo,      \* the number of constants always present
  VarLimit,   \* how many variables there may be
  BifBase,    \* labels from here on are of no routine of the file
  Dod         \* the stack a running loop takes

ASSUME BcodeAssumption == /\ VarLo \in Nat \ {0} /\ ConLo \in Nat \ {0}
                          /\ VarLimit \in Nat /\ BifBase \in Nat /\ Dod \in Nat

VARIABLES
  file,                 \* the input
  phase,                \* the pass the compiler is in
  thrown,               \* 0, or the number of the message it ends with
  Codep,                \* the code; some operators are rewritten as they are met
  Varsp, Consp,         \* what is known of the variables and constants, from 0
  Scp,                  \* the routines, from 0
  Grist,                \* the code, by address
  p, q,                 \* the byte to read; where the last operator was
  WithinParse, VoidJump,
  DoEndsAt              \* the end of the innermost loop that is open

readVars == <<p, q, VoidJump, DoEndsAt, Codep>>

Op(o)     == [is |-> "op", v |-> o]
Num(n)    == [is |-> "num", v |-> n]
Sub(s)    == [is |-> "sub", v |-> s]
Load(r)   == [is |-> "load", v |-> r]
Target(r) == [is |-> "target", v |-> r]
Word(a)   == [is |-> "word", v |-> a]
More      == [is |-> "more", v |-> 0]

mParseEnd == 26
V(n)      == [kind |-> "Var", n |-> n]
C(n)      == [kind |-> "Con", n |-> n]

\* Mutant of Throw: the number of the message is lost.
ThrowUnnamed(n) == phase' = "thrown" /\ UNCHANGED thrown

Throw(n) == phase' = "thrown" /\ thrown' = n

(***************************************************************************)
(* The table Pcodes: the fields an operator is followed by and what it     *)
(* takes off the stack.                                                    *)
(***************************************************************************)
Compares == {"Eq", "Ne", "Lt", "Le", "Ge", "Gt", "Seq", "Sne", "Slt", "Sle", "Sge", "Sgt",
             "Ceq", "Cne", "Clt", "Cle", "Cge", "Cgt"}
WithNum    == {"Parse", "Bifq", "Bif", "BifGroup", "Max", "Min", "Invoke", "Raise", "Numeric",
               "SignalOn", "SignalOff", "CallOn", "Dots", "CommandEnv", "TraceEvent"}
WithSymbol == {"Invoke", "Call", "ControlVar", "DotControlVar", "Assign", "AssignConst",
               "AssignStem", "AssignDots", "AssignDotsP", "Dots", "Signal", "SignalOn", "CallOn",
               "Drop", "Expose", "ExposeList"}
WithJump   == {"Rep", "RepEver", "ControlVar", "DotControlVar", "Then", "When", "Jump"} \cup Compares
Down(o) ==
  CASE o \in Compares -> 2
    [] o \in {"Abut", "Cat", "Number", "To", "By", "For", "While", "Until", "Result", "Returns",
              "Say", "And", "Or", "Xor", "Add", "Subtract", "Multiply", "Divide", "IntDivide",
              "Remainder", "Power", "Command", "Interpret", "Numeric", "Rep", "Then", "When",
              "Dots", "Assign", "AssignStem", "AssignDots", "AssignConst", "EnvName", "SignalV",
              "DropList", "Push", "Queue", "Trace", "Options"} -> 1
    [] OTHER -> 0

LoopStart(o) == o \in {"Rep", "RepEver", "ControlVar"}
Iterators    == {"IterRep", "Iterate", "IterCV"}
HereExists   == "InterpEnd"     \* an operator not used otherwise: _Exists

\* The byte after Bifq: the number of the function doubled, with one bit above and
\* one below that say which of its optional arguments are there.
BifNum(n)   == (n % 128) \div 2
XtraArgs(n) == CASE n - 2 * BifNum(n) = 0   -> 0
                 [] n - 2 * BifNum(n) = 1   -> 2
                 [] n - 2 * BifNum(n) = 128 -> 1
                 [] n - 2 * BifNum(n) = 129 -> 3
HereARG     == (CHOOSE k \in DOMAIN Bifs : Bifs[k].f = "ARG") - 1

(***************************************************************************)
(* Absorb.  A symbol is [is, first, len, text, stem, label, hex]: a "var", *)
(* a "const" or the "label" of a routine.  A stem has two variables.  The  *)
(* zeroth constant stands for an omitted argument.                         *)
(***************************************************************************)
\* (ArgUse is nothing about the variable: see ArgsOf.)
Variable(s) == [System |-> s.first = "#", ScopeNum |-> 0, VarNum |-> 0, ArgUse |-> 0, name |-> s.text]

\* Of the variables always present only that they are no system variables is set.
Present(v, junk) == [v EXCEPT !.System = FALSE, !.VarNum = junk]

Variables(symbols) ==
  FlattenSeq([k \in DOMAIN symbols |->
                IF symbols[k].is # "var" THEN <<>>
                ELSE IF symbols[k].stem THEN <<Variable(symbols[k]), Variable(symbols[k])>>
                ELSE <<Variable(symbols[k])>>])

Constant(s) ==
  [text |-> s.text, len |-> s.len, Open |-> s.first = "_", Label |-> s.label,
   Scope |-> s.label > 1 /\ s.label < BifBase, HexIt |-> s.hex, ScopeNum |-> 0,
   External |-> FALSE, Callee |-> FALSE, Called |-> FALSE, Invoked |-> FALSE,
   ArgsSet |-> FALSE]

Unmarked(c) == [c EXCEPT !.Open = FALSE, !.Scope = FALSE, !.HexIt = FALSE]

Constants(symbols) ==
  LET own == SelectSeq(symbols, LAMBDA s : s.is # "var")
      all == [k \in DOMAIN own |-> Constant(own[k])]
      nil == CHOOSE k \in DOMAIN all : all[k].len = 0 /\ \A l \in DOMAIN all : all[l].len = 0 => l <= k
  IN  [k \in 1 .. Len(all) + 1 |->
         IF k = 1 THEN Unmarked(all[nil]) ELSE IF k <= ConLo THEN Unmarked(all[k - 1]) ELSE all[k - 1]]

FromZero(s) == [k \in 0 .. Len(s) - 1 |-> s[k + 1]]

\* What is known of a routine, which has the constant j for its label.
Routine(j) ==
  [Index |-> j, Lo |-> 0, Args |-> 0, ArgCt |-> [r \in 0 .. 6 |-> 0], Sized |-> FALSE,
   LocalVars |-> 0, Alive |-> {}, Mapped |-> {}]

\* The routines, one for every label, in the order of the symbols.
Routines(consts) ==
  LET marked == SelectSeq([k \in 1 .. Cardinality(DOMAIN consts) |-> k - 1],
                          LAMBDA j : j >= ConLo /\ consts[j].Scope)
  IN  FromZero([s \in DOMAIN marked |-> Routine(marked[s])])

Blank(junk) ==
  [Type |-> "none", Value |-> junk, ValueWas |-> junk, OpLen |-> junk, WithinP |-> FALSE,
   From |-> 0, Overlap |-> 0, FragFact |-> junk, Delta |-> 0, ArgScp |-> junk, DoDelta |-> 0,
   SkipTo |-> 0]

CodeLen == Len(file.code)
First   == 2        \* the code begins behind a header

Absorb ==
  /\ phase = "absorb"
  /\ LET vars   == FromZero(Variables(file.symbols))
         consts == FromZero(Constants(file.symbols))
         scopes == Routines(consts)
     IN  IF Cardinality({k \in DOMAIN file.symbols : file.symbols[k].is = "var"}) > VarLimit
           THEN Throw(8) /\ UNCHANGED <<Varsp, Consp, Scp, Grist>>
         ELSE IF DOMAIN scopes = {}
           THEN Throw(7) /\ UNCHANGED <<Varsp, Consp, Scp, Grist>>
         ELSE /\ Consp' = [j \in DOMAIN consts |->
                             LET at == {s \in DOMAIN scopes : scopes[s].Index = j}
                             IN  IF at = {} THEN consts[j]
                                 ELSE [consts[j] EXCEPT !.ScopeNum = CHOOSE s \in at : TRUE]]
              /\ Scp' = scopes
              /\ \E junk \in Junk :
                   /\ Varsp' = [j \in DOMAIN vars |-> IF j < VarLo THEN Present(vars[j], junk) ELSE vars[j]]
                   /\ Grist' = [k \in 1 .. CodeLen + 1 |-> Blank(junk)]
              /\ phase' = "grist"
              /\ UNCHANGED thrown
  /\ UNCHANGED <<file, readVars, WithinParse>>

(***************************************************************************)
(* PcodeToGrist.  What the loop does before it looks at the byte p: where  *)
(* a loop of the program ends it takes its Dod off the stack again.  Until *)
(* then the element holds the end of the loop around it.                   *)
(***************************************************************************)
Entered     == IF p = DoEndsAt THEN [Grist EXCEPT ![p].DoDelta = -Dod] ELSE Grist
\* Mutant of DoEndsAfter: the end of the loop around is forgotten.
DoEndsForgotten == IF p = DoEndsAt THEN 0 ELSE DoEndsAt

DoEndsAfter == IF p = DoEndsAt THEN Grist[p].DoDelta ELSE DoEndsAt

At(k) == Codep[k]
Reading(is) == phase = "grist" /\ p <= CodeLen /\ At(p).is = is

\* The operator, where two names are one: the source is known to be free of errors.
Operator == CASE At(p).v = "When" -> "Then" [] At(p).v = "Bif" -> "Bifq" [] OTHER -> At(p).v
Reads(os) == Reading("op") /\ Operator \in os

\* r as an operand (of an operator, if op).
Refer(cell, r, op) ==
  [cell EXCEPT !.Type  = CASE r.kind = "Var" /\ op -> "OpVar" [] r.kind = "Var" -> "Var"
                           [] op -> "OpCon" [] OTHER -> "Con",
               !.Value = r.n]
PartOf(cell) == [cell EXCEPT !.Type = "PartOf"]
Cell(cell, type, value) == [cell EXCEPT !.Type = type, !.Value = value]

Subcode ==
  /\ Reading("sub")
  /\ Grist' = [Entered EXCEPT ![p] = Cell(@, "Number", At(p).v)]
  /\ WithinParse' = (WithinParse /\ At(p).v # mParseEnd)
  /\ p' = p + 1 /\ DoEndsAt' = DoEndsAfter
  /\ UNCHANGED <<file, phase, thrown, Codep, Varsp, Consp, Scp, q, VoidJump>>

\* Outside PARSE an operand starts what OpLen measures, as an operator does.
Starts(G) == IF WithinParse THEN [G EXCEPT ![p].WithinP = TRUE]
                            ELSE [G EXCEPT ![q].OpLen = p - q, ![p].WithinP = FALSE]

Operand ==
  /\ Reading("load") \/ (Reading("target") /\ WithinParse)
  /\ Grist' = [Starts(Entered) EXCEPT ![p] = Refer(@, At(p).v, FALSE), ![p + 1] = PartOf(@)]
  /\ q' = IF WithinParse THEN q ELSE p
  /\ p' = p + 2 /\ DoEndsAt' = DoEndsAfter
  /\ UNCHANGED <<file, phase, thrown, Codep, Varsp, Consp, Scp, WithinParse, VoidJump>>

\* An Assign is invented for the target of an assignment.
AssignTarget ==
  /\ Reading("target") /\ ~WithinParse
  /\ Grist' = [Starts(Entered) EXCEPT ![p] = Cell(@, "OpCode", "Assign"),
                                     ![p + 1] = Cell(@, "OpVar", At(p).v.n)]
  /\ q' = p /\ p' = p + 2 /\ DoEndsAt' = DoEndsAfter
  /\ UNCHANGED <<file, phase, thrown, Codep, Varsp, Consp, Scp, WithinParse, VoidJump>>

\* Rewritten in place as a load and an Assign; then looked at again.
AssignConst ==
  /\ Reads({"AssignConst"})
  /\ Codep' = [Codep EXCEPT ![p] = At(p + 1), ![p + 1] = More, ![p + 2] = Op("Assign")]
  /\ Grist' = Entered /\ DoEndsAt' = DoEndsAfter
  /\ UNCHANGED <<file, phase, thrown, Varsp, Consp, Scp, p, q, WithinParse, VoidJump>>

DropExit ==
  /\ Reads({"Exit"})
  /\ Grist' = [Entered EXCEPT ![p] = PartOf(@)]
  /\ p' = p + 1 /\ DoEndsAt' = DoEndsAfter
  /\ UNCHANGED <<file, phase, thrown, Codep, Varsp, Consp, Scp, q, WithinParse, VoidJump>>

\* A missing OTHERWISE: neither the Raise nor the Jump before it is wanted.
DropRaise ==
  /\ Reads({"Raise"})
  /\ Grist' = [k \in DOMAIN Grist |-> IF k \in p - 3 .. p + 1 THEN PartOf(Entered[k]) ELSE Entered[k]]
  /\ p' = p + 2 /\ DoEndsAt' = DoEndsAfter
  /\ UNCHANGED <<file, phase, thrown, Codep, Varsp, Consp, Scp, q, WithinParse, VoidJump>>

\* The operator itself.
OpCell == [Entered EXCEPT ![p] = Cell(@, "OpCode", Operator), ![q].OpLen = p - q]

\* ARG(n) and ARG(n,'E') are no calls: arguments are addressed as variables are.
Digits == <<"1", "2", "3", "4", "5">>
ArgAt(k) ==
  IF k \notin DOMAIN Grist \/ Grist[k].Type # "Con" THEN 0
  ELSE LET fits == {n \in DOMAIN Digits : Consp[Grist[k].Value].text = Digits[n]}
       IN  IF fits = {} THEN 0 ELSE CHOOSE n \in fits : TRUE
LoadsArg == At(p + 1).v = 2 * HereARG + 128 /\ ArgAt(p - 2) # 0
AsksArg  == At(p + 1).v = 2 * HereARG + 1 /\ ArgAt(p - 4) # 0

ArgLoad ==
  /\ Reads({"Bifq"}) /\ LoadsArg
  /\ Grist' = [k \in DOMAIN Grist |->
                 IF k = p THEN Cell(OpCell[k], "Arg", ArgAt(p - 2))
                 ELSE IF k \in {p - 2, p - 1, p + 1} THEN PartOf(OpCell[k]) ELSE OpCell[k]]
  /\ q' = p /\ p' = p + 2 /\ DoEndsAt' = DoEndsAfter
  /\ UNCHANGED <<file, phase, thrown, Codep, Varsp, Consp, Scp, WithinParse, VoidJump>>

ArgExists ==
  /\ Reads({"Bifq"}) /\ AsksArg
  /\ Grist' = [k \in DOMAIN Grist |->
                 IF k = p THEN Cell(OpCell[k], "Arg", ArgAt(p - 4))
                 ELSE IF k \in p - 4 .. p - 1 THEN PartOf(OpCell[k]) ELSE OpCell[k]]
  /\ Codep' = [Codep EXCEPT ![p + 1] = Op(HereExists)]
  /\ q' = p /\ p' = p + 1 /\ DoEndsAt' = DoEndsAfter
  /\ UNCHANGED <<file, phase, thrown, Varsp, Consp, Scp, WithinParse, VoidJump>>

\* The comparison that follows leaves its result on the stack and has no address.
BoolPrefix ==
  /\ Reads({"Bool"})
  /\ Grist' = [OpCell EXCEPT ![p + 1].OpLen = 2]
  /\ VoidJump' = TRUE
  /\ q' = p + 1 /\ p' = p + 1 /\ DoEndsAt' = DoEndsAfter
  /\ UNCHANGED <<file, phase, thrown, Codep, Varsp, Consp, Scp, WithinParse>>

\* It takes the place of the prefix, with a jump of zero.
VoidCompare ==
  /\ Reads(WithJump) /\ VoidJump
  /\ Grist' = [OpCell EXCEPT ![p - 1] = Cell(@, "OpCode", Operator), ![p] = Cell(@, "Number", 0)]
  /\ VoidJump' = FALSE
  /\ q' = p /\ p' = p + 1 /\ DoEndsAt' = DoEndsAfter
  /\ UNCHANGED <<file, phase, thrown, Codep, Varsp, Consp, Scp, WithinParse>>

\* Neither an address nor a name follows; a number may.
Argless == Reads({"Bifq"}) => ~LoadsArg /\ ~AsksArg
SimpleOp ==
  /\ Reading("op") /\ Argless
  /\ Operator \notin WithSymbol \cup WithJump \cup {"Exit", "Raise", "Bool"}
  /\ LET begun == IF Operator = "Number" THEN [OpCell EXCEPT ![p].DoDelta = Dod] ELSE OpCell
     IN  IF Operator \in WithNum
           THEN Grist' = [begun EXCEPT ![p + 1] = Cell(@, "Number", At(p + 1).v)] /\ p' = p + 2
           ELSE Grist' = begun /\ p' = p + 1
  /\ WithinParse' = (WithinParse \/ Operator = "Parse")
  /\ q' = p /\ DoEndsAt' = DoEndsAfter
  /\ UNCHANGED <<file, phase, thrown, Codep, Varsp, Consp, Scp, VoidJump>>

\* An operator and the variable it is about, perhaps with a number between.
SymbolOp ==
  /\ Reads(WithSymbol \ (WithJump \cup {"Call", "Invoke", "AssignConst"}))
  /\ LET k == IF Operator \in WithNum THEN p + 2 ELSE p + 1
         G == IF Operator \in WithNum THEN [OpCell EXCEPT ![p + 1] = Cell(@, "Number", At(p + 1).v)] ELSE OpCell
     IN  /\ At(k).v.kind = "Var"
         /\ Grist' = [G EXCEPT ![k] = Refer(@, At(k).v, TRUE), ![k + 1] = PartOf(@)]
         /\ p' = k + 2
  /\ q' = p /\ DoEndsAt' = DoEndsAfter
  /\ UNCHANGED <<file, phase, thrown, Codep, Varsp, Consp, Scp, WithinParse, VoidJump>>

\* What is called tells how, so that CALL and the number of arguments need not be kept.
\* It is external when it has no label.
Noted(c) == [c EXCEPT !.External = @ \/ (~c.Callee /\ c.Label < 2), !.Callee = TRUE]

(***************************************************************************)
(* The number of arguments, the same wherever constant j is called.  That  *)
(* it is known is noted with the constant, the number itself in the        *)
(* element j of the variables.  When there are fewer variables it goes     *)
(* behind them, and what is read there is whatever was left by then.       *)
(***************************************************************************)
ArgUses(known, j) == IF j \in DOMAIN known THEN {known[j].ArgUse} ELSE Junk
ArgsOf(known, j, n) == IF j \in DOMAIN known THEN [known EXCEPT ![j].ArgUse = n] ELSE known

\* Mutant of ArgsDiffer: fewer arguments than before are let pass.
ArgsExceed(j, use, n) == Consp[j].ArgsSet /\ use < n

ArgsDiffer(j, use, n) == Consp[j].ArgsSet /\ use # n

CallOp ==
  /\ Reads({"Call"})
  /\ LET j == At(p + 1).v.n
     IN  Consp' = [Consp EXCEPT ![j] = [Noted(@) EXCEPT !.Called = TRUE]]
  /\ Grist' = [OpCell EXCEPT ![p] = PartOf(@), ![p + 1] = Refer(@, At(p + 1).v, TRUE),
                            ![p + 2] = PartOf(@)]
  /\ q' = p /\ p' = p + 3 /\ DoEndsAt' = DoEndsAfter
  /\ UNCHANGED <<file, phase, thrown, Codep, Varsp, Scp, WithinParse, VoidJump>>

InvokeOp ==
  /\ Reads({"Invoke"})
  /\ LET j == At(p + 2).v.n
         n == At(p + 1).v
     IN  \E use \in ArgUses(Varsp, j) :
           IF ArgsDiffer(j, use, n) THEN Throw(10) /\ UNCHANGED <<Varsp, Consp>>
           ELSE /\ Consp' = [Consp EXCEPT ![j] = [Noted(@) EXCEPT !.ArgsSet = TRUE, !.Invoked = TRUE]]
                /\ Varsp' = IF Consp[j].ArgsSet THEN Varsp ELSE ArgsOf(Varsp, j, n)
                /\ UNCHANGED <<phase, thrown>>
  /\ Grist' = [OpCell EXCEPT ![p] = PartOf(@), ![p + 1] = PartOf(@),
                            ![p + 2] = Refer(@, At(p + 2).v, TRUE), ![p + 3] = PartOf(@)]
  /\ q' = p /\ p' = p + 4 /\ DoEndsAt' = DoEndsAfter
  /\ UNCHANGED <<file, Codep, Scp, WithinParse, VoidJump>>

(***************************************************************************)
(* Jumps.  From, "earliest place that jumps to here", is how far back the  *)
(* jump is that was read last.  The jump of a loop goes behind its last    *)
(* operator.                                                               *)
(***************************************************************************)
BranchFrom(k, kk) == kk - k

\* The jump at k, of the operator o.
Jumped(G, k, o) ==
  LET kk     == At(k).v
      marked == [G EXCEPT ![k] = Cell(@, "Jump", kk), ![k + 1] = PartOf(@),
                          ![kk].From = BranchFrom(k, kk)]
      opened == IF LoopStart(o) /\ o # "ControlVar" THEN [marked EXCEPT ![k].DoDelta = Dod] ELSE marked
  IN  IF LoopStart(o) THEN [opened EXCEPT ![kk - 1].DoDelta = DoEndsAfter] ELSE opened

BadJump(k, o) ==
  \/ At(k).v > CodeLen
  \/ LoopStart(o) /\ ~(At(At(k).v - 1).is = "op" /\ At(At(k).v - 1).v \in Iterators)

\* The operator at p whose address is at k.
JumpAt(k) ==
  IF BadJump(k, Operator) THEN Throw(10) /\ UNCHANGED <<Grist, p, q, DoEndsAt>>
  ELSE /\ Grist' = Jumped(IF k = p + 1 THEN OpCell
                          ELSE [OpCell EXCEPT ![p + 1] = Refer(@, At(p + 1).v, TRUE), ![p + 2] = PartOf(@)],
                          k, Operator)
       /\ DoEndsAt' = IF LoopStart(Operator) THEN At(k).v - 1 ELSE DoEndsAfter
       /\ q' = p /\ p' = k + 2
       /\ UNCHANGED <<phase, thrown>>

JumpOp ==
  /\ Reads(WithJump \ WithSymbol) /\ ~VoidJump
  /\ JumpAt(p + 1)
  /\ UNCHANGED <<file, Codep, Varsp, Consp, Scp, WithinParse, VoidJump>>

ControlVar ==
  /\ Reads(WithJump \cap WithSymbol)
  /\ JumpAt(p + 3)
  /\ UNCHANGED <<file, Codep, Varsp, Consp, Scp, WithinParse, VoidJump>>

\* At the end every element keeps a copy of its value.
EndOfCode ==
  /\ phase = "grist" /\ p > CodeLen
  /\ Grist' = [k \in DOMAIN Grist |->
                 IF k > CodeLen THEN Grist[k]
                 ELSE [Grist[k] EXCEPT !.OpLen = IF k = q THEN p - q ELSE @, !.ValueWas = Grist[k].Value]]
  /\ phase' = "order"
  /\ UNCHANGED <<file, thrown, readVars, Varsp, Consp, Scp, WithinParse>>

PcodeToGrist ==
  \/ Subcode \/ Operand \/ AssignTarget \/ AssignConst \/ DropExit \/ DropRaise
  \/ ArgLoad \/ ArgExists \/ BoolPrefix \/ VoidCompare \/ SimpleOp \/ SymbolOp
  \/ CallOp \/ InvokeOp \/ JumpOp \/ ControlVar \/ EndOfCode

InitGrist ==
  /\ file \in Inputs
  /\ phase = "absorb" /\ thrown = 0
  /\ Codep = file.code
  /\ Varsp = <<>> /\ Consp = <<>> /\ Scp = <<>> /\ Grist = <<>>
  /\ p = First /\ q = First
  /\ WithinParse = FALSE /\ VoidJump = FALSE
  /\ DoEndsAt = 0
=============================================================================
