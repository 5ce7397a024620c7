------------------------------ MODULE JoySymtab ------------------------------
(***************************************************************************)
(* The symbol table of the Joy interpreter and the scopes of its compound  *)
(* definitions (src/NetRexx/languages/netjoy/main.c, and readfactor in     *)
(* utils.c as far as it looks names up).                                   *)
(*                                                                         *)
(*   LIBRA, PUBLIC or IN  definitions                                      *)
(*   HIDE or PRIVATE      definitions, then a compound definition          *)
(*   MODULE name          a compound definition                            *)
(*                                                                         *)
(* display[] holds one table of local names per open scope: names are      *)
(* entered into display[display_enter], or the global table when it is 0,  *)
(* and looked up from display[display_lookup] downwards.  The recursion of *)
(* compound_def is the stack calls; the symbols that the scanner delivers  *)
(* are chosen freely, so that every text is covered, erroneous ones too.   *)
(*                                                                         *)
(* A chain of entries is the set of its entries: an entry is put in front  *)
(* of a chain once, when it is made, so that the first one of a name is    *)
(* the newest.                                                             *)
(***************************************************************************)
EXTENDS Integers, Sequences, FiniteSets

CONSTANTS
  Names,       \* identifiers
  Inbuilts,    \* the names of inbuilt operators
  SYMTABMAX,   \* bound: the entries that are ever made (1000 in the code)
  DISPLAYMAX,  \* number of tables in display[] (10 in the code)
  MaxDepth,    \* bound: the calls of compound_def and definition in progress
  MaxScopes,   \* bound: the modules and hides of a behaviour
  NULL

ASSUME NamesAssumption == Inbuilts \subseteq Names /\ IsFiniteSet(Inbuilts)
ASSUME BoundsAssumption ==
  /\ Cardinality(Inbuilts) <= SYMTABMAX
  /\ SYMTABMAX \in Nat /\ DISPLAYMAX \in Nat \ {0}
  /\ MaxDepth \in Nat /\ MaxScopes \in Nat
ASSUME NullAssumption == NULL \notin Int

VARIABLES
  entry,           \* symtab[], in the order the entries were made
  hashentry,       \* the global table
  display,         \* the tables of local names
  display_enter,
  display_lookup,
  pc,              \* "main", or where definition and compound_def are
  calls,           \* their activations
  here,            \* the entry that definition is reading the body of
  mod_fields,      \* the fields readfactor has to find a name in, or NULL
  scopes,          \* history: the modules and hides begun so far
  leaked           \* history: an abort has left the display raised

table == <<entry, hashentry, display>>
level == <<display_enter, display_lookup>>
vars  == <<table, level, pc, calls, here, mod_fields, scopes, leaked>>

Entries == 1 .. Len(entry)
Levels  == 0 .. (DISPLAYMAX - 1)

\* owner is history: the module or hide that a name was entered for, 0 if none.
Entry == [name : Names, kind : {"inbuilt", "undefined", "body", "module"},
          fields : SUBSET (1 .. SYMTABMAX), owner : Nat]

\* enter, lookup, id and lost are history: the display levels before the
\* call, the number of the module or hide, and whether its table was lost.
Frame == [at : {"public", "nested", "module", "hidden", "hidden_public",
                "inside", "inside_public"},
          here : 0 .. SYMTABMAX, oldplace : SUBSET (1 .. SYMTABMAX),
          enter : Nat, lookup : Nat, id : Nat, lost : BOOLEAN]

-----------------------------------------------------------------------------
(* Looking names up and entering them. *)

Found(chain, n) == {e \in chain : entry[e].name = n}
Newest(S)       == CHOOSE e \in S : \A f \in S : f <= e

\* The levels whose table has the name n.
LevelsWith(n) == {i \in 1 .. display_lookup : Found(display[i], n) # {}}

\* The entry that lookup finds for n; NULL if there is none.
Resolved(n) ==
  IF LevelsWith(n) # {} THEN Newest(Found(display[Newest(LevelsWith(n))], n))
  ELSE IF Found(hashentry, n) # {} THEN Newest(Found(hashentry, n))
  ELSE NULL

NewEntry(n, o) == [name |-> n, kind |-> "undefined", fields |-> {}, owner |-> o]

enterglobal(n) ==
  /\ Len(entry) < SYMTABMAX
  /\ entry' = Append(entry, NewEntry(n, 0))
  /\ hashentry' = hashentry \cup {Len(entry) + 1}
  /\ UNCHANGED display

\* An unknown name is entered in the global table.
lookup(n) ==
  IF Resolved(n) = NULL THEN enterglobal(n) ELSE UNCHANGED table

\* The value of location after lookup(n).
Location(n) == IF Resolved(n) = NULL THEN Len(entry) + 1 ELSE Resolved(n)

\* history: the modules and hides that names are entered for, and the
\* innermost of them.
Entering == {i \in 1 .. Len(calls) : calls[i].at \in {"module", "hidden", "inside"}}
Owner    == IF Entering = {} THEN 0 ELSE calls[Newest(Entering)].id

enteratom(n) ==
  IF display_enter > 0
  THEN /\ Len(entry) < SYMTABMAX
       /\ entry' = Append(entry, NewEntry(n, Owner))
       /\ display' = [display EXCEPT ![display_enter] = @ \cup {Len(entry) + 1}]
       /\ UNCHANGED hashentry
  ELSE lookup(n)

\* The value of location after enteratom(n).
EnteredAt(n) == IF display_enter > 0 THEN Len(entry) + 1 ELSE Location(n)

-----------------------------------------------------------------------------
(* main: inisymboltable, then the loop. *)

Init ==
  /\ \E name \in [1 .. Cardinality(Inbuilts) -> Inbuilts] :
       /\ \A n \in Inbuilts : \E e \in 1 .. Cardinality(Inbuilts) : name[e] = n
       /\ entry = [e \in 1 .. Cardinality(Inbuilts) |->
                     [NewEntry(name[e], 0) EXCEPT !.kind = "inbuilt"]]
  /\ hashentry = Entries
  /\ display = [i \in Levels |-> {}]
  /\ display_enter = 0 /\ display_lookup = 0
  /\ pc = "main"
  /\ calls = <<>>
  /\ here = NULL
  /\ mod_fields = NULL
  /\ scopes = 0
  /\ leaked = FALSE

Top == calls[Len(calls)]
Pop == SubSeq(calls, 1, Len(calls) - 1)

\* The activation that begins now.
Call(at) == [at |-> at, here |-> 0, oldplace |-> {}, enter |-> display_enter,
             lookup |-> display_lookup, id |-> 0, lost |-> FALSE]

Push(f) == Len(calls) < MaxDepth /\ calls' = Append(calls, f)

\* LIBRA, HIDE or MODULE where a program could be.
main_compound ==
  /\ pc = "main" /\ mod_fields = NULL
  /\ pc' = "compound"
  /\ UNCHANGED <<table, level, calls, here, mod_fields, scopes, leaked>>

\* readfactor: a name in a program or in the body of a definition.
read_atom(n) ==
  /\ pc \in {"main", "body"} /\ mod_fields = NULL
  /\ lookup(n)
  /\ mod_fields' = IF entry'[Location(n)].kind = "module"
                   THEN entry'[Location(n)].fields ELSE NULL
  /\ UNCHANGED <<level, pc, calls, here, scopes, leaked>>

\* readfactor: the name of a field after the name of a module.  It is looked
\* up, and so entered in the global table if it is unknown there.
read_field(n) ==
  /\ pc \in {"main", "body"} /\ mod_fields # NULL
  /\ Found(mod_fields, n) # {}
  /\ lookup(n)
  /\ LET f == entry[Newest(Found(mod_fields, n))]
     IN  mod_fields' = IF f.kind = "module" THEN f.fields ELSE NULL
  /\ UNCHANGED <<level, pc, calls, here, scopes, leaked>>

\* readfactor: what follows the name of a module is not a name.
read_no_field ==
  /\ pc \in {"main", "body"} /\ mod_fields # NULL
  /\ mod_fields' = NULL
  /\ UNCHANGED <<table, level, pc, calls, here, scopes, leaked>>

\* longjmp to the beginning of the main loop: the levels stay as they are.
abortexecution_ ==
  /\ pc' = "main"
  /\ calls' = <<>>
  /\ here' = NULL
  /\ mod_fields' = NULL
  /\ leaked' = (leaked \/ display_lookup > 0)
  /\ UNCHANGED <<level, scopes>>

\* readfactor: no such field in module.
read_bad_field(n) ==
  /\ pc \in {"main", "body"} /\ mod_fields # NULL
  /\ Found(mod_fields, n) = {}
  /\ lookup(n)
  /\ abortexecution_

\* A run time error of a program that main executes.
execerror ==
  /\ pc = "main" /\ mod_fields = NULL
  /\ abortexecution_
  /\ UNCHANGED table

-----------------------------------------------------------------------------
(* definition and defsequence.  "seq" is where defsequence calls           *)
(* definition, "sep" where it looks for a semicolon.                       *)

\* A compound definition among the definitions.
definition_compound ==
  /\ pc = "seq"
  /\ Push(Call("nested"))
  /\ pc' = "compound"
  /\ UNCHANGED <<table, level, here, mod_fields, scopes, leaked>>

\* An empty definition.
definition_empty ==
  /\ pc = "seq"
  /\ pc' = "sep"
  /\ UNCHANGED <<table, level, calls, here, mod_fields, scopes, leaked>>

IsInbuilt(e) == e \in 1 .. Cardinality(Inbuilts)

\* name == ; an inbuilt operator is not overwritten, its name is entered anew.
definition_atom(n) ==
  /\ pc = "seq"
  /\ IF IsInbuilt(EnteredAt(n))
     THEN enterglobal(n) /\ here' = Len(entry) + 1
     ELSE enteratom(n) /\ here' = EnteredAt(n)
  /\ pc' = "body"
  /\ UNCHANGED <<level, calls, mod_fields, scopes, leaked>>

\* here->u.body = stk->u.lis; here->is_module = 0;
definition_assigns ==
  /\ pc = "body" /\ mod_fields = NULL
  /\ entry' = [entry EXCEPT ![here].kind = "body", ![here].fields = {}]
  /\ here' = NULL
  /\ pc' = "sep"
  /\ UNCHANGED <<hashentry, display, level, calls, mod_fields, scopes, leaked>>

\* sym == SEMICOL
defsequence_goes_on ==
  /\ pc = "sep"
  /\ pc' = "seq"
  /\ UNCHANGED <<table, level, calls, here, mod_fields, scopes, leaked>>

-----------------------------------------------------------------------------
(* compound_def. Mutants are slips the code could have made: no action uses  *)
(* one, each stands in for the definition after it to see what breaks.       *)

\* PUBLIC, LIBRA or IN.
public_begins ==
  /\ pc = "compound"
  /\ Push(Call("public"))
  /\ pc' = "seq"
  /\ UNCHANGED <<table, level, here, mod_fields, scopes, leaked>>

public_ends ==
  /\ pc = "sep" /\ Top.at = "public"
  /\ calls' = Pop
  /\ pc' = "return"
  /\ UNCHANGED <<table, level, here, mod_fields, scopes, leaked>>

\* Any other symbol, where a compound definition is still to come.
compound_empty ==
  /\ pc = "compound" /\ calls # <<>> /\ Top.at # "nested"
  /\ pc' = "return"
  /\ UNCHANGED <<table, level, calls, here, mod_fields, scopes, leaked>>

\* MODULE, no name: "atom expected as name of module".
module_unnamed ==
  /\ pc = "compound"
  /\ abortexecution_
  /\ UNCHANGED table

\* MODULE name
module_name(n) ==
  /\ pc = "compound"
  /\ enteratom(n) /\ here' = EnteredAt(n)
  /\ pc' = "module"
  /\ UNCHANGED <<level, calls, mod_fields, scopes, leaked>>

\* history: the open hides whose table a new one at this level replaces.
MarkLost ==
  [i \in 1 .. Len(calls) |->
     [calls[i] EXCEPT !.lost = @ \/ /\ calls[i].at \in {"hidden_public", "inside_public"}
                                    /\ calls[i].enter = display_enter]]

\* The levels fit into display[].
Fits == display_enter + 1 < DISPLAYMAX /\ display_lookup + 1 < DISPLAYMAX

\* Mutant: the table is not emptied.
NewTable_stale(f) ==
  /\ Len(calls) < MaxDepth /\ scopes < MaxScopes
  /\ calls' = Append(MarkLost, [f EXCEPT !.id = scopes + 1])
  /\ display_enter' = display_enter + 1
  /\ display_lookup' = display_lookup + 1
  /\ display' = display
  /\ scopes' = scopes + 1
  /\ UNCHANGED <<entry, hashentry, mod_fields, leaked>>

\* ++display_enter; ++display_lookup; display[display_enter] = NULL;
NewTable(f) ==
  /\ Len(calls) < MaxDepth /\ scopes < MaxScopes
  /\ calls' = Append(MarkLost, [f EXCEPT !.id = scopes + 1])
  /\ display_enter' = display_enter + 1
  /\ display_lookup' = display_lookup + 1
  /\ display' = [display EXCEPT ![display_enter + 1] = {}]
  /\ scopes' = scopes + 1
  /\ UNCHANGED <<entry, hashentry, mod_fields, leaked>>

module_begins ==
  /\ pc = "module" /\ Fits
  /\ NewTable([Call("module") EXCEPT !.here = here])
  /\ here' = NULL
  /\ pc' = "compound"

module_ends ==
  /\ pc = "return" /\ calls # <<>> /\ Top.at = "module"
  /\ entry' = [entry EXCEPT ![Top.here].kind = "module",
                            ![Top.here].fields = display[display_enter]]
  /\ display_enter' = display_enter - 1
  /\ display_lookup' = display_lookup - 1
  /\ calls' = Pop
  /\ UNCHANGED <<hashentry, display, pc, here, mod_fields, scopes, leaked>>

\* HIDE or PRIVATE, a table of its own for the hidden names.
hide_begins ==
  /\ pc = "compound" /\ display_lookup <= display_enter /\ Fits
  /\ NewTable(Call("hidden"))
  /\ pc' = "seq"
  /\ UNCHANGED here

\* Mutant: --display_enter is missing.
hide_public_kept ==
  /\ pc = "sep" /\ Top.at = "hidden"
  /\ calls' = [calls EXCEPT ![Len(calls)].at = "hidden_public"]
  /\ pc' = "compound"
  /\ UNCHANGED <<table, level, here, mod_fields, scopes, leaked>>

\* The hidden names are complete, what is defined next is not hidden.
hide_public ==
  /\ pc = "sep" /\ Top.at = "hidden"
  /\ display_enter' = display_enter - 1
  /\ calls' = [calls EXCEPT ![Len(calls)].at = "hidden_public"]
  /\ pc' = "compound"
  /\ UNCHANGED <<table, display_lookup, here, mod_fields, scopes, leaked>>

\* Mutant: --display_lookup is missing.
hide_ends_kept ==
  /\ pc = "return" /\ calls # <<>> /\ Top.at = "hidden_public"
  /\ calls' = Pop
  /\ UNCHANGED <<table, level, pc, here, mod_fields, scopes, leaked>>

\* Mutant: both levels go down.
hide_ends_both ==
  /\ pc = "return" /\ calls # <<>> /\ Top.at = "hidden_public"
  /\ display_enter' = display_enter - 1 /\ display_lookup' = display_lookup - 1
  /\ calls' = Pop
  /\ UNCHANGED <<table, pc, here, mod_fields, scopes, leaked>>

hide_ends ==
  /\ pc = "return" /\ calls # <<>> /\ Top.at = "hidden_public"
  /\ display_lookup' = display_lookup - 1
  /\ calls' = Pop
  /\ UNCHANGED <<table, display_enter, pc, here, mod_fields, scopes, leaked>>

\* HIDE or PRIVATE among what another one does not hide: the hidden names
\* are put in front of those hidden already.
inside_begins ==
  /\ pc = "compound" /\ display_lookup > display_enter /\ scopes < MaxScopes
  /\ Push([Call("inside") EXCEPT !.oldplace = display[display_lookup], !.id = scopes + 1])
  /\ display_enter' = display_enter + 1
  /\ scopes' = scopes + 1
  /\ pc' = "seq"
  /\ UNCHANGED <<table, display_lookup, here, mod_fields, leaked>>

inside_public ==
  /\ pc = "sep" /\ Top.at = "inside"
  /\ display_enter' = display_enter - 1
  /\ calls' = [calls EXCEPT ![Len(calls)].at = "inside_public"]
  /\ pc' = "compound"
  /\ UNCHANGED <<table, display_lookup, here, mod_fields, scopes, leaked>>

\* Mutant: the old place is not put back.
inside_ends_kept ==
  /\ pc = "return" /\ calls # <<>> /\ Top.at = "inside_public"
  /\ calls' = Pop
  /\ UNCHANGED <<table, level, pc, here, mod_fields, scopes, leaked>>

inside_ends ==
  /\ pc = "return" /\ calls # <<>> /\ Top.at = "inside_public"
  /\ display' = [display EXCEPT ![display_lookup] = Top.oldplace]
  /\ calls' = Pop
  /\ UNCHANGED <<entry, hashentry, level, pc, here, mod_fields, scopes, leaked>>

\* definition is back from compound_def.
nested_ends ==
  /\ pc = "return" /\ calls # <<>> /\ Top.at = "nested"
  /\ calls' = Pop
  /\ pc' = "sep"
  /\ UNCHANGED <<table, level, here, mod_fields, scopes, leaked>>

\* main is back from compound_def.
main_goes_on ==
  /\ pc = "return" /\ calls = <<>>
  /\ pc' = "main"
  /\ UNCHANGED <<table, level, calls, here, mod_fields, scopes, leaked>>

\* A level that leaves display[]: what it reads or writes there is not a table.
display_overruns ==
  /\ \/ pc = "module"
     \/ pc = "compound" /\ display_lookup <= display_enter
  /\ ~Fits
  /\ pc' = "overrun"
  /\ UNCHANGED <<table, level, calls, here, mod_fields, scopes, leaked>>

Reading ==
  \/ \E n \in Names : read_atom(n) \/ read_field(n) \/ read_bad_field(n)
  \/ read_no_field
  \/ execerror

Definition ==
  \/ definition_compound \/ definition_empty \/ definition_assigns \/ defsequence_goes_on
  \/ \E n \in Names : definition_atom(n)

Compound ==
  \/ main_compound \/ public_begins \/ public_ends \/ compound_empty
  \/ \E n \in Names : module_name(n)
  \/ module_unnamed \/ module_begins \/ module_ends
  \/ hide_begins \/ hide_public \/ hide_ends
  \/ inside_begins \/ inside_public \/ inside_ends
  \/ nested_ends \/ main_goes_on \/ display_overruns

Next == Reading \/ Definition \/ Compound

Spec == Init /\ [][Next]_vars

-----------------------------------------------------------------------------
(* Properties. *)

TypeOK ==
  /\ entry \in Seq(Entry) /\ Len(entry) <= SYMTABMAX
  /\ hashentry \subseteq Entries
  /\ display \in [Levels -> SUBSET Entries]
  /\ display_enter \in Levels /\ display_lookup \in Levels
  /\ pc \in {"main", "seq", "body", "sep", "compound", "module", "return", "overrun"}
  /\ calls \in Seq(Frame)
  /\ here \in Entries \cup {NULL}
  /\ mod_fields \in {NULL} \cup SUBSET Entries
  /\ scopes \in 0 .. MaxScopes
  /\ leaked \in BOOLEAN

\* A definition that ends leaves the display as it found it: unless an abort
\* has cut one short, programs are read with both levels at 0.
ScopesClosed == calls = <<>> /\ ~leaked => display_enter = 0 /\ display_lookup = 0

\* The modules and hides whose names are in scope: all that are open.
Open == {i \in 1 .. Len(calls) : calls[i].at \notin {"public", "nested"}}

\* No abort and no module inside the public part of a hide has spoiled the
\* tables of the open scopes.
Undisturbed == ~leaked /\ \A i \in Open : ~calls[i].lost

\* The entries made for the module or hide of activation i.
OwnedBy(i) == {e \in Entries : entry[e].owner = calls[i].id}

\* What the name n means in the text: the newest entry of that name in the
\* innermost module or hide that has one, or else in the global table.
Lexical(n) ==
  LET scoped == {i \in Open : Found(OwnedBy(i), n) # {}}
  IN  IF scoped # {} THEN Newest(Found(OwnedBy(Newest(scoped)), n))
      ELSE IF Found(hashentry, n) # {} THEN Newest(Found(hashentry, n))
      ELSE NULL

\* The display implements lexical scope: lookup finds for every name what it
\* means in the text, hidden names through the public part, and none of a
\* scope that is closed.
LookupIsLexical == Undisturbed => \A n \in Names : Resolved(n) = Lexical(n)

\* A body is read for an entry of the scope the definition stands in, which
\* is the global table if it stands in no module and no hidden part. The
\* exception: in the public part of a hide at the top level, defining a name
\* that is hidden there redefines the hidden entry.
DefinitionInScope ==
  pc = "body" /\ Undisturbed =>
    \/ entry[here].owner = Owner /\ (Owner = 0 => here \in hashentry)
    \/ display_enter = 0 /\ \E i \in Open : entry[here].owner = calls[i].id

\* A definition never changes an inbuilt operator: it makes a new entry. Only
\* MODULE takes the entry of an inbuilt operator that it is named after.
InbuiltsKept ==
  \A e \in 1 .. Cardinality(Inbuilts) :
    entry[e].kind # "inbuilt" => entry[e].kind = "module"

-----------------------------------------------------------------------------
(* The inductive invariant behind TypeOK, ScopesClosed and InbuiltsKept.     *)

\* The display levels while the activation f is the innermost one.
EnterAfter(f)  == f.enter + (IF f.at \in {"module", "hidden", "inside"} THEN 1 ELSE 0)
LookupAfter(f) == f.lookup + (IF f.at \in {"module", "hidden", "hidden_public"} THEN 1 ELSE 0)

\* An activation began at levels that its branch of compound_def asks for.
FrameOK(f) ==
  /\ f.enter <= f.lookup
  /\ f.at \in {"hidden", "hidden_public"} => f.enter = f.lookup
  /\ f.at \in {"inside", "inside_public"} => f.enter < f.lookup

\* Each activation began at the levels that the one below it had set; so the
\* innermost one tells the levels, and the outermost one began at 0.
LevelsOK ==
  /\ display_enter <= display_lookup
  /\ \A i \in 1 .. Len(calls) : FrameOK(calls[i])
  /\ \A i \in 1 .. (Len(calls) - 1) :
       /\ calls[i + 1].enter = EnterAfter(calls[i])
       /\ calls[i + 1].lookup = LookupAfter(calls[i])
  /\ calls # <<>> => /\ display_enter = EnterAfter(Top)
                     /\ display_lookup = LookupAfter(Top)
  /\ calls # <<>> /\ ~leaked => calls[1].enter = 0 /\ calls[1].lookup = 0

\* Activations that are in defsequence, the others wait for a compound_def.
InSequence == {"public", "hidden", "inside"}

ControlOK ==
  /\ pc = "main" => calls = <<>>
  /\ pc \in {"seq", "body", "sep"} => calls # <<>> /\ Top.at \in InSequence
  /\ pc \in {"compound", "module", "return"} /\ calls # <<>> => Top.at \notin InSequence
  /\ \A i \in 1 .. (Len(calls) - 1) :
       calls[i].at \in InSequence <=> calls[i + 1].at = "nested"
  /\ calls # <<>> => calls[1].at # "nested"
  /\ pc \in {"body", "module"} => here \in Entries

\* What is kept of entries are entries, and a body is read for no inbuilt
\* operator.
EntriesOK ==
  /\ \A e \in Entries : entry[e].fields \subseteq Entries
  /\ \A i \in 1 .. Len(calls) : /\ calls[i].at = "module" => calls[i].here \in Entries
                                /\ calls[i].oldplace \subseteq Entries
  /\ Cardinality(Inbuilts) <= Len(entry)
  /\ pc = "body" => ~IsInbuilt(here)

BaseInv == TypeOK /\ LevelsOK /\ ScopesClosed /\ ControlOK /\ EntriesOK /\ InbuiltsKept

-----------------------------------------------------------------------------
(***************************************************************************)
(* What LookupIsLexical and DefinitionInScope rest on besides.  A level of *)
(* the display holds the names of all the open scopes that are looked up   *)
(* at it: a hide or a module, and the hides begun inside its public part.  *)
(***************************************************************************)

\* The level that the names of activation i are looked up at.
LevelOf(i) == LookupAfter(calls[i])

\* Scopes are numbered as they begin, and entries bear such a number; a name
\* of the global table was entered for no scope.
NumbersOK ==
  /\ \A i \in Open : calls[i].id \in 1 .. scopes
  /\ \A i, j \in Open : i < j => calls[i].id < calls[j].id
  /\ \A e \in Entries : entry[e].owner \in 0 .. scopes
  /\ \A e \in hashentry : entry[e].owner = 0

\* Levels rise with the depth of calls. Between the scopes that names are entered
\* for, and below the first of them, the level they are entered at stays; and
\* every level that is looked at has a scope.
NestingOK ==
  /\ \A i, j \in 1 .. Len(calls) :
       i < j => EnterAfter(calls[i]) <= calls[j].enter /\ LevelOf(i) <= calls[j].lookup
  /\ \A i, j \in 1 .. Len(calls) :
       i <= j /\ (\A k \in (i + 1) .. j : k \notin Entering)
         => EnterAfter(calls[j]) = EnterAfter(calls[i])
  /\ ~leaked => \A j \in 1 .. Len(calls) :
       /\ (\A k \in 1 .. j : k \notin Entering) => EnterAfter(calls[j]) = 0
       /\ \A l \in 1 .. LevelOf(j) : \E i \in Open : i <= j /\ LevelOf(i) = l

\* No table up to that of activation i was replaced.
Pure(i) == ~leaked /\ \A j \in Open : j <= i => ~calls[j].lost

\* The open scopes up to i that share its table, and what they were entered.
Sharing(i) == {j \in Open : j <= i /\ LevelOf(j) = LevelOf(i)}
OwnedByAny(I) == {e \in Entries : \E i \in I : e \in OwnedBy(i)}

\* Hides that began at the same level share its table: when it is replaced all
\* of them have lost it, and while it is not they are looked up at the same
\* level, the one above that at which they began.
SharingOK ==
  /\ \A i, j \in Open : i < j /\ calls[i].enter = calls[j].enter =>
       /\ calls[j].lost => calls[i].lost
       /\ Pure(i) => LevelOf(i) = LevelOf(j)
  /\ \A i \in Open : Pure(i) => LevelOf(i) = calls[i].enter + 1

\* A table holds what the scopes that share it were entered, the names of an
\* inner one in front of those of the outer ones; oldplace is the table without
\* the names of the last one.
TablesOK ==
  \A i \in Open : Pure(i) =>
    /\ (\A k \in Open : k > i => LevelOf(k) # LevelOf(i))
         => display[LevelOf(i)] = OwnedByAny(Sharing(i))
    /\ calls[i].at \in {"inside", "inside_public"}
         => calls[i].oldplace = OwnedByAny(Sharing(i) \ {i})
    /\ \A j \in Sharing(i) \ {i} : \A e \in OwnedBy(j), f \in OwnedBy(i) : e < f

ScopesInv == NumbersOK /\ NestingOK /\ SharingOK /\ TablesOK

IInv == BaseInv /\ ScopesInv

=============================================================================
