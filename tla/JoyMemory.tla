------------------------------ MODULE JoyMemory ------------------------------
(***************************************************************************)
(* The node memory of the Joy interpreter (src/NetRexx/languages/netjoy/   *)
(* utils.c, the build without the BDW collector: make.nogc).               *)
(*                                                                         *)
(* One array of nodes is split in two halves at mem_mid.  newnode hands    *)
(* out cells of one half, upwards or downwards, until memoryindex reaches  *)
(* mem_mid; then gc1 turns the direction round and copies what the global  *)
(* roots (and newnode's own arguments) reach into the other half.  The     *)
(* recursive procedure copy is modelled call by call, with its activation  *)
(* records in the variable frames.  Cells below mem_low hold the bodies of *)
(* finished definitions and are never copied.                              *)
(*                                                                         *)
(* What the rest of the interpreter does to the memory is the mutator      *)
(* below: allocate, move pointers between roots, step a cell along a list, *)
(* unlink a cell, enter and leave a definition.                            *)
(***************************************************************************)
EXTENDS Integers, Sequences, FiniteSets

CONSTANTS
  MEMORYMAX,   \* number of cells of memory[]
  SlotSeq,     \* the pointers gc1 and newnode hand to copy, in that order
  Atoms,       \* payloads of the nodes that are not lists
  MaxOps,      \* bound: the number of program operations of a behaviour
  NULL

ASSUME MemoryAssumption == MEMORYMAX \in Nat \ {0} /\ MaxOps \in Nat
ASSUME SlotAssumption ==
  /\ SlotSeq \in Seq(STRING)
  /\ \A i, j \in 1 .. Len(SlotSeq) : SlotSeq[i] = SlotSeq[j] => i = j
  /\ \A s \in {"stk", "prog", "u", "r"} : \E i \in 1 .. Len(SlotSeq) : SlotSeq[i] = s
ASSUME NullAssumption == NULL \notin Int /\ NULL \notin Atoms
ASSUME AtomAssumption == \A a \in Atoms : a \notin Int

MEM_HIGH == MEMORYMAX - 1
Cells    == 0 .. MEM_HIGH
Pointers == Cells \cup {NULL}
Slots    == {SlotSeq[i] : i \in 1 .. Len(SlotSeq)}

\* The global roots; "u" and "r" are the arguments of a running newnode.
Roots    == Slots \ {"u", "r"}

\* ILLEGAL is what a cell holds before its first use (static storage).
Node  == [op : {"ILLEGAL", "COPIED", "LIST", "ATOM"},
          u : Pointers \cup Atoms, next : Pointers]
Frame == [n : Cells, temp : Cells, at : {"lis", "next"}]

\* What a collection starts from.
Start == [memory : [Cells -> Node], slot : [Slots -> Pointers], index : -1 .. MEMORYMAX]

VARIABLES
  memory,       \* the cells
  memoryindex,  \* the next cell newnode or copy takes
  mem_low,      \* first cell above the finished definitions
  mem_mid,      \* where newnode collects
  direction,    \* +1: the lower half is in use, -1: the upper half
  slot,         \* the values of the global roots and of newnode's arguments
  bodies,       \* the definition bodies the symbol table points to
  pc,           \* where control is: "run", "alloc", "call", "return", "gc2"
  frames,       \* the activation records of copy
  reg,          \* the argument of the copy called, or the value it returns
  cop,          \* the index in SlotSeq of the pointer being copied
  req,          \* the newnode that is running: its o, its u and its target
  define,       \* TRUE between inimem1 and inimem2: a definition is read
  old,          \* history: memory, slots and index when the collection began
  ops,          \* history: the program operations so far
  stale,        \* history: prog still points into memory that inimem1 gave up
  fault         \* history: what spoiled the memory, "none" as long as nothing

heap   == <<memory, memoryindex, mem_low, mem_mid, direction>>
copier == <<pc, frames, reg, cop, old>>
vars   == <<heap, copier, slot, bodies, req, define, ops, stale, fault>>

NoReq    == [o |-> "NONE", u |-> NULL, dest |-> "r"]
Requests == {NoReq} \cup [o : {"LIST"}, u : {NULL}, dest : Roots]
                    \cup [o : {"ATOM"}, u : Atoms, dest : Roots]

-----------------------------------------------------------------------------
(* Regions of the memory. *)

\* The cells of the half in use in direction d that newnode may fill.
HalfSpace(d) == IF d = 1 THEN mem_low .. (mem_mid - 1) ELSE (mem_mid + 1) .. MEM_HIGH

\* The cells taken so far by the half of direction d, whose index is i.
FilledTo(d, i) == IF d = 1 THEN mem_low .. (i - 1) ELSE (i + 1) .. MEM_HIGH

Filled    == FilledTo(direction, memoryindex)
Permanent == 0 .. (mem_low - 1)

\* The pointers inside node nd.
Children(nd) == {nd.next} \cup (IF nd.op = "LIST" THEN {nd.u} ELSE {})

\* No node of S can be reached from itself inside m: every group of nodes
\* has one with no successor in the group.
Acyclic(m, S) ==
  \A G \in SUBSET S : G # {} => \E n \in G : Children(m[n]) \cap G = {}

\* The roots whose value the program may use.
LiveRoots == Roots \ (IF stale THEN {"prog"} ELSE {})

\* The pointers the program can get at from the roots in one step.
Visible ==
  LET tops == {slot[s] : s \in LiveRoots}
  IN  {NULL} \cup tops \cup UNION {Children(memory[p]) : p \in tops \ {NULL}}

\* The bodies it can get at by executing a name; none while it reads one.
Loadable == IF define THEN {} ELSE bodies

-----------------------------------------------------------------------------
(* inisymboltable, inimem1 and inimem2, as main calls them before its loop. *)

Init ==
  /\ memory = [a \in Cells |-> [op |-> "ILLEGAL", u |-> NULL, next |-> NULL]]
  /\ memoryindex = 0 /\ mem_low = 0 /\ mem_mid = MEM_HIGH \div 2 /\ direction = 1
  /\ slot = [s \in Slots |-> NULL]
  /\ bodies = {}
  /\ pc = "run" /\ frames = <<>> /\ reg = NULL /\ cop = 1
  /\ req = NoReq
  /\ define = FALSE
  /\ old = NULL
  /\ ops = 0
  /\ stale = FALSE
  /\ fault = "none"

-----------------------------------------------------------------------------
(* The collector. *)

\* A mutant is a slip that the code could have made: no action uses it, it
\* stands in for the definition after it to see which property breaks.
\* Mutant: the half starts one cell late.
HalfStart_late(d) == IF d = 1 THEN mem_low + 1 ELSE MEM_HIGH

\* Where the half of direction d begins.
HalfStart(d) == IF d = 1 THEN mem_low ELSE MEM_HIGH

\* gc1: turn round and start copying the first root.
gc1 ==
  /\ direction' = -direction
  /\ memoryindex' = HalfStart(-direction)
  /\ pc' = "call"
  /\ cop' = 1
  /\ old' = [memory |-> memory, slot |-> slot', index |-> memoryindex]
  /\ reg' = slot'[SlotSeq[1]]
  /\ fault' = IF stale THEN "stale" ELSE fault
  /\ UNCHANGED <<memory, mem_low, mem_mid, frames, bodies, define, stale>>

\* Mutant: a node copied before is copied again.
CopyReturns_again(n) ==
  n = NULL \/ (n # NULL /\ (n < mem_low \/ memory[n].op = "ILLEGAL"))

\* Mutant: permanent nodes are not told from the others.
CopyReturns_permanent(n) ==
  n = NULL \/ (n # NULL /\ memory[n].op \in {"ILLEGAL", "COPIED"})

\* copy(n) returns without touching the memory.
CopyReturns(n) ==
  \/ n = NULL
  \/ n # NULL /\ (n < mem_low \/ memory[n].op \in {"ILLEGAL", "COPIED"})

ReturnedBy(n) ==
  IF n # NULL /\ n < mem_low THEN n
  ELSE IF n # NULL /\ memory[n].op = "COPIED" THEN memory[n].u
  ELSE NULL

copy_returns ==
  /\ pc = "call" /\ CopyReturns(reg)
  /\ pc' = "return"
  /\ reg' = ReturnedBy(reg)
  /\ UNCHANGED <<heap, frames, cop, old, slot, bodies, req, define, stale, fault>>

\* Taking a cell outside of the half in use spoils the memory.
TakeCell ==
  /\ memoryindex \in Cells
  /\ memoryindex' = memoryindex + direction
  /\ fault' = IF memoryindex \in HalfSpace(direction) THEN fault ELSE "mid"

\* Mutant: every u is taken for a pointer.
FirstCopied_untagged(n) == "lis"

\* The field of node n that copy copies first by calling itself: only the u
\* of a list is a pointer.
FirstCopied(n) == IF memory[n].op = "LIST" THEN "lis" ELSE "next"

\* copy(n) takes a cell, copies what is not a pointer and calls itself,
\* first for the list a node holds, then for its successor.
copy_takes ==
  LET n == reg
      at == FirstCopied(n)
  IN  /\ pc = "call" /\ ~CopyReturns(n)
      /\ TakeCell
      /\ memory' = [memory EXCEPT ![memoryindex].op = memory[n].op,
                                  ![memoryindex].u = IF at = "lis" THEN @ ELSE memory[n].u]
      /\ frames' = Append(frames, [n |-> n, temp |-> memoryindex, at |-> at])
      /\ reg' = IF at = "lis" THEN memory[n].u ELSE memory[n].next
      /\ UNCHANGED <<mem_low, mem_mid, direction, pc, cop, old, slot, bodies, req,
                     define, stale>>

TopFrame  == frames[Len(frames)]
PopFrames == SubSeq(frames, 1, Len(frames) - 1)

\* Mutant: the copy of the list is not stored.
copy_lis_unstored ==
  /\ pc = "return" /\ frames # <<>> /\ TopFrame.at = "lis"
  /\ frames' = [frames EXCEPT ![Len(frames)].at = "next"]
  /\ pc' = "call"
  /\ reg' = memory[TopFrame.n].next
  /\ UNCHANGED <<heap, cop, old, slot, bodies, req, define, stale, fault>>

\* The inner copy of a list is back: store it and go on with the successor.
copy_lis ==
  /\ pc = "return" /\ frames # <<>> /\ TopFrame.at = "lis"
  /\ memory' = [memory EXCEPT ![TopFrame.temp].u = reg]
  /\ frames' = [frames EXCEPT ![Len(frames)].at = "next"]
  /\ pc' = "call"
  /\ reg' = memory'[TopFrame.n].next
  /\ UNCHANGED <<memoryindex, mem_low, mem_mid, direction, cop, old, slot, bodies,
                 req, define, stale, fault>>

\* The copy of the successor is back: leave the forwarding address behind.
copy_next ==
  /\ pc = "return" /\ frames # <<>> /\ TopFrame.at = "next"
  /\ memory' = [memory EXCEPT ![TopFrame.temp].next = reg,
                              ![TopFrame.n].op = "COPIED",
                              ![TopFrame.n].u = TopFrame.temp]
  /\ frames' = PopFrames
  /\ reg' = TopFrame.temp
  /\ UNCHANGED <<memoryindex, mem_low, mem_mid, direction, pc, cop, old, slot,
                 bodies, req, define, stale, fault>>

\* COP of one root, or one of the two copies in newnode, is complete.
copied_slot ==
  /\ pc = "return" /\ frames = <<>>
  /\ slot' = [slot EXCEPT ![SlotSeq[cop]] = reg]
  /\ IF cop < Len(SlotSeq)
     THEN /\ cop' = cop + 1 /\ pc' = "call"
          /\ reg' = slot'[SlotSeq[cop + 1]]
     ELSE cop' = 1 /\ pc' = "gc2" /\ reg' = NULL
  /\ UNCHANGED <<heap, frames, old, bodies, req, define, stale, fault>>

\* The collection ends; a newnode that caused it goes on.
gc2 ==
  /\ pc = "gc2"
  /\ pc' = IF req = NoReq THEN "run" ELSE "alloc"
  /\ old' = NULL
  /\ UNCHANGED <<heap, frames, reg, cop, slot, bodies, req, define, stale, fault>>

Collector ==
  copy_returns \/ copy_takes \/ copy_lis \/ copy_next \/ copied_slot \/ gc2

-----------------------------------------------------------------------------
(* newnode(o, u, r), its result assigned to the root d. *)

newnode(o, u, r, d) ==
  /\ pc = "run"
  /\ req' = [o |-> o, u |-> IF o = "LIST" THEN NULL ELSE u, dest |-> d]
  /\ slot' = [slot EXCEPT !["u"] = IF o = "LIST" THEN u ELSE NULL, !["r"] = r]
  /\ IF memoryindex = mem_mid
     THEN gc1
     ELSE /\ pc' = "alloc"
          /\ UNCHANGED <<heap, frames, reg, cop, old, bodies, define, stale, fault>>

newnode_takes ==
  /\ pc = "alloc"
  /\ TakeCell
  /\ memory' = [memory EXCEPT ![memoryindex] =
                  [op |-> req.o,
                   u |-> IF req.o = "LIST" THEN slot["u"] ELSE req.u,
                   next |-> slot["r"]]]
  /\ slot' = [slot EXCEPT ![req.dest] = memoryindex, !["u"] = NULL, !["r"] = NULL]
  /\ req' = NoReq
  /\ pc' = "run"
  /\ UNCHANGED <<mem_low, mem_mid, direction, frames, reg, cop, old, bodies,
                 define, stale>>

\* The operator gc: a collection the program asks for.
gc_ ==
  /\ pc = "run" /\ ~define
  /\ slot' = slot
  /\ gc1
  /\ UNCHANGED req

-----------------------------------------------------------------------------
(* The rest of the interpreter, as far as the memory can tell. *)

\* POP, SAVEDn, stk = dump1, conts = NULL, ...: a root takes another pointer.
assign(d, p) ==
  /\ pc = "run" /\ d \in LiveRoots \ {"prog"} /\ p \in Visible \cup Loadable
  /\ slot' = [slot EXCEPT ![d] = p]
  /\ UNCHANGED <<heap, copier, bodies, req, define, stale, fault>>

\* conts->u.lis = conts->u.lis->next, DMP1 = DMP1->next
step_lis(d) ==
  LET x == slot[d]
  IN  /\ pc = "run" /\ d \in LiveRoots
      /\ x # NULL /\ x \notin Permanent /\ memory[x].op = "LIST" /\ memory[x].u # NULL
      /\ memory' = [memory EXCEPT ![x].u = memory[memory[x].u].next]
      /\ UNCHANGED <<memoryindex, mem_low, mem_mid, direction, copier, slot, bodies,
                     req, define, stale, fault>>

\* Mutant: the assignment the wrong way round, stk->next->next = stk.
unlink_next_swapped(d) ==
  LET x == slot[d]
  IN  /\ pc = "run" /\ d \in LiveRoots
      /\ x # NULL /\ memory[x].next # NULL
      /\ memory' = [memory EXCEPT ![memory[x].next].next = x]
      /\ UNCHANGED <<memoryindex, mem_low, mem_mid, direction, copier, slot, bodies,
                     req, define, stale, fault>>

\* stk->next = stk->next->next
unlink_next(d) ==
  LET x == slot[d]
  IN  /\ pc = "run" /\ d \in LiveRoots
      /\ x # NULL /\ memory[x].next # NULL
      /\ memory' = [memory EXCEPT ![x].next = memory[memory[x].next].next]
      /\ UNCHANGED <<memoryindex, mem_low, mem_mid, direction, copier, slot, bodies,
                     req, define, stale, fault>>

\* prog = stk->u.lis; stk = stk->next: main is about to run a program.
set_prog ==
  LET x == slot["stk"]
  IN  /\ pc = "run" /\ ~define
      /\ x # NULL /\ memory[x].op = "LIST"
      /\ slot' = [slot EXCEPT !["prog"] = memory[x].u, !["stk"] = memory[x].next]
      /\ stale' = FALSE
      /\ UNCHANGED <<heap, copier, bodies, req, define, fault>>

\* Mutant: the roots are not cleared.
inimem1_keeps_roots ==
  /\ pc = "run" /\ ~define
  /\ direction' = 1
  /\ memoryindex' = mem_low
  /\ define' = TRUE
  /\ stale' = TRUE
  /\ UNCHANGED <<memory, mem_low, mem_mid, copier, slot, bodies, req, fault>>

\* Before a definition: everything above the finished definitions is given
\* up, and every root but prog is cleared.
inimem1 ==
  /\ pc = "run" /\ ~define
  /\ slot' = [s \in Slots |-> IF s = "prog" THEN slot[s] ELSE NULL]
  /\ direction' = 1
  /\ memoryindex' = mem_low
  /\ define' = TRUE
  /\ stale' = TRUE
  /\ UNCHANGED <<memory, mem_low, mem_mid, copier, bodies, req, fault>>

\* here->u.body = stk->u.lis; stk = stk->next
define_body ==
  LET x == slot["stk"]
  IN  /\ pc = "run" /\ define
      /\ x # NULL /\ memory[x].op = "LIST"
      /\ bodies' = bodies \cup {memory[x].u}
      /\ slot' = [slot EXCEPT !["stk"] = memory[x].next]
      /\ UNCHANGED <<heap, copier, req, define, stale, fault>>

\* Mutant: mem_low stays.
inimem2_keeps_low ==
  /\ pc = "run" /\ define
  /\ mem_mid' = memoryindex + MEM_HIGH \div 2
  /\ define' = FALSE
  /\ UNCHANGED <<memory, mem_low, memoryindex, direction, copier, slot, bodies, req,
                 stale, fault>>

\* After a definition: what it allocated is permanent from now on.
inimem2 ==
  /\ pc = "run" /\ define
  /\ mem_low' = memoryindex
  /\ mem_mid' = memoryindex + MEM_HIGH \div 2
  /\ define' = FALSE
  /\ UNCHANGED <<memory, memoryindex, direction, copier, slot, bodies, req, stale, fault>>

\* abortexecution_: conts and the dumps are cleared.  An abort while a
\* definition is read (a field that a module does not have) skips inimem2:
\* the bodies entered so far stay outside of the permanent memory, and
\* nothing keeps them from being collected or overwritten.
abort ==
  /\ pc = "run"
  /\ slot' = [s \in Slots |-> IF s \in {"stk", "prog"} THEN slot[s] ELSE NULL]
  /\ define' = FALSE
  /\ fault' = IF bodies \ {NULL} \subseteq Permanent THEN fault ELSE "abort"
  /\ UNCHANGED <<heap, copier, bodies, req, stale>>

\* newnode, or copy, takes a cell behind the end of the array.
overruns ==
  /\ pc = "alloc" \/ (pc = "call" /\ ~CopyReturns(reg))
  /\ memoryindex \notin Cells
  /\ fault' = "mid"
  /\ UNCHANGED <<heap, copier, slot, bodies, req, define, stale>>

\* What the program does between two allocations, or to start one.
Operation ==
  \/ \E a \in Atoms, r \in Visible, d \in LiveRoots \ {"prog"} : newnode("ATOM", a, r, d)
  \/ \E u \in Visible \cup Loadable, r \in Visible, d \in LiveRoots \ {"prog"} :
       newnode("LIST", u, r, d)
  \/ gc_
  \/ \E d \in Roots, p \in Visible \cup Loadable : assign(d, p)
  \/ \E d \in Roots : step_lis(d) \/ unlink_next(d)
  \/ set_prog
  \/ inimem1
  \/ define_body
  \/ inimem2
  \/ abort

\* A spoiled memory is where the model stops: what follows depends on which
\* cells were overwritten.
Next ==
  /\ fault = "none"
  /\ \/ (Collector \/ newnode_takes \/ overruns) /\ UNCHANGED ops
     \/ Operation /\ ops < MaxOps /\ ops' = ops + 1

\* The interpreter is one thread: what it has begun it carries on with.
Spec     == Init /\ [][Next]_vars
FairSpec == Spec /\ WF_vars(fault = "none" /\ Collector /\ UNCHANGED ops)

-----------------------------------------------------------------------------
(* Properties. *)

\* Every variable keeps its type: pointers stay inside the array, or one
\* cell beyond its ends for the index.
TypeOK ==
  /\ memory \in [Cells -> Node]
  /\ memoryindex \in -1 .. MEMORYMAX
  /\ mem_low \in 0 .. MEMORYMAX
  /\ mem_mid \in Nat
  /\ direction \in {1, -1}
  /\ slot \in [Slots -> Pointers]
  /\ bodies \subseteq Pointers
  /\ pc \in {"run", "alloc", "call", "return", "gc2"}
  /\ frames \in Seq(Frame)
  /\ reg \in Pointers
  /\ cop \in 1 .. Len(SlotSeq)
  /\ req \in Requests
  /\ define \in BOOLEAN
  /\ ops \in 0 .. MaxOps
  /\ old \in {NULL} \cup Start
  /\ stale \in BOOLEAN
  /\ fault \in {"none", "mid", "stale", "abort"}

\* The half the collection empties, and the cells of it already moved.
From  == FilledTo(-direction, old.index)
Moved == {a \in From : memory[a].op = "COPIED"}

\* Where the collection put what p pointed to.
Forward(p) == IF p \in From THEN memory[p].u ELSE p

\* The cell that a was moved to holds what a held, its pointers forwarded.
MovedFaithfully(a) ==
  LET nd == old.memory[a]
  IN  memory[memory[a].u] =
        [op |-> nd.op,
         u |-> IF nd.op = "LIST" THEN Forward(nd.u) ELSE nd.u,
         next |-> Forward(nd.next)]

\* A collection keeps the object graph: when it is over, every root points
\* to the copy of what it pointed to, every copy holds what the original
\* held with its pointers forwarded, what a moved node points to was moved
\* too, and no two nodes became one (sharing is neither lost nor invented).
CollectionPreservesGraph ==
  pc = "gc2" /\ fault = "none" =>
    /\ \A s \in Slots : /\ old.slot[s] \in From => old.slot[s] \in Moved
                        /\ slot[s] = Forward(old.slot[s])
    /\ \A a \in Moved : /\ MovedFaithfully(a)
                        /\ Children(old.memory[a]) \cap From \subseteq Moved
    /\ \A a, b \in Moved : memory[a].u = memory[b].u => a = b

\* A set of old cells that holds what the roots point to and what its own
\* cells point to.
ClosedFrom(C) ==
  /\ \A s \in Slots : old.slot[s] \in From => old.slot[s] \in C
  /\ \A a \in C : Children(old.memory[a]) \cap From \subseteq C

\* A collection reclaims everything it can: it moves only what the roots
\* reach, and the new half holds the moved cells and nothing else.
CollectionReclaims ==
  pc = "gc2" /\ fault = "none" =>
    /\ \A C \in SUBSET From : ClosedFrom(C) => Moved \subseteq C
    /\ Filled = {memory[a].u : a \in Moved}

\* Between two steps of the program no pointer it can use dangles: roots,
\* bodies and the nodes in use point to nodes in use, and finished
\* definitions only to finished definitions, whatever was collected.
InUse == Permanent \cup Filled

NoDangling ==
  pc = "run" /\ fault = "none" =>
    /\ \A s \in LiveRoots : slot[s] \in InUse \cup {NULL}
    /\ bodies \subseteq InUse \cup {NULL}
    /\ \A a \in InUse : /\ memory[a].op \in {"LIST", "ATOM"}
                        /\ Children(memory[a]) \subseteq InUse \cup {NULL}
    /\ \A a \in Permanent : Children(memory[a]) \subseteq Permanent \cup {NULL}

\* Finished definitions stay: once inimem2 has passed, their bodies lie
\* below mem_low, and mem_low never goes down.
BodiesPermanent ==
  ~define /\ fault = "none" => bodies \subseteq Permanent \cup {NULL}

\* The collector never writes to a finished definition.
CollectorSparesDefinitions ==
  [][pc # "run" /\ fault' = "none" =>
       /\ mem_low' = mem_low
       /\ \A a \in Permanent : memory'[a] = memory[a]]_vars

\* The half being filled has fewer cells than the other one had taken.
HalfTooSmall ==
  Cardinality(From) > Cardinality(HalfSpace(direction) \cap Cells)

\* A collection runs out of cells only when the half it fills is smaller than
\* what the other one had taken: never because copy copies a node twice, or
\* runs in a circle.
CollectorFits == pc = "call" /\ fault = "mid" => HalfTooSmall

\* A collection that starts ends, or finds the other half too small.
CollectionEnds ==
  (pc = "call" /\ fault = "none") ~> (pc \in {"run", "alloc"} \/ HalfTooSmall)

-----------------------------------------------------------------------------
(* The inductive invariant behind these properties. *)

\* A memory m whose half in use is F: the nodes of F and the permanent ones
\* are closed under their pointers, and F has no cycle.
WellFormed(m, F) ==
  /\ \A a \in Permanent : /\ m[a].op \in {"LIST", "ATOM"}
                         /\ Children(m[a]) \subseteq Permanent \cup {NULL}
  /\ \A a \in F : /\ m[a].op \in {"LIST", "ATOM"}
                 /\ Children(m[a]) \subseteq Permanent \cup F \cup {NULL}
  /\ Acyclic(m, F)

\* The index has not left the half in use.
IndexOK ==
  /\ mem_low <= mem_mid
  /\ Filled \subseteq HalfSpace(direction)
  /\ direction = 1 => memoryindex >= mem_low
  /\ direction = -1 => memoryindex <= MEM_HIGH

\* While the program runs (and while newnode is about to take its cell).
ProgramOK ==
  pc \in {"run", "alloc"} =>
    /\ WellFormed(memory, Filled)
    /\ \A s \in LiveRoots \cup {"u", "r"} : slot[s] \in InUse \cup {NULL}
    /\ bodies \subseteq {NULL} \cup Permanent \cup (IF define THEN Filled ELSE {})
    /\ define => stale /\ direction = 1
    /\ frames = <<>> /\ old = NULL /\ reg = NULL /\ cop = 1
    /\ pc = "run" <=> req = NoReq

Collecting == pc \in {"call", "return", "gc2"}

\* What the collection started from.
OldOK ==
  /\ old \in Start
  /\ ~stale /\ ~define
  /\ bodies \subseteq Permanent \cup {NULL}
  /\ From \subseteq HalfSpace(-direction) \cap Cells
  /\ WellFormed(old.memory, From)
  /\ \A s \in Slots : old.slot[s] \in Permanent \cup From \cup {NULL}
  /\ \A a \in Permanent : memory[a] = old.memory[a]

\* p needs no copying any more.
Settled(p) == p \in From => p \in Moved

\* Each cell of the old half is as it was, or has been moved.
MovedOK ==
  /\ \A a \in From : \/ memory[a] = old.memory[a]
                     \/ /\ memory[a].op = "COPIED"
                        /\ memory[a].u \in Filled
                        /\ MovedFaithfully(a)
                        /\ \A p \in Children(old.memory[a]) : Settled(p)
  /\ \A a, b \in Moved : memory[a].u = memory[b].u => a = b

\* The pointer whose copy an activation of copy waits for.
Awaited(f) == IF f.at = "lis" THEN old.memory[f.n].u ELSE old.memory[f.n].next

FrameOK(f) ==
  /\ f.n \in From /\ memory[f.n] = old.memory[f.n]
  /\ f.temp \in Filled
  /\ memory[f.temp].op = old.memory[f.n].op
  /\ f.at = "lis" => old.memory[f.n].op = "LIST"
  /\ f.at = "next" =>
       IF old.memory[f.n].op = "LIST"
       THEN /\ memory[f.temp].u = Forward(old.memory[f.n].u)
            /\ Settled(old.memory[f.n].u)
       ELSE memory[f.temp].u = old.memory[f.n].u

\* The activations of copy form a path in the old graph, from the root being
\* copied; as that graph has no cycle, no node is on it twice.
FramesOK ==
  /\ \A i \in 1 .. Len(frames) : FrameOK(frames[i])
  /\ \A i \in 1 .. (Len(frames) - 1) : Awaited(frames[i]) = frames[i + 1].n
  /\ frames # <<>> => frames[1].n = old.slot[SlotSeq[cop]]
  /\ \A i, j \in 1 .. Len(frames) :
       i # j => frames[i].n # frames[j].n /\ frames[i].temp # frames[j].temp
  /\ \A i \in 1 .. Len(frames), a \in Moved : memory[a].u # frames[i].temp

FilledOK ==
  \A t \in Filled : \/ \E a \in Moved : memory[a].u = t
                   \/ \E i \in 1 .. Len(frames) : frames[i].temp = t

\* The pointer that the innermost copy is, or was, called with.
Asked == IF frames = <<>> THEN old.slot[SlotSeq[cop]] ELSE Awaited(TopFrame)

ControlOK ==
  /\ pc = "call" => reg = Asked
  /\ pc = "return" => reg = Forward(Asked) /\ Settled(Asked)
  /\ pc = "gc2" => frames = <<>> /\ reg = NULL /\ cop = 1

SlotsOK ==
  \A i \in 1 .. Len(SlotSeq) :
    LET s == SlotSeq[i]
    IN  IF i < cop \/ pc = "gc2"
        THEN slot[s] = Forward(old.slot[s]) /\ Settled(old.slot[s])
        ELSE slot[s] = old.slot[s]

\* Only what the roots reach is moved.
ReachedOK ==
  \A C \in SUBSET From :
    ClosedFrom(C) => /\ Moved \subseteq C
                     /\ \A i \in 1 .. Len(frames) : frames[i].n \in C

CollectorOK ==
  Collecting =>
    OldOK /\ MovedOK /\ FramesOK /\ FilledOK /\ ControlOK /\ SlotsOK /\ ReachedOK

\* The inductive invariant: the types, and, until something spoils the
\* memory, the index, the program's view and the collector's progress.
IInv == TypeOK /\ (fault = "none" => IndexOK /\ ProgramOK /\ CollectorOK)

\* The slots that are copied, for a run.
RunSlotSeq == <<"stk", "prog", "u", "r">>
=============================================================================
