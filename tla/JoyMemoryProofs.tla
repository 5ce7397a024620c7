--------------------------- MODULE JoyMemoryProofs ---------------------------
(***************************************************************************)
(* Proofs about the node memory: IInv is inductive, and with it the types, *)
(* the safety of pointers and the correctness of a collection hold for     *)
(* every size of the memory, every list of roots and every payload.        *)
(***************************************************************************)
EXTENDS JoyMemory, SequenceTheorems, FiniteSetTheorems, TLAPS

\* NULL and the payloads are no addresses.
LEMMA NullFacts ==
  /\ NULL \notin Cells /\ NULL \notin Int /\ MEMORYMAX \in Nat /\ MEMORYMAX > 0
  /\ MEM_HIGH \in Nat /\ MaxOps \in Nat
BY NullAssumption, MemoryAssumption DEF Cells, MEM_HIGH

\* The four named slots exist, and no slot is listed twice.
LEMMA SlotFacts ==
  /\ SlotSeq \in Seq(STRING) /\ Len(SlotSeq) \in Nat /\ Len(SlotSeq) >= 1
  /\ "stk" \in Slots /\ "prog" \in Slots /\ "u" \in Slots /\ "r" \in Slots
  /\ Roots \subseteq Slots
  /\ LiveRoots \subseteq Roots
<1>1. /\ SlotSeq \in Seq(STRING) /\ Len(SlotSeq) \in Nat
  BY SlotAssumption
<1>2. \E i \in 1 .. Len(SlotSeq) : SlotSeq[i] = "stk"
  BY SlotAssumption
<1>3. Len(SlotSeq) >= 1
  BY <1>1, <1>2
<1>4. "stk" \in Slots /\ "prog" \in Slots /\ "u" \in Slots /\ "r" \in Slots
  BY SlotAssumption DEF Slots
<1>5. QED
  BY <1>1, <1>3, <1>4 DEF Roots, LiveRoots

-----------------------------------------------------------------------------
(* Regions. *)

\* During a collection the permanent cells, the half emptied and the half
\* filled do not meet.
LEMMA Disjoint ==
  ASSUME TypeOK, IndexOK, OldOK
  PROVE  /\ From \cap Filled = {}
         /\ From \cap Permanent = {}
         /\ Filled \cap Permanent = {}
         /\ From \cap HalfSpace(direction) = {}
         /\ From \subseteq Cells /\ Filled \subseteq Cells /\ Permanent \subseteq Cells
<1>1. /\ direction \in {1, -1} /\ memoryindex \in Int /\ mem_low \in Nat /\ mem_mid \in Nat
      /\ memoryindex <= MEMORYMAX /\ memoryindex >= -1 /\ mem_low <= MEMORYMAX
  BY NullFacts DEF TypeOK
<1>2. Filled \subseteq HalfSpace(direction) /\ mem_low <= mem_mid
  BY DEF IndexOK
<1>3. From \subseteq HalfSpace(-direction) /\ From \subseteq Cells
  BY DEF OldOK
<1>4. HalfSpace(direction) \cap HalfSpace(-direction) = {}
  BY <1>1, NullFacts DEF HalfSpace
<1>5. /\ HalfSpace(direction) \cap Permanent = {}
      /\ HalfSpace(-direction) \cap Permanent = {}
  BY <1>1, <1>2, NullFacts DEF HalfSpace, Permanent
<1>6. Filled \subseteq Cells /\ Permanent \subseteq Cells
  BY <1>1, NullFacts DEF Filled, FilledTo, Permanent, Cells, MEM_HIGH
<1>7. QED
  BY <1>2, <1>3, <1>4, <1>5, <1>6

\* A cell taken inside the half in use is a new one.
LEMMA Taken ==
  ASSUME TypeOK, IndexOK, fault = "none", fault' = "none", TakeCell,
         UNCHANGED <<mem_low, mem_mid, direction>>
  PROVE  /\ IndexOK'
         /\ memoryindex \in Cells /\ memoryindex' \in -1 .. MEMORYMAX
         /\ memoryindex \notin Filled /\ memoryindex \notin Permanent
         /\ memoryindex \in HalfSpace(direction)
         /\ Filled' = Filled \cup {memoryindex}
<1>0. memoryindex \in HalfSpace(direction) /\ memoryindex \in Cells
      /\ memoryindex' = memoryindex + direction
  BY DEF TakeCell
<1>1. CASE direction = 1
  BY <1>0, <1>1, NullFacts DEF TypeOK, IndexOK, Filled, FilledTo, HalfSpace,
     Permanent, Cells, MEM_HIGH
<1>2. CASE direction = -1
  BY <1>0, <1>2, NullFacts DEF TypeOK, IndexOK, Filled, FilledTo, HalfSpace,
     Permanent, Cells, MEM_HIGH
<1>3. QED
  BY <1>1, <1>2 DEF TypeOK

-----------------------------------------------------------------------------
(* The initial state. *)

LEMMA InitIInv == Init => IInv
<1> SUFFICES ASSUME Init PROVE IInv
  OBVIOUS
<1>1. TypeOK
  <2>1. memory \in [Cells -> Node]
    BY NullFacts DEF Init, Node, Pointers
  <2>2. slot \in [Slots -> Pointers]
    BY DEF Init, Pointers
  <2>3. frames \in Seq(Frame)
    BY DEF Init
  <2>4. mem_mid \in Nat /\ mem_low \in 0 .. MEMORYMAX /\ memoryindex \in -1 .. MEMORYMAX
    BY NullFacts DEF Init
  <2>5. cop \in 1 .. Len(SlotSeq)
    BY SlotFacts DEF Init
  <2>6. req \in Requests
    BY DEF Init, Requests
  <2>7. bodies \subseteq Pointers /\ reg \in Pointers /\ old \in {NULL} /\ ops \in 0 .. MaxOps
    BY NullFacts DEF Init, Pointers
  <2>8. QED
    BY <2>1, <2>2, <2>3, <2>4, <2>5, <2>6, <2>7 DEF Init, TypeOK
<1>2. Filled = {} /\ Permanent = {}
  BY NullFacts DEF Init, Filled, FilledTo, Permanent
<1>3. IndexOK
  BY <1>2, NullFacts DEF Init, IndexOK
<1>4. ProgramOK
  <2>1. WellFormed(memory, Filled)
    BY <1>2 DEF WellFormed, Acyclic
  <2>2. \A s \in LiveRoots \cup {"u", "r"} : slot[s] = NULL
    BY SlotFacts DEF Init
  <2>3. QED
    BY <2>1, <2>2 DEF Init, ProgramOK
<1>5. CollectorOK
  BY DEF Init, CollectorOK, Collecting
<1>6. QED
  BY <1>1, <1>3, <1>4, <1>5 DEF IInv

-----------------------------------------------------------------------------
(* The collector: one lemma per step. *)

\* What every step of the collector starts from.
LEMMA CollectorContext ==
  ASSUME IInv, fault = "none", Collecting
  PROVE  /\ TypeOK /\ IndexOK /\ OldOK /\ MovedOK /\ FramesOK /\ FilledOK
         /\ ControlOK /\ SlotsOK /\ ReachedOK
         /\ old \in Start
         /\ SlotSeq[cop] \in Slots
BY DEF IInv, CollectorOK, TypeOK, OldOK, Slots

\* A pointer that the copy now running was called with.
LEMMA AskedIsOld ==
  ASSUME IInv, fault = "none", Collecting
  PROVE  Asked \in Permanent \cup From \cup {NULL}
<1> USE CollectorContext
<1>1. CASE frames = <<>>
  BY <1>1 DEF Asked, OldOK
<1>2. CASE frames # <<>>
  <2>1. Len(frames) \in 1 .. Len(frames)
    BY <1>2 DEF TypeOK
  <2>2. FrameOK(TopFrame)
    BY <2>1 DEF FramesOK, TopFrame
  <2>3. Awaited(TopFrame) \in Children(old.memory[TopFrame.n])
    BY <2>1, <2>2 DEF FrameOK, Awaited, Children, TopFrame, TypeOK, Frame
  <2>4. QED
    BY <1>2, <2>2, <2>3 DEF Asked, FrameOK, OldOK, WellFormed
<1>3. QED
  BY <1>1, <1>2

\* A cell of the old half either has been moved, with all that this means,
\* or is untouched.
LEMMA MovedFacts ==
  ASSUME OldOK, MovedOK, NEW a \in From
  PROVE  /\ a \in Moved => /\ memory[a].u \in Filled
                          /\ MovedFaithfully(a)
                          /\ \A p \in Children(old.memory[a]) : Settled(p)
         /\ a \notin Moved => memory[a] = old.memory[a]
         /\ memory[a] = old.memory[a] => a \notin Moved
BY DEF OldOK, WellFormed, MovedOK, Moved

LEMMA CopyReturnsIInv ==
  ASSUME IInv, fault = "none", copy_returns, UNCHANGED ops
  PROVE  IInv'
<1>0. Collecting /\ pc = "call"
  BY DEF copy_returns, Collecting
<1> USE <1>0, CollectorContext
<1>1. reg = Asked /\ reg \in Permanent \cup From \cup {NULL}
  BY AskedIsOld DEF ControlOK
<1>2. ReturnedBy(reg) = Forward(reg) /\ Settled(reg)
  <2>1. CASE reg = NULL
    BY <2>1, Disjoint, NullFacts DEF ReturnedBy, Forward, Settled
  <2>2. CASE reg \in Permanent
    BY <2>2, Disjoint, NullFacts DEF ReturnedBy, Forward, Settled, Permanent, TypeOK
  <2>3. CASE reg \in From
    <3>1. reg # NULL /\ ~(reg < mem_low)
      BY <2>3, Disjoint, NullFacts DEF Permanent, Cells, TypeOK
    <3>2. memory[reg].op # "ILLEGAL"
      BY <2>3 DEF MovedOK, OldOK, WellFormed
    <3>3. memory[reg].op = "COPIED"
      BY <3>1, <3>2 DEF copy_returns, CopyReturns
    <3>4. QED
      BY <2>3, <3>1, <3>3 DEF ReturnedBy, Forward, Settled, Moved
  <2>4. QED
    BY <1>1, <2>1, <2>2, <2>3
<1>3. ReturnedBy(reg) \in Pointers
  <2>1. Forward(reg) \in Filled \cup Permanent \cup {NULL}
    BY <1>1, <1>2, MovedFacts DEF Forward, Settled
  <2>2. QED
    BY <1>2, <2>1, Disjoint DEF Pointers
<1>4. /\ UNCHANGED <<memory, memoryindex, mem_low, mem_mid, direction, slot, bodies, req,
                    define, stale, fault, ops, frames, cop, old>>
      /\ pc' = "return" /\ reg' = ReturnedBy(reg)
  BY DEF copy_returns, heap
<1>5. TypeOK'
  BY <1>3, <1>4 DEF TypeOK
<1>6. IndexOK'
  BY <1>4 DEF IndexOK, Filled, FilledTo, HalfSpace
<1>7. From' = From /\ Filled' = Filled /\ Moved' = Moved /\ Permanent' = Permanent
  BY <1>4 DEF From, Filled, FilledTo, Moved, Permanent
<1>8. \A q : Forward(q)' = Forward(q) /\ (Settled(q)' <=> Settled(q))
  BY <1>4, <1>7 DEF Forward, Settled
<1>9. OldOK'
  BY <1>4, <1>7 DEF OldOK, WellFormed, Acyclic, HalfSpace
<1>10. MovedOK'
  BY <1>4, <1>7, <1>8 DEF MovedOK, MovedFaithfully
<1>11. FramesOK'
  BY <1>4, <1>7, <1>8 DEF FramesOK, FrameOK, Awaited
<1>12. FilledOK'
  BY <1>4, <1>7 DEF FilledOK
<1>13. ControlOK'
  <2>1. Asked' = Asked
    BY <1>4 DEF Asked, Awaited, TopFrame
  <2>2. QED
    BY <1>1, <1>2, <1>4, <1>8, <2>1 DEF ControlOK
<1>14. SlotsOK'
  BY <1>4, <1>8 DEF SlotsOK
<1>15. ReachedOK'
  BY <1>4, <1>7 DEF ReachedOK, ClosedFrom
<1>16. QED
  BY <1>4, <1>5, <1>6, <1>9, <1>10, <1>11, <1>12, <1>13, <1>14, <1>15
  DEF IInv, ProgramOK, CollectorOK

\* An activation's pointer is a child of its node.
LEMMA AwaitedIsChild ==
  ASSUME NEW f, FrameOK(f), f \in Frame
  PROVE  Awaited(f) \in Children(old.memory[f.n])
BY DEF FrameOK, Awaited, Children, Frame

\* The old graph has no cycle, so copy is not called with a node that one of
\* its activations works on.
LEMMA AskedIsNew ==
  ASSUME TypeOK, OldOK, FramesOK, Asked \in From
  PROVE  \A i \in 1 .. Len(frames) : frames[i].n # Asked
<1> SUFFICES ASSUME NEW j \in 1 .. Len(frames), frames[j].n = Asked PROVE FALSE
  OBVIOUS
<1> DEFINE L == Len(frames)
           G == {frames[i].n : i \in j .. L}
<1>1. L \in Nat /\ j \in Nat /\ j >= 1 /\ j <= L
  BY DEF TypeOK
<1>2. \A i \in j .. L : i \in 1 .. L /\ FrameOK(frames[i]) /\ frames[i] \in Frame
  BY <1>1 DEF FramesOK, TypeOK
<1>3. G \subseteq From /\ frames[j].n \in G
  BY <1>1, <1>2 DEF FrameOK
<1>4. PICK m \in G : Children(old.memory[m]) \cap G = {}
  <2>1. Acyclic(old.memory, From)
    BY DEF OldOK, WellFormed
  <2>2. G \in SUBSET From /\ G # {}
    BY <1>3
  <2> HIDE DEF G
  <2>3. QED
    BY <2>1, <2>2 DEF Acyclic
<1>5. PICK i \in j .. L : m = frames[i].n
  BY <1>4
<1>6. Awaited(frames[i]) \in Children(old.memory[m])
  BY <1>2, <1>5, AwaitedIsChild
<1>7. CASE i < L
  <2>1. Awaited(frames[i]) = frames[i + 1].n /\ i + 1 \in j .. L
    BY <1>1, <1>7 DEF FramesOK
  <2>2. QED
    BY <1>4, <1>6, <2>1
<1>8. CASE i = L
  <2>1. Awaited(frames[i]) = Asked
    BY <1>1, <1>8 DEF Asked, TopFrame
  <2>2. QED
    BY <1>3, <1>4, <1>6, <2>1
<1>9. QED
  BY <1>1, <1>7, <1>8

\* What copy is called with is reached from the roots.
LEMMA AskedIsReached ==
  ASSUME TypeOK, FramesOK, ReachedOK, Asked \in From, SlotSeq[cop] \in Slots,
         NEW C \in SUBSET From, ClosedFrom(C)
  PROVE  Asked \in C
<1>1. CASE frames = <<>>
  BY <1>1 DEF Asked, ClosedFrom
<1>2. CASE frames # <<>>
  <2>1. Len(frames) \in 1 .. Len(frames) /\ TopFrame \in Frame
    BY <1>2 DEF TypeOK, TopFrame
  <2>2. TopFrame.n \in C /\ FrameOK(TopFrame)
    BY <2>1 DEF ReachedOK, TopFrame, FramesOK
  <2>3. Awaited(TopFrame) \in Children(old.memory[TopFrame.n])
    BY <2>1, <2>2, AwaitedIsChild
  <2>4. QED
    BY <1>2, <2>2, <2>3 DEF Asked, ClosedFrom
<1>3. QED
  BY <1>1, <1>2

LEMMA CopyTakesIInv ==
  ASSUME IInv, fault = "none", copy_takes, UNCHANGED ops
  PROVE  IInv'
<1> DEFINE n == reg
           t == memoryindex
           at == IF memory[n].op = "LIST" THEN "lis" ELSE "next"
           new == [n |-> n, temp |-> t, at |-> at]
<1>0. Collecting /\ pc = "call"
  BY DEF copy_takes, Collecting
<1> USE <1>0, CollectorContext
<1>1. /\ UNCHANGED <<mem_low, mem_mid, direction, pc, cop, old, slot, bodies, req,
                    define, stale, ops>>
      /\ TakeCell /\ ~CopyReturns(n) /\ t \in Cells
      /\ frames' = Append(frames, new)
      /\ reg' = IF at = "lis" THEN memory[n].u ELSE memory[n].next
      /\ memory' = [memory EXCEPT ![t].op = memory[n].op,
                                 ![t].u = IF at = "lis" THEN @ ELSE memory[n].u]
  BY DEF copy_takes, TakeCell, FirstCopied
<1>2. n = Asked /\ n \in From /\ n \notin Moved /\ memory[n] = old.memory[n]
      /\ memory[n].op \in {"LIST", "ATOM"}
  <2>1. n = Asked /\ n \in Permanent \cup From \cup {NULL}
    BY AskedIsOld DEF ControlOK
  <2>2. n \notin Permanent /\ n # NULL
    BY <1>1, NullFacts DEF CopyReturns, Permanent, TypeOK
  <2>3. n \in From /\ n \notin Moved
    BY <1>1, <2>1, <2>2 DEF CopyReturns, Moved
  <2>4. QED
    BY <2>1, <2>3, MovedFacts DEF OldOK, WellFormed
<1>3. n \in Cells /\ memory[n] \in Node /\ memory[t] \in Node
  BY <1>1, <1>2, Disjoint DEF TypeOK
<1>4. /\ memory' \in [Cells -> Node]
      /\ memory'[t] = [op |-> memory[n].op,
                       u |-> IF at = "lis" THEN memory[t].u ELSE memory[n].u,
                       next |-> memory[t].next]
      /\ \A a \in Cells : a # t => memory'[a] = memory[a]
  BY <1>1, <1>3 DEF TypeOK, Node
<1>5. new \in Frame
  BY <1>1, <1>3 DEF Frame
<1>6. TypeOK'
  <2>1. frames' \in Seq(Frame)
    BY <1>1, <1>5 DEF TypeOK
  <2>2. reg' \in Pointers
    BY <1>1, <1>2, Disjoint DEF OldOK, WellFormed, Children, Pointers
  <2>3. fault' \in {"none", "mid", "stale", "abort"} /\ memoryindex' \in -1 .. MEMORYMAX
    BY <1>1, NullFacts DEF TakeCell, TypeOK, Cells, MEM_HIGH
  <2>4. QED
    BY <1>1, <1>4, <2>1, <2>2, <2>3 DEF TypeOK
<1>7. CASE fault' # "none"
  BY <1>6, <1>7 DEF IInv
<1>8. CASE fault' = "none"
  <2> USE <1>8
  <2>1. /\ IndexOK' /\ Filled' = Filled \cup {t}
        /\ t \notin Filled /\ t \notin Permanent /\ t \notin From
    BY <1>1, Taken, Disjoint
  <2>2. From' = From /\ Permanent' = Permanent
    BY <1>1 DEF From, FilledTo, Permanent
  <2>3. \A a \in From \cup Permanent \cup Filled : memory'[a] = memory[a]
    BY <1>4, <2>1, Disjoint
  <2>4. Moved' = Moved
    BY <2>2, <2>3 DEF Moved
  <2>5. \A q : Forward(q)' = Forward(q) /\ (Settled(q)' <=> Settled(q))
    BY <2>2, <2>3, <2>4 DEF Forward, Settled
  <2>6. OldOK'
    BY <1>1, <2>2, <2>3 DEF OldOK, WellFormed, Acyclic, HalfSpace
  <2>7. MovedOK'
    <3>1. \A a \in Moved : memory'[a] = memory[a] /\ memory'[memory[a].u] = memory[memory[a].u]
      BY <2>3, MovedFacts DEF Moved
    <3>2. \A a \in Moved : MovedFaithfully(a)'
      <4> TAKE a \in Moved
      <4>1. MovedFaithfully(a)
        BY MovedFacts DEF Moved
      <4>2. QED
        BY <1>1, <2>5, <3>1, <4>1 DEF MovedFaithfully
    <3>3. \A a \in From : a \notin Moved => memory'[a] = old'.memory[a]
      BY <1>1, <2>3, MovedFacts
    <3>4. \A a \in Moved : /\ a \in From /\ memory'[a].op = "COPIED"
                          /\ memory'[a].u \in Filled'
                          /\ \A p \in Children(old'.memory[a]) : Settled(p)'
      <4> TAKE a \in Moved
      <4>1. /\ a \in From /\ memory[a].op = "COPIED" /\ memory[a].u \in Filled
            /\ \A p \in Children(old.memory[a]) : Settled(p)
        BY MovedFacts DEF Moved
      <4>2. memory'[a] = memory[a] /\ memory'[a].u \in Filled'
        BY <2>1, <2>3, <4>1
      <4>3. \A p \in Children(old.memory[a]) : Settled(p)'
        BY <2>5, <4>1
      <4>4. QED
        BY <1>1, <4>1, <4>2, <4>3
    <3>5. \A a, b \in Moved : memory'[a].u = memory'[b].u => a = b
      BY <3>1 DEF MovedOK
    <3>6. QED
      BY <2>2, <2>4, <3>2, <3>3, <3>4, <3>5 DEF MovedOK
  <2>8. \A i \in 1 .. Len(frames) : frames[i].n # n
    BY <1>2, AskedIsNew
  <2>9. /\ Len(frames) \in Nat /\ Len(frames') = Len(frames) + 1
        /\ \A i \in 1 .. Len(frames) : frames'[i] = frames[i]
        /\ frames'[Len(frames) + 1] = new
    BY <1>1, <1>5 DEF TypeOK
  <2>10. FramesOK'
    <3>1. ASSUME NEW f, FrameOK(f), f.temp # t PROVE FrameOK(f)'
      <4>1. f.n \in From /\ f.temp \in Filled
        BY <3>1 DEF FrameOK
      <4>2. memory'[f.n] = memory[f.n] /\ memory'[f.temp] = memory[f.temp]
        BY <2>3, <4>1
      <4>3. f.n \in From' /\ f.temp \in Filled'
        BY <2>1, <2>2, <4>1
      <4>4. QED
        BY <1>1, <2>5, <3>1, <4>2, <4>3 DEF FrameOK
    <3>2. ASSUME NEW f, f = new PROVE FrameOK(f)'
      <4>1. f.n = n /\ f.temp = t /\ f.at = at
        BY <3>2
      <4>2. memory'[n] = old'.memory[n] /\ n \in From' /\ t \in Filled'
        BY <1>1, <1>2, <2>1, <2>2, <2>3
      <4>3. /\ memory'[t].op = memory[n].op
            /\ at = "next" => memory'[t].u = memory[n].u /\ memory[n].op # "LIST"
            /\ at = "lis" => memory[n].op = "LIST"
        BY <1>4
      <4>4. QED
        BY <1>1, <1>2, <4>1, <4>2, <4>3 DEF FrameOK
    <3>3. ASSUME NEW i \in 1 .. Len(frames'), NEW f, f = frames'[i] PROVE FrameOK(f)'
      <4>1. CASE i \in 1 .. Len(frames)
        <5>1. FrameOK(frames[i]) /\ f = frames[i]
          BY <2>9, <3>3, <4>1 DEF FramesOK
        <5>2. FrameOK(f)
          BY <5>1
        <5>3. f.temp # t
          BY <2>1, <5>2 DEF FrameOK
        <5>4. QED
          BY <3>1, <5>2, <5>3
      <4>2. CASE i = Len(frames) + 1
        BY <2>9, <3>2, <3>3, <4>2
      <4>3. QED
        BY <2>9, <4>1, <4>2
    <3>4. \A i \in 1 .. (Len(frames') - 1) : Awaited(frames'[i]) = frames'[i + 1].n
      <4> TAKE i \in 1 .. (Len(frames') - 1)
      <4>1. i \in 1 .. Len(frames) /\ frames'[i] = frames[i]
        BY <2>9
      <4>2. CASE i < Len(frames)
        <5>1. i \in 1 .. (Len(frames) - 1) /\ frames'[i + 1] = frames[i + 1]
          BY <2>9, <4>1, <4>2
        <5>2. QED
          BY <4>1, <5>1 DEF FramesOK
      <4>3. CASE i = Len(frames)
        <5>1. Awaited(frames[i]) = n
          BY <1>2, <4>1, <4>3 DEF Asked, TopFrame
        <5>2. QED
          BY <2>9, <4>1, <4>3, <5>1
      <4>4. QED
        BY <2>9, <4>1, <4>2, <4>3
    <3>5. frames'[1].n = old'.slot[SlotSeq[cop']]
      <4>1. CASE frames = <<>>
        BY <1>1, <1>2, <2>9, <4>1 DEF Asked
      <4>2. CASE frames # <<>>
        <5>1. Len(frames) >= 1
          BY <2>9, <4>2 DEF TypeOK
        <5>2. QED
          BY <1>1, <2>9, <4>2, <5>1 DEF FramesOK
      <4>3. QED
        BY <4>1, <4>2
    <3>6. \A i \in 1 .. Len(frames) : frames[i].temp \in Filled
      BY DEF FramesOK, FrameOK
    <3>7. \A i, j \in 1 .. Len(frames') :
            i # j => frames'[i].n # frames'[j].n /\ frames'[i].temp # frames'[j].temp
      <4>1. \A i, j \in 1 .. Len(frames) :
              i # j => frames[i].n # frames[j].n /\ frames[i].temp # frames[j].temp
        BY DEF FramesOK
      <4>2. QED
        BY <2>1, <2>8, <2>9, <3>6, <4>1
    <3>8. \A i \in 1 .. Len(frames'), a \in Moved' : memory'[a].u # frames'[i].temp
      <4>1. \A a \in Moved : memory'[a] = memory[a] /\ memory[a].u \in Filled
        BY <2>3, MovedFacts DEF Moved
      <4>2. \A i \in 1 .. Len(frames), a \in Moved : memory[a].u # frames[i].temp
        BY DEF FramesOK
      <4>3. QED
        BY <2>1, <2>4, <2>9, <4>1, <4>2
    <3>9. \A i \in 1 .. Len(frames') : FrameOK(frames[i])'
      BY <3>3
    <3>10. \A i \in 1 .. (Len(frames') - 1) : Awaited(frames[i])' = frames'[i + 1].n
      BY <1>1, <3>4 DEF Awaited
    <3>11. QED
      BY <3>5, <3>7, <3>8, <3>9, <3>10 DEF FramesOK
  <2>11. FilledOK'
    <3>1. ASSUME NEW x \in Filled
          PROVE  \/ \E a \in Moved' : memory'[a].u = x
                 \/ \E i \in 1 .. Len(frames') : frames'[i].temp = x
      <4>1. CASE \E a \in Moved : memory[a].u = x
        BY <2>3, <2>4, <4>1 DEF Moved
      <4>2. CASE \E i \in 1 .. Len(frames) : frames[i].temp = x
        BY <2>9, <4>2
      <4>3. QED
        BY <3>1, <4>1, <4>2 DEF FilledOK
    <3>2. \E i \in 1 .. Len(frames') : frames'[i].temp = t
      BY <2>9
    <3>3. QED
      BY <2>1, <3>1, <3>2 DEF FilledOK
  <2>12. ControlOK'
    <3>1. Asked' = Awaited(new)
      BY <1>1, <2>9 DEF Asked, TopFrame, Awaited
    <3>2. Awaited(new) = reg'
      BY <1>1, <1>2 DEF Awaited
    <3>3. QED
      BY <1>0, <1>1, <3>1, <3>2 DEF ControlOK
  <2>13. SlotsOK'
    BY <1>1, <2>5 DEF SlotsOK
  <2>14. ReachedOK'
    <3>1. \A C : ClosedFrom(C)' <=> ClosedFrom(C)
      BY <1>1, <2>2 DEF ClosedFrom
    <3>2. ASSUME NEW C \in SUBSET From, ClosedFrom(C)
          PROVE  n \in C
      BY <1>2, <3>2, AskedIsReached
    <3>3. \A C \in SUBSET From : ClosedFrom(C) =>
            \A i \in 1 .. Len(frames') : frames'[i].n \in C
      BY <2>9, <3>2 DEF ReachedOK
    <3>4. QED
      BY <2>2, <2>4, <3>1, <3>3 DEF ReachedOK
  <2>15. ProgramOK'
    BY <1>0, <1>1 DEF ProgramOK
  <2>16. QED
    BY <1>6, <2>1, <2>6, <2>7, <2>10, <2>11, <2>12, <2>13, <2>14, <2>15
    DEF IInv, CollectorOK
<1>9. QED
  BY <1>7, <1>8

\* The innermost activation, when there is one.
LEMMA TopFacts ==
  ASSUME TypeOK, FramesOK, frames # <<>>
  PROVE  /\ Len(frames) \in Nat /\ Len(frames) >= 1
         /\ Len(frames) \in 1 .. Len(frames)
         /\ TopFrame \in Frame /\ TopFrame = frames[Len(frames)] /\ FrameOK(TopFrame)
         /\ Asked = Awaited(TopFrame)
         /\ \A i \in 1 .. (Len(frames) - 1) : /\ frames[i].temp # TopFrame.temp
                                             /\ frames[i].n # TopFrame.n
         /\ \A a \in Moved : memory[a].u # TopFrame.temp
BY DEF TypeOK, FramesOK, TopFrame, Asked

\* Writing to a copy that an activation still fills disturbs neither the
\* old half nor the copies that are complete.
LEMMA WriteTemp ==
  ASSUME TypeOK, IndexOK, OldOK, MovedOK, FramesOK, frames # <<>>,
         UNCHANGED <<mem_low, mem_mid, direction, memoryindex, old>>,
         bodies' = bodies, stale' = stale, define' = define,
         memory' \in [Cells -> Node],
         \A a \in Cells : a # TopFrame.temp => memory'[a] = memory[a]
  PROVE  /\ IndexOK' /\ OldOK' /\ MovedOK'
         /\ From' = From /\ Filled' = Filled /\ Permanent' = Permanent /\ Moved' = Moved
         /\ \A q : Forward(q)' = Forward(q) /\ (Settled(q)' <=> Settled(q))
         /\ \A a \in From \cup Permanent : memory'[a] = memory[a]
         /\ \A C : ClosedFrom(C)' <=> ClosedFrom(C)
<1>1. TopFrame.temp \in Filled
  BY TopFacts DEF FrameOK
<1>2. From' = From /\ Filled' = Filled /\ Permanent' = Permanent
  BY DEF From, Filled, FilledTo, Permanent
<1>3. \A a \in From \cup Permanent : memory'[a] = memory[a]
  BY <1>1, Disjoint
<1>4. Moved' = Moved
  BY <1>2, <1>3 DEF Moved
<1>5. \A q : Forward(q)' = Forward(q) /\ (Settled(q)' <=> Settled(q))
  BY <1>2, <1>3, <1>4 DEF Forward, Settled
<1>6. IndexOK'
  BY <1>2 DEF IndexOK, HalfSpace
<1>7. OldOK'
  BY <1>2, <1>3 DEF OldOK, WellFormed, Acyclic, HalfSpace
<1>8. MovedOK'
  <2>1. ASSUME NEW a \in Moved
        PROVE  /\ MovedFaithfully(a)' /\ memory'[a] = memory[a]
               /\ memory'[a].op = "COPIED" /\ memory'[a].u \in Filled
               /\ \A p \in Children(old.memory[a]) : Settled(p)'
    <3>1. /\ a \in From /\ memory[a].op = "COPIED" /\ memory[a].u \in Filled
          /\ MovedFaithfully(a) /\ \A p \in Children(old.memory[a]) : Settled(p)
      BY MovedFacts DEF Moved
    <3>2. memory'[a] = memory[a] /\ memory'[memory[a].u] = memory[memory[a].u]
      BY <1>3, <3>1, TopFacts, Disjoint
    <3>3. MovedFaithfully(a)'
      BY <1>5, <3>1, <3>2 DEF MovedFaithfully
    <3>4. \A p \in Children(old.memory[a]) : Settled(p)'
      BY <1>5, <3>1
    <3>5. QED
      BY <3>1, <3>2, <3>3, <3>4
  <2>2. \A a \in From : a \notin Moved => memory'[a] = old.memory[a]
    BY <1>3, MovedFacts
  <2>3. \A a, b \in Moved : memory'[a].u = memory'[b].u => a = b
    BY <2>1 DEF MovedOK
  <2>4. QED
    BY <1>2, <1>4, <2>1, <2>2, <2>3 DEF MovedOK
<1>9. \A C : ClosedFrom(C)' <=> ClosedFrom(C)
  BY <1>2 DEF ClosedFrom
<1>10. QED
  BY <1>2, <1>3, <1>4, <1>5, <1>6, <1>7, <1>8, <1>9

\* Setting the field at of the innermost activation.
SetTop(fs) == [fs EXCEPT ![Len(fs)].at = "next"]

LEMMA SetTopFacts ==
  ASSUME NEW fs \in Seq(Frame), fs # <<>>
  PROVE  /\ SetTop(fs) \in Seq(Frame) /\ Len(SetTop(fs)) = Len(fs)
         /\ \A i \in 1 .. Len(fs) : /\ SetTop(fs)[i].n = fs[i].n
                                   /\ SetTop(fs)[i].temp = fs[i].temp
         /\ \A i \in 1 .. (Len(fs) - 1) : SetTop(fs)[i] = fs[i]
         /\ SetTop(fs)[Len(fs)].at = "next"
<1> DEFINE L == Len(fs)
           gs == SetTop(fs)
<1>1. L \in Nat /\ L \in 1 .. L /\ DOMAIN fs = 1 .. L
  OBVIOUS
<1>2. fs[L] \in Frame /\ \A i \in 1 .. L : fs[i] \in Frame
  BY <1>1
<1>3. [fs[L] EXCEPT !.at = "next"] \in Frame
  BY <1>2 DEF Frame
<1>4. gs = [i \in 1 .. L |-> IF i = L THEN [fs[L] EXCEPT !.at = "next"] ELSE fs[i]]
  BY <1>1 DEF SetTop
<1> HIDE DEF gs
<1>5. gs \in Seq(Frame) /\ Len(gs) = L
  BY <1>1, <1>2, <1>3, <1>4
<1>6. \A i \in 1 .. (L - 1) : gs[i] = fs[i]
  BY <1>1, <1>4
<1>7. gs[L] = [fs[L] EXCEPT !.at = "next"]
  BY <1>1, <1>4
<1>8. gs[L].at = "next" /\ gs[L].n = fs[L].n /\ gs[L].temp = fs[L].temp
  BY <1>2, <1>7 DEF Frame
<1>9. \A i \in 1 .. L : gs[i].n = fs[i].n /\ gs[i].temp = fs[i].temp
  <2>0. L \in Nat
    OBVIOUS
  <2> TAKE i \in 1 .. L
  <2>1. CASE i = L
    BY <1>8, <2>1
  <2>2. CASE i # L
    <3>1. i \in 1 .. (L - 1)
      BY <2>0, <2>2
    <3>2. QED
      BY <1>6, <3>1
  <2>3. QED
    BY <2>1, <2>2
<1>10. QED
  BY <1>5, <1>6, <1>8, <1>9 DEF gs

LEMMA CopyLisIInv ==
  ASSUME IInv, fault = "none", copy_lis, UNCHANGED ops
  PROVE  IInv'
<1> DEFINE L == Len(frames)
           t == TopFrame.temp
<1>0. Collecting /\ pc = "return" /\ frames # <<>> /\ TopFrame.at = "lis"
  BY DEF copy_lis, Collecting
<1> USE <1>0, CollectorContext
<1>1. /\ UNCHANGED <<memoryindex, mem_low, mem_mid, direction, cop, old, slot, bodies,
                    req, define, stale, fault, ops>>
      /\ memory' = [memory EXCEPT ![t].u = reg]
      /\ frames' = [frames EXCEPT ![L].at = "next"]
      /\ pc' = "call" /\ reg' = memory'[TopFrame.n].next
  BY DEF copy_lis
<1>2. /\ L \in Nat /\ L >= 1 /\ L \in 1 .. L
      /\ TopFrame \in Frame /\ TopFrame = frames[L] /\ FrameOK(TopFrame)
      /\ Asked = Awaited(TopFrame)
      /\ \A i \in 1 .. (L - 1) : frames[i].temp # t /\ frames[i].n # TopFrame.n
  BY TopFacts
<1>3. reg = Forward(old.memory[TopFrame.n].u) /\ Settled(old.memory[TopFrame.n].u)
  BY <1>2 DEF ControlOK, Awaited
<1>4. t \in Cells /\ TopFrame.n \in Cells /\ TopFrame.n # t
  BY <1>2, Disjoint DEF FrameOK
<1>5. /\ memory' \in [Cells -> Node]
      /\ memory'[t].op = memory[t].op /\ memory'[t].u = reg
      /\ \A a \in Cells : a # t => memory'[a] = memory[a]
  BY <1>1, <1>4 DEF TypeOK, Node
<1>6. /\ frames' \in Seq(Frame) /\ Len(frames') = L
      /\ \A i \in 1 .. (L - 1) : frames'[i] = frames[i]
      /\ \A i \in 1 .. L : frames'[i].n = frames[i].n /\ frames'[i].temp = frames[i].temp
      /\ frames'[L].at = "next"
  <2>1. frames \in Seq(Frame) /\ frames' = SetTop(frames)
    BY <1>1 DEF TypeOK, SetTop
  <2>2. QED
    BY <2>1, SetTopFacts
<1>7. /\ IndexOK' /\ OldOK' /\ MovedOK'
      /\ From' = From /\ Filled' = Filled /\ Permanent' = Permanent /\ Moved' = Moved
      /\ \A q : Forward(q)' = Forward(q) /\ (Settled(q)' <=> Settled(q))
      /\ \A a \in From \cup Permanent : memory'[a] = memory[a]
      /\ \A C : ClosedFrom(C)' <=> ClosedFrom(C)
  BY <1>1, <1>5, WriteTemp
<1>8. frames'[L].n = TopFrame.n /\ frames'[L].temp = t /\ frames'[L].at = "next"
  BY <1>2, <1>6
<1>9. TypeOK'
  <2>1. reg' \in Pointers
    BY <1>1, <1>4, <1>5 DEF Node
  <2>2. QED
    BY <1>1, <1>5, <1>6, <2>1 DEF TypeOK
<1>10. FramesOK'
  <2>1. ASSUME NEW i \in 1 .. (L - 1), NEW f, f = frames[i] PROVE FrameOK(f)'
    <3>1. FrameOK(f) /\ f.temp # t
      BY <1>2, <2>1 DEF FramesOK
    <3>2. f.n \in From /\ f.temp \in Filled /\ f.temp \in Cells
      BY <3>1, Disjoint DEF FrameOK
    <3>3. memory'[f.n] = memory[f.n] /\ memory'[f.temp] = memory[f.temp]
      BY <1>5, <1>7, <3>1, <3>2
    <3>4. QED
      BY <1>1, <1>7, <3>1, <3>3 DEF FrameOK
  <2>2. ASSUME NEW f, f = frames'[L] PROVE FrameOK(f)'
    <3>1. f.n = TopFrame.n /\ f.temp = t /\ f.at = "next"
      BY <1>8, <2>2
    <3>2. /\ TopFrame.n \in From /\ memory[TopFrame.n] = old.memory[TopFrame.n]
          /\ t \in Filled /\ memory[t].op = old.memory[TopFrame.n].op
          /\ old.memory[TopFrame.n].op = "LIST"
      BY <1>2 DEF FrameOK
    <3>3. memory'[TopFrame.n] = old.memory[TopFrame.n]
      BY <1>7, <3>2
    <3>4. ASSUME NEW q, q = old.memory[f.n].u
          PROVE  memory'[t].u = Forward(q)' /\ Settled(q)'
      BY <1>3, <1>5, <1>7, <3>1, <3>4
    <3>5. QED
      BY <1>1, <1>5, <1>7, <3>1, <3>2, <3>3, <3>4 DEF FrameOK
  <2>3. \A i \in 1 .. Len(frames') : FrameOK(frames[i])'
    BY <1>2, <1>6, <2>1, <2>2
  <2>4. \A i \in 1 .. (Len(frames') - 1) : Awaited(frames[i])' = frames'[i + 1].n
    <3> TAKE i \in 1 .. (Len(frames') - 1)
    <3>1. Awaited(frames[i]) = frames[i + 1].n /\ frames'[i] = frames[i]
      BY <1>6 DEF FramesOK
    <3>2. frames'[i + 1].n = frames[i + 1].n
      BY <1>2, <1>6
    <3>3. QED
      BY <1>1, <3>1, <3>2 DEF Awaited
  <2>5. \A i, j \in 1 .. Len(frames') :
          i # j => frames'[i].n # frames'[j].n /\ frames'[i].temp # frames'[j].temp
    BY <1>6 DEF FramesOK
  <2>6. \A a \in Moved : memory'[a] = memory[a]
    BY <1>7 DEF Moved
  <2>7. \A i \in 1 .. Len(frames'), a \in Moved' : memory'[a].u # frames'[i].temp
    BY <1>6, <1>7, <2>6 DEF FramesOK
  <2>8. frames'[1].n = old'.slot[SlotSeq[cop']]
    BY <1>1, <1>2, <1>6 DEF FramesOK
  <2>9. QED
    BY <2>3, <2>4, <2>5, <2>7, <2>8 DEF FramesOK
<1>11. FilledOK'
  <2>1. \A i \in 1 .. L : frames'[i].temp = frames[i].temp
    BY <1>6
  <2>2. \A a \in Moved : memory'[a] = memory[a]
    BY <1>7 DEF Moved
  <2>3. QED
    BY <1>6, <1>7, <2>1, <2>2 DEF FilledOK
<1>12. ControlOK'
  <2>1. Asked' = old.memory[TopFrame.n].next
    BY <1>1, <1>2, <1>6, <1>8 DEF Asked, TopFrame, Awaited
  <2>2. reg' = old.memory[TopFrame.n].next
    BY <1>1, <1>2, <1>7 DEF FrameOK
  <2>3. QED
    BY <1>1, <2>1, <2>2 DEF ControlOK
<1>13. SlotsOK'
  BY <1>1, <1>7 DEF SlotsOK
<1>14. ReachedOK'
  BY <1>6, <1>7 DEF ReachedOK
<1>15. QED
  BY <1>1, <1>7, <1>9, <1>10, <1>11, <1>12, <1>13, <1>14
  DEF IInv, ProgramOK, CollectorOK

\* Leaving the innermost activation.
LEMMA PopFacts ==
  ASSUME frames \in Seq(Frame), frames # <<>>
  PROVE  /\ PopFrames \in Seq(Frame) /\ Len(PopFrames) = Len(frames) - 1
         /\ \A i \in 1 .. (Len(frames) - 1) : PopFrames[i] = frames[i]
         /\ PopFrames = <<>> <=> Len(frames) = 1
<1>1. Len(frames) \in Nat /\ Len(frames) >= 1 /\ 1 \in Int /\ Len(frames) - 1 \in Int
  OBVIOUS
<1>2. \A i \in 1 .. (Len(frames) - 1) : frames[i] \in Frame
  OBVIOUS
<1>3. /\ PopFrames \in Seq(Frame)
      /\ Len(PopFrames) = IF 1 <= Len(frames) - 1 THEN Len(frames) - 1 - 1 + 1 ELSE 0
      /\ \A i \in 1 .. (Len(frames) - 1 - 1 + 1) : PopFrames[i] = frames[1 + i - 1]
  BY <1>1, <1>2, SubSeqProperties DEF PopFrames
<1>4. Len(PopFrames) = Len(frames) - 1
  <2> DEFINE L == Len(frames)
             K == Len(PopFrames)
  <2>1. L \in Nat /\ L >= 1 /\ K = IF 1 <= L - 1 THEN L - 1 - 1 + 1 ELSE 0
    BY <1>1, <1>3
  <2> HIDE DEF L, K
  <2>2. K = L - 1
    BY <2>1
  <2>3. QED
    BY <2>2 DEF L, K
<1>5. \A i \in 1 .. (Len(frames) - 1) : PopFrames[i] = frames[i]
  BY <1>1, <1>3
<1>6. QED
  BY <1>1, <1>3, <1>4, <1>5

LEMMA CopyNextIInv ==
  ASSUME IInv, fault = "none", copy_next, UNCHANGED ops
  PROVE  IInv'
<1> DEFINE L == Len(frames)
           t == TopFrame.temp
           n == TopFrame.n
<1>0. Collecting /\ pc = "return" /\ frames # <<>> /\ TopFrame.at = "next"
  BY DEF copy_next, Collecting
<1> USE <1>0, CollectorContext
<1>1. /\ UNCHANGED <<memoryindex, mem_low, mem_mid, direction, cop, old, slot, bodies,
                    pc, req, define, stale, fault, ops>>
      /\ memory' = [memory EXCEPT ![t].next = reg, ![n].op = "COPIED", ![n].u = t]
      /\ frames' = PopFrames
      /\ reg' = t
  BY DEF copy_next
<1>2. /\ L \in Nat /\ L >= 1 /\ L \in 1 .. L
      /\ TopFrame \in Frame /\ TopFrame = frames[L] /\ FrameOK(TopFrame)
      /\ Asked = Awaited(TopFrame)
      /\ \A i \in 1 .. (L - 1) : frames[i].temp # t /\ frames[i].n # n
      /\ \A a \in Moved : memory[a].u # t
  BY TopFacts
<1>3. reg = Forward(old.memory[n].next) /\ Settled(old.memory[n].next)
  BY <1>2 DEF ControlOK, Awaited
<1>4. t \in Cells /\ n \in Cells /\ n # t /\ n \in From /\ t \in Filled
      /\ t \notin From /\ t \notin Permanent /\ n \notin Permanent /\ n \notin Filled
  BY <1>2, Disjoint DEF FrameOK
<1>5. /\ memory' \in [Cells -> Node]
      /\ memory'[t] = [op |-> memory[t].op, u |-> memory[t].u, next |-> reg]
      /\ memory'[n].op = "COPIED" /\ memory'[n].u = t
      /\ \A a \in Cells : a # t /\ a # n => memory'[a] = memory[a]
  <2>1. memory \in [Cells -> Node] /\ reg \in Pointers /\ t \in Pointers
    BY <1>4 DEF TypeOK, Pointers
  <2>2. memory[t] \in Node /\ memory[n] \in Node
    BY <1>4, <2>1
  <2>3. \A a \in Cells : a # t /\ a # n => memory'[a] = memory[a]
    BY <1>1, <1>4, <2>1
  <2>4. memory'[t] = [memory[t] EXCEPT !.next = reg]
    BY <1>1, <1>4, <2>1
  <2>5. memory'[n] = [op |-> "COPIED", u |-> t, next |-> memory[n].next]
    BY <1>1, <1>4, <2>1, <2>2 DEF Node
  <2>6. memory'[t] = [op |-> memory[t].op, u |-> memory[t].u, next |-> reg]
    BY <2>2, <2>4 DEF Node
  <2>7. memory'[t] \in Node /\ memory'[n] \in Node
    BY <2>1, <2>2, <2>5, <2>6 DEF Node
  <2>8. memory' = [a \in Cells |-> memory'[a]]
    BY <1>1, <2>1
  <2>9. \A a \in Cells : memory'[a] \in Node
    BY <2>1, <2>3, <2>7
  <2>10. memory' \in [Cells -> Node]
    BY <2>8, <2>9
  <2>11. QED
    BY <2>3, <2>5, <2>6, <2>10
<1>6. /\ frames' \in Seq(Frame) /\ Len(frames') = L - 1
      /\ \A i \in 1 .. (L - 1) : frames'[i] = frames[i]
      /\ frames' = <<>> <=> L = 1
  <2>1. frames \in Seq(Frame)
    BY DEF TypeOK
  <2>2. QED
    BY <1>1, <2>1, PopFacts
<1>7. From' = From /\ Filled' = Filled /\ Permanent' = Permanent
  BY <1>1 DEF From, Filled, FilledTo, Permanent
<1>8. n \notin Moved /\ Moved' = Moved \cup {n}
  <2>1. n \notin Moved
    BY <1>2, <1>4, MovedFacts DEF FrameOK
  <2>2. \A a \in From : a # n => memory'[a] = memory[a]
    BY <1>4, <1>5, Disjoint
  <2>3. QED
    BY <1>4, <1>5, <1>7, <2>1, <2>2 DEF Moved
<1>9. /\ \A q : q # n => Forward(q)' = Forward(q)
      /\ \A q : Settled(q) => Settled(q)' /\ Forward(q)' = Forward(q)
      /\ \A q : q = n => Settled(q)' /\ Forward(q)' = t
  <2>1. \A q : q # n => Forward(q)' = Forward(q)
    BY <1>4, <1>5, <1>7, Disjoint DEF Forward
  <2>2. \A q : Settled(q) => q # n /\ Settled(q)'
    BY <1>4, <1>7, <1>8 DEF Settled
  <2>3. \A q : q = n => Settled(q)' /\ Forward(q)' = t
    BY <1>4, <1>5, <1>7, <1>8 DEF Settled, Forward
  <2>4. QED
    BY <2>1, <2>2, <2>3
<1>10. TypeOK'
  <2>1. reg' \in Pointers
    BY <1>1, <1>4 DEF Pointers
  <2>2. QED
    BY <1>1, <1>5, <1>6, <2>1 DEF TypeOK
<1>11. IndexOK'
  BY <1>1, <1>7 DEF IndexOK, HalfSpace
<1>12. OldOK'
  <2>1. \A a \in Permanent : memory'[a] = memory[a]
    BY <1>4, <1>5, Disjoint
  <2>2. QED
    BY <1>1, <1>7, <2>1 DEF OldOK, WellFormed, Acyclic, HalfSpace
<1>13. MovedOK'
  <2>1. ASSUME NEW a \in Moved
        PROVE  /\ MovedFaithfully(a)' /\ memory'[a] = memory[a] /\ a \in From
               /\ memory'[a].op = "COPIED" /\ memory'[a].u \in Filled
               /\ \A p \in Children(old.memory[a]) : Settled(p)'
    <3>1. /\ a \in From /\ memory[a].op = "COPIED" /\ memory[a].u \in Filled
          /\ MovedFaithfully(a) /\ \A p \in Children(old.memory[a]) : Settled(p)
      BY MovedFacts DEF Moved
    <3>2. a # n /\ memory[a].u # t
      BY <1>2, <1>8
    <3>3. memory'[a] = memory[a] /\ memory'[memory[a].u] = memory[memory[a].u]
      BY <1>4, <1>5, <3>1, <3>2, Disjoint
    <3>4. \A p \in Children(old.memory[a]) : Settled(p)' /\ Forward(p)' = Forward(p)
      BY <1>9, <3>1
    <3>5. MovedFaithfully(a)'
      BY <1>1, <3>1, <3>3, <3>4 DEF MovedFaithfully, Children
    <3>6. QED
      BY <3>1, <3>3, <3>4, <3>5
  <2>2. ASSUME NEW a, a = n
        PROVE  MovedFaithfully(a)' /\ \A p \in Children(old.memory[a]) : Settled(p)'
    <3>1. /\ old.memory[a].op = "LIST" =>
                /\ memory[t].u = Forward(old.memory[a].u) /\ Settled(old.memory[a].u)
          /\ old.memory[a].op # "LIST" => memory[t].u = old.memory[a].u
          /\ memory[t].op = old.memory[a].op
      BY <1>2, <2>2 DEF FrameOK
    <3>2. reg = Forward(old.memory[a].next) /\ Settled(old.memory[a].next)
      BY <1>3, <2>2
    <3>3. /\ Forward(old.memory[a].next)' = Forward(old.memory[a].next)
          /\ Settled(old.memory[a].next)'
          /\ old.memory[a].op = "LIST" =>
                /\ Forward(old.memory[a].u)' = Forward(old.memory[a].u)
                /\ Settled(old.memory[a].u)'
      <4>1. \A q, r : /\ q = old.memory[a].next => Forward(q)' = Forward(q) /\ Settled(q)'
                      /\ r = old.memory[a].u /\ old.memory[a].op = "LIST" =>
                           Forward(r)' = Forward(r) /\ Settled(r)'
        BY <1>9, <3>1, <3>2
      <4>2. old' = old
        BY <1>1
      <4>3. QED
        BY <4>1, <4>2
    <3>4. MovedFaithfully(a)'
      BY <1>1, <1>5, <2>2, <3>1, <3>2, <3>3 DEF MovedFaithfully
    <3>5. \A p \in Children(old.memory[a]) : Settled(p)'
      <4>1. \A p \in Children(old.memory[a]) : Settled(p)
        BY <3>1, <3>2 DEF Children
      <4>2. QED
        BY <1>9, <4>1
    <3>6. QED
      BY <3>4, <3>5
  <2>3. \A a \in From : a \notin Moved' => memory'[a] = old.memory[a]
    BY <1>4, <1>5, <1>8, MovedFacts, Disjoint
  <2>4. \A a, b \in Moved' : memory'[a].u = memory'[b].u => a = b
    BY <1>2, <1>5, <1>8, <2>1 DEF MovedOK
  <2>5. \A a \in Moved' : /\ MovedFaithfully(a)' /\ a \in From
                         /\ memory'[a].op = "COPIED" /\ memory'[a].u \in Filled
                         /\ \A p \in Children(old.memory[a]) : Settled(p)'
    BY <1>4, <1>5, <1>8, <2>1, <2>2
  <2>6. \A a \in From : \/ memory'[a] = old.memory[a]
                       \/ /\ memory'[a].op = "COPIED"
                          /\ memory'[a].u \in Filled
                          /\ MovedFaithfully(a)'
                          /\ \A p \in Children(old.memory[a]) : Settled(p)'
    BY <2>3, <2>5
  <2>7. QED
    BY <1>1, <1>7, <2>4, <2>6 DEF MovedOK
<1>14. FramesOK'
  <2>1. ASSUME NEW i \in 1 .. (L - 1), NEW f, f = frames[i] PROVE FrameOK(f)'
    <3>1. FrameOK(f) /\ f.temp # t /\ f.n # n
      BY <1>2, <2>1 DEF FramesOK
    <3>2. f.n \in From /\ f.temp \in Filled /\ f.temp \in Cells /\ f.n \in Cells
          /\ f.n # t /\ f.temp # n
      BY <1>4, <3>1, Disjoint DEF FrameOK
    <3>3. memory'[f.n] = memory[f.n] /\ memory'[f.temp] = memory[f.temp]
      BY <1>5, <3>1, <3>2
    <3>4. QED
      BY <1>1, <1>7, <1>9, <3>1, <3>3 DEF FrameOK
  <2>2. \A i \in 1 .. Len(frames') : FrameOK(frames[i])'
    BY <1>2, <1>6, <2>1
  <2>3. \A i \in 1 .. (Len(frames') - 1) : Awaited(frames[i])' = frames'[i + 1].n
    <3> TAKE i \in 1 .. (Len(frames') - 1)
    <3>1. i \in 1 .. (L - 1) /\ i + 1 \in 1 .. (L - 1)
      BY <1>2, <1>6
    <3>2. Awaited(frames[i]) = frames[i + 1].n
      BY <3>1 DEF FramesOK
    <3>3. QED
      BY <1>1, <1>6, <3>1, <3>2 DEF Awaited
  <2>4. \A i, j \in 1 .. Len(frames') :
          i # j => frames'[i].n # frames'[j].n /\ frames'[i].temp # frames'[j].temp
    <3> TAKE i, j \in 1 .. Len(frames')
    <3>1. /\ i \in 1 .. L /\ j \in 1 .. L
          /\ frames'[i] = frames[i] /\ frames'[j] = frames[j]
      BY <1>2, <1>6
    <3>2. QED
      BY <3>1 DEF FramesOK
  <2>5. \A a \in Moved : memory'[a] = memory[a]
    BY <1>4, <1>5, <1>8, Disjoint DEF Moved
  <2>6. \A i \in 1 .. Len(frames'), a \in Moved' : memory'[a].u # frames'[i].temp
    <3> TAKE i \in 1 .. Len(frames'), a \in Moved'
    <3>1. i \in 1 .. (L - 1) /\ i \in 1 .. L /\ frames'[i] = frames[i]
      BY <1>2, <1>6
    <3>2. CASE a = n
      BY <1>2, <1>5, <3>1, <3>2
    <3>3. CASE a \in Moved
      BY <2>5, <3>1, <3>3 DEF FramesOK
    <3>4. QED
      BY <1>8, <3>2, <3>3
  <2>7. frames' # <<>> => frames'[1].n = old'.slot[SlotSeq[cop']]
    BY <1>1, <1>2, <1>6 DEF FramesOK
  <2>8. QED
    BY <2>2, <2>3, <2>4, <2>6, <2>7 DEF FramesOK
<1>15. FilledOK'
  <2>1. ASSUME NEW x \in Filled
        PROVE  \/ \E a \in Moved' : memory'[a].u = x
               \/ \E i \in 1 .. Len(frames') : frames'[i].temp = x
    <3>1. CASE \E a \in Moved : memory[a].u = x
      BY <1>4, <1>5, <1>8, <3>1, Disjoint DEF Moved
    <3>2. ASSUME NEW i \in 1 .. L, frames[i].temp = x
          PROVE  \/ \E a \in Moved' : memory'[a].u = x
                 \/ \E j \in 1 .. Len(frames') : frames'[j].temp = x
      <4>1. CASE i = L
        BY <1>2, <1>5, <1>8, <3>2, <4>1
      <4>2. CASE i # L
        <5>1. i \in 1 .. (L - 1)
          BY <1>2, <4>2
        <5>2. QED
          BY <1>6, <3>2, <5>1
      <4>3. QED
        BY <4>1, <4>2
    <3>3. QED
      BY <3>1, <3>2 DEF FilledOK
  <2>2. QED
    BY <1>7, <2>1 DEF FilledOK
<1>16. ControlOK'
  <2>1. Asked' = n
    <3>1. CASE L = 1
      <4>1. frames' = <<>> /\ frames[1].n = old.slot[SlotSeq[cop]]
        BY <1>6, <3>1 DEF FramesOK
      <4>2. QED
        BY <1>1, <1>2, <3>1, <4>1 DEF Asked
    <3>2. CASE L # 1
      <4>1. frames' # <<>> /\ L - 1 \in 1 .. (L - 1) /\ Len(frames') = L - 1
        BY <1>2, <1>6, <3>2
      <4>2. frames'[L - 1] = frames[L - 1] /\ Awaited(frames[L - 1]) = frames[L - 1 + 1].n
        BY <1>6, <4>1 DEF FramesOK
      <4>3. L - 1 + 1 = L
        BY <1>2
      <4>4. QED
        BY <1>1, <1>2, <4>1, <4>2, <4>3 DEF Asked, Awaited, TopFrame
    <3>3. QED
      BY <3>1, <3>2
  <2>2. ASSUME NEW q, q = n PROVE Forward(q)' = t /\ Settled(q)'
    BY <1>9, <2>2
  <2>3. Forward(Asked)' = t /\ Settled(Asked)'
    <3>1. ASSUME NEW q, q = Asked' PROVE Forward(q)' = t /\ Settled(q)'
      BY <2>1, <2>2, <3>1
    <3>2. QED
      BY <3>1 DEF Forward, Settled
  <2>4. QED
    BY <1>1, <2>3 DEF ControlOK
<1>17. SlotsOK'
  <2>1. ASSUME NEW i \in 1 .. Len(SlotSeq), i < cop, NEW q, q = old.slot[SlotSeq[i]]
        PROVE  slot[SlotSeq[i]] = Forward(q)' /\ Settled(q)'
    BY <1>0, <1>9, <2>1 DEF SlotsOK
  <2>2. QED
    BY <1>0, <1>1, <2>1 DEF SlotsOK
<1>18. ReachedOK'
  <2>1. \A C : ClosedFrom(C)' <=> ClosedFrom(C)
    BY <1>1, <1>7 DEF ClosedFrom
  <2>2. \A C \in SUBSET From : ClosedFrom(C) => n \in C
    BY <1>2 DEF ReachedOK
  <2>3. \A C \in SUBSET From : ClosedFrom(C) =>
          \A i \in 1 .. Len(frames') : frames'[i].n \in C
    BY <1>2, <1>6 DEF ReachedOK
  <2>4. QED
    BY <1>7, <1>8, <2>1, <2>2, <2>3 DEF ReachedOK
<1>19. QED
  BY <1>0, <1>1, <1>10, <1>11, <1>12, <1>13, <1>14, <1>15, <1>16, <1>17, <1>18
  DEF IInv, ProgramOK, CollectorOK

LEMMA CopiedSlotIInv ==
  ASSUME IInv, fault = "none", copied_slot, UNCHANGED ops
  PROVE  IInv'
<1>0. Collecting /\ pc = "return" /\ frames = <<>>
  BY DEF copied_slot, Collecting
<1> USE <1>0, CollectorContext
<1>1. /\ UNCHANGED <<memory, memoryindex, mem_low, mem_mid, direction, frames, old, bodies,
                    req, define, stale, fault, ops>>
      /\ slot' = [slot EXCEPT ![SlotSeq[cop]] = reg]
  BY DEF copied_slot, heap
<1>3. /\ cop < Len(SlotSeq) => /\ cop' = cop + 1 /\ pc' = "call"
                              /\ reg' = slot'[SlotSeq[cop + 1]]
      /\ ~(cop < Len(SlotSeq)) => cop' = 1 /\ pc' = "gc2" /\ reg' = NULL
  BY DEF copied_slot
<1>4. reg = Forward(old.slot[SlotSeq[cop]]) /\ Settled(old.slot[SlotSeq[cop]])
  BY DEF ControlOK, Asked
<1>5. From' = From /\ Filled' = Filled /\ Moved' = Moved /\ Permanent' = Permanent
  BY <1>1 DEF From, Filled, FilledTo, Moved, Permanent
<1>6. \A q : Forward(q)' = Forward(q) /\ (Settled(q)' <=> Settled(q))
  BY <1>1, <1>5 DEF Forward, Settled
<1>7. cop \in Nat /\ Len(SlotSeq) \in Nat /\ cop >= 1 /\ cop <= Len(SlotSeq)
  BY SlotFacts DEF TypeOK
<1>8. /\ slot' \in [Slots -> Pointers]
      /\ slot'[SlotSeq[cop]] = reg
      /\ \A i \in 1 .. Len(SlotSeq) : i # cop => slot'[SlotSeq[i]] = slot[SlotSeq[i]]
  <2>1. \A i \in 1 .. Len(SlotSeq) : SlotSeq[i] \in Slots
    BY DEF Slots
  <2>2. \A i \in 1 .. Len(SlotSeq) : i # cop => SlotSeq[i] # SlotSeq[cop]
    BY <1>7, SlotAssumption
  <2>3. slot \in [Slots -> Pointers] /\ reg \in Pointers
    BY DEF TypeOK
  <2>4. QED
    BY <1>1, <2>1, <2>2, <2>3
<1>9. TypeOK'
  <2>1. cop' \in 1 .. Len(SlotSeq) /\ pc' \in {"call", "gc2"}
    BY <1>3, <1>7
  <2>2. reg' \in Pointers
    <3>1. CASE cop < Len(SlotSeq)
      <4>1. cop + 1 \in 1 .. Len(SlotSeq)
        BY <1>7, <3>1
      <4>2. SlotSeq[cop + 1] \in Slots
        BY <4>1 DEF Slots
      <4>3. QED
        BY <1>3, <1>8, <3>1, <4>2
    <3>2. CASE ~(cop < Len(SlotSeq))
      BY <1>3, <3>2 DEF Pointers
    <3>3. QED
      BY <3>1, <3>2
  <2>3. QED
    BY <1>1, <1>8, <2>1, <2>2 DEF TypeOK
<1>10. IndexOK' /\ OldOK' /\ MovedOK' /\ FilledOK'
  BY <1>1, <1>5, <1>6 DEF IndexOK, HalfSpace, OldOK, WellFormed, Acyclic, MovedOK,
     MovedFaithfully, FilledOK
<1>11. FramesOK'
  BY <1>1 DEF FramesOK
<1>12. ControlOK'
  <2>1. CASE cop < Len(SlotSeq)
    <3>1. cop + 1 \in 1 .. Len(SlotSeq) /\ cop + 1 # cop /\ ~(cop + 1 < cop)
      BY <1>7, <2>1
    <3>2. slot[SlotSeq[cop + 1]] = old.slot[SlotSeq[cop + 1]]
      BY <3>1 DEF SlotsOK
    <3>3. QED
      BY <1>1, <1>3, <1>8, <2>1, <3>1, <3>2 DEF ControlOK, Asked
  <2>2. CASE ~(cop < Len(SlotSeq))
    BY <1>1, <1>3, <2>2 DEF ControlOK
  <2>3. QED
    BY <2>1, <2>2
<1>13. SlotsOK'
  <2> SUFFICES ASSUME NEW i \in 1 .. Len(SlotSeq)
               PROVE  IF i < cop' \/ pc' = "gc2"
                      THEN /\ slot'[SlotSeq[i]] = Forward(old.slot[SlotSeq[i]])
                           /\ Settled(old.slot[SlotSeq[i]])
                      ELSE slot'[SlotSeq[i]] = old.slot[SlotSeq[i]]
    <3>1. \A q : q = old.slot =>
            \A i \in 1 .. Len(SlotSeq) :
              IF i < cop' \/ pc' = "gc2"
              THEN slot'[SlotSeq[i]] = Forward(q[SlotSeq[i]])' /\ Settled(q[SlotSeq[i]])'
              ELSE slot'[SlotSeq[i]] = q[SlotSeq[i]]
      BY <1>6
    <3>2. QED
      BY <1>1, <3>1 DEF SlotsOK, Forward, Settled
  <2>1. CASE i = cop
    BY <1>3, <1>4, <1>7, <1>8, <2>1
  <2>2. CASE i < cop
    <3>1. slot[SlotSeq[i]] = Forward(old.slot[SlotSeq[i]]) /\ Settled(old.slot[SlotSeq[i]])
      BY <2>2 DEF SlotsOK
    <3>2. i < cop' \/ pc' = "gc2"
      BY <1>3, <1>7, <2>2
    <3>3. QED
      BY <1>7, <1>8, <2>2, <3>1, <3>2
  <2>3. CASE i > cop
    <3>1. cop < Len(SlotSeq) /\ ~(i < cop') /\ pc' # "gc2" /\ ~(i < cop) /\ i # cop
      BY <1>3, <1>7, <2>3
    <3>2. slot[SlotSeq[i]] = old.slot[SlotSeq[i]]
      BY <3>1 DEF SlotsOK
    <3>3. QED
      BY <1>8, <3>1, <3>2
  <2>4. QED
    BY <1>7, <2>1, <2>2, <2>3
<1>14. ReachedOK'
  BY <1>1, <1>5 DEF ReachedOK, ClosedFrom
<1>15. QED
  BY <1>1, <1>3, <1>9, <1>10, <1>11, <1>12, <1>13, <1>14 DEF IInv, ProgramOK, CollectorOK

\* Every cell of the new half is the copy of a moved cell when copy is done.
LEMMA FilledAreCopies ==
  ASSUME IInv, fault = "none", pc = "gc2"
  PROVE  /\ \A t \in Filled : \E a \in Moved : memory[a].u = t
         /\ \A a \in Moved : memory[a].u \in Filled
<1>1. Collecting
  BY DEF Collecting
<1>2. frames = <<>>
  BY <1>1, CollectorContext DEF ControlOK
<1>3. \A i \in 1 .. Len(frames) : FALSE
  BY <1>2
<1>4. QED
  BY <1>1, <1>3, CollectorContext, MovedFacts DEF FilledOK, Moved

\* The copy of a moved cell is a node in use, and its pointers are the
\* forwarded pointers of the original.
LEMMA CopiedNode ==
  ASSUME IInv, fault = "none", Collecting, NEW a \in Moved, NEW t, t = memory[a].u
  PROVE  /\ memory[t].op \in {"LIST", "ATOM"}
         /\ \A q \in Children(memory[t]) :
              \E p \in Children(old.memory[a]) : q = Forward(p) /\ Settled(p)
         /\ \A p \in Children(old.memory[a]) : p \in Permanent \cup From \cup {NULL}
<1> USE CollectorContext
<1>1. a \in From /\ MovedFaithfully(a) /\ \A p \in Children(old.memory[a]) : Settled(p)
  BY MovedFacts DEF Moved
<1>2. /\ old.memory[a].op \in {"LIST", "ATOM"}
      /\ \A p \in Children(old.memory[a]) : p \in Permanent \cup From \cup {NULL}
  BY <1>1 DEF OldOK, WellFormed
<1> DEFINE nd == old.memory[a]
<1>3. memory[t] = [op |-> nd.op,
                   u |-> IF nd.op = "LIST" THEN Forward(nd.u) ELSE nd.u,
                   next |-> Forward(nd.next)]
  BY <1>1 DEF MovedFaithfully
<1>4. /\ memory[t].op = nd.op /\ memory[t].next = Forward(nd.next)
      /\ nd.op = "LIST" => memory[t].u = Forward(nd.u)
  BY <1>3
<1>5. Children(memory[t]) =
        {Forward(nd.next)} \cup (IF nd.op = "LIST" THEN {Forward(nd.u)} ELSE {})
  BY <1>4 DEF Children
<1>6. Children(nd) = {nd.next} \cup (IF nd.op = "LIST" THEN {nd.u} ELSE {})
  BY DEF Children
<1>7. QED
  BY <1>1, <1>2, <1>4, <1>5, <1>6

\* Where a settled pointer leads is in use.
LEMMA ForwardInUse ==
  ASSUME IInv, fault = "none", Collecting,
         NEW p \in Permanent \cup From \cup {NULL}, Settled(p)
  PROVE  Forward(p) \in InUse \cup {NULL}
BY CollectorContext, MovedFacts DEF Forward, Settled, InUse

LEMMA Gc2IInv ==
  ASSUME IInv, fault = "none", gc2, UNCHANGED ops
  PROVE  IInv'
<1>0. Collecting /\ pc = "gc2"
  BY DEF gc2, Collecting
<1> USE <1>0, CollectorContext
<1>1. /\ UNCHANGED <<memory, memoryindex, mem_low, mem_mid, direction, frames, reg, cop,
                    slot, bodies, req, define, stale, fault, ops>>
      /\ old' = NULL
      /\ pc' \in {"run", "alloc"} /\ (pc' = "run" <=> req = NoReq)
  BY DEF gc2, heap
<1>2. Filled' = Filled /\ Permanent' = Permanent /\ InUse' = InUse /\ LiveRoots' = LiveRoots
  BY <1>1 DEF Filled, FilledTo, Permanent, InUse, LiveRoots
<1>3. WellFormed(memory, Filled)
  <2>1. ASSUME NEW t \in Filled
        PROVE  /\ memory[t].op \in {"LIST", "ATOM"}
               /\ Children(memory[t]) \subseteq Permanent \cup Filled \cup {NULL}
    <3>1. PICK a \in Moved : memory[a].u = t
      BY FilledAreCopies
    <3>2. QED
      BY <3>1, CopiedNode, ForwardInUse DEF InUse
  <2>2. \A a \in Permanent : /\ memory[a].op \in {"LIST", "ATOM"}
                            /\ Children(memory[a]) \subseteq Permanent \cup {NULL}
    BY DEF OldOK, WellFormed
  <2>3. ASSUME NEW G \in SUBSET Filled, G # {}
        PROVE  \E t \in G : Children(memory[t]) \cap G = {}
    <3> DEFINE S == {a \in Moved : memory[a].u \in G}
    <3>1. S # {} /\ S \in SUBSET From
      BY <2>3, FilledAreCopies DEF Moved
    <3>2. PICK a \in S : Children(old.memory[a]) \cap S = {}
      <4>1. Acyclic(old.memory, From)
        BY DEF OldOK, WellFormed
      <4> HIDE DEF S
      <4>2. QED
        BY <3>1, <4>1 DEF Acyclic
    <3>3. a \in Moved /\ memory[a].u \in G
      OBVIOUS
    <3>4. ASSUME NEW q \in Children(memory[memory[a].u]), q \in G
          PROVE  FALSE
      <4>1. PICK p \in Children(old.memory[a]) : q = Forward(p) /\ Settled(p)
        BY <3>3, CopiedNode
      <4>2. p \in Permanent \cup From \cup {NULL}
        BY <3>3, CopiedNode
      <4>3. p \in From
        BY <3>4, <4>1, <4>2, Disjoint, NullFacts DEF Forward
      <4>4. p \in Moved /\ memory[p].u = q
        BY <4>1, <4>3 DEF Forward, Settled
      <4>5. p \in S
        BY <3>4, <4>4
      <4>6. QED
        BY <3>2, <4>1, <4>5
    <3>5. QED
      BY <3>3, <3>4
  <2>4. QED
    BY <2>1, <2>2, <2>3 DEF WellFormed, Acyclic
<1>4. \A s \in Slots : slot[s] \in InUse \cup {NULL}
  <2>1. ASSUME NEW i \in 1 .. Len(SlotSeq) PROVE slot[SlotSeq[i]] \in InUse \cup {NULL}
    <3>1. slot[SlotSeq[i]] = Forward(old.slot[SlotSeq[i]]) /\ Settled(old.slot[SlotSeq[i]])
      BY DEF SlotsOK
    <3>2. old.slot[SlotSeq[i]] \in Permanent \cup From \cup {NULL}
      BY DEF OldOK, Slots
    <3>3. QED
      BY <3>1, <3>2, ForwardInUse
  <2>2. QED
    BY <2>1 DEF Slots
<1>5. TypeOK'
  BY <1>1 DEF TypeOK
<1>6. IndexOK'
  BY <1>1, <1>2 DEF IndexOK, HalfSpace
<1>7. ProgramOK'
  <2>1. frames = <<>> /\ reg = NULL /\ cop = 1
    BY DEF ControlOK
  <2>2. WellFormed(memory, Filled)'
    BY <1>1, <1>2, <1>3 DEF WellFormed, Acyclic
  <2>3. \A s \in LiveRoots' \cup {"u", "r"} : slot'[s] \in InUse' \cup {NULL}
    BY <1>1, <1>2, <1>4, SlotFacts
  <2>4. bodies \subseteq {NULL} \cup Permanent /\ ~define /\ ~stale
    BY DEF OldOK
  <2>5. QED
    BY <1>1, <1>2, <2>1, <2>2, <2>3, <2>4 DEF ProgramOK
<1>8. CollectorOK'
  BY <1>1 DEF CollectorOK, Collecting
<1>9. QED
  BY <1>5, <1>6, <1>7, <1>8 DEF IInv

-----------------------------------------------------------------------------
(* The program. *)

\* What every step of the program starts from.
LEMMA ProgramContext ==
  ASSUME IInv, fault = "none", pc \in {"run", "alloc"}
  PROVE  /\ TypeOK /\ IndexOK /\ WellFormed(memory, Filled)
         /\ \A s \in LiveRoots \cup {"u", "r"} : slot[s] \in InUse \cup {NULL}
         /\ bodies \subseteq {NULL} \cup Permanent \cup (IF define THEN Filled ELSE {})
         /\ define => stale /\ direction = 1
         /\ frames = <<>> /\ old = NULL /\ reg = NULL /\ cop = 1
         /\ pc = "run" <=> req = NoReq
         /\ Filled \cap Permanent = {}
         /\ Filled \subseteq Cells /\ Permanent \subseteq Cells /\ InUse \subseteq Cells
         /\ ~Collecting
<1>1. TypeOK /\ IndexOK /\ ProgramOK /\ ~Collecting
  BY DEF IInv, Collecting
<1>2. /\ direction \in {1, -1} /\ memoryindex \in Int /\ mem_low \in Nat /\ mem_mid \in Nat
      /\ memoryindex <= MEMORYMAX /\ memoryindex >= -1 /\ mem_low <= MEMORYMAX
      /\ mem_low <= mem_mid
  BY <1>1, NullFacts DEF TypeOK, IndexOK
<1>3. Filled \subseteq Cells /\ Permanent \subseteq Cells
  BY <1>2, NullFacts DEF Filled, FilledTo, Permanent, Cells, MEM_HIGH
<1>4. HalfSpace(direction) \cap Permanent = {}
  BY <1>2, NullFacts DEF HalfSpace, Permanent
<1>5. Filled \cap Permanent = {}
  BY <1>1, <1>4 DEF IndexOK
<1>6. QED
  BY <1>1, <1>3, <1>5 DEF ProgramOK, InUse

\* A pointer inside a node in use is in use.
LEMMA ChildInUse ==
  ASSUME IInv, fault = "none", pc \in {"run", "alloc"}, NEW x \in InUse,
         NEW y \in Children(memory[x])
  PROVE  /\ y \in InUse \cup {NULL}
         /\ x \in Permanent => y \in Permanent \cup {NULL}
         /\ memory[x].op \in {"LIST", "ATOM"}
BY ProgramContext DEF WellFormed, InUse

\* So is what the program can get at.
LEMMA VisibleInUse ==
  ASSUME IInv, fault = "none", pc = "run"
  PROVE  Visible \cup Loadable \subseteq InUse \cup {NULL}
<1>1. \A s \in LiveRoots : slot[s] \in InUse \cup {NULL}
  BY ProgramContext
<1>2. Visible \subseteq InUse \cup {NULL}
  BY <1>1, ChildInUse DEF Visible
<1>3. Loadable \subseteq InUse \cup {NULL}
  BY ProgramContext DEF Loadable, InUse
<1>4. QED
  BY <1>2, <1>3


\* A collection that starts empties the half in use.
LEMMA Gc1IInv ==
  ASSUME IInv, fault = "none", pc = "run", gc1, ops' \in 0 .. MaxOps,
         slot' \in [Slots -> Pointers], req' \in Requests,
         \A s \in LiveRoots \cup {"u", "r"} : slot'[s] \in InUse \cup {NULL}
  PROVE  IInv'
<1> USE ProgramContext
<1>1. /\ UNCHANGED <<memory, mem_low, mem_mid, frames, bodies, define, stale>>
      /\ direction' = -direction
      /\ memoryindex' = IF direction' = 1 THEN mem_low ELSE MEM_HIGH
      /\ pc' = "call" /\ cop' = 1
      /\ old' = [memory |-> memory, slot |-> slot', index |-> memoryindex]
      /\ reg' = slot'[SlotSeq[1]]
      /\ fault' = IF stale THEN "stale" ELSE "none"
  BY DEF gc1, HalfStart
<1>2. /\ old'.memory = memory /\ old'.slot = slot' /\ old'.index = memoryindex
      /\ old' \in Start
  BY <1>1 DEF TypeOK, Start
<1>3. direction \in {1, -1} /\ -(-direction) = direction /\ mem_low \in Nat
  BY NullFacts DEF TypeOK
<1>4. SlotSeq[1] \in Slots /\ 1 \in 1 .. Len(SlotSeq)
  BY SlotFacts DEF Slots
<1>5. TypeOK'
  <2>1. memoryindex' \in -1 .. MEMORYMAX
    BY <1>1, <1>3, NullFacts DEF TypeOK, MEM_HIGH
  <2>2. direction' \in {1, -1}
    BY <1>1, <1>3
  <2>3. reg' \in Pointers
    BY <1>1, <1>4
  <2>4. QED
    BY <1>1, <1>2, <1>4, <2>1, <2>2, <2>3 DEF TypeOK
<1>6. CASE stale
  BY <1>1, <1>5, <1>6 DEF IInv
<1>7. CASE ~stale
  <2>1. From' = Filled /\ Permanent' = Permanent
    <3>1. -direction' = direction
      BY <1>1, <1>3
    <3>2. From' = FilledTo(direction, memoryindex)
      BY <1>1, <1>2, <3>1 DEF From, FilledTo
    <3>3. QED
      BY <1>1, <3>2 DEF Filled, Permanent
  <2>2. Filled' = {}
    BY <1>1, <1>3, NullFacts DEF Filled, FilledTo
  <2>3. Moved' = {}
    BY <1>1, <2>1 DEF Moved, WellFormed
  <2>4. IndexOK'
    BY <1>1, <1>3, <2>2, NullFacts DEF IndexOK
  <2>5. \A s \in Slots : slot'[s] \in Permanent \cup Filled \cup {NULL}
    BY <1>7 DEF LiveRoots, Roots, InUse
  <2>6. OldOK'
    <3>1. Filled \subseteq HalfSpace(direction)
      BY DEF IndexOK
    <3>2. HalfSpace(-direction)' = HalfSpace(direction)
      <4>1. -direction' = direction
        BY <1>1, <1>3
      <4>2. QED
        BY <1>1, <4>1 DEF HalfSpace
    <3>3. WellFormed(old.memory, From)'
      BY <1>2, <2>1 DEF WellFormed, Acyclic
    <3>4. bodies \subseteq Permanent \cup {NULL} /\ ~define
      BY <1>7
    <3>5. QED
      BY <1>1, <1>2, <1>7, <2>1, <2>5, <3>1, <3>2, <3>3, <3>4 DEF OldOK
  <2>7. MovedOK'
    BY <1>1, <1>2, <2>3 DEF MovedOK
  <2>8. FramesOK'
    BY <1>1 DEF FramesOK
  <2>9. FilledOK'
    BY <2>2 DEF FilledOK
  <2>10. ControlOK'
    BY <1>1, <1>2 DEF ControlOK, Asked
  <2>11. SlotsOK'
    BY <1>1, <1>2, SlotFacts DEF SlotsOK
  <2>12. ReachedOK'
    BY <1>1, <2>3 DEF ReachedOK
  <2>13. QED
    BY <1>1, <1>5, <2>4, <2>6, <2>7, <2>8, <2>9, <2>10, <2>11, <2>12
    DEF IInv, ProgramOK, CollectorOK
<1>8. QED
  BY <1>6, <1>7

LEMMA GcIInv ==
  ASSUME IInv, fault = "none", gc_, ops' \in 0 .. MaxOps
  PROVE  IInv'
<1>1. pc = "run" /\ gc1 /\ slot' = slot /\ req' = req
  BY DEF gc_
<1>2. /\ slot' \in [Slots -> Pointers] /\ req' \in Requests
      /\ \A s \in LiveRoots \cup {"u", "r"} : slot'[s] \in InUse \cup {NULL}
  BY <1>1, ProgramContext DEF TypeOK
<1>3. QED
  BY <1>1, <1>2, Gc1IInv

LEMMA NewnodeIInv ==
  ASSUME IInv, fault = "none", ops' \in 0 .. MaxOps,
         NEW o \in {"LIST", "ATOM"}, NEW u, NEW r \in Visible, NEW d \in Roots,
         o = "LIST" => u \in Visible \cup Loadable,
         o = "ATOM" => u \in Atoms,
         newnode(o, u, r, d)
  PROVE  IInv'
<1>0. pc = "run"
  BY DEF newnode
<1> USE <1>0, ProgramContext
<1>1. /\ req' = [o |-> o, u |-> IF o = "LIST" THEN NULL ELSE u, dest |-> d]
      /\ slot' = [slot EXCEPT !["u"] = IF o = "LIST" THEN u ELSE NULL, !["r"] = r]
  BY DEF newnode
<1>2. req' \in Requests /\ req' # NoReq
  <2>1. CASE o = "LIST"
    BY <1>1, <2>1 DEF Requests, NoReq
  <2>2. CASE o = "ATOM"
    BY <1>1, <2>2 DEF Requests, NoReq
  <2>3. QED
    BY <2>1, <2>2
<1>3. /\ slot'["u"] \in InUse \cup {NULL} /\ slot'["r"] \in InUse \cup {NULL}
      /\ \A s \in Slots \ {"u", "r"} : slot'[s] = slot[s]
      /\ slot' \in [Slots -> Pointers]
  <2>1. r \in InUse \cup {NULL} /\ (o = "LIST" => u \in InUse \cup {NULL})
    BY VisibleInUse
  <2>2. InUse \cup {NULL} \subseteq Pointers
    BY DEF Pointers
  <2>3. slot \in [Slots -> Pointers]
    BY DEF TypeOK
  <2> HIDE ProgramContext
  <2>4. QED
    BY <1>1, <2>1, <2>2, <2>3, SlotFacts
<1>4. \A s \in LiveRoots \cup {"u", "r"} : slot'[s] \in InUse \cup {NULL}
  BY <1>3, SlotFacts DEF Roots
<1>5. CASE memoryindex = mem_mid
  BY <1>2, <1>3, <1>4, <1>5, Gc1IInv DEF newnode
<1>6. CASE memoryindex # mem_mid
  <2>1. /\ UNCHANGED <<memory, memoryindex, mem_low, mem_mid, direction, frames, reg, cop,
                      old, bodies, define, stale, fault>>
        /\ pc' = "alloc"
    BY <1>6 DEF newnode, heap
  <2>2. TypeOK'
    BY <1>2, <1>3, <2>1 DEF TypeOK
  <2>3. Filled' = Filled /\ Permanent' = Permanent /\ InUse' = InUse /\ LiveRoots' = LiveRoots
    BY <2>1 DEF Filled, FilledTo, Permanent, InUse, LiveRoots
  <2>4. IndexOK'
    BY <2>1, <2>3 DEF IndexOK, HalfSpace
  <2>5. WellFormed(memory, Filled)'
    BY <2>1, <2>3 DEF WellFormed, Acyclic
  <2>6. ProgramOK'
    BY <1>2, <1>4, <2>1, <2>3, <2>5 DEF ProgramOK
  <2>7. CollectorOK'
    BY <2>1 DEF CollectorOK, Collecting
  <2>8. QED
    BY <2>2, <2>4, <2>6, <2>7 DEF IInv
<1>7. QED
  BY <1>5, <1>6

LEMMA NewnodeTakesIInv ==
  ASSUME IInv, fault = "none", newnode_takes, UNCHANGED ops
  PROVE  IInv'
<1> DEFINE t == memoryindex
           nd == [op |-> req.o, u |-> IF req.o = "LIST" THEN slot["u"] ELSE req.u,
                  next |-> slot["r"]]
<1>0. pc = "alloc"
  BY DEF newnode_takes
<1> USE <1>0, ProgramContext
<1>1. /\ UNCHANGED <<mem_low, mem_mid, direction, frames, reg, cop, old, bodies, define,
                    stale, ops>>
      /\ TakeCell /\ t \in Cells
      /\ memory' = [memory EXCEPT ![t] = nd]
      /\ slot' = [slot EXCEPT ![req.dest] = t, !["u"] = NULL, !["r"] = NULL]
      /\ req' = NoReq /\ pc' = "run"
  BY DEF newnode_takes, TakeCell
<1>2. req.o \in {"LIST", "ATOM"} /\ req.dest \in Roots /\ (req.o = "ATOM" => req.u \in Atoms)
  BY DEF TypeOK, Requests, NoReq
<1>3. /\ nd \in Node /\ nd.op \in {"LIST", "ATOM"}
      /\ Children(nd) \subseteq InUse \cup {NULL}
  <2>1. slot["u"] \in InUse \cup {NULL} /\ slot["r"] \in InUse \cup {NULL}
    OBVIOUS
  <2>2. InUse \cup {NULL} \subseteq Pointers
    BY DEF Pointers
  <2> HIDE ProgramContext
  <2>3. QED
    BY <1>2, <2>1, <2>2 DEF Node, Children
<1>4. /\ memory' \in [Cells -> Node] /\ memory'[t] = nd
      /\ \A a \in Cells : a # t => memory'[a] = memory[a]
  BY <1>1, <1>3 DEF TypeOK
<1>5. /\ slot' \in [Slots -> Pointers]
      /\ slot'["u"] = NULL /\ slot'["r"] = NULL
      /\ \A s \in Roots : slot'[s] \in {slot[s], t}
  <2>1. slot \in [Slots -> Pointers] /\ t \in Pointers /\ NULL \in Pointers
    BY <1>1 DEF TypeOK, Pointers
  <2> HIDE ProgramContext
  <2>2. QED
    BY <1>1, <1>2, <2>1, SlotFacts DEF Roots
<1>6. TypeOK'
  <2>1. req' \in Requests /\ fault' \in {"none", "mid", "stale", "abort"}
    BY <1>1 DEF Requests, TakeCell
  <2>2. memoryindex' \in -1 .. MEMORYMAX
    BY <1>1, NullFacts DEF TakeCell, TypeOK, Cells, MEM_HIGH
  <2>3. QED
    BY <1>1, <1>4, <1>5, <2>1, <2>2 DEF TypeOK
<1>7. CASE fault' # "none"
  BY <1>6, <1>7 DEF IInv
<1>8. CASE fault' = "none"
  <2>1. /\ IndexOK' /\ Filled' = Filled \cup {t}
        /\ t \notin Filled /\ t \notin Permanent
    BY <1>1, <1>8, Taken
  <2>2. Permanent' = Permanent /\ LiveRoots' = LiveRoots
    BY <1>1 DEF Permanent, LiveRoots
  <2>3. InUse' = InUse \cup {t} /\ \A a \in InUse : a \in Cells /\ memory'[a] = memory[a]
    BY <1>4, <2>1, <2>2 DEF InUse
  <2>4. Acyclic(memory', Filled')
    <3> SUFFICES ASSUME NEW G \in SUBSET Filled', G # {}
                 PROVE  \E a \in G : Children(memory'[a]) \cap G = {}
      BY DEF Acyclic
    <3>1. t \notin InUse \cup {NULL}
      BY <1>1, <2>1, NullFacts DEF InUse
    <3>2. CASE G \subseteq {t}
      BY <1>3, <1>4, <3>1, <3>2
    <3>3. CASE ~(G \subseteq {t})
      <4>1. G \ {t} # {} /\ G \ {t} \in SUBSET Filled
        BY <2>1, <3>3
      <4>2. PICK a \in G \ {t} : Children(memory[a]) \cap (G \ {t}) = {}
        <5>1. Acyclic(memory, Filled)
          BY DEF WellFormed
        <5>2. QED
          BY <4>1, <5>1 DEF Acyclic
      <4>3. a \in Filled /\ a \in InUse /\ t \notin Children(memory[a])
        BY <3>1, <4>1, <4>2, ChildInUse DEF InUse
      <4>4. memory'[a] = memory[a]
        BY <2>3, <4>3
      <4>5. QED
        BY <4>2, <4>3, <4>4
    <3>4. QED
      BY <3>2, <3>3
  <2>5. WellFormed(memory, Filled)'
    <3>1. \A a \in Permanent : /\ memory'[a].op \in {"LIST", "ATOM"}
                              /\ Children(memory'[a]) \subseteq Permanent \cup {NULL}
      BY <2>3 DEF WellFormed, InUse
    <3>2. \A a \in Filled : /\ memory'[a].op \in {"LIST", "ATOM"}
                           /\ Children(memory'[a]) \subseteq Permanent \cup Filled' \cup {NULL}
      BY <2>1, <2>3 DEF WellFormed, InUse
    <3>3. /\ memory'[t].op \in {"LIST", "ATOM"}
          /\ Children(memory'[t]) \subseteq Permanent \cup Filled' \cup {NULL}
      BY <1>3, <1>4, <2>1 DEF InUse
    <3>4. QED
      BY <2>1, <2>2, <2>4, <3>1, <3>2, <3>3 DEF WellFormed, Acyclic
  <2>6. \A s \in LiveRoots' \cup {"u", "r"} : slot'[s] \in InUse' \cup {NULL}
    BY <1>5, <2>2, <2>3, SlotFacts
  <2>7. ProgramOK'
    BY <1>1, <2>1, <2>2, <2>5, <2>6 DEF ProgramOK
  <2>8. CollectorOK'
    BY <1>1 DEF CollectorOK, Collecting
  <2>9. QED
    BY <1>6, <2>1, <2>7, <2>8 DEF IInv
<1>9. QED
  BY <1>7, <1>8


\* A step of the program that only moves pointers between roots.
LEMMA SlotsStep ==
  ASSUME IInv, fault = "none", pc = "run", fault' = "none", ops' \in 0 .. MaxOps,
         UNCHANGED <<heap, copier, req>>,
         slot' \in [Slots -> Pointers], define' \in BOOLEAN, stale' \in BOOLEAN,
         \A s \in LiveRoots' \cup {"u", "r"} : slot'[s] \in InUse \cup {NULL},
         bodies' \subseteq {NULL} \cup Permanent \cup (IF define' THEN Filled ELSE {}),
         define' => stale' /\ direction = 1
  PROVE  IInv'
<1> USE ProgramContext
<1>1. UNCHANGED <<memory, memoryindex, mem_low, mem_mid, direction, pc, frames, reg, cop,
                 old, req>>
  BY DEF heap, copier
<1>2. Filled' = Filled /\ Permanent' = Permanent /\ InUse' = InUse
  BY <1>1 DEF Filled, FilledTo, Permanent, InUse
<1>3. TypeOK'
  <2>1. bodies' \subseteq Pointers
    BY DEF Pointers
  <2>2. QED
    BY <1>1, <2>1 DEF TypeOK
<1>4. IndexOK'
  BY <1>1, <1>2 DEF IndexOK, HalfSpace
<1>5. WellFormed(memory, Filled)'
  BY <1>1, <1>2 DEF WellFormed, Acyclic
<1>6. ProgramOK'
  BY <1>1, <1>2, <1>5 DEF ProgramOK
<1>7. CollectorOK'
  BY <1>1 DEF CollectorOK, Collecting
<1>8. QED
  BY <1>3, <1>4, <1>6, <1>7 DEF IInv

\* The two fields of the list node that set_prog and define_body take apart.
LEMMA TopOfStack ==
  ASSUME IInv, fault = "none", pc = "run", slot["stk"] # NULL,
         memory[slot["stk"]].op = "LIST"
  PROVE  /\ memory[slot["stk"]].u \in InUse \cup {NULL}
         /\ memory[slot["stk"]].next \in InUse \cup {NULL}
<1>1. "stk" \in LiveRoots
  BY SlotFacts DEF LiveRoots, Roots
<1>2. slot["stk"] \in InUse
  BY <1>1, ProgramContext
<1>3. QED
  BY <1>2, ChildInUse DEF Children

LEMMA AssignIInv ==
  ASSUME IInv, fault = "none", ops' \in 0 .. MaxOps, NEW d \in Roots,
         NEW p \in Visible \cup Loadable, assign(d, p)
  PROVE  IInv'
<1>1. /\ pc = "run" /\ slot' = [slot EXCEPT ![d] = p]
      /\ UNCHANGED <<heap, copier, bodies, req, define, stale, fault>>
  BY DEF assign
<1>2. p \in InUse \cup {NULL}
  BY <1>1, VisibleInUse
<1>3. /\ slot \in [Slots -> Pointers] /\ d \in Slots /\ p \in Pointers
      /\ LiveRoots' = LiveRoots /\ define \in BOOLEAN /\ stale \in BOOLEAN
  BY <1>1, <1>2, ProgramContext, SlotFacts DEF TypeOK, Pointers, LiveRoots
<1>4. slot' \in [Slots -> Pointers] /\ \A s \in Slots : slot'[s] \in {slot[s], p}
  BY <1>1, <1>3
<1>5. \A s \in LiveRoots' \cup {"u", "r"} : slot'[s] \in InUse \cup {NULL}
  BY <1>1, <1>2, <1>3, <1>4, ProgramContext, SlotFacts
<1>6. QED
  BY <1>1, <1>3, <1>4, <1>5, ProgramContext, SlotsStep

LEMMA SetProgIInv ==
  ASSUME IInv, fault = "none", ops' \in 0 .. MaxOps, set_prog
  PROVE  IInv'
<1> DEFINE x == slot["stk"]
<1>1. /\ pc = "run" /\ ~define /\ x # NULL /\ memory[x].op = "LIST"
      /\ slot' = [slot EXCEPT !["prog"] = memory[x].u, !["stk"] = memory[x].next]
      /\ stale' = FALSE
      /\ UNCHANGED <<heap, copier, bodies, req, define, fault>>
  BY DEF set_prog
<1>2. memory[x].u \in InUse \cup {NULL} /\ memory[x].next \in InUse \cup {NULL}
  BY <1>1, TopOfStack
<1>3. slot \in [Slots -> Pointers] /\ InUse \cup {NULL} \subseteq Pointers
  BY <1>1, ProgramContext DEF TypeOK, Pointers
<1>4. /\ slot' \in [Slots -> Pointers]
      /\ slot'["prog"] \in InUse \cup {NULL} /\ slot'["stk"] \in InUse \cup {NULL}
      /\ \A s \in Slots : s \notin {"prog", "stk"} => slot'[s] = slot[s]
  BY <1>1, <1>2, <1>3, SlotFacts
<1>5. \A s \in Slots \ {"prog", "stk"} : s \in LiveRoots \cup {"u", "r"}
  BY DEF LiveRoots, Roots
<1>6. \A s \in Slots : slot'[s] \in InUse \cup {NULL}
  BY <1>1, <1>4, <1>5, ProgramContext
<1>7. \A s \in LiveRoots' \cup {"u", "r"} : slot'[s] \in InUse \cup {NULL}
  BY <1>6, SlotFacts DEF LiveRoots, Roots
<1>8. define' \in BOOLEAN /\ bodies' \subseteq {NULL} \cup Permanent
  BY <1>1, ProgramContext DEF TypeOK
<1>9. QED
  BY <1>1, <1>4, <1>7, <1>8, SlotsStep

LEMMA DefineBodyIInv ==
  ASSUME IInv, fault = "none", ops' \in 0 .. MaxOps, define_body
  PROVE  IInv'
<1> DEFINE x == slot["stk"]
<1>1. /\ pc = "run" /\ define /\ x # NULL /\ memory[x].op = "LIST"
      /\ slot' = [slot EXCEPT !["stk"] = memory[x].next]
      /\ bodies' = bodies \cup {memory[x].u}
      /\ UNCHANGED <<heap, copier, req, define, stale, fault>>
  BY DEF define_body
<1>2. memory[x].u \in InUse \cup {NULL} /\ memory[x].next \in InUse \cup {NULL}
  BY <1>1, TopOfStack
<1>3. /\ slot \in [Slots -> Pointers] /\ InUse \cup {NULL} \subseteq Pointers
      /\ LiveRoots' = LiveRoots /\ stale \in BOOLEAN
  BY <1>1, ProgramContext DEF TypeOK, Pointers, LiveRoots
<1>4. /\ slot' \in [Slots -> Pointers] /\ slot'["stk"] \in InUse \cup {NULL}
      /\ \A s \in Slots : s # "stk" => slot'[s] = slot[s]
  BY <1>1, <1>2, <1>3, SlotFacts
<1>5. \A s \in LiveRoots' \cup {"u", "r"} : slot'[s] \in InUse \cup {NULL}
  BY <1>1, <1>3, <1>4, ProgramContext, SlotFacts
<1>6. bodies' \subseteq {NULL} \cup Permanent \cup (IF define' THEN Filled ELSE {})
  BY <1>1, <1>2, ProgramContext DEF InUse
<1>7. QED
  BY <1>1, <1>3, <1>4, <1>5, <1>6, ProgramContext, SlotsStep

LEMMA AbortIInv ==
  ASSUME IInv, fault = "none", ops' \in 0 .. MaxOps, abort
  PROVE  IInv'
<1>1. /\ pc = "run"
      /\ slot' = [s \in Slots |-> IF s \in {"stk", "prog"} THEN slot[s] ELSE NULL]
      /\ define' = FALSE
      /\ fault' = IF bodies \ {NULL} \subseteq Permanent THEN "none" ELSE "abort"
      /\ UNCHANGED <<heap, copier, bodies, req, stale>>
  BY DEF abort
<1>2. slot' \in [Slots -> Pointers] /\ LiveRoots' = LiveRoots /\ stale \in BOOLEAN
  BY <1>1, ProgramContext DEF TypeOK, Pointers, LiveRoots
<1>3. CASE fault' = "none"
  <2>1. bodies' \subseteq {NULL} \cup Permanent
    BY <1>1, <1>3
  <2>2. \A s \in LiveRoots' \cup {"u", "r"} : slot'[s] \in InUse \cup {NULL}
    BY <1>1, <1>2, ProgramContext, SlotFacts
  <2>3. QED
    BY <1>1, <1>2, <1>3, <2>1, <2>2, SlotsStep
<1>4. CASE fault' # "none"
  <2>1. TypeOK'
    BY <1>1, <1>2, ProgramContext DEF TypeOK, heap, copier
  <2>2. QED
    BY <1>4, <2>1 DEF IInv
<1>5. QED
  BY <1>3, <1>4

LEMMA Inimem1IInv ==
  ASSUME IInv, fault = "none", ops' \in 0 .. MaxOps, inimem1
  PROVE  IInv'
<1>1. /\ pc = "run" /\ ~define
      /\ slot' = [s \in Slots |-> IF s = "prog" THEN slot[s] ELSE NULL]
      /\ direction' = 1 /\ memoryindex' = mem_low /\ define' = TRUE /\ stale' = TRUE
      /\ UNCHANGED <<memory, mem_low, mem_mid, pc, frames, reg, cop, old, bodies, req, fault>>
  BY DEF inimem1, copier
<1> USE <1>1, ProgramContext
<1>2. mem_low \in Nat /\ mem_low <= MEMORYMAX
  BY NullFacts DEF TypeOK
<1>3. Filled' = {} /\ Permanent' = Permanent
  BY <1>2 DEF Filled, FilledTo, Permanent
<1>4. TypeOK'
  <2>1. slot' \in [Slots -> Pointers]
    BY DEF TypeOK, Pointers
  <2>2. memoryindex' \in -1 .. MEMORYMAX
    BY <1>2, NullFacts
  <2>3. QED
    BY <2>1, <2>2 DEF TypeOK
<1>5. IndexOK'
  BY <1>2, <1>3 DEF IndexOK
<1>6. WellFormed(memory, Filled)'
  BY <1>3 DEF WellFormed, Acyclic
<1>7. \A s \in LiveRoots' \cup {"u", "r"} : slot'[s] = NULL
  BY SlotFacts DEF LiveRoots, Roots
<1>8. ProgramOK'
  BY <1>3, <1>6, <1>7 DEF ProgramOK
<1>9. CollectorOK'
  BY DEF CollectorOK, Collecting
<1>10. QED
  BY <1>4, <1>5, <1>8, <1>9 DEF IInv

\* What a definition allocated becomes permanent as a whole.
LEMMA Inimem2IInv ==
  ASSUME IInv, fault = "none", ops' \in 0 .. MaxOps, inimem2
  PROVE  IInv'
<1>1. /\ pc = "run" /\ define /\ define' = FALSE
      /\ mem_low' = memoryindex /\ mem_mid' = memoryindex + MEM_HIGH \div 2
      /\ UNCHANGED <<memory, memoryindex, direction, pc, frames, reg, cop, old, slot,
                    bodies, req, stale, fault>>
  BY DEF inimem2, copier
<1> USE <1>1, ProgramContext
<1>2. /\ direction = 1 /\ memoryindex \in Int /\ mem_low \in Nat
      /\ memoryindex >= mem_low /\ memoryindex <= MEMORYMAX
      /\ MEM_HIGH \div 2 \in Nat
  BY NullFacts DEF TypeOK, IndexOK
<1>3. Filled' = {} /\ Permanent' = Permanent \cup Filled /\ InUse' = InUse
  BY <1>2 DEF Filled, FilledTo, Permanent, InUse
<1>4. TypeOK'
  <2>1. mem_low' \in 0 .. MEMORYMAX /\ mem_mid' \in Nat
    BY <1>2, NullFacts
  <2>2. QED
    BY <2>1 DEF TypeOK
<1>5. IndexOK'
  BY <1>2, <1>3 DEF IndexOK
<1>6. WellFormed(memory, Filled)'
  BY <1>3 DEF WellFormed, Acyclic
<1>7. LiveRoots' = LiveRoots
  BY DEF LiveRoots
<1>8. ProgramOK'
  BY <1>3, <1>6, <1>7 DEF ProgramOK
<1>9. CollectorOK'
  BY DEF CollectorOK, Collecting
<1>10. QED
  BY <1>4, <1>5, <1>8, <1>9 DEF IInv

\* Giving a node the successor of its successor makes no cycle.
LEMMA AcyclicStep ==
  ASSUME NEW m, NEW m2, NEW S, NEW x, NEW y, NEW z, Acyclic(m, S),
         \A a \in S : a # x => m2[a] = m[a],
         Children(m2[x]) \subseteq Children(m[x]) \cup {z},
         y \in Children(m[x]), z \in Children(m[y]), z \in S => y \in S \/ x \notin S
  PROVE  Acyclic(m2, S)
<1> SUFFICES ASSUME NEW G \in SUBSET S, G # {}
             PROVE  \E n \in G : Children(m2[n]) \cap G = {}
  BY DEF Acyclic
<1>1. PICK n \in G : Children(m[n]) \cap G = {}
  BY DEF Acyclic
<1>2. CASE x \notin G
  BY <1>1, <1>2
<1>3. CASE x \in G /\ z \notin G
  BY <1>1, <1>3
<1>4. CASE x \in G /\ z \in G
  <2>1. G \cup {y} \in SUBSET S
    BY <1>4
  <2>2. PICK k \in G \cup {y} : Children(m[k]) \cap (G \cup {y}) = {}
    BY <2>1 DEF Acyclic
  <2>3. k # y /\ k # x /\ k \in G
    BY <1>4, <2>2
  <2>4. m2[k] = m[k]
    BY <2>3
  <2>5. QED
    BY <2>2, <2>3, <2>4
<1>5. QED
  BY <1>2, <1>3, <1>4

\* A step of the program that steps a pointer inside a node in use over the
\* node it points to.
LEMMA RelinkIInv ==
  ASSUME IInv, fault = "none", pc = "run", fault' = "none", ops' \in 0 .. MaxOps,
         NEW x \in InUse, NEW y \in InUse, NEW z,
         y \in Children(memory[x]), z \in Children(memory[y]),
         memory' \in [Cells -> Node],
         \A a \in Cells : a # x => memory'[a] = memory[a],
         memory'[x].op = memory[x].op,
         Children(memory'[x]) \subseteq Children(memory[x]) \cup {z},
         UNCHANGED <<memoryindex, mem_low, mem_mid, direction, copier, slot, bodies, req,
                     define, stale>>
  PROVE  IInv'
<1> USE ProgramContext
<1>1. UNCHANGED <<pc, frames, reg, cop, old>>
  BY DEF copier
<1>2. Filled' = Filled /\ Permanent' = Permanent /\ InUse' = InUse /\ LiveRoots' = LiveRoots
  BY DEF Filled, FilledTo, Permanent, InUse, LiveRoots
<1>3. /\ z \in InUse \cup {NULL}
      /\ x \in Permanent => y \in Permanent /\ z \in Permanent \cup {NULL}
      /\ y \in Permanent => z \in Permanent \cup {NULL}
      /\ memory[x].op \in {"LIST", "ATOM"}
      /\ NULL \notin Filled /\ NULL \notin Permanent
  BY ChildInUse, NullFacts
<1>4. Acyclic(memory', Filled)
  <2>1. z \in Filled => y \in Filled \/ x \notin Filled
    BY <1>3 DEF InUse
  <2>2. \A a \in Filled : a # x => memory'[a] = memory[a]
    OBVIOUS
  <2>3. Acyclic(memory, Filled)
    BY DEF WellFormed
  <2>4. QED
    <3>1. /\ Children(memory'[x]) \subseteq Children(memory[x]) \cup {z}
          /\ y \in Children(memory[x]) /\ z \in Children(memory[y])
      OBVIOUS
    <3> HIDE ProgramContext
    <3>2. QED
      BY <2>1, <2>2, <2>3, <3>1, AcyclicStep
<1>5. \A a \in Permanent : /\ memory'[a].op \in {"LIST", "ATOM"}
                          /\ Children(memory'[a]) \subseteq Permanent \cup {NULL}
  <2> TAKE a \in Permanent
  <2>1. memory[a].op \in {"LIST", "ATOM"} /\ Children(memory[a]) \subseteq Permanent \cup {NULL}
    BY DEF WellFormed
  <2>2. QED
    BY <1>3, <2>1
<1>6. \A a \in Filled : /\ memory'[a].op \in {"LIST", "ATOM"}
                       /\ Children(memory'[a]) \subseteq Permanent \cup Filled \cup {NULL}
  <2> TAKE a \in Filled
  <2>1. /\ memory[a].op \in {"LIST", "ATOM"}
        /\ Children(memory[a]) \subseteq Permanent \cup Filled \cup {NULL}
    BY DEF WellFormed
  <2>2. QED
    BY <1>3, <2>1 DEF InUse
<1>7. WellFormed(memory, Filled)'
  BY <1>2, <1>4, <1>5, <1>6 DEF WellFormed, Acyclic
<1>8. TypeOK'
  BY <1>1 DEF TypeOK
<1>9. IndexOK'
  BY <1>2 DEF IndexOK, HalfSpace
<1>10. ProgramOK'
  BY <1>1, <1>2, <1>7 DEF ProgramOK
<1>11. CollectorOK'
  BY <1>1 DEF CollectorOK, Collecting
<1>12. QED
  BY <1>8, <1>9, <1>10, <1>11 DEF IInv


LEMMA StepLisIInv ==
  ASSUME IInv, fault = "none", ops' \in 0 .. MaxOps, NEW d \in Roots, step_lis(d)
  PROVE  IInv'
<1> DEFINE x == slot[d]
           y == memory[x].u
           z == memory[y].next
<1>1. /\ pc = "run" /\ d \in LiveRoots
      /\ x # NULL /\ x \notin Permanent /\ memory[x].op = "LIST" /\ y # NULL
      /\ memory' = [memory EXCEPT ![x].u = z]
      /\ UNCHANGED <<memoryindex, mem_low, mem_mid, direction, copier, slot, bodies, req,
                    define, stale, fault>>
  BY DEF step_lis
<1>2. x \in InUse /\ y \in Children(memory[x]) /\ z \in Children(memory[y])
  BY <1>1, ProgramContext DEF Children
<1>3. y \in InUse /\ z \in InUse \cup {NULL}
  BY <1>1, <1>2, ChildInUse
<1>4. x \in Cells /\ memory \in [Cells -> Node] /\ z \in Pointers
  BY <1>1, <1>2, <1>3, ProgramContext DEF TypeOK, Pointers
<1>5. memory'[x] = [op |-> memory[x].op, u |-> z, next |-> memory[x].next]
  BY <1>1, <1>4 DEF Node
<1>6. memory' \in [Cells -> Node]
  <2>1. memory'[x] \in Node
    BY <1>4, <1>5 DEF Node
  <2>2. QED
    BY <1>1, <1>4, <2>1
<1>7. Children(memory'[x]) \subseteq Children(memory[x]) \cup {z}
  BY <1>1, <1>5 DEF Children
<1>8. memory'[x].op = memory[x].op /\ \A a \in Cells : a # x => memory'[a] = memory[a]
  BY <1>1, <1>4, <1>5
<1> HIDE DEF x, y, z
<1>9. QED
  BY <1>1, <1>2, <1>3, <1>6, <1>7, <1>8, RelinkIInv

LEMMA UnlinkNextIInv ==
  ASSUME IInv, fault = "none", ops' \in 0 .. MaxOps, NEW d \in Roots, unlink_next(d)
  PROVE  IInv'
<1> DEFINE x == slot[d]
           y == memory[x].next
           z == memory[y].next
<1>1. /\ pc = "run" /\ d \in LiveRoots /\ x # NULL /\ y # NULL
      /\ memory' = [memory EXCEPT ![x].next = z]
      /\ UNCHANGED <<memoryindex, mem_low, mem_mid, direction, copier, slot, bodies, req,
                    define, stale, fault>>
  BY DEF unlink_next
<1>2. x \in InUse /\ y \in Children(memory[x]) /\ z \in Children(memory[y])
  BY <1>1, ProgramContext DEF Children
<1>3. y \in InUse /\ z \in InUse \cup {NULL}
  BY <1>1, <1>2, ChildInUse
<1>4. x \in Cells /\ memory \in [Cells -> Node] /\ z \in Pointers
  BY <1>1, <1>2, <1>3, ProgramContext DEF TypeOK, Pointers
<1>5. memory'[x] = [op |-> memory[x].op, u |-> memory[x].u, next |-> z]
  BY <1>1, <1>4 DEF Node
<1>6. memory' \in [Cells -> Node]
  <2>1. memory'[x] \in Node
    BY <1>4, <1>5 DEF Node
  <2>2. QED
    BY <1>1, <1>4, <2>1
<1>7. Children(memory'[x]) \subseteq Children(memory[x]) \cup {z}
  BY <1>5 DEF Children
<1>8. memory'[x].op = memory[x].op /\ \A a \in Cells : a # x => memory'[a] = memory[a]
  BY <1>1, <1>4, <1>5
<1> HIDE DEF x, y, z
<1>9. QED
  BY <1>1, <1>2, <1>3, <1>6, <1>7, <1>8, RelinkIInv

-----------------------------------------------------------------------------
(* The theorems. *)

LEMMA NextIInv == IInv /\ [Next]_vars => IInv'
<1> SUFFICES ASSUME IInv, [Next]_vars PROVE IInv'
  OBVIOUS
<1>1. CASE UNCHANGED vars
  <2>1. UNCHANGED <<memory, memoryindex, mem_low, mem_mid, direction, pc, frames, reg, cop,
                    old, slot, bodies, req, define, ops, stale, fault>>
    BY <1>1 DEF vars, heap, copier
  <2>2. TypeOK' = TypeOK /\ IndexOK' = IndexOK
    BY <2>1 DEF TypeOK, IndexOK, Filled, FilledTo, HalfSpace
  <2>3. ProgramOK' = ProgramOK
    BY <2>1 DEF ProgramOK, WellFormed, Acyclic, Filled, FilledTo, Permanent, InUse, LiveRoots
  <2>4. /\ Filled' = Filled /\ From' = From /\ Moved' = Moved /\ Permanent' = Permanent
        /\ Collecting' = Collecting
    BY <2>1 DEF Filled, FilledTo, From, Moved, Permanent, Collecting
  <2>5. \A q : Forward(q)' = Forward(q) /\ (Settled(q)' <=> Settled(q))
    BY <2>1, <2>4 DEF Forward, Settled
  <2>6. OldOK' = OldOK
    BY <2>1, <2>4 DEF OldOK, HalfSpace, WellFormed, Acyclic
  <2>7. MovedOK' = MovedOK
    BY <2>1, <2>4, <2>5 DEF MovedOK, MovedFaithfully
  <2>8. FramesOK' = FramesOK /\ FilledOK' = FilledOK
    BY <2>1, <2>4, <2>5 DEF FramesOK, FilledOK, FrameOK, Awaited
  <2>9. ControlOK' = ControlOK
    BY <2>1, <2>4, <2>5 DEF ControlOK, Asked, Awaited, TopFrame
  <2>10. SlotsOK' = SlotsOK /\ ReachedOK' = ReachedOK
    BY <2>1, <2>4, <2>5 DEF SlotsOK, ReachedOK, ClosedFrom
  <2>11. QED
    BY <2>1, <2>2, <2>3, <2>4, <2>6, <2>7, <2>8, <2>9, <2>10 DEF IInv, CollectorOK
<1>2. CASE Next
  <2>1. fault = "none"
    BY <1>2 DEF Next
  <2>2. CASE Collector /\ UNCHANGED ops
    BY <2>1, <2>2, CopyReturnsIInv, CopyTakesIInv, CopyLisIInv, CopyNextIInv,
       CopiedSlotIInv, Gc2IInv DEF Collector
  <2>3. CASE newnode_takes /\ UNCHANGED ops
    BY <2>1, <2>3, NewnodeTakesIInv
  <2>4. CASE overruns /\ UNCHANGED ops
    <3>1. fault' # "none" /\ UNCHANGED <<heap, copier, slot, bodies, req, define, stale, ops>>
      BY <2>4 DEF overruns
    <3>2. TypeOK'
      BY <2>4 DEF overruns, IInv, TypeOK, heap, copier
    <3>3. QED
      BY <3>1, <3>2 DEF IInv
  <2>5. CASE Operation /\ ops < MaxOps /\ ops' = ops + 1
    <3>1. ops' \in 0 .. MaxOps
      BY <2>5, NullFacts DEF IInv, TypeOK
    <3>2. LiveRoots \subseteq Roots
      BY SlotFacts
    <3>3. ASSUME NEW a \in Atoms, NEW r \in Visible, NEW d \in LiveRoots \ {"prog"},
                 newnode("ATOM", a, r, d)
          PROVE  IInv'
      BY <2>1, <3>1, <3>2, <3>3, NewnodeIInv
    <3>4. ASSUME NEW u \in Visible \cup Loadable, NEW r \in Visible,
                 NEW d \in LiveRoots \ {"prog"}, newnode("LIST", u, r, d)
          PROVE  IInv'
      BY <2>1, <3>1, <3>2, <3>4, NewnodeIInv
    <3>5. CASE gc_ \/ set_prog \/ inimem1 \/ define_body \/ inimem2 \/ abort
      BY <2>1, <3>1, <3>5, GcIInv, SetProgIInv, Inimem1IInv, DefineBodyIInv, Inimem2IInv,
         AbortIInv
    <3>6. ASSUME NEW d \in Roots, NEW p \in Visible \cup Loadable, assign(d, p)
          PROVE  IInv'
      BY <2>1, <3>1, <3>6, AssignIInv
    <3>7. ASSUME NEW d \in Roots, step_lis(d) \/ unlink_next(d)
          PROVE  IInv'
      BY <2>1, <3>1, <3>7, StepLisIInv, UnlinkNextIInv
    <3>8. QED
      BY <2>5, <3>3, <3>4, <3>5, <3>6, <3>7 DEF Operation
  <2>6. QED
    BY <1>2, <2>2, <2>3, <2>4, <2>5 DEF Next
<1>3. QED
  BY <1>1, <1>2

\* The inductive invariant holds in every reachable state, for every size of
\* the memory and every list of roots.
THEOREM Invariance == Spec => []IInv
<1>1. IInv /\ [Next]_vars => IInv'
  BY NextIInv
<1>2. QED
  BY InitIInv, <1>1, PTL DEF Spec

\* Every variable keeps its type.
THEOREM TypeCorrect == Spec => []TypeOK
<1>1. IInv => TypeOK
  BY DEF IInv
<1>2. QED
  BY <1>1, Invariance, PTL

\* No pointer the program can use ever dangles.
THEOREM PointersSafe == Spec => []NoDangling
<1>1. IInv => NoDangling
  <2> SUFFICES ASSUME IInv, pc = "run", fault = "none" PROVE NoDangling
    BY DEF NoDangling
  <2>1. bodies \subseteq InUse \cup {NULL}
    BY ProgramContext DEF InUse
  <2>2. \A a \in InUse : /\ memory[a].op \in {"LIST", "ATOM"}
                        /\ Children(memory[a]) \subseteq InUse \cup {NULL}
    BY ProgramContext DEF WellFormed, InUse
  <2>3. \A a \in Permanent : Children(memory[a]) \subseteq Permanent \cup {NULL}
    BY ProgramContext DEF WellFormed
  <2>4. QED
    BY <2>1, <2>2, <2>3, ProgramContext DEF NoDangling
<1>2. QED
  BY <1>1, Invariance, PTL

\* A finished definition lies in permanent memory.
THEOREM DefinitionsPermanent == Spec => []BodiesPermanent
<1>1. IInv => BodiesPermanent
  <2> SUFFICES ASSUME IInv, ~define, fault = "none" PROVE bodies \subseteq Permanent \cup {NULL}
    BY DEF BodiesPermanent
  <2>1. CASE pc \in {"run", "alloc"}
    BY <2>1, ProgramContext
  <2>2. CASE Collecting
    BY <2>2, CollectorContext DEF OldOK
  <2>3. QED
    BY <2>1, <2>2 DEF IInv, TypeOK, Collecting
<1>2. QED
  BY <1>1, Invariance, PTL

\* A collection that has ended kept the graph of the objects.
THEOREM GraphPreserved == Spec => []CollectionPreservesGraph
<1>1. IInv => CollectionPreservesGraph
  <2> SUFFICES ASSUME IInv, pc = "gc2", fault = "none" PROVE CollectionPreservesGraph
    BY DEF CollectionPreservesGraph
  <2>1. Collecting
    BY DEF Collecting
  <2>2. \A s \in Slots : /\ old.slot[s] \in From => old.slot[s] \in Moved
                        /\ slot[s] = Forward(old.slot[s])
    BY <2>1, CollectorContext DEF SlotsOK, Settled, Slots
  <2>3. \A a \in Moved : /\ MovedFaithfully(a)
                        /\ Children(old.memory[a]) \cap From \subseteq Moved
    BY <2>1, CollectorContext, MovedFacts DEF Moved, Settled
  <2>4. \A a, b \in Moved : memory[a].u = memory[b].u => a = b
    BY <2>1, CollectorContext DEF MovedOK
  <2>5. QED
    BY <2>2, <2>3, <2>4 DEF CollectionPreservesGraph
<1>2. QED
  BY <1>1, Invariance, PTL

\* A collection that has ended moved nothing but what the roots reach.
THEOREM GarbageReclaimed == Spec => []CollectionReclaims
<1>1. IInv => CollectionReclaims
  <2> SUFFICES ASSUME IInv, pc = "gc2", fault = "none" PROVE CollectionReclaims
    BY DEF CollectionReclaims
  <2>1. Collecting
    BY DEF Collecting
  <2>2. \A C \in SUBSET From : ClosedFrom(C) => Moved \subseteq C
    BY <2>1, CollectorContext DEF ReachedOK
  <2>3. Filled = {memory[a].u : a \in Moved}
    BY FilledAreCopies
  <2>4. QED
    BY <2>2, <2>3 DEF CollectionReclaims
<1>2. QED
  BY <1>1, Invariance, PTL

\* Neither the collector nor newnode writes to a finished definition.
THEOREM DefinitionsSpared == Spec => CollectorSparesDefinitions
<1> DEFINE Spared == pc # "run" /\ fault' = "none" =>
                       mem_low' = mem_low /\ \A a \in Permanent : memory'[a] = memory[a]
<1>1. IInv /\ IInv' /\ [Next]_vars => [Spared]_vars
  <2> SUFFICES ASSUME IInv, IInv', Next, pc # "run", fault' = "none"
               PROVE  mem_low' = mem_low /\ \A a \in Permanent : memory'[a] = memory[a]
    OBVIOUS
  <2>1. fault = "none"
    BY DEF Next
  <2>2. Collector \/ newnode_takes
    <3>1. Operation => pc = "run"
      BY DEF Operation, newnode, gc_, assign, step_lis, unlink_next, set_prog, inimem1,
         define_body, inimem2, abort
    <3>2. ~overruns
      BY DEF overruns
    <3>3. QED
      BY <3>1, <3>2 DEF Next
  <2>3. CASE newnode_takes
    <3>1. /\ mem_low' = mem_low /\ mem_mid' = mem_mid /\ direction' = direction
          /\ TakeCell /\ pc = "alloc"
      BY <2>3 DEF newnode_takes
    <3>2. memoryindex \notin Permanent
      BY <2>1, <3>1, Taken, ProgramContext
    <3>3. \A a \in Permanent : a \in Cells
      BY <2>1, <3>1, ProgramContext
    <3>4. memory \in [Cells -> Node]
      BY DEF IInv, TypeOK
    <3>5. QED
      BY <2>3, <3>1, <3>2, <3>3, <3>4 DEF newnode_takes
  <2>4. CASE Collector
    <3>1. Collecting
      BY <2>4 DEF Collector, copy_returns, copy_takes, copy_lis, copy_next, copied_slot, gc2,
         Collecting
    <3>2. /\ mem_low' = mem_low
          /\ copy_returns \/ copied_slot \/ gc2 => memory' = memory
      BY <2>4 DEF Collector, copy_returns, copy_takes, copy_lis, copy_next, copied_slot, gc2,
         heap
    <3>3. CASE Collecting'
      <4>1. OldOK /\ OldOK' /\ Permanent' = Permanent
        BY <2>1, <3>1, <3>2, <3>3, CollectorContext DEF IInv, CollectorOK, Permanent
      <4>2. old' = old
        BY <2>4, <3>3 DEF Collector, copy_returns, copy_takes, copy_lis, copy_next,
           copied_slot, gc2, Collecting
      <4>3. QED
        BY <3>2, <4>1, <4>2 DEF OldOK
    <3>4. CASE ~Collecting'
      BY <2>4, <3>2, <3>4 DEF Collector, copy_takes, copy_lis, copy_next, Collecting
    <3>5. QED
      BY <3>3, <3>4
  <2>5. QED
    BY <2>2, <2>3, <2>4
<1>2. QED
  BY <1>1, Invariance, PTL DEF Spec, CollectorSparesDefinitions


-----------------------------------------------------------------------------
(* A collection takes no more cells than the old half had taken. *)

\* When the index has left the half in use, the half is full.
LEMMA FullHalf ==
  ASSUME TypeOK, IndexOK, memoryindex \notin HalfSpace(direction) \cap Cells
  PROVE  Filled = HalfSpace(direction) \cap Cells
<1>1. /\ direction \in {1, -1} /\ memoryindex \in Int /\ mem_low \in Nat /\ mem_mid \in Nat
      /\ memoryindex <= MEMORYMAX /\ memoryindex >= -1 /\ mem_low <= MEMORYMAX
      /\ mem_low <= mem_mid /\ Filled \subseteq HalfSpace(direction)
      /\ direction = 1 => memoryindex >= mem_low
      /\ direction = -1 => memoryindex <= MEM_HIGH
  BY NullFacts DEF TypeOK, IndexOK
<1>2. MEM_HIGH \in Nat /\ MEMORYMAX = MEM_HIGH + 1
  BY NullFacts DEF MEM_HIGH
<1>3. CASE direction = 1
  <2>1. Filled = mem_low .. (memoryindex - 1) /\ HalfSpace(1) = mem_low .. (mem_mid - 1)
    BY <1>1, <1>3 DEF Filled, FilledTo, HalfSpace
  <2>2. memoryindex >= mem_mid \/ memoryindex > MEM_HIGH
    BY <1>1, <1>2, <1>3, <2>1 DEF Cells
  <2>3. \A a \in HalfSpace(1) \cap Cells : a \in Filled
    BY <1>1, <1>2, <2>1, <2>2 DEF Cells
  <2>4. \A a \in Filled : a \in Cells
    BY <1>1, <1>2, <2>1 DEF Cells
  <2>5. QED
    BY <1>1, <1>3, <2>3, <2>4
<1>4. CASE direction = -1
  <2>1. Filled = (memoryindex + 1) .. MEM_HIGH /\ HalfSpace(-1) = (mem_mid + 1) .. MEM_HIGH
    BY <1>1, <1>4 DEF Filled, FilledTo, HalfSpace
  <2>2. memoryindex <= mem_mid \/ memoryindex < 0
    BY <1>1, <1>2, <1>4, <2>1 DEF Cells
  <2>3. \A a \in HalfSpace(-1) \cap Cells : a \in Filled
    BY <1>1, <1>2, <2>1, <2>2 DEF Cells
  <2>4. \A a \in Filled : a \in Cells
    BY <1>1, <1>2, <2>1 DEF Cells
  <2>5. QED
    BY <1>1, <1>4, <2>3, <2>4
<1>5. QED
  BY <1>1, <1>3, <1>4

\* copy takes a cell only for a node it has not met.
LEMMA AskedIsUnmoved ==
  ASSUME IInv, fault = "none", pc = "call", ~CopyReturns(reg)
  PROVE  reg = Asked /\ reg \in From /\ reg \notin Moved
<1>1. Collecting
  BY DEF Collecting
<1>2. reg = Asked /\ reg \in Permanent \cup From \cup {NULL}
  BY <1>1, AskedIsOld, CollectorContext DEF ControlOK
<1>3. reg \notin Permanent /\ reg # NULL
  BY <1>1, NullFacts, CollectorContext DEF CopyReturns, Permanent, TypeOK
<1>4. QED
  BY <1>2, <1>3 DEF CopyReturns, Moved

\* Every cell taken stems from a node of the old half of its own, none from
\* the node copy is about to take a cell for.
LEMMA NoRoomLeft ==
  ASSUME IInv, fault = "none", pc = "call", ~CopyReturns(reg),
         memoryindex \notin HalfSpace(direction) \cap Cells
  PROVE  HalfTooSmall
<1> DEFINE n == reg
           Source(t, a) == \/ a \in Moved /\ memory[a].u = t
                           \/ \E i \in 1 .. Len(frames) :
                                frames[i].temp = t /\ frames[i].n = a
           f == [t \in Filled |-> CHOOSE a \in From \ {n} : Source(t, a)]
<1>0. Collecting
  BY DEF Collecting
<1> USE <1>0, CollectorContext
<1>1. n = Asked /\ n \in From /\ n \notin Moved
  BY AskedIsUnmoved
<1>2. \A i \in 1 .. Len(frames) : /\ frames[i].n \in From /\ frames[i].n # n
                                 /\ frames[i].n \notin Moved
  <2>1. \A i \in 1 .. Len(frames) : frames[i].n # n
    BY <1>1, AskedIsNew
  <2>2. \A i \in 1 .. Len(frames) : frames[i].n \in From
                                   /\ memory[frames[i].n] = old.memory[frames[i].n]
    BY DEF FramesOK, FrameOK
  <2>3. QED
    BY <2>1, <2>2, MovedFacts
<1>3. \A t \in Filled : \E a \in From \ {n} : Source(t, a)
  <2> TAKE t \in Filled
  <2>1. CASE \E a \in Moved : memory[a].u = t
    BY <1>1, <2>1 DEF Moved
  <2>2. CASE \E i \in 1 .. Len(frames) : frames[i].temp = t
    BY <1>2, <2>2
  <2>3. QED
    BY <2>1, <2>2 DEF FilledOK
<1>4. \A t, s, a : Source(t, a) /\ Source(s, a) => t = s
  <2> SUFFICES ASSUME NEW t, NEW s, NEW a, Source(t, a), Source(s, a) PROVE t = s
    OBVIOUS
  <2>1. CASE a \in Moved
    BY <1>2, <2>1
  <2>2. CASE a \notin Moved
    BY <2>2 DEF FramesOK
  <2>3. QED
    BY <2>1, <2>2
<1> HIDE DEF Source
<1>5. f \in [Filled -> From \ {n}] /\ \A t \in Filled : Source(t, f[t])
  BY <1>3
<1>6. \A t, s \in Filled : f[t] = f[s] => t = s
  BY <1>4, <1>5
<1>7. IsFiniteSet(From) /\ IsFiniteSet(Filled)
  <2>1. From \subseteq Cells /\ Filled \subseteq Cells
    BY Disjoint
  <2>2. IsFiniteSet(Cells)
    BY FS_Interval, NullFacts DEF Cells
  <2>3. QED
    BY <2>1, <2>2, FS_Subset
<1>8. /\ IsFiniteSet(From \ {n}) /\ Cardinality(From \ {n}) = Cardinality(From) - 1
      /\ Cardinality(From) \in Nat /\ Cardinality(Filled) \in Nat
  BY <1>1, <1>7, FS_RemoveElement, FS_CardinalityType
<1> HIDE DEF f
<1>9. ~(Cardinality(From \ {n}) < Cardinality(Filled))
  BY <1>5, <1>6, <1>7, <1>8, FS_PigeonHole
<1>10. Filled = HalfSpace(direction) \cap Cells
  BY FullHalf
<1>11. QED
  BY <1>8, <1>9, <1>10 DEF HalfTooSmall

\* A collection runs out of cells only when the half it fills is too small.
THEOREM CollectorNeedsNoMore == Spec => []CollectorFits
<1>1. Init => CollectorFits
  BY DEF Init, CollectorFits
<1>2. IInv /\ CollectorFits /\ [Next]_vars => CollectorFits'
  <2> SUFFICES ASSUME IInv, CollectorFits, [Next]_vars, pc' = "call", fault' = "mid"
               PROVE  HalfTooSmall'
    BY DEF CollectorFits
  <2>1. CASE UNCHANGED vars
    <3>1. UNCHANGED <<memoryindex, mem_low, mem_mid, direction, pc, old, fault>>
      BY <2>1 DEF vars, heap, copier
    <3>2. HalfTooSmall' = HalfTooSmall
      BY <3>1 DEF HalfTooSmall, From, FilledTo, HalfSpace
    <3>3. QED
      BY <3>1, <3>2 DEF CollectorFits
  <2>2. CASE Next
    <3>1. fault = "none"
      BY <2>2 DEF Next
    <3>2. copy_takes \/ overruns
      <4>1. ~(copy_returns \/ copy_lis \/ copy_next \/ copied_slot \/ gc2)
        BY <3>1 DEF copy_returns, copy_lis, copy_next, copied_slot, gc2
      <4>2. ~newnode_takes
        BY DEF newnode_takes
      <4>3. ~gc1
        BY <3>1 DEF gc1
      <4>4. ~Operation
        BY <3>1, <4>3 DEF Operation, newnode, gc_, assign, step_lis, unlink_next, set_prog,
           inimem1, define_body, inimem2, abort, copier
      <4>5. QED
        BY <2>2, <4>1, <4>2, <4>4 DEF Next, Collector
    <3>3. /\ pc = "call" /\ ~CopyReturns(reg)
          /\ memoryindex \notin HalfSpace(direction) \cap Cells
          /\ UNCHANGED <<mem_low, mem_mid, direction, old>>
      BY <3>1, <3>2 DEF copy_takes, overruns, TakeCell, heap, copier
    <3>4. HalfTooSmall
      BY <3>1, <3>3, NoRoomLeft
    <3>5. QED
      BY <3>3, <3>4 DEF HalfTooSmall, From, FilledTo, HalfSpace
  <2>3. QED
    BY <2>1, <2>2
<1>3. QED
  BY <1>1, <1>2, Invariance, PTL DEF Spec

=============================================================================
