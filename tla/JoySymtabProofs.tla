--------------------------- MODULE JoySymtabProofs ---------------------------
(***************************************************************************)
(* Proofs about the symbol table: BaseInv is inductive, so that for every  *)
(* set of names and every bound the types hold, a definition that ends     *)
(* leaves the display as it found it, and inbuilt operators are not        *)
(* redefined.  Then those about scopes: ScopesInv is inductive, given      *)
(* BaseInv, so that lookup finds what a name means in the text, and a      *)
(* definition defines a name of its scope.                                 *)
(***************************************************************************)
EXTENDS JoySymtab, FiniteSetTheorems, WellFoundedInduction, SequenceTheorems, TLAPS

LEMMA ConstantFacts ==
  /\ NULL \notin Int /\ SYMTABMAX \in Nat /\ DISPLAYMAX \in Nat /\ DISPLAYMAX > 0
  /\ MaxDepth \in Nat /\ MaxScopes \in Nat /\ Inbuilts \subseteq Names
  /\ Cardinality(Inbuilts) \in Nat /\ Cardinality(Inbuilts) <= SYMTABMAX
BY NamesAssumption, BoundsAssumption, NullAssumption, FS_CardinalityType

\* A set of entries that is not empty has a newest one: the sets of those
\* above an entry are finite, and one of them has no proper subset among them.
LEMMA NewestIn ==
  ASSUME NEW k \in Nat, NEW S \in SUBSET (1 .. k), S # {}
  PROVE  Newest(S) \in S /\ \A f \in S : f <= Newest(S)
<1> DEFINE Above(e) == {f \in S : e < f}
           T        == {Above(e) : e \in S}
<1>1. IsFiniteSet(S)
  BY FS_Interval, FS_Subset, 1 \in Int, k \in Int
<1>2. T \subseteq FiniteSubsetsOf(S) /\ T # {}
  <2>1. \A e \in S : Above(e) \subseteq S
    OBVIOUS
  <2>2. \A e \in S : IsFiniteSet(Above(e))
    BY <1>1, <2>1, FS_Subset
  <2>3. QED
    BY <2>1, <2>2 DEF FiniteSubsetsOf
<1>3. IsWellFoundedOn(StrictSubsetOrdering(S), FiniteSubsetsOf(S))
  BY <1>1, FS_StrictSubsetOrderingWellFounded
<1>4. PICK m \in T : \A y \in T : ~(<<y, m>> \in StrictSubsetOrdering(S))
  <2> HIDE DEF T
  <2>1. QED
    BY <1>2, <1>3, WFMin
<1>5. PICK x \in S : m = Above(x)
  OBVIOUS
<1>6. ASSUME NEW f \in S, ~(f <= x)
      PROVE  FALSE
  <2>1. x < f /\ x \in Int /\ f \in Int
    BY <1>6
  <2>2. \A g \in S : f < g => x < g
    BY <2>1
  <2>3. Above(f) \subseteq Above(x)
    BY <2>2
  <2>4. f \in Above(x) /\ f \notin Above(f)
    BY <2>1
  <2>5. <<Above(f), Above(x)>> \in StrictSubsetOrdering(S)
    BY <2>3, <2>4 DEF StrictSubsetOrdering
  <2>6. QED
    BY <1>4, <1>5, <2>5
<1>7. QED
  BY <1>5, <1>6 DEF Newest

-----------------------------------------------------------------------------
(* The tables. *)

\* What BaseInv says of the tables alone.
TableOK ==
  /\ entry \in Seq(Entry) /\ Len(entry) <= SYMTABMAX
  /\ hashentry \subseteq Entries
  /\ display \in [Levels -> SUBSET Entries]
  /\ \A e \in Entries : entry[e].fields \subseteq Entries
  /\ Cardinality(Inbuilts) <= Len(entry)
  /\ InbuiltsKept

LEMMA ResolvedType ==
  ASSUME TableOK, display_lookup \in Levels, NEW n \in Names
  PROVE  Resolved(n) \in Entries \cup {NULL}
<1>1. Len(entry) \in Nat /\ Entries = 1 .. Len(entry) /\ display_lookup \in Nat
  BY DEF TableOK, Entries, Levels
<1>2. CASE LevelsWith(n) # {}
  <2>1. LevelsWith(n) \in SUBSET (1 .. display_lookup)
    BY DEF LevelsWith
  <2>2. Newest(LevelsWith(n)) \in LevelsWith(n)
    BY <1>1, <1>2, <2>1, NewestIn
  <2> DEFINE S == Found(display[Newest(LevelsWith(n))], n)
  <2>3. S # {} /\ Newest(LevelsWith(n)) \in Levels
    <3>1. \A i \in LevelsWith(n) : i \in 1 .. display_lookup /\ Found(display[i], n) # {}
      BY DEF LevelsWith
    <3>2. Newest(LevelsWith(n)) \in 1 .. display_lookup /\ S # {}
      BY <2>2, <3>1
    <3>3. QED
      BY <1>1, <3>2, ConstantFacts DEF Levels
  <2>4. S \in SUBSET (1 .. Len(entry))
    BY <1>1, <2>3 DEF TableOK, Found
  <2>5. Newest(S) \in S
    <3> HIDE DEF S
    <3>1. QED
      BY <1>1, <2>3, <2>4, NewestIn
  <2>6. QED
    BY <1>1, <1>2, <2>4, <2>5 DEF Resolved
<1>3. CASE LevelsWith(n) = {} /\ Found(hashentry, n) # {}
  <2>1. Found(hashentry, n) \in SUBSET (1 .. Len(entry))
    BY <1>1 DEF TableOK, Found
  <2>2. Newest(Found(hashentry, n)) \in Found(hashentry, n)
    BY <1>1, <1>3, <2>1, NewestIn
  <2>3. QED
    BY <1>1, <1>3, <2>1, <2>2 DEF Resolved
<1>4. QED
  BY <1>2, <1>3 DEF Resolved

\* A new entry, in the global table (levels = {}) or in a local one.
LEMMA AddEntry ==
  ASSUME TableOK, NEW n \in Names, NEW o \in Nat,
         Len(entry) < SYMTABMAX,
         entry' = Append(entry, NewEntry(n, o)),
         \/ hashentry' = hashentry \cup {Len(entry) + 1} /\ UNCHANGED display
         \/ /\ UNCHANGED hashentry
            /\ \E l \in Levels : display' = [display EXCEPT ![l] = @ \cup {Len(entry) + 1}]
  PROVE  /\ TableOK'
         /\ Entries \subseteq Entries'
         /\ Len(entry) + 1 \in Entries' /\ ~IsInbuilt(Len(entry) + 1)
         /\ \A e \in Entries : entry'[e] = entry[e]
         /\ entry'[Len(entry) + 1] = NewEntry(n, o)
<1>1. NewEntry(n, o) \in Entry
  BY DEF NewEntry, Entry
<1>2. entry \in Seq(Entry) /\ Len(entry) \in Nat
  BY DEF TableOK
<1>3. /\ entry' \in Seq(Entry) /\ Len(entry') = Len(entry) + 1
      /\ \A e \in 1 .. Len(entry) : entry'[e] = entry[e]
      /\ entry'[Len(entry) + 1] = NewEntry(n, o)
  BY <1>1, <1>2, AppendProperties
<1>4. Entries \subseteq Entries' /\ Len(entry) + 1 \in Entries'
  BY <1>2, <1>3 DEF Entries
<1>5. hashentry' \subseteq Entries' /\ display' \in [Levels -> SUBSET Entries']
  BY <1>4 DEF TableOK
<1>6. \A e \in Entries' : entry'[e].fields \subseteq Entries'
  <2> SUFFICES ASSUME NEW e \in Entries' PROVE entry'[e].fields \subseteq Entries'
    OBVIOUS
  <2>1. CASE e \in Entries
    BY <1>3, <1>4, <2>1 DEF TableOK, Entries
  <2>2. CASE e = Len(entry) + 1
    BY <1>3, <2>2 DEF NewEntry
  <2>3. QED
    BY <1>2, <1>3, <2>1, <2>2 DEF Entries
<1>7. InbuiltsKept'
  BY <1>2, <1>3, ConstantFacts DEF TableOK, InbuiltsKept
<1>8. Cardinality(Inbuilts) <= Len(entry') /\ Len(entry') <= SYMTABMAX
  BY <1>2, <1>3, ConstantFacts DEF TableOK
<1>9. ~IsInbuilt(Len(entry) + 1)
  BY <1>2, ConstantFacts DEF TableOK, IsInbuilt
<1>10. QED
  BY <1>3, <1>4, <1>5, <1>6, <1>7, <1>8, <1>9 DEF TableOK, Entries

LEMMA LookupTable ==
  ASSUME TableOK, display_lookup \in Levels, NEW n \in Names, lookup(n)
  PROVE  /\ TableOK'
         /\ Entries \subseteq Entries'
         /\ Location(n) \in Entries'
         /\ entry'[Location(n)] \in Entry
<1>1. CASE Resolved(n) = NULL
  <2>1. enterglobal(n)
    BY <1>1 DEF lookup
  <2>2. /\ TableOK' /\ Entries \subseteq Entries' /\ Len(entry) + 1 \in Entries'
    BY <2>1, AddEntry, 0 \in Nat DEF enterglobal
  <2>3. QED
    BY <1>1, <2>2 DEF Location, TableOK, Entries
<1>2. CASE Resolved(n) # NULL
  <2>1. UNCHANGED table /\ Resolved(n) \in Entries
    BY <1>2, ResolvedType DEF lookup
  <2>2. TableOK' /\ Entries' = Entries
    BY <2>1 DEF table, TableOK, InbuiltsKept, Entries
  <2>3. QED
    BY <1>2, <2>1, <2>2 DEF Location, TableOK, Entries
<1>3. QED
  BY <1>1, <1>2

\* The owner of a new entry.
LEMMA OwnerType ==
  ASSUME calls \in Seq(Frame)
  PROVE  Owner \in Nat
<1>1. Len(calls) \in Nat /\ \A i \in 1 .. Len(calls) : calls[i].id \in Nat
  <2>1. Len(calls) \in Nat /\ \A i \in 1 .. Len(calls) : calls[i] \in Frame
    OBVIOUS
  <2>2. \A f \in Frame : f.id \in Nat
    BY DEF Frame
  <2>3. QED
    BY <2>1, <2>2
<1>2. Entering \in SUBSET (1 .. Len(calls))
  BY DEF Entering
<1>3. CASE Entering # {}
  <2>1. Newest(Entering) \in Entering
    BY <1>1, <1>2, <1>3, NewestIn
  <2>2. QED
    BY <1>1, <1>2, <1>3, <2>1 DEF Owner
<1>4. QED
  BY <1>3 DEF Owner

LEMMA EnteratomTable ==
  ASSUME TableOK, calls \in Seq(Frame), display_enter \in Levels,
         display_lookup \in Levels, NEW n \in Names, enteratom(n)
  PROVE  /\ TableOK'
         /\ Entries \subseteq Entries'
         /\ EnteredAt(n) \in Entries'
<1>1. CASE display_enter > 0
  <2>1. /\ TableOK' /\ Entries \subseteq Entries' /\ Len(entry) + 1 \in Entries'
    BY <1>1, AddEntry, OwnerType DEF enteratom
  <2>2. QED
    BY <1>1, <2>1 DEF EnteredAt
<1>2. CASE ~(display_enter > 0)
  BY <1>2, LookupTable DEF enteratom, EnteredAt
<1>3. QED
  BY <1>1, <1>2

\* An entry other than an inbuilt operator takes a body or fields; MODULE may
\* give fields to an inbuilt operator.
LEMMA SetEntry ==
  ASSUME TableOK, NEW h \in Entries, NEW k \in {"body", "module"},
         NEW F \in SUBSET Entries, k = "body" => ~IsInbuilt(h),
         entry' = [entry EXCEPT ![h].kind = k, ![h].fields = F],
         UNCHANGED <<hashentry, display>>
  PROVE  TableOK' /\ Entries' = Entries
<1>1. entry \in Seq(Entry) /\ Len(entry) \in Nat /\ h \in 1 .. Len(entry)
  BY DEF TableOK, Entries
<1>2. Entries \subseteq 1 .. SYMTABMAX
  BY <1>1, ConstantFacts DEF TableOK, Entries
<1>3. [entry[h] EXCEPT !.kind = k, !.fields = F] \in Entry
  <2>1. entry[h] \in Entry
    BY <1>1
  <2>2. F \in SUBSET (1 .. SYMTABMAX)
    BY <1>2
  <2>3. QED
    BY <2>1, <2>2 DEF Entry
<1>4. entry' = [entry EXCEPT ![h] = [entry[h] EXCEPT !.kind = k, !.fields = F]]
  BY <1>1
<1>5. /\ entry' \in Seq(Entry) /\ Len(entry') = Len(entry)
      /\ \A e \in 1 .. Len(entry) :
           entry'[e] = IF e = h THEN [entry[h] EXCEPT !.kind = k, !.fields = F] ELSE entry[e]
  BY <1>1, <1>3, <1>4, ExceptSeq
<1>6. Entries' = Entries
  BY <1>5 DEF Entries
<1>7. \A e \in Entries : entry'[e].fields \subseteq Entries
  BY <1>1, <1>5, <1>3 DEF TableOK, Entries, Entry
<1>8. InbuiltsKept'
  <2> SUFFICES ASSUME NEW e \in 1 .. Cardinality(Inbuilts), entry'[e].kind # "inbuilt"
               PROVE  entry'[e].kind = "module"
    BY DEF InbuiltsKept
  <2>1. e \in 1 .. Len(entry)
    BY <1>1, ConstantFacts DEF TableOK
  <2>2. CASE e = h
    BY <1>1, <1>3, <1>5, <2>1, <2>2 DEF IsInbuilt, Entry
  <2>3. CASE e # h
    BY <1>5, <2>1, <2>3 DEF TableOK, InbuiltsKept
  <2>4. QED
    BY <2>2, <2>3
<1>9. QED
  BY <1>5, <1>6, <1>7, <1>8 DEF TableOK

-----------------------------------------------------------------------------
(* What the kinds of steps do to the activations and the levels. *)

LEMMA Context ==
  ASSUME BaseInv
  PROVE  /\ TableOK /\ calls \in Seq(Frame) /\ Len(calls) \in Nat
         /\ display_enter \in Levels /\ display_lookup \in Levels
         /\ display_enter \in Nat /\ display_lookup \in Nat
         /\ \A i \in 1 .. Len(calls) : calls[i] \in Frame
         /\ calls # <<>> => Len(calls) \in 1 .. Len(calls) /\ Top \in Frame
<1>1. TableOK /\ calls \in Seq(Frame) /\ display_enter \in Levels /\ display_lookup \in Levels
  BY DEF BaseInv, TypeOK, EntriesOK, TableOK
<1>2. Len(calls) \in Nat /\ \A i \in 1 .. Len(calls) : calls[i] \in Frame
  BY <1>1
<1>3. calls # <<>> => Len(calls) \in 1 .. Len(calls) /\ Top \in Frame
  BY <1>1, <1>2 DEF Top
<1>4. QED
  BY <1>1, <1>2, <1>3 DEF Levels

LEMMA FrameFields ==
  ASSUME NEW f \in Frame
  PROVE  f.enter \in Nat /\ f.lookup \in Nat /\ EnterAfter(f) \in Nat /\ LookupAfter(f) \in Nat
<1>1. f.enter \in Nat /\ f.lookup \in Nat
  BY DEF Frame
<1>2. EnterAfter(f) = f.enter \/ EnterAfter(f) = f.enter + 1
  BY <1>1 DEF EnterAfter
<1>3. LookupAfter(f) = f.lookup \/ LookupAfter(f) = f.lookup + 1
  BY <1>1 DEF LookupAfter
<1>4. QED
  BY <1>1, <1>2, <1>3

\* The entries that the activations of cs refer to.
RefsIn(cs, E) ==
  \A i \in 1 .. Len(cs) : /\ cs[i].at = "module" => cs[i].here \in E
                          /\ cs[i].oldplace \subseteq E

PCs == {"main", "seq", "body", "sep", "compound", "module", "return", "overrun"}

\* The invariant from the parts that the steps below are about.
LEMMA Assemble ==
  ASSUME TableOK', (calls \in Seq(Frame))', (display_enter \in Levels)',
         (display_lookup \in Levels)', (pc \in PCs)', (here \in Entries \cup {NULL})',
         (mod_fields \in {NULL} \cup SUBSET Entries)', (scopes \in 0 .. MaxScopes)',
         (leaked \in BOOLEAN)', LevelsOK', ScopesClosed', ControlOK',
         (pc = "body" => ~IsInbuilt(here))', RefsIn(calls, Entries)'
  PROVE  BaseInv'
BY DEF BaseInv, TypeOK, TableOK, EntriesOK, RefsIn, PCs

\* A step that leaves the activations and the levels alone.
LEMMA KeepCalls ==
  ASSUME BaseInv, TableOK', Entries \subseteq Entries',
         UNCHANGED <<level, calls, scopes, leaked>>,
         here' \in Entries' \cup {NULL}, mod_fields' \in {NULL} \cup SUBSET Entries',
         pc' \in PCs,
         pc' = "main" => calls = <<>>,
         pc' \in {"seq", "body", "sep"} => calls # <<>> /\ Top.at \in InSequence,
         pc' \in {"compound", "module", "return"} /\ calls # <<>> => Top.at \notin InSequence,
         pc' \in {"body", "module"} => here' \in Entries',
         pc' = "body" => ~IsInbuilt(here')
  PROVE  BaseInv'
<1>1. UNCHANGED <<display_enter, display_lookup, calls, scopes, leaked>> /\ Top' = Top
  BY DEF level, Top
<1>2. LevelsOK'
  BY <1>1 DEF BaseInv, LevelsOK
<1>3. ScopesClosed'
  BY <1>1 DEF BaseInv, ScopesClosed
<1>4. ControlOK'
  BY <1>1 DEF BaseInv, ControlOK
<1>5. RefsIn(calls, Entries)'
  BY <1>1 DEF BaseInv, EntriesOK, RefsIn
<1>6. QED
  BY <1>1, <1>2, <1>3, <1>4, <1>5, Assemble, Context DEF BaseInv, TypeOK, IsInbuilt, Levels

\* A call: g are the activations below it, their history perhaps marked.
LEMMA PushCalls ==
  ASSUME BaseInv, TableOK', Entries \subseteq Entries',
         NEW f \in Frame, NEW g \in Seq(Frame), Len(g) = Len(calls),
         \A i \in 1 .. Len(calls) :
           /\ g[i].at = calls[i].at /\ g[i].here = calls[i].here
           /\ g[i].oldplace = calls[i].oldplace
           /\ g[i].enter = calls[i].enter /\ g[i].lookup = calls[i].lookup,
         calls' = Append(g, f),
         f.enter = display_enter, f.lookup = display_lookup, FrameOK(f),
         f.at = "module" => f.here \in Entries', f.oldplace \subseteq Entries',
         display_enter' = EnterAfter(f), display_lookup' = LookupAfter(f),
         display_enter' \in Levels, display_lookup' \in Levels,
         pc \in {"seq", "compound", "module"}, pc' \in {"seq", "compound"},
         f.at = "nested" <=> pc = "seq", f.at \in InSequence <=> pc' = "seq",
         here' \in Entries' \cup {NULL}, mod_fields' \in {NULL} \cup SUBSET Entries',
         scopes' \in 0 .. MaxScopes, leaked' = leaked
  PROVE  BaseInv'
<1> DEFINE k == Len(calls)
<1>1. /\ calls' \in Seq(Frame) /\ Len(calls') = k + 1 /\ calls' # <<>>
      /\ \A i \in 1 .. k : calls'[i] = g[i]
      /\ calls'[k + 1] = f
      /\ k \in Nat
  <2>1. Len(calls) \in Nat /\ Len(g) = Len(calls)
    BY Context
  <2>2. QED
    BY <2>1, AppendProperties
<1>2. Top' = f
  BY <1>1 DEF Top
<1>3. LevelsOK'
  <2>1. display_enter' <= display_lookup'
    <3>1. f.enter \in Nat /\ f.lookup \in Nat
      BY FrameFields
    <3>2. QED
      BY <3>1 DEF FrameOK, EnterAfter, LookupAfter
  <2>2. \A i \in 1 .. k : FrameOK(calls'[i])
    <3> SUFFICES ASSUME NEW i \in 1 .. k PROVE FrameOK(calls'[i])
      OBVIOUS
    <3>1. FrameOK(calls[i])
      BY DEF BaseInv, LevelsOK
    <3>2. QED
      BY <1>1, <3>1 DEF FrameOK
  <2>3. \A i \in 1 .. Len(calls') : FrameOK(calls'[i])
    <3>1. \A i \in 1 .. Len(calls') : i \in 1 .. k \/ i = k + 1
      BY <1>1
    <3>2. QED
      BY <1>1, <2>2, <3>1
  <2>4. \A i \in 1 .. k : /\ EnterAfter(calls'[i]) = EnterAfter(calls[i])
                          /\ LookupAfter(calls'[i]) = LookupAfter(calls[i])
    BY <1>1 DEF EnterAfter, LookupAfter
  <2>5. \A i \in 1 .. (Len(calls') - 1) :
          /\ calls'[i + 1].enter = EnterAfter(calls'[i])
          /\ calls'[i + 1].lookup = LookupAfter(calls'[i])
    <3> SUFFICES ASSUME NEW i \in 1 .. k
                 PROVE  /\ calls'[i + 1].enter = EnterAfter(calls'[i])
                        /\ calls'[i + 1].lookup = LookupAfter(calls'[i])
      BY <1>1
    <3>1. CASE i < k
      <4>1. i \in 1 .. (k - 1) /\ i + 1 \in 1 .. k
        BY <1>1, <3>1
      <4>2. /\ calls[i + 1].enter = EnterAfter(calls[i])
            /\ calls[i + 1].lookup = LookupAfter(calls[i])
        BY <4>1 DEF BaseInv, LevelsOK
      <4>3. QED
        BY <1>1, <2>4, <4>1, <4>2
    <3>2. CASE i = k
      <4>1. calls # <<>>
        BY <3>2
      <4>2. display_enter = EnterAfter(calls[k]) /\ display_lookup = LookupAfter(calls[k])
        BY <4>1 DEF BaseInv, LevelsOK, Top
      <4>3. QED
        BY <1>1, <2>4, <3>2, <4>2
    <3>3. QED
      BY <1>1, <3>1, <3>2
  <2>6. ~leaked' => calls'[1].enter = 0 /\ calls'[1].lookup = 0
    <3>1. CASE k = 0
      <4>1. calls = <<>>
        BY <3>1, Context
      <4>2. QED
        BY <1>1, <3>1, <4>1 DEF BaseInv, ScopesClosed
    <3>2. CASE k # 0
      BY <1>1, <3>2 DEF BaseInv, LevelsOK
    <3>3. QED
      BY <3>1, <3>2
  <2>7. display_enter' = EnterAfter(Top') /\ display_lookup' = LookupAfter(Top')
    BY <1>2
  <2>8. QED
    BY <2>1, <2>3, <2>5, <2>6, <2>7 DEF LevelsOK
<1>4. ScopesClosed'
  BY <1>1 DEF ScopesClosed
<1>5. ControlOK'
  <2>1. \A i \in 1 .. (Len(calls') - 1) :
          calls'[i].at \in InSequence <=> calls'[i + 1].at = "nested"
    <3> SUFFICES ASSUME NEW i \in 1 .. k
                 PROVE  calls'[i].at \in InSequence <=> calls'[i + 1].at = "nested"
      BY <1>1
    <3>1. CASE i < k
      <4>1. i \in 1 .. (k - 1) /\ i + 1 \in 1 .. k
        BY <1>1, <3>1
      <4>2. calls[i].at \in InSequence <=> calls[i + 1].at = "nested"
        BY <4>1 DEF BaseInv, ControlOK
      <4>3. QED
        BY <1>1, <4>1, <4>2
    <3>2. CASE i = k
      <4>1. calls # <<>>
        BY <3>2
      <4>2. calls[k].at \in InSequence <=> pc = "seq"
        BY <4>1 DEF BaseInv, ControlOK, Top
      <4>3. QED
        BY <1>1, <3>2, <4>2
    <3>3. QED
      BY <1>1, <3>1, <3>2
  <2>2. calls'[1].at # "nested"
    <3>1. CASE k = 0
      <4>1. calls = <<>>
        BY <3>1, Context
      <4>2. QED
        BY <1>1, <3>1, <4>1 DEF BaseInv, ControlOK
    <3>2. CASE k # 0
      BY <1>1, <3>2 DEF BaseInv, ControlOK
    <3>3. QED
      BY <3>1, <3>2
  <2>3. QED
    BY <1>1, <1>2, <2>1, <2>2 DEF ControlOK, InSequence
<1>6. RefsIn(calls, Entries)'
  <2>1. \A i \in 1 .. k : /\ calls'[i].at = "module" => calls'[i].here \in Entries'
                          /\ calls'[i].oldplace \subseteq Entries'
    BY <1>1 DEF BaseInv, EntriesOK
  <2>2. \A i \in 1 .. Len(calls') : i \in 1 .. k \/ i = k + 1
    BY <1>1
  <2>3. QED
    BY <1>1, <2>1, <2>2 DEF RefsIn
<1>7. QED
  BY <1>1, <1>3, <1>4, <1>5, <1>6, Assemble DEF PCs, BaseInv, TypeOK

LEMMA PopFacts ==
  ASSUME calls \in Seq(Frame), calls # <<>>
  PROVE  /\ Pop \in Seq(Frame) /\ Len(Pop) = Len(calls) - 1
         /\ \A i \in 1 .. (Len(calls) - 1) : Pop[i] = calls[i]
         /\ Len(calls) \in Nat \ {0}
         /\ Pop = <<>> <=> Len(calls) = 1
<1>1. Len(calls) \in Nat \ {0} /\ \A i \in 1 .. (Len(calls) - 1) : calls[i] \in Frame
  OBVIOUS
<1>2. /\ Pop \in Seq(Frame)
      /\ Len(Pop) = IF 1 <= Len(calls) - 1 THEN Len(calls) - 1 - 1 + 1 ELSE 0
      /\ \A i \in 1 .. (Len(calls) - 1 - 1 + 1) : Pop[i] = calls[1 + i - 1]
  BY <1>1, SubSeqProperties DEF Pop
<1>3. Len(Pop) = Len(calls) - 1 /\ \A i \in 1 .. (Len(calls) - 1) : Pop[i] = calls[i]
  <2>1. Len(calls) - 1 - 1 + 1 = Len(calls) - 1 /\ Len(calls) - 1 \in Nat
    BY <1>1
  <2>2. Len(Pop) = Len(calls) - 1
    <3>1. CASE Len(calls) = 1
      <4>1. Len(calls) - 1 = 0 /\ ~(1 <= Len(calls) - 1)
        BY <3>1
      <4>2. QED
        BY <1>2, <4>1
    <3>2. CASE Len(calls) # 1
      <4>1. Len(calls) \in Int /\ Len(calls) > 0
        BY <1>1
      <4>2. 1 <= Len(calls) - 1
        <5>1. \A n \in Int : n > 0 /\ n # 1 => 1 <= n - 1
          OBVIOUS
        <5>2. QED
          BY <3>2, <4>1, <5>1
      <4>3. QED
        BY <1>2, <2>1, <4>2
    <3>3. QED
      BY <3>1, <3>2
  <2>3. ASSUME NEW i \in 1 .. (Len(calls) - 1) PROVE Pop[i] = calls[i]
    <3>1. 1 + i - 1 = i
      OBVIOUS
    <3>2. QED
      BY <1>2, <2>1, <3>1
  <2>4. QED
    BY <2>2, <2>3
<1>4. Pop = <<>> <=> Len(Pop) = 0
  BY <1>2
<1>5. QED
  BY <1>1, <1>2, <1>3, <1>4

\* A return: the levels are those the activation began at.
LEMMA PopCalls ==
  ASSUME BaseInv, TableOK', Entries \subseteq Entries',
         calls # <<>>, calls' = Pop,
         display_enter' = Top.enter, display_lookup' = Top.lookup,
         display_enter' \in Levels, display_lookup' \in Levels,
         pc' = IF Top.at = "nested" THEN "sep" ELSE "return",
         UNCHANGED <<here, mod_fields, scopes, leaked>>
  PROVE  BaseInv'
<1> DEFINE k == Len(calls) - 1
<1>1. /\ calls' \in Seq(Frame) /\ Len(calls') = k /\ k \in Nat
      /\ \A i \in 1 .. k : calls'[i] = calls[i]
      /\ calls' = <<>> <=> k = 0
      /\ Top = calls[k + 1]
  BY PopFacts, Context DEF Top
<1>2. k # 0 => Top' = calls[k] /\ k \in 1 .. Len(calls) /\ k \in 1 .. k
  BY <1>1 DEF Top
<1>3. k # 0 => /\ calls[k + 1].enter = EnterAfter(calls[k])
               /\ calls[k + 1].lookup = LookupAfter(calls[k])
               /\ calls[k].at \in InSequence <=> calls[k + 1].at = "nested"
  BY <1>1, <1>2 DEF BaseInv, LevelsOK, ControlOK
<1>4. LevelsOK'
  <2>1. display_enter' <= display_lookup'
    BY <1>1 DEF BaseInv, LevelsOK, FrameOK
  <2>2. \A i \in 1 .. Len(calls') : FrameOK(calls'[i])
    BY <1>1 DEF BaseInv, LevelsOK
  <2>3. \A i \in 1 .. (Len(calls') - 1) :
          /\ calls'[i + 1].enter = EnterAfter(calls'[i])
          /\ calls'[i + 1].lookup = LookupAfter(calls'[i])
    <3> SUFFICES ASSUME NEW i \in 1 .. (k - 1)
                 PROVE  /\ calls'[i + 1].enter = EnterAfter(calls'[i])
                        /\ calls'[i + 1].lookup = LookupAfter(calls'[i])
      BY <1>1
    <3>1. i \in 1 .. k /\ i + 1 \in 1 .. k /\ i \in 1 .. (Len(calls) - 1)
      BY <1>1
    <3>2. QED
      BY <1>1, <3>1 DEF BaseInv, LevelsOK
  <2>4. calls' # <<>> => display_enter' = EnterAfter(Top') /\ display_lookup' = LookupAfter(Top')
    BY <1>1, <1>2, <1>3
  <2>5. calls' # <<>> /\ ~leaked' => calls'[1].enter = 0 /\ calls'[1].lookup = 0
    BY <1>1 DEF BaseInv, LevelsOK
  <2>6. QED
    BY <2>1, <2>2, <2>3, <2>4, <2>5 DEF LevelsOK
<1>5. ScopesClosed'
  <2> SUFFICES ASSUME calls' = <<>>, ~leaked'
               PROVE  display_enter' = 0 /\ display_lookup' = 0
    BY DEF ScopesClosed
  <2>1. Len(calls) - 1 = 0
    BY <1>1
  <2>2. Len(calls) = 1
    BY <1>1, <2>1
  <2>3. Top = calls[1]
    BY <2>2 DEF Top
  <2>4. QED
    BY <2>3 DEF BaseInv, LevelsOK
<1>6. ControlOK'
  <2>1. \A i \in 1 .. (Len(calls') - 1) :
          calls'[i].at \in InSequence <=> calls'[i + 1].at = "nested"
    <3> SUFFICES ASSUME NEW i \in 1 .. (k - 1)
                 PROVE  calls'[i].at \in InSequence <=> calls'[i + 1].at = "nested"
      BY <1>1
    <3>1. i \in 1 .. k /\ i + 1 \in 1 .. k /\ i \in 1 .. (Len(calls) - 1)
      BY <1>1
    <3>2. QED
      BY <1>1, <3>1 DEF BaseInv, ControlOK
  <2>2. calls' # <<>> => calls'[1].at # "nested"
    BY <1>1 DEF BaseInv, ControlOK
  <2>3. Top.at = "nested" => k # 0
    BY <1>1 DEF BaseInv, ControlOK
  <2>4. QED
    BY <1>1, <1>2, <1>3, <2>1, <2>2, <2>3 DEF ControlOK
<1>7. RefsIn(calls, Entries)'
  <2>1. \A i \in 1 .. k : i \in 1 .. Len(calls)
    BY <1>1
  <2>2. QED
    BY <1>1, <2>1 DEF RefsIn, BaseInv, EntriesOK
<1>8. here' \in Entries' \cup {NULL} /\ mod_fields' \in {NULL} \cup SUBSET Entries'
  BY DEF BaseInv, TypeOK
<1>9. QED
  BY <1>1, <1>4, <1>5, <1>6, <1>7, <1>8, Assemble DEF PCs, BaseInv, TypeOK

\* The hidden part of a hide ends.
LEMMA SetTop ==
  ASSUME BaseInv, pc = "sep",
         NEW a \in {"hidden_public", "inside_public"},
         Top.at = IF a = "hidden_public" THEN "hidden" ELSE "inside",
         calls' = [calls EXCEPT ![Len(calls)].at = a],
         display_enter' = display_enter - 1,
         pc' = "compound",
         UNCHANGED <<table, display_lookup, here, mod_fields, scopes, leaked>>
  PROVE  BaseInv'
<1> DEFINE k == Len(calls)
           f == [calls[k] EXCEPT !.at = a]
<1>1. calls # <<>> /\ k \in Nat \ {0} /\ k \in 1 .. k /\ calls[k] \in Frame /\ Top = calls[k]
  BY Context DEF BaseInv, ControlOK, Top
<1>2. /\ f \in Frame /\ f.at = a /\ f.enter = calls[k].enter /\ f.lookup = calls[k].lookup
      /\ f.oldplace = calls[k].oldplace
  BY <1>1 DEF Frame
<1>3. /\ calls' \in Seq(Frame) /\ Len(calls') = k /\ calls' # <<>>
      /\ \A i \in 1 .. k : calls'[i] = IF i = k THEN f ELSE calls[i]
  <2>1. calls' = [calls EXCEPT ![k] = f]
    BY <1>1
  <2>2. QED
    BY <1>1, <1>2, <2>1, ExceptSeq, Context
<1>4. Top' = f
  BY <1>1, <1>3 DEF Top
<1>5. /\ calls[k].enter \in Nat /\ calls[k].lookup \in Nat
      /\ display_enter = calls[k].enter + 1
      /\ display_lookup = LookupAfter(calls[k])
      /\ calls[k].enter <= calls[k].lookup
  <2>1. calls[k].enter \in Nat /\ calls[k].lookup \in Nat
    BY <1>1, FrameFields
  <2>2. /\ display_enter = EnterAfter(calls[k])
        /\ display_lookup = LookupAfter(calls[k])
        /\ FrameOK(calls[k])
    BY <1>1 DEF BaseInv, LevelsOK
  <2>3. QED
    BY <1>1, <2>1, <2>2 DEF EnterAfter, FrameOK
<1>6. /\ display_enter' = calls[k].enter
      /\ EnterAfter(f) = calls[k].enter /\ LookupAfter(f) = LookupAfter(calls[k])
  BY <1>1, <1>2, <1>5 DEF EnterAfter, LookupAfter
<1>7. LevelsOK'
  <2>1. display_enter' <= display_lookup'
    BY <1>1, <1>5, <1>6 DEF LookupAfter
  <2>2. FrameOK(f)
    BY <1>1, <1>2 DEF FrameOK, BaseInv, LevelsOK
  <2>3. \A i \in 1 .. Len(calls') : FrameOK(calls'[i])
    BY <1>3, <2>2 DEF BaseInv, LevelsOK
  <2>4. \A i \in 1 .. (Len(calls') - 1) :
          /\ calls'[i + 1].enter = EnterAfter(calls'[i])
          /\ calls'[i + 1].lookup = LookupAfter(calls'[i])
    <3> SUFFICES ASSUME NEW i \in 1 .. (k - 1)
                 PROVE  /\ calls'[i + 1].enter = EnterAfter(calls'[i])
                        /\ calls'[i + 1].lookup = LookupAfter(calls'[i])
      BY <1>3
    <3>1. i \in 1 .. k /\ i + 1 \in 1 .. k /\ i # k
      BY <1>1
    <3>2. calls'[i] = calls[i] /\ calls'[i + 1].enter = calls[i + 1].enter
          /\ calls'[i + 1].lookup = calls[i + 1].lookup
      BY <1>2, <1>3, <3>1
    <3>3. QED
      BY <3>2 DEF BaseInv, LevelsOK
  <2>5. calls'[1].enter = calls[1].enter /\ calls'[1].lookup = calls[1].lookup
    BY <1>1, <1>2, <1>3
  <2>6. QED
    BY <1>1, <1>4, <1>6, <2>1, <2>3, <2>4, <2>5 DEF LevelsOK, BaseInv
<1>8. ScopesClosed'
  BY <1>3 DEF ScopesClosed
<1>9. ControlOK'
  <2>1. a \notin InSequence /\ a # "nested" /\ Top.at \in InSequence /\ Top.at # "nested"
    BY DEF InSequence
  <2>2. \A i \in 1 .. (Len(calls') - 1) :
          calls'[i].at \in InSequence <=> calls'[i + 1].at = "nested"
    <3> SUFFICES ASSUME NEW i \in 1 .. (k - 1)
                 PROVE  calls'[i].at \in InSequence <=> calls'[i + 1].at = "nested"
      BY <1>3
    <3>1. i \in 1 .. k /\ i + 1 \in 1 .. k /\ i # k
      BY <1>1
    <3>2. calls'[i] = calls[i] /\ (calls'[i + 1].at = "nested" <=> calls[i + 1].at = "nested")
      BY <1>1, <1>2, <1>3, <2>1, <3>1
    <3>3. QED
      BY <3>2 DEF BaseInv, ControlOK
  <2>3. calls'[1].at # "nested"
    BY <1>1, <1>2, <1>3, <2>1 DEF BaseInv, ControlOK
  <2>4. QED
    BY <1>2, <1>3, <1>4, <2>1, <2>2, <2>3 DEF ControlOK
<1>10. TableOK' /\ Entries' = Entries
  BY Context DEF table, TableOK, Entries, InbuiltsKept
<1>11. RefsIn(calls, Entries)'
  BY <1>1, <1>2, <1>3, <1>10 DEF RefsIn, BaseInv, EntriesOK
<1>12. display_enter' \in Levels /\ display_lookup' \in Levels
  BY <1>5, <1>6, Context, ConstantFacts DEF Levels
<1>13. QED
  BY <1>3, <1>7, <1>8, <1>9, <1>10, <1>11, <1>12, Assemble DEF PCs, BaseInv, TypeOK

\* An abort: the levels stay, and leaked tells if they are not 0.
LEMMA AbortStep ==
  ASSUME BaseInv, TableOK', abortexecution_
  PROVE  BaseInv'
<1>1. /\ calls' = <<>> /\ pc' = "main" /\ here' = NULL /\ mod_fields' = NULL
      /\ leaked' = (leaked \/ display_lookup > 0)
      /\ UNCHANGED <<display_enter, display_lookup, scopes>>
  BY DEF abortexecution_, level
<1>2. display_enter \in Nat /\ display_lookup \in Nat /\ display_enter <= display_lookup
  BY Context DEF BaseInv, LevelsOK
<1>3. LevelsOK'
  BY <1>1, <1>2 DEF LevelsOK
<1>4. ScopesClosed'
  <2>1. ~leaked' => ~(display_lookup > 0)
    BY <1>1
  <2>2. QED
    BY <1>1, <1>2, <2>1 DEF ScopesClosed
<1>5. ControlOK'
  BY <1>1 DEF ControlOK
<1>6. RefsIn(calls, Entries)'
  BY <1>1 DEF RefsIn
<1>7. QED
  BY <1>1, <1>3, <1>4, <1>5, <1>6, Assemble, Context DEF PCs, BaseInv, TypeOK, Levels

-----------------------------------------------------------------------------
(* The actions. *)

LEMMA InitBaseInv == Init => BaseInv
<1> SUFFICES ASSUME Init PROVE BaseInv
  OBVIOUS
<1> DEFINE k == Cardinality(Inbuilts)
<1>1. PICK name \in [1 .. k -> Inbuilts] :
        entry = [e \in 1 .. k |-> [NewEntry(name[e], 0) EXCEPT !.kind = "inbuilt"]]
  BY DEF Init
<1>2. k \in Nat /\ k <= SYMTABMAX
  BY ConstantFacts
<1>3. \A e \in 1 .. k :
        entry[e] = [name |-> name[e], kind |-> "inbuilt", fields |-> {}, owner |-> 0]
  BY <1>1 DEF NewEntry
<1>4. ASSUME NEW e \in 1 .. k
      PROVE  entry[e] \in Entry
  <2>1. name[e] \in Names
    BY ConstantFacts
  <2>2. [name |-> name[e], kind |-> "inbuilt", fields |-> {}, owner |-> 0] \in Entry
    BY <2>1 DEF Entry
  <2>3. QED
    BY <1>3, <2>2
<1>5. entry \in Seq(Entry) /\ Len(entry) = k
  <2>1. entry = [e \in 1 .. k |-> entry[e]]
    BY <1>1
  <2>2. entry \in [1 .. k -> Entry]
    BY <1>4, <2>1
  <2>3. QED
    BY <1>2, <2>2, LenProperties
<1>6. Entries = 1 .. k /\ \A e \in Entries : entry[e].fields = {} /\ entry[e].kind = "inbuilt"
  BY <1>3, <1>5 DEF Entries
<1>7. /\ hashentry = Entries /\ display = [i \in Levels |-> {}]
      /\ display_enter = 0 /\ display_lookup = 0 /\ pc = "main" /\ calls = <<>>
      /\ here = NULL /\ mod_fields = NULL /\ scopes = 0 /\ leaked = FALSE
  BY DEF Init
<1>8. TypeOK
  <2>1. 0 \in Levels /\ display \in [Levels -> SUBSET Entries]
    BY <1>7, ConstantFacts DEF Levels
  <2>2. calls \in Seq(Frame) /\ scopes \in 0 .. MaxScopes
    BY <1>7, ConstantFacts
  <2>3. QED
    BY <1>2, <1>5, <1>7, <2>1, <2>2 DEF TypeOK
<1>9. LevelsOK /\ ScopesClosed /\ ControlOK
  BY <1>7 DEF LevelsOK, ScopesClosed, ControlOK
<1>10. EntriesOK /\ InbuiltsKept
  BY <1>2, <1>5, <1>6, <1>7 DEF EntriesOK, InbuiltsKept
<1>11. QED
  BY <1>8, <1>9, <1>10 DEF BaseInv

\* Steps that leave the tables alone keep what is said of them.
LEMMA TableStays ==
  ASSUME TableOK, UNCHANGED table
  PROVE  TableOK' /\ Entries' = Entries
BY DEF table, TableOK, Entries, InbuiltsKept

LEMMA ReadAtomBaseInv == ASSUME BaseInv, NEW n \in Names, read_atom(n) PROVE BaseInv'
<1>1. TableOK' /\ Entries \subseteq Entries' /\ Location(n) \in Entries'
  BY Context, LookupTable DEF read_atom
<1>2. mod_fields' \in {NULL} \cup SUBSET Entries'
  BY <1>1 DEF read_atom, TableOK
<1>3. QED
  BY <1>1, <1>2, KeepCalls DEF read_atom, BaseInv, TypeOK, ControlOK, EntriesOK, PCs

LEMMA ReadFieldBaseInv == ASSUME BaseInv, NEW n \in Names, read_field(n) PROVE BaseInv'
<1>1. TableOK' /\ Entries \subseteq Entries'
  BY Context, LookupTable DEF read_field
<1>2. Found(mod_fields, n) # {} /\ mod_fields \in SUBSET Entries
  BY DEF read_field, BaseInv, TypeOK
<1>3. Newest(Found(mod_fields, n)) \in Entries
  <2>1. Len(entry) \in Nat
    BY Context DEF TableOK
  <2>2. Found(mod_fields, n) \in SUBSET (1 .. Len(entry))
    BY <1>2 DEF Found, Entries
  <2>3. QED
    BY <1>2, <2>1, <2>2, NewestIn DEF Entries
<1>4. mod_fields' \in {NULL} \cup SUBSET Entries'
  BY <1>1, <1>3, Context DEF read_field, TableOK
<1>5. QED
  BY <1>1, <1>4, KeepCalls DEF read_field, BaseInv, TypeOK, ControlOK, EntriesOK, PCs

LEMMA ReadNoFieldBaseInv == ASSUME BaseInv, read_no_field PROVE BaseInv'
BY TableStays, Context, KeepCalls DEF read_no_field, BaseInv, TypeOK, ControlOK, EntriesOK, PCs

LEMMA ReadBadFieldBaseInv == ASSUME BaseInv, NEW n \in Names, read_bad_field(n) PROVE BaseInv'
BY Context, LookupTable, AbortStep DEF read_bad_field

LEMMA ExecerrorBaseInv == ASSUME BaseInv, execerror PROVE BaseInv'
BY Context, TableStays, AbortStep DEF execerror

LEMMA ModuleUnnamedBaseInv == ASSUME BaseInv, module_unnamed PROVE BaseInv'
BY Context, TableStays, AbortStep DEF module_unnamed

\* Steps that only move control.
LEMMA ControlBaseInv ==
  ASSUME BaseInv, \/ main_compound \/ definition_empty \/ defsequence_goes_on
               \/ compound_empty \/ main_goes_on \/ display_overruns
  PROVE  BaseInv'
<1>1. TableOK' /\ Entries' = Entries
  BY Context, TableStays DEF main_compound, definition_empty, defsequence_goes_on,
     compound_empty, main_goes_on, display_overruns
<1>2. CASE main_compound \/ compound_empty
  BY <1>1, <1>2, KeepCalls
  DEF main_compound, compound_empty, BaseInv, TypeOK, ControlOK, InSequence, PCs
<1>3. CASE definition_empty \/ defsequence_goes_on
  BY <1>1, <1>3, KeepCalls DEF definition_empty, defsequence_goes_on, BaseInv, TypeOK, ControlOK, PCs
<1>4. CASE main_goes_on \/ display_overruns
  BY <1>1, <1>4, KeepCalls DEF main_goes_on, display_overruns, BaseInv, TypeOK, PCs
<1>5. QED
  BY <1>2, <1>3, <1>4

LEMMA DefinitionAtomBaseInv == ASSUME BaseInv, NEW n \in Names, definition_atom(n) PROVE BaseInv'
<1>1. /\ TableOK' /\ Entries \subseteq Entries' /\ here' \in Entries' /\ ~IsInbuilt(here')
  <2>1. CASE IsInbuilt(EnteredAt(n))
    <3>1. enterglobal(n) /\ here' = Len(entry) + 1
      BY <2>1 DEF definition_atom
    <3>2. QED
      BY <3>1, Context, AddEntry, 0 \in Nat DEF enterglobal
  <2>2. CASE ~IsInbuilt(EnteredAt(n))
    BY <2>2, Context, EnteratomTable DEF definition_atom
  <2>3. QED
    BY <2>1, <2>2
<1>2. QED
  BY <1>1, KeepCalls DEF definition_atom, BaseInv, TypeOK, ControlOK, PCs

LEMMA ModuleNameBaseInv == ASSUME BaseInv, NEW n \in Names, module_name(n) PROVE BaseInv'
<1>1. TableOK' /\ Entries \subseteq Entries' /\ here' \in Entries'
  BY Context, EnteratomTable DEF module_name
<1>2. QED
  BY <1>1, KeepCalls DEF module_name, BaseInv, TypeOK, ControlOK, PCs

LEMMA DefinitionAssignsBaseInv == ASSUME BaseInv, definition_assigns PROVE BaseInv'
<1>1. here \in Entries /\ ~IsInbuilt(here)
  BY DEF definition_assigns, BaseInv, ControlOK, EntriesOK
<1>2. TableOK' /\ Entries' = Entries
  <2>1. /\ entry' = [entry EXCEPT ![here].kind = "body", ![here].fields = {}]
        /\ UNCHANGED <<hashentry, display>>
    BY DEF definition_assigns
  <2>2. "body" \in {"body", "module"} /\ {} \in SUBSET Entries
    OBVIOUS
  <2>3. QED
    BY <1>1, <2>1, <2>2, Context, SetEntry
<1>3. QED
  BY <1>2, KeepCalls DEF definition_assigns, BaseInv, TypeOK, ControlOK, PCs

\* The record of an activation that begins is one.
LEMMA CallType ==
  ASSUME BaseInv, NEW a \in {"public", "nested", "module", "hidden", "inside"}
  PROVE  /\ Call(a) \in Frame /\ Call(a).at = a
         /\ Call(a).enter = display_enter /\ Call(a).lookup = display_lookup
         /\ Call(a).oldplace = {}
BY Context, ConstantFacts DEF Call, Frame

LEMMA DefinitionCompoundBaseInv == ASSUME BaseInv, definition_compound PROVE BaseInv'
<1> DEFINE f == Call("nested")
<1>1. /\ f \in Frame /\ f.at = "nested" /\ f.enter = display_enter
      /\ f.lookup = display_lookup /\ f.oldplace = {}
  BY CallType
<1>2. calls' = Append(calls, f) /\ UNCHANGED <<table, level, here, mod_fields, scopes, leaked>>
      /\ pc = "seq" /\ pc' = "compound"
  BY DEF definition_compound, Push
<1>3. TableOK' /\ Entries' = Entries
  BY <1>2, Context, TableStays
<1>4. FrameOK(f) /\ EnterAfter(f) = display_enter /\ LookupAfter(f) = display_lookup
  BY <1>1, Context DEF FrameOK, EnterAfter, LookupAfter, BaseInv, LevelsOK
<1> HIDE DEF f
<1>5. QED
  BY <1>1, <1>2, <1>3, <1>4, Context, PushCalls DEF level, BaseInv, TypeOK, InSequence

LEMMA PublicBeginsBaseInv == ASSUME BaseInv, public_begins PROVE BaseInv'
<1> DEFINE f == Call("public")
<1>1. /\ f \in Frame /\ f.at = "public" /\ f.enter = display_enter
      /\ f.lookup = display_lookup /\ f.oldplace = {}
  BY CallType
<1>2. calls' = Append(calls, f) /\ UNCHANGED <<table, level, here, mod_fields, scopes, leaked>>
      /\ pc = "compound" /\ pc' = "seq"
  BY DEF public_begins, Push
<1>3. TableOK' /\ Entries' = Entries
  BY <1>2, Context, TableStays
<1>4. FrameOK(f) /\ EnterAfter(f) = display_enter /\ LookupAfter(f) = display_lookup
  BY <1>1, Context DEF FrameOK, EnterAfter, LookupAfter, BaseInv, LevelsOK
<1> HIDE DEF f
<1>5. QED
  BY <1>1, <1>2, <1>3, <1>4, Context, PushCalls DEF level, BaseInv, TypeOK, InSequence

LEMMA MarkLostFacts ==
  ASSUME BaseInv
  PROVE  /\ MarkLost \in Seq(Frame) /\ Len(MarkLost) = Len(calls)
         /\ \A i \in 1 .. Len(calls) :
              /\ MarkLost[i].at = calls[i].at /\ MarkLost[i].here = calls[i].here
              /\ MarkLost[i].oldplace = calls[i].oldplace
              /\ MarkLost[i].enter = calls[i].enter /\ MarkLost[i].lookup = calls[i].lookup
<1> DEFINE b(i) == \/ calls[i].lost
                   \/ /\ calls[i].at \in {"hidden_public", "inside_public"}
                      /\ calls[i].enter = display_enter
<1>1. MarkLost = [i \in 1 .. Len(calls) |-> [calls[i] EXCEPT !.lost = b(i)]]
  BY DEF MarkLost
<1>2. \A i \in 1 .. Len(calls) : b(i) \in BOOLEAN
  <2>1. \A i \in 1 .. Len(calls) : calls[i].lost \in BOOLEAN
    BY Context DEF Frame
  <2>2. QED
    BY <2>1
<1> HIDE DEF b
<1>3. ASSUME NEW i \in 1 .. Len(calls)
      PROVE  /\ MarkLost[i] \in Frame
             /\ MarkLost[i].at = calls[i].at /\ MarkLost[i].here = calls[i].here
             /\ MarkLost[i].oldplace = calls[i].oldplace
             /\ MarkLost[i].enter = calls[i].enter /\ MarkLost[i].lookup = calls[i].lookup
  <2>1. MarkLost[i] = [calls[i] EXCEPT !.lost = b(i)] /\ calls[i] \in Frame /\ b(i) \in BOOLEAN
    BY <1>1, <1>2, Context
  <2>2. QED
    BY <2>1 DEF Frame
<1>4. MarkLost \in [1 .. Len(calls) -> Frame]
  <2>1. MarkLost = [i \in 1 .. Len(calls) |-> MarkLost[i]]
    BY <1>1
  <2>2. QED
    BY <1>3, <2>1
<1>5. MarkLost \in Seq(Frame) /\ Len(MarkLost) = Len(calls)
  BY <1>4, Context, LenProperties
<1>6. QED
  BY <1>3, <1>5

\* Modules and hides that begin with a table of their own.
LEMMA NewTableBaseInv ==
  ASSUME BaseInv, NEW c \in Frame, NewTable(c), Fits,
         pc \in {"compound", "module"}, pc' \in {"seq", "compound"},
         c.at \in {"module", "hidden"}, c.at = "hidden" => display_enter = display_lookup,
         c.at = "hidden" <=> pc' = "seq",
         c.at = "module" => c.here \in Entries, c.oldplace = {},
         c.enter = display_enter, c.lookup = display_lookup,
         here' \in Entries \cup {NULL}
  PROVE  BaseInv'
<1> DEFINE f == [c EXCEPT !.id = scopes + 1]
<1>1. /\ calls' = Append(MarkLost, f) /\ scopes' = scopes + 1 /\ scopes < MaxScopes
      /\ display_enter' = display_enter + 1 /\ display_lookup' = display_lookup + 1
      /\ display' = [display EXCEPT ![display_enter + 1] = {}]
      /\ UNCHANGED <<entry, hashentry, mod_fields, leaked>>
  BY DEF NewTable
<1>2. scopes \in Nat /\ scopes' \in 0 .. MaxScopes
  BY <1>1, ConstantFacts DEF BaseInv, TypeOK
<1>3. /\ f \in Frame /\ f.at = c.at /\ f.here = c.here /\ f.oldplace = c.oldplace
      /\ f.enter = c.enter /\ f.lookup = c.lookup
  BY <1>2 DEF Frame
<1>4. display_enter' \in Levels /\ display_lookup' \in Levels
  BY <1>1, Context, ConstantFacts DEF Levels, Fits
<1>5. TableOK' /\ Entries' = Entries
  BY <1>1, Context DEF TableOK, Entries, InbuiltsKept
<1>6. /\ FrameOK(f) /\ EnterAfter(f) = display_enter + 1
      /\ LookupAfter(f) = display_lookup + 1
  BY <1>3, Context DEF FrameOK, EnterAfter, LookupAfter, BaseInv, LevelsOK
<1>7. f.at # "nested" /\ (f.at \in InSequence <=> pc' = "seq")
  BY <1>3 DEF InSequence
<1>8. f.at = "module" => f.here \in Entries' /\ f.oldplace \subseteq Entries'
  BY <1>3, <1>5
<1>9. mod_fields' \in {NULL} \cup SUBSET Entries'
  BY <1>1, <1>5 DEF BaseInv, TypeOK
<1> HIDE DEF f
<1>10. QED
  BY <1>1, <1>2, <1>3, <1>4, <1>5, <1>6, <1>7, <1>8, <1>9, MarkLostFacts, PushCalls

LEMMA ModuleBeginsBaseInv == ASSUME BaseInv, module_begins PROVE BaseInv'
<1>1. here \in Entries /\ Entries \subseteq 1 .. SYMTABMAX
  BY Context, ConstantFacts DEF module_begins, BaseInv, ControlOK, TableOK, Entries
<1> DEFINE c == [Call("module") EXCEPT !.here = here]
<1>2. /\ c \in Frame /\ c.at = "module" /\ c.here = here /\ c.oldplace = {}
      /\ c.enter = display_enter /\ c.lookup = display_lookup
  <2>1. Call("module") \in Frame
    BY CallType
  <2>2. c \in Frame
    BY <1>1, <2>1 DEF Frame
  <2>3. QED
    BY <2>1, <2>2, CallType DEF Frame
<1>3. NewTable(c) /\ Fits /\ pc = "module" /\ pc' = "compound" /\ here' = NULL
  BY DEF module_begins
<1> HIDE DEF c
<1>4. QED
  BY <1>1, <1>2, <1>3, NewTableBaseInv

LEMMA HideBeginsBaseInv == ASSUME BaseInv, hide_begins PROVE BaseInv'
<1> DEFINE c == Call("hidden")
<1>1. /\ c \in Frame /\ c.at = "hidden" /\ c.oldplace = {}
      /\ c.enter = display_enter /\ c.lookup = display_lookup
  BY CallType
<1>2. NewTable(c) /\ Fits /\ pc = "compound" /\ pc' = "seq" /\ here' = here
  BY DEF hide_begins
<1>3. display_enter = display_lookup
  BY Context DEF hide_begins, BaseInv, LevelsOK
<1>4. here' \in Entries \cup {NULL}
  BY <1>2 DEF BaseInv, TypeOK
<1> HIDE DEF c
<1>5. QED
  BY <1>1, <1>2, <1>3, <1>4, NewTableBaseInv

LEMMA InsideBeginsBaseInv == ASSUME BaseInv, inside_begins PROVE BaseInv'
<1> DEFINE c == Call("inside")
           f == [c EXCEPT !.oldplace = display[display_lookup], !.id = scopes + 1]
<1>1. /\ c \in Frame /\ c.at = "inside" /\ c.enter = display_enter
      /\ c.lookup = display_lookup
  BY CallType
<1>2. /\ calls' = Append(calls, f) /\ scopes' = scopes + 1 /\ scopes < MaxScopes
      /\ display_enter' = display_enter + 1 /\ display_lookup' = display_lookup
      /\ display_lookup > display_enter /\ pc = "compound" /\ pc' = "seq"
      /\ UNCHANGED <<table, here, mod_fields, leaked>>
  BY DEF inside_begins, Push
<1>3. TableOK' /\ Entries' = Entries
  BY <1>2, Context, TableStays
<1>4. display[display_lookup] \in SUBSET Entries /\ Entries \subseteq 1 .. SYMTABMAX
  BY Context, ConstantFacts DEF TableOK, Entries
<1>5. scopes \in Nat /\ scopes' \in 0 .. MaxScopes
  BY <1>2, ConstantFacts DEF BaseInv, TypeOK
<1>6. /\ f \in Frame /\ f.at = "inside" /\ f.oldplace = display[display_lookup]
      /\ f.enter = display_enter /\ f.lookup = display_lookup
  <2> HIDE DEF c
  <2>1. display[display_lookup] \in SUBSET (1 .. SYMTABMAX)
    BY <1>4
  <2>2. scopes + 1 \in Nat
    BY <1>5
  <2>3. QED
    BY <1>1, <2>1, <2>2 DEF Frame
<1>7. display_enter' \in Levels /\ display_lookup' \in Levels
  BY <1>2, Context, ConstantFacts DEF Levels
<1>8. /\ FrameOK(f) /\ EnterAfter(f) = display_enter + 1 /\ LookupAfter(f) = display_lookup
  <2> HIDE DEF f
  <2>1. QED
    BY <1>2, <1>6, Context DEF FrameOK, EnterAfter, LookupAfter, BaseInv, LevelsOK
<1>9. here' \in Entries' \cup {NULL} /\ mod_fields' \in {NULL} \cup SUBSET Entries'
  BY <1>2, <1>3 DEF BaseInv, TypeOK
<1> HIDE DEF f
<1>10. QED
  BY <1>2, <1>3, <1>4, <1>5, <1>6, <1>7, <1>8, <1>9, Context, PushCalls DEF InSequence

\* The levels while the innermost activation is of each kind.
LEMMA TopLevels ==
  ASSUME BaseInv, calls # <<>>
  PROVE  /\ Top.enter \in Levels /\ Top.lookup \in Levels
         /\ Top.enter <= Top.lookup /\ Top.enter \in Nat /\ Top.lookup \in Nat
         /\ display_enter = EnterAfter(Top) /\ display_lookup = LookupAfter(Top)
         /\ Top.at = "module" => Top.here \in Entries
         /\ Top.oldplace \in SUBSET Entries
<1>1. Top \in Frame /\ Top = calls[Len(calls)] /\ Len(calls) \in 1 .. Len(calls)
  BY Context DEF Top
<1>2. /\ display_enter = EnterAfter(Top) /\ display_lookup = LookupAfter(Top) /\ FrameOK(Top)
      /\ Top.at = "module" => Top.here \in Entries
      /\ Top.oldplace \in SUBSET Entries
  BY <1>1 DEF BaseInv, LevelsOK, EntriesOK
<1>3. Top.enter \in Nat /\ Top.lookup \in Nat
  BY <1>1, FrameFields
<1>4. Top.enter <= EnterAfter(Top) /\ Top.lookup <= LookupAfter(Top)
  BY <1>3 DEF EnterAfter, LookupAfter
<1>5. Top.enter \in Levels /\ Top.lookup \in Levels
  BY <1>2, <1>3, <1>4, Context, ConstantFacts DEF Levels
<1>6. QED
  BY <1>2, <1>3, <1>5 DEF FrameOK

LEMMA PublicEndsBaseInv == ASSUME BaseInv, public_ends PROVE BaseInv'
<1>1. calls # <<>> /\ Top.at = "public"
  BY DEF public_ends, BaseInv, ControlOK
<1>2. display_enter = Top.enter /\ display_lookup = Top.lookup
  BY <1>1, TopLevels DEF EnterAfter, LookupAfter
<1>3. TableOK' /\ Entries' = Entries
  BY Context, TableStays DEF public_ends
<1>4. QED
  BY <1>1, <1>2, <1>3, TopLevels, PopCalls DEF public_ends, level

LEMMA NestedEndsBaseInv == ASSUME BaseInv, nested_ends PROVE BaseInv'
<1>1. calls # <<>> /\ Top.at = "nested"
  BY DEF nested_ends
<1>2. display_enter = Top.enter /\ display_lookup = Top.lookup
  BY <1>1, TopLevels DEF EnterAfter, LookupAfter
<1>3. TableOK' /\ Entries' = Entries
  BY Context, TableStays DEF nested_ends
<1>4. QED
  BY <1>1, <1>2, <1>3, TopLevels, PopCalls DEF nested_ends, level

LEMMA HideEndsBaseInv == ASSUME BaseInv, hide_ends PROVE BaseInv'
<1>1. calls # <<>> /\ Top.at = "hidden_public"
  BY DEF hide_ends
<1>2. display_enter = Top.enter /\ display_lookup - 1 = Top.lookup
  BY <1>1, TopLevels DEF EnterAfter, LookupAfter
<1>3. TableOK' /\ Entries' = Entries
  BY Context, TableStays DEF hide_ends
<1>4. QED
  BY <1>1, <1>2, <1>3, TopLevels, PopCalls DEF hide_ends

LEMMA InsideEndsBaseInv == ASSUME BaseInv, inside_ends PROVE BaseInv'
<1>1. calls # <<>> /\ Top.at = "inside_public"
  BY DEF inside_ends
<1>2. display_enter = Top.enter /\ display_lookup = Top.lookup
  BY <1>1, TopLevels DEF EnterAfter, LookupAfter
<1>3. TableOK' /\ Entries' = Entries
  <2>1. /\ display' = [display EXCEPT ![display_lookup] = Top.oldplace]
        /\ UNCHANGED <<entry, hashentry>>
    BY DEF inside_ends
  <2>2. QED
    BY <1>1, <2>1, TopLevels, Context DEF TableOK, Entries, InbuiltsKept
<1>4. QED
  BY <1>1, <1>2, <1>3, TopLevels, PopCalls DEF inside_ends, level

LEMMA ModuleEndsBaseInv == ASSUME BaseInv, module_ends PROVE BaseInv'
<1>1. calls # <<>> /\ Top.at = "module" /\ Top.here \in Entries
  BY TopLevels DEF module_ends
<1>2. display_enter - 1 = Top.enter /\ display_lookup - 1 = Top.lookup
  BY <1>1, TopLevels DEF EnterAfter, LookupAfter
<1>3. TableOK' /\ Entries' = Entries
  <2>1. /\ entry' = [entry EXCEPT ![Top.here].kind = "module",
                                  ![Top.here].fields = display[display_enter]]
        /\ UNCHANGED <<hashentry, display>>
    BY DEF module_ends
  <2>2. display[display_enter] \in SUBSET Entries /\ "module" \in {"body", "module"}
    BY Context DEF TableOK
  <2>3. QED
    BY <1>1, <2>1, <2>2, Context, SetEntry
<1>4. QED
  BY <1>1, <1>2, <1>3, TopLevels, PopCalls DEF module_ends

LEMMA HiddenEndsBaseInv == ASSUME BaseInv, hide_public \/ inside_public PROVE BaseInv'
<1>1. CASE hide_public
  BY <1>1, SetTop DEF hide_public
<1>2. CASE inside_public
  BY <1>2, SetTop DEF inside_public
<1>3. QED
  BY <1>1, <1>2

\* A step that changes nothing keeps the invariant.
LEMMA StutterBaseInv == ASSUME BaseInv, UNCHANGED vars PROVE BaseInv'
BY DEF vars, table, level, BaseInv, TypeOK, LevelsOK, ScopesClosed, ControlOK, EntriesOK,
   InbuiltsKept, Entries, Top, FrameOK, EnterAfter, LookupAfter, IsInbuilt

LEMMA NextBaseInv == BaseInv /\ [Next]_vars => BaseInv'
<1> SUFFICES ASSUME BaseInv, [Next]_vars PROVE BaseInv'
  OBVIOUS
<1>1. CASE Reading
  BY <1>1, ReadAtomBaseInv, ReadFieldBaseInv, ReadBadFieldBaseInv, ReadNoFieldBaseInv, ExecerrorBaseInv
  DEF Reading
<1>2. CASE Definition
  BY <1>2, DefinitionCompoundBaseInv, ControlBaseInv, DefinitionAssignsBaseInv, DefinitionAtomBaseInv
  DEF Definition
<1>3. CASE Compound
  BY <1>3, ControlBaseInv, PublicBeginsBaseInv, PublicEndsBaseInv, ModuleNameBaseInv, ModuleUnnamedBaseInv,
     ModuleBeginsBaseInv, ModuleEndsBaseInv, HideBeginsBaseInv, HiddenEndsBaseInv, HideEndsBaseInv,
     InsideBeginsBaseInv, InsideEndsBaseInv, NestedEndsBaseInv
  DEF Compound
<1>4. CASE UNCHANGED vars
  BY <1>4, StutterBaseInv
<1>5. QED
  BY <1>1, <1>2, <1>3, <1>4 DEF Next

-----------------------------------------------------------------------------
(* Theorems. *)

\* BaseInv holds in every state: the innermost activation of compound_def tells
\* what the levels of the display are.
THEOREM LevelsInvariant == Spec => []BaseInv
<1>1. QED
  BY InitBaseInv, NextBaseInv, PTL DEF Spec

\* Every variable keeps its type; the levels never leave display[].
THEOREM TypeCorrect == Spec => []TypeOK
<1>1. BaseInv => TypeOK
  BY DEF BaseInv
<1>2. QED
  BY <1>1, LevelsInvariant, PTL

\* A definition that ends, however deep its modules and hides are nested and
\* whatever errors it has, leaves both levels at 0, unless it is aborted.
THEOREM DefinitionsClose == Spec => []ScopesClosed
<1>1. BaseInv => ScopesClosed
  BY DEF BaseInv
<1>2. QED
  BY <1>1, LevelsInvariant, PTL

\* No definition changes an inbuilt operator; only MODULE takes its entry.
THEOREM InbuiltsSurvive == Spec => []InbuiltsKept
<1>1. BaseInv => InbuiltsKept
  BY DEF BaseInv
<1>2. QED
  BY <1>1, LevelsInvariant, PTL

-----------------------------------------------------------------------------
(***************************************************************************)
(* Scopes.                                                                 *)
(***************************************************************************)
\* The activations, and the levels they set.
LEMMA Activations ==
  ASSUME BaseInv
  PROVE  /\ Len(calls) \in Nat /\ scopes \in Nat /\ Len(entry) \in Nat
         /\ Open \subseteq 1 .. Len(calls) /\ Entering \subseteq Open
         /\ \A i \in 1 .. Len(calls) :
              /\ calls[i].enter \in Nat /\ calls[i].lookup \in Nat /\ calls[i].id \in Nat
              /\ calls[i].lost \in BOOLEAN /\ calls[i].enter <= calls[i].lookup
              /\ EnterAfter(calls[i]) \in Nat /\ LevelOf(i) \in Nat
              /\ EnterAfter(calls[i]) = IF i \in Entering THEN calls[i].enter + 1 ELSE calls[i].enter
              /\ LevelOf(i) = IF i \in Open /\ calls[i].at \notin {"inside", "inside_public"}
                              THEN calls[i].lookup + 1 ELSE calls[i].lookup
              /\ calls[i].at \in {"hidden", "hidden_public"} => calls[i].enter = calls[i].lookup
              /\ calls[i].at \in {"inside", "inside_public"} => calls[i].enter < calls[i].lookup
              /\ i \in Open <=> calls[i].at \in {"module", "hidden", "hidden_public", "inside", "inside_public"}
              /\ i \in Open \ Entering <=> calls[i].at \in {"hidden_public", "inside_public"}
         /\ calls # <<>> => display_enter = EnterAfter(Top) /\ display_lookup = LevelOf(Len(calls))
         /\ calls = <<>> <=> Len(calls) = 0
<1>1. /\ Len(calls) \in Nat /\ \A i \in 1 .. Len(calls) : calls[i] \in Frame
      /\ calls \in Seq(Frame)
  BY Context
<1>2. scopes \in Nat /\ Len(entry) \in Nat
  BY ConstantFacts DEF BaseInv, TypeOK
<1>3. Open \subseteq 1 .. Len(calls) /\ Entering \subseteq Open
  BY DEF Open, Entering
<1>4. ASSUME NEW i \in 1 .. Len(calls)
      PROVE  /\ calls[i].enter \in Nat /\ calls[i].lookup \in Nat /\ calls[i].id \in Nat
             /\ calls[i].lost \in BOOLEAN
             /\ calls[i].at \in {"public", "nested", "module", "hidden", "hidden_public",
                                 "inside", "inside_public"}
  BY <1>1 DEF Frame
<1>5. \A i \in 1 .. Len(calls) : FrameOK(calls[i])
  BY DEF BaseInv, LevelsOK
<1>6. ASSUME NEW i \in 1 .. Len(calls)
      PROVE  /\ EnterAfter(calls[i]) = IF i \in Entering THEN calls[i].enter + 1 ELSE calls[i].enter
             /\ LevelOf(i) = IF i \in Open /\ calls[i].at \notin {"inside", "inside_public"}
                              THEN calls[i].lookup + 1 ELSE calls[i].lookup
             /\ i \in Open <=> calls[i].at \in {"module", "hidden", "hidden_public", "inside", "inside_public"}
             /\ i \in Open \ Entering <=> calls[i].at \in {"hidden_public", "inside_public"}
  BY <1>4 DEF EnterAfter, LevelOf, LookupAfter, Open, Entering
<1>7. calls # <<>> => display_enter = EnterAfter(Top) /\ display_lookup = LevelOf(Len(calls))
  BY DEF BaseInv, LevelsOK, LevelOf, Top
<1>8. calls = <<>> <=> Len(calls) = 0
  BY <1>1
<1>9. QED
  BY <1>1, <1>2, <1>3, <1>4, <1>5, <1>6, <1>7, <1>8 DEF FrameOK

\* What the steps that keep the lower activations have in common: of each entry
\* the owner stays, and those added belong to no scope.
OwnersStay ==
  /\ Entries \subseteq Entries'
  /\ \A e \in Entries : entry'[e].owner = entry[e].owner
  /\ \A e \in Entries' \ Entries : entry'[e].owner = 0
  /\ hashentry' \subseteq hashentry \cup (Entries' \ Entries)

\* A step after which there are the activations below some depth.
LEMMA LowerActivations ==
  ASSUME BaseInv, ScopesInv, OwnersStay,
         Len(calls') \in 0 .. Len(calls), \A i \in 1 .. Len(calls') : calls'[i] = calls[i],
         scopes' = scopes, leaked' = leaked \/ Len(calls') = 0,
         \A i \in Open : i <= Len(calls') /\ Pure(i)
           /\ (\A k \in Open : i < k /\ k <= Len(calls') => LevelOf(k) # LevelOf(i))
           => display'[LevelOf(i)] = OwnedByAny(Sharing(i))
  PROVE  ScopesInv'
<1> DEFINE m == Len(calls')
<1>1. m \in Nat /\ m <= Len(calls)
  BY Activations
<1>2. /\ \A i \in 1 .. m : calls'[i] = calls[i] /\ LevelOf(i)' = LevelOf(i)
      /\ 1 .. m \subseteq 1 .. Len(calls)
  BY <1>1, Activations DEF LevelOf
<1>3. Open' = {i \in Open : i <= m} /\ Entering' = {i \in Entering : i <= m}
  BY <1>1, <1>2, Activations DEF Open, Entering
<1>4. \A i \in Open' : i \in Open /\ i \in 1 .. m /\ (Pure(i)' => Pure(i))
  BY <1>1, <1>2, <1>3, Activations DEF Pure
<1>5. \A i \in Open' : Sharing(i)' = Sharing(i)
  BY <1>1, <1>2, <1>3, <1>4, Activations DEF Sharing
<1>6. \A i \in Open' : OwnedBy(i)' = OwnedBy(i)
  <2>1. \A i \in Open' : calls'[i].id = calls[i].id /\ calls[i].id # 0
    BY <1>2, <1>4, Activations DEF ScopesInv, NumbersOK
  <2>2. QED
    BY <2>1 DEF OwnedBy, OwnersStay
<1>7. \A i \in Open' : /\ OwnedByAny(Sharing(i))' = OwnedByAny(Sharing(i))
                       /\ OwnedByAny(Sharing(i) \ {i})' = OwnedByAny(Sharing(i) \ {i})
  <2>1. \A i \in Open' : \A j \in Sharing(i) : j \in Open'
    BY <1>1, <1>3, <1>4, Activations DEF Sharing
  <2>2. \A i : OwnedBy(i) \subseteq Entries /\ OwnedBy(i)' \subseteq Entries'
    BY DEF OwnedBy
  <2>3. QED
    BY <1>5, <1>6, <2>1, <2>2 DEF OwnedByAny, OwnersStay
<1>8. NumbersOK'
  <2>1. \A e \in Entries' : entry'[e].owner \in 0 .. scopes
    BY Activations DEF OwnersStay, ScopesInv, NumbersOK
  <2>2. \A e \in hashentry' : entry'[e].owner = 0
    BY Context DEF OwnersStay, ScopesInv, NumbersOK, TableOK
  <2>3. QED
    BY <1>2, <1>4, <2>1, <2>2 DEF ScopesInv, NumbersOK
<1>9. NestingOK'
  <2>1. ASSUME NEW i \in 1 .. m, NEW j \in 1 .. m
        PROVE  /\ i < j => EnterAfter(calls'[i]) <= calls'[j].enter /\ LevelOf(i)' <= calls'[j].lookup
               /\ i <= j /\ (\A k \in (i + 1) .. j : k \notin Entering')
                    => EnterAfter(calls'[j]) = EnterAfter(calls'[i])
    BY <1>1, <1>2, <1>3 DEF ScopesInv, NestingOK
  <2>2. ASSUME ~leaked', NEW j \in 1 .. m
        PROVE  /\ (\A k \in 1 .. j : k \notin Entering') => EnterAfter(calls'[j]) = 0
               /\ \A l \in 1 .. LevelOf(j)' : \E i \in Open' : i <= j /\ LevelOf(i)' = l
    <3>1. ~leaked
      BY <2>2
    <3>2. (\A k \in 1 .. j : k \notin Entering') => EnterAfter(calls'[j]) = 0
      BY <1>1, <1>2, <1>3, <3>1 DEF ScopesInv, NestingOK
    <3>3. \A l \in 1 .. LevelOf(j)' : \E i \in Open : i <= j /\ LevelOf(i) = l
      BY <1>2, <3>1 DEF ScopesInv, NestingOK
    <3>4. \A i \in Open : i <= j => i \in Open' /\ LevelOf(i)' = LevelOf(i)
      BY <1>1, <1>2, <1>3, Activations
    <3>5. QED
      BY <3>2, <3>3, <3>4
  <2>3. QED
    BY <2>1, <2>2 DEF NestingOK
<1>10. SharingOK'
  <2>1. \A i \in Open' : calls'[i] = calls[i] /\ LevelOf(i)' = LevelOf(i)
    BY <1>2, <1>4
  <2>2. ASSUME NEW i \in Open', NEW j \in Open', i < j, calls'[i].enter = calls'[j].enter
        PROVE  /\ calls'[j].lost => calls'[i].lost
               /\ Pure(i)' => LevelOf(i)' = LevelOf(j)'
    BY <1>4, <2>1, <2>2 DEF ScopesInv, SharingOK
  <2>3. ASSUME NEW i \in Open', Pure(i)'
        PROVE  LevelOf(i)' = calls'[i].enter + 1
    BY <1>4, <2>1, <2>3 DEF ScopesInv, SharingOK
  <2>4. QED
    BY <2>2, <2>3 DEF SharingOK
<1>11. TablesOK'
  <2> SUFFICES ASSUME NEW i \in Open', Pure(i)'
               PROVE  /\ (\A k \in Open' : k > i => LevelOf(k)' # LevelOf(i)')
                           => display'[LevelOf(i)'] = OwnedByAny(Sharing(i))'
                      /\ calls'[i].at \in {"inside", "inside_public"}
                           => calls'[i].oldplace = OwnedByAny(Sharing(i) \ {i})'
                      /\ \A j \in Sharing(i)' \ {i} : \A e \in OwnedBy(j)', f \in OwnedBy(i)' : e < f
    BY DEF TablesOK
  <2>1. i \in Open /\ Pure(i) /\ i \in 1 .. m
    BY <1>4
  <2>2. (\A k \in Open' : k > i => LevelOf(k)' # LevelOf(i)')
         => display'[LevelOf(i)'] = OwnedByAny(Sharing(i))'
    <3> SUFFICES ASSUME \A k \in Open' : k > i => LevelOf(k)' # LevelOf(i)'
                 PROVE  display'[LevelOf(i)'] = OwnedByAny(Sharing(i))'
      OBVIOUS
    <3>1. ASSUME NEW k \in Open, i < k, k <= m
          PROVE  LevelOf(k) # LevelOf(i)
      <4>1. k \in Open' /\ k \in 1 .. m /\ k > i
        BY <1>1, <1>3, <2>1, <3>1, Activations
      <4>2. QED
        BY <1>2, <2>1, <4>1
    <3>2. i <= m
      BY <1>1, <2>1
    <3>3. display'[LevelOf(i)] = OwnedByAny(Sharing(i))
      BY <2>1, <3>1, <3>2
    <3>4. QED
      BY <1>2, <1>7, <2>1, <3>3
  <2>3. \A j \in Sharing(i) : j \in Open' /\ j \in Open
    BY <1>1, <1>3, <2>1, Activations DEF Sharing
  <2>4. QED
    BY <1>2, <1>5, <1>6, <1>7, <2>1, <2>2, <2>3 DEF ScopesInv, TablesOK
<1>12. QED
  BY <1>8, <1>9, <1>10, <1>11 DEF ScopesInv

\* No activation is looked up, or entered, above the innermost one.
LEMMA Highest ==
  ASSUME BaseInv, ScopesInv, NEW i \in 1 .. Len(calls)
  PROVE  /\ EnterAfter(calls[i]) <= display_enter /\ LevelOf(i) <= display_lookup
         /\ LevelOf(i) \in Levels
<1>1. Len(calls) \in 1 .. Len(calls) /\ Len(calls) \in Nat /\ Top = calls[Len(calls)] /\ calls # <<>>
  BY Activations DEF Top
<1>2. display_enter = EnterAfter(calls[Len(calls)]) /\ display_lookup = LevelOf(Len(calls))
  BY <1>1, Activations
<1>3. CASE i = Len(calls)
  BY <1>1, <1>2, <1>3, Context, Activations
<1>4. CASE i # Len(calls)
  <2> DEFINE k == Len(calls)
  <2>1. EnterAfter(calls[i]) <= calls[k].enter /\ LevelOf(i) <= calls[k].lookup
    BY <1>1, <1>4 DEF ScopesInv, NestingOK
  <2> k \in 1 .. Len(calls)
    BY <1>1
  <2>2. calls[k].enter <= EnterAfter(calls[k]) /\ calls[k].lookup <= LevelOf(k)
    <3>1. /\ calls[k].enter \in Nat /\ calls[k].lookup \in Nat
          /\ EnterAfter(calls[k]) \in {calls[k].enter, calls[k].enter + 1}
          /\ LevelOf(k) \in {calls[k].lookup, calls[k].lookup + 1}
      BY Activations
    <3> HIDE DEF k
    <3>2. QED
      BY <3>1
  <2>3. /\ calls[k].enter \in Nat /\ calls[k].lookup \in Nat /\ EnterAfter(calls[i]) \in Nat
        /\ EnterAfter(calls[k]) \in Nat /\ LevelOf(i) \in Nat /\ LevelOf(k) \in Nat
    BY <1>1, Activations
  <2> HIDE DEF k
  <2>4. EnterAfter(calls[i]) <= EnterAfter(calls[k]) /\ LevelOf(i) <= LevelOf(k)
    BY <2>1, <2>2, <2>3
  <2>5. LevelOf(k) \in Levels
    BY <1>2, Context DEF k
  <2>6. LevelOf(i) \in Levels
    BY <2>3, <2>4, <2>5, ConstantFacts DEF Levels
  <2>7. QED
    BY <1>2, <2>4, <2>6 DEF k
<1>5. QED
  BY <1>3, <1>4

\* A step that leaves the activations and the tables as they are, but for global
\* names and for what entries stand for.
LEMMA KeepScopes ==
  ASSUME BaseInv, ScopesInv, OwnersStay, UNCHANGED <<display, calls, scopes, leaked>>
  PROVE  ScopesInv'
<1>1. Len(calls') \in 0 .. Len(calls) /\ \A i \in 1 .. Len(calls') : calls'[i] = calls[i]
  BY Activations
<1>2. ASSUME NEW i \in Open, Pure(i),
             \A k \in Open : i < k /\ k <= Len(calls') => LevelOf(k) # LevelOf(i)
      PROVE  display'[LevelOf(i)] = OwnedByAny(Sharing(i))
  <2>1. \A k \in Open : k > i => LevelOf(k) # LevelOf(i)
    BY <1>2, Activations
  <2>2. QED
    BY <1>2, <2>1 DEF ScopesInv, TablesOK
<1>3. QED
  BY <1>1, <1>2, LowerActivations

LEMMA AbortScopes ==
  ASSUME BaseInv, ScopesInv, OwnersStay, abortexecution_
  PROVE  ScopesInv'
<1>1. Len(calls') = 0 /\ scopes' = scopes /\ leaked' \in BOOLEAN
  BY DEF abortexecution_, BaseInv, TypeOK
<1>2. ScopesInv'
  <2>1. Open' = {} /\ Entering' = {}
    BY <1>1 DEF Open, Entering
  <2>2. NumbersOK'
    <3>1. \A e \in Entries' : entry'[e].owner \in 0 .. scopes
      BY Activations DEF OwnersStay, ScopesInv, NumbersOK
    <3>2. \A e \in hashentry' : entry'[e].owner = 0
      BY Context DEF OwnersStay, ScopesInv, NumbersOK, TableOK
    <3>3. QED
      BY <1>1, <2>1, <3>1, <3>2 DEF NumbersOK
  <2>3. NestingOK'
    BY <1>1 DEF NestingOK
  <2>4. SharingOK' /\ TablesOK'
    BY <2>1 DEF SharingOK, TablesOK
  <2>5. QED
    BY <2>2, <2>3, <2>4 DEF ScopesInv
<1>3. QED
  BY <1>2

\* Entries change, but not their owners.
LEMMA SameOwners ==
  ASSUME UNCHANGED <<entry, hashentry>>
  PROVE  OwnersStay
BY DEF OwnersStay, Entries

LEMMA EnterglobalOwners ==
  ASSUME BaseInv, NEW n \in Names, enterglobal(n)
  PROVE  OwnersStay
<1>1. /\ entry' = Append(entry, NewEntry(n, 0)) /\ entry \in Seq(Entry) /\ Len(entry) \in Nat
      /\ hashentry' = hashentry \cup {Len(entry) + 1} /\ NewEntry(n, 0) \in Entry
  BY Context DEF enterglobal, TableOK, NewEntry, Entry
<1>2. /\ Len(entry') = Len(entry) + 1 /\ \A e \in 1 .. Len(entry) : entry'[e] = entry[e]
      /\ entry'[Len(entry) + 1] = NewEntry(n, 0)
  BY <1>1, AppendProperties
<1>3. Entries' \ Entries = {Len(entry) + 1} /\ Entries \subseteq Entries'
  BY <1>1, <1>2 DEF Entries
<1>4. NewEntry(n, 0).owner = 0
  BY DEF NewEntry
<1>5. QED
  BY <1>1, <1>2, <1>3, <1>4 DEF OwnersStay, Entries

LEMMA LookupOwners ==
  ASSUME BaseInv, NEW n \in Names, lookup(n)
  PROVE  OwnersStay /\ display' = display
<1>1. CASE Resolved(n) = NULL
  BY <1>1, EnterglobalOwners DEF lookup, enterglobal
<1>2. CASE Resolved(n) # NULL
  BY <1>2, SameOwners DEF lookup, table
<1>3. QED
  BY <1>1, <1>2

LEMMA SetEntryOwners ==
  ASSUME BaseInv, NEW h \in Entries, NEW k, NEW F,
         entry' = [entry EXCEPT ![h].kind = k, ![h].fields = F], UNCHANGED hashentry
  PROVE  OwnersStay
<1>1. entry \in Seq(Entry) /\ Len(entry) \in Nat /\ h \in 1 .. Len(entry)
  BY Context DEF TableOK, Entries
<1>2. DOMAIN entry' = 1 .. Len(entry) /\ Len(entry') = Len(entry)
  BY <1>1
<1>3. ASSUME NEW e \in 1 .. Len(entry) PROVE entry'[e].owner = entry[e].owner
  <2>1. entry[e] \in Entry
    BY <1>1
  <2>2. CASE e = h
    BY <1>1, <2>1, <2>2 DEF Entry
  <2>3. CASE e # h
    BY <1>1, <2>3
  <2>4. QED
    BY <2>2, <2>3
<1>4. QED
  BY <1>2, <1>3 DEF OwnersStay, Entries

-----------------------------------------------------------------------------
(* Returns. *)

\* An activation that is no hide in the public part of another one ends: none of
\* those below shares its table.
LEMMA PopScopes ==
  ASSUME BaseInv, ScopesInv, OwnersStay, calls # <<>>, calls' = Pop,
         Top.at \notin {"inside", "inside_public"},
         UNCHANGED <<display, scopes, leaked>>
  PROVE  ScopesInv'
<1> DEFINE n == Len(calls)
<1>1. /\ n \in Nat /\ n \in 1 .. n /\ Len(calls') = n - 1 /\ Top = calls[n]
      /\ \A i \in 1 .. Len(calls') : calls'[i] = calls[i]
  BY PopFacts, Context DEF Top
<1>2. ASSUME NEW i \in Open, i <= Len(calls'), Pure(i),
             \A k \in Open : i < k /\ k <= Len(calls') => LevelOf(k) # LevelOf(i)
      PROVE  display'[LevelOf(i)] = OwnedByAny(Sharing(i))
  <2>1. i \in 1 .. n /\ i < n
    BY <1>1, <1>2, Activations
  <2>2. LevelOf(i) <= calls[n].lookup
    BY <1>1, <2>1 DEF ScopesInv, NestingOK
  <2>3. n \in Open => LevelOf(n) = calls[n].lookup + 1
    BY <1>1, Activations
  <2>4. LevelOf(i) \in Nat /\ calls[n].lookup \in Nat
    BY <1>1, <2>1, Activations
  <2>5. n \in Open => LevelOf(n) # LevelOf(i)
    BY <2>2, <2>3, <2>4
  <2>6. \A k \in Open : k > i => LevelOf(k) # LevelOf(i)
    <3> SUFFICES ASSUME NEW k \in Open, k > i PROVE LevelOf(k) # LevelOf(i)
      OBVIOUS
    <3>1. k \in 1 .. n
      BY Activations
    <3>2. CASE k = n
      BY <2>5, <3>2
    <3>3. CASE k # n
      BY <1>1, <1>2, <3>1, <3>3
    <3>4. QED
      BY <3>2, <3>3
  <2>7. QED
    BY <1>2, <2>6 DEF ScopesInv, TablesOK
<1>3. Len(calls') \in 0 .. Len(calls)
  BY <1>1
<1>4. QED
  BY <1>1, <1>2, <1>3, LowerActivations

\* The hides below that share the table of a hide that ends have it back.
LEMMA InsideEndsScopes ==
  ASSUME BaseInv, ScopesInv, inside_ends
  PROVE  ScopesInv'
<1> DEFINE n == Len(calls)
<1>1. /\ n \in Nat /\ n \in 1 .. n /\ Len(calls') = n - 1 /\ Top = calls[n]
      /\ \A i \in 1 .. Len(calls') : calls'[i] = calls[i]
  BY PopFacts, Context DEF Top, inside_ends
<1>2. calls[n].at = "inside_public" /\ n \in Open /\ LevelOf(n) = calls[n].lookup
  BY <1>1, Activations DEF inside_ends
<1>3. display_lookup = LevelOf(n) /\ LevelOf(n) \in Levels
  BY <1>1, Activations, Highest DEF inside_ends
<1>4. display' = [display EXCEPT ![LevelOf(n)] = calls[n].oldplace] /\ display \in [Levels -> SUBSET Entries]
  BY <1>1, <1>3, Context DEF inside_ends, TableOK
<1>5. ASSUME NEW i \in Open, i <= Len(calls'), Pure(i),
             \A k \in Open : i < k /\ k <= Len(calls') => LevelOf(k) # LevelOf(i)
      PROVE  display'[LevelOf(i)] = OwnedByAny(Sharing(i))
  <2>1. i \in 1 .. n /\ i < n /\ LevelOf(i) \in Levels
    BY <1>1, <1>5, Activations, Highest
  <2>2. CASE LevelOf(i) # LevelOf(n)
    <3>1. \A k \in Open : k > i => LevelOf(k) # LevelOf(i)
      <4> SUFFICES ASSUME NEW k \in Open, k > i PROVE LevelOf(k) # LevelOf(i)
        OBVIOUS
      <4>1. k \in 1 .. n
        BY Activations
      <4>2. CASE k = n
        BY <2>2, <4>2
      <4>3. CASE k # n
        BY <1>1, <1>5, <4>1, <4>3
      <4>4. QED
        BY <4>2, <4>3
    <3>2. display[LevelOf(i)] = OwnedByAny(Sharing(i))
      BY <1>5, <3>1 DEF ScopesInv, TablesOK
    <3>3. QED
      BY <1>3, <1>4, <2>1, <2>2, <3>2
  <2>3. CASE LevelOf(i) = LevelOf(n)
    <3>1. Pure(n)
      <4> SUFFICES ASSUME NEW m \in Open, m <= n, calls[m].lost PROVE FALSE
        BY <1>5 DEF Pure
      <4>1. m \in 1 .. n /\ i < m
        BY <1>5, <2>1, Activations DEF Pure
      <4>2. LevelOf(i) <= calls[m].lookup /\ EnterAfter(calls[i]) <= calls[m].enter
        BY <2>1, <4>1 DEF ScopesInv, NestingOK
      <4>3. LevelOf(m) <= LevelOf(n)
        BY <1>3, <4>1, Highest
      <4>4. LevelOf(i) = calls[i].enter + 1
        BY <1>5 DEF ScopesInv, SharingOK
      <4>5. calls[m].at \in {"inside", "inside_public"} /\ LevelOf(m) = LevelOf(i)
        BY <2>1, <2>3, <4>1, <4>2, <4>3, Activations
      <4>6. calls[m].enter < calls[m].lookup /\ calls[m].lookup = LevelOf(i)
        BY <4>1, <4>5, Activations
      <4>7. calls[m].enter = calls[i].enter
        BY <2>1, <4>1, <4>2, <4>4, <4>6, Activations
      <4>8. calls[i].lost
        BY <4>1, <4>7 DEF ScopesInv, SharingOK
      <4>9. QED
        BY <1>5, <2>1, <4>8 DEF Pure
    <3>2. calls[n].oldplace = OwnedByAny(Sharing(n) \ {n})
      BY <1>2, <3>1 DEF ScopesInv, TablesOK
    <3>3. Sharing(n) \ {n} = Sharing(i)
      <4>1. ASSUME NEW k \in Open, k # n, LevelOf(k) = LevelOf(n) PROVE k <= i
        <5>1. k \in 1 .. n /\ k <= Len(calls')
          BY <1>1, <4>1, Activations
        <5>2. i < k /\ k <= Len(calls') => LevelOf(k) # LevelOf(i)
          BY <1>5
        <5>3. QED
          BY <2>1, <2>3, <4>1, <5>1, <5>2
      <4>2. Sharing(n) \ {n} = {k \in Open : k # n /\ k <= n /\ LevelOf(k) = LevelOf(n)}
        BY DEF Sharing
      <4>3. \A k \in Open : k \in 1 .. n
        BY Activations
      <4>4. \A k \in Open : (k # n /\ k <= n /\ LevelOf(k) = LevelOf(n)) <=> (k <= i /\ LevelOf(k) = LevelOf(i))
        BY <1>1, <2>1, <2>3, <4>1, <4>3
      <4>5. QED
        BY <4>2, <4>4 DEF Sharing
    <3>4. QED
      BY <1>3, <1>4, <2>3, <3>2, <3>3
  <2>4. QED
    BY <2>2, <2>3
<1>6. OwnersStay /\ scopes' = scopes /\ leaked' = leaked /\ Len(calls') \in 0 .. Len(calls)
  BY <1>1, SameOwners DEF inside_ends
<1>7. QED
  BY <1>1, <1>5, <1>6, LowerActivations

-----------------------------------------------------------------------------
(* Calls. *)

LEMMA NumberStays ==
  ASSUME NEW a \in Nat, NEW b, b = a \/ b = a + 1, NEW x \in 1 .. a
  PROVE  x \in 1 .. b /\ x < a + 1
OBVIOUS

\* What every new activation has in common: the levels, the numbers and the
\* sharing of those below stay, and no entry is owned by it yet.
LEMMA PushFrame ==
  ASSUME BaseInv, ScopesInv, NEW f \in Frame,
         f.enter = display_enter, f.lookup = display_lookup, ~f.lost,
         f.at \in {"public", "nested", "module", "hidden", "inside"},
         f.at = "hidden" => display_enter = display_lookup,
         f.at = "inside" => display_enter < display_lookup,
         NEW g \in Seq(Frame), Len(g) = Len(calls),
         \A i \in 1 .. Len(calls) :
           /\ g[i].at = calls[i].at /\ g[i].oldplace = calls[i].oldplace
           /\ g[i].enter = calls[i].enter /\ g[i].lookup = calls[i].lookup
           /\ g[i].id = calls[i].id,
         calls' = Append(g, f), UNCHANGED <<entry, hashentry, leaked>>,
         IF f.at \in {"public", "nested"} THEN scopes' = scopes
         ELSE scopes' = scopes + 1 /\ f.id = scopes + 1,
         NEW n, n = Len(calls)
  PROVE  /\ NumbersOK' /\ NestingOK'
         /\ n \in Nat /\ calls'[n + 1] = f
         /\ \A i \in 1 .. n : calls'[i] = g[i] /\ LevelOf(i)' = LevelOf(i)
         /\ LevelOf(n + 1)' = IF f.at \in {"module", "hidden"} THEN display_lookup + 1
                              ELSE display_lookup
         /\ Open' = Open \cup (IF f.at \in {"public", "nested"} THEN {} ELSE {n + 1})
         /\ \A i \in Open : i \in 1 .. n
         /\ \A i \in Open : Sharing(i)' = Sharing(i) /\ OwnedBy(i)' = OwnedBy(i)
         /\ f.at \notin {"public", "nested"} => OwnedBy(n + 1)' = {}
         /\ Entries' = Entries
<1> DEFINE opens == f.at \notin {"public", "nested"}
<1>1. /\ n \in Nat /\ Len(calls') = n + 1 /\ calls'[n + 1] = f
      /\ \A i \in 1 .. n : calls'[i] = g[i]
  <2>1. n \in Nat
    BY Activations
  <2>2. Len(g) = n /\ calls' = Append(g, f)
    OBVIOUS
  <2>3. QED
    BY <2>1, <2>2, AppendProperties
<1>2. \A i \in 1 .. n : LevelOf(i)' = LevelOf(i) /\ EnterAfter(calls'[i]) = EnterAfter(calls[i])
  BY <1>1 DEF LevelOf, LookupAfter, EnterAfter
<1>3. /\ LevelOf(n + 1)' = IF f.at \in {"module", "hidden"} THEN display_lookup + 1 ELSE display_lookup
      /\ EnterAfter(calls'[n + 1]) = IF opens THEN display_enter + 1 ELSE display_enter
  BY <1>1, Context DEF LevelOf, LookupAfter, EnterAfter
<1>4. \A i : i \in 1 .. (n + 1) <=> i \in 1 .. n \/ i = n + 1
  BY <1>1
<1>5. /\ \A i : i \in Open' <=> i \in Open \/ (i = n + 1 /\ opens)
      /\ \A i : i \in Entering' <=> i \in Entering \/ (i = n + 1 /\ opens)
      /\ \A i \in Open : i \in 1 .. n
  <2>1. n + 1 \notin 1 .. n
    BY <1>1
  <2>2. QED
    BY <1>1, <1>4, <2>1 DEF Open, Entering
<1>6. Open' = Open \cup (IF f.at \in {"public", "nested"} THEN {} ELSE {n + 1})
  BY <1>5
<1>7. Entries' = Entries /\ \A e \in Entries : entry'[e] = entry[e]
  BY DEF Entries
<1>8. \A i \in Open : calls'[i].id = calls[i].id /\ calls[i].id \in 1 .. scopes
  BY <1>1, <1>5 DEF ScopesInv, NumbersOK
<1>9. \A i \in Open : OwnedBy(i)' = OwnedBy(i)
  BY <1>7, <1>8 DEF OwnedBy
<1>10. \A i \in Open : Sharing(i)' = Sharing(i)
  <2> SUFFICES ASSUME NEW i \in Open PROVE Sharing(i)' = Sharing(i)
    OBVIOUS
  <2>1. \A j : j \in Open' /\ j <= i <=> j \in Open /\ j <= i
    BY <1>1, <1>5
  <2>2. \A j \in Open : LevelOf(j)' = LevelOf(j)
    BY <1>2, <1>5
  <2>3. QED
    BY <2>1, <2>2 DEF Sharing
<1>11. \A e \in Entries : entry[e].owner \in 0 .. scopes
  BY DEF ScopesInv, NumbersOK
<1>12. scopes \in Nat
  BY Activations
<1>13. opens => OwnedBy(n + 1)' = {}
  <2> SUFFICES ASSUME opens PROVE OwnedBy(n + 1)' = {}
    OBVIOUS
  <2>1. calls'[n + 1].id = scopes + 1
    BY <1>1
  <2>2. QED
    BY <1>7, <1>11, <1>12, <2>1 DEF OwnedBy
<1>14. NumbersOK'
  <2>1. \A i \in Open' : calls'[i].id \in 1 .. scopes'
    <3>1. ASSUME NEW i \in Open PROVE calls'[i].id \in 1 .. scopes'
      <4>1. calls'[i].id \in 1 .. scopes
        BY <1>8
      <4>2. scopes' = scopes \/ scopes' = scopes + 1
        OBVIOUS
      <4>3. QED
        BY <1>12, <4>1, <4>2, NumberStays
    <3>2. opens => calls'[n + 1].id \in 1 .. scopes'
      BY <1>1, <1>12
    <3>3. QED
      BY <1>5, <3>1, <3>2
  <2>2. ASSUME NEW i \in Open', NEW j \in Open', i < j
        PROVE  calls'[i].id < calls'[j].id
    <3>1. i \in Open
      BY <1>1, <1>5, <2>2
    <3>2. CASE j \in Open
      BY <1>8, <2>2, <3>1, <3>2 DEF ScopesInv, NumbersOK
    <3>3. CASE j \notin Open
      <4>1. calls'[j].id = scopes + 1
        BY <1>1, <1>5, <3>3
      <4>2. calls'[i].id \in 1 .. scopes
        BY <1>8, <3>1
      <4>3. QED
        BY <1>12, <4>1, <4>2, NumberStays
    <3>4. QED
      BY <3>2, <3>3
  <2>3. \A e \in Entries' : entry'[e].owner \in 0 .. scopes'
    BY <1>7, <1>11, <1>12
  <2>4. \A e \in hashentry' : entry'[e].owner = 0
    BY DEF ScopesInv, NumbersOK
  <2>5. QED
    BY <2>1, <2>2, <2>3, <2>4 DEF NumbersOK
<1>15. \A i \in 1 .. n : EnterAfter(calls[i]) <= display_enter /\ LevelOf(i) <= display_lookup
  BY Highest
<1>16. /\ n > 0 => display_enter = EnterAfter(calls[n]) /\ display_lookup = LevelOf(n) /\ n \in 1 .. n
       /\ n = 0 /\ ~leaked => display_enter = 0 /\ display_lookup = 0
  <2>1. n > 0 => calls # <<>> /\ n \in 1 .. n
    BY <1>1
  <2>2. n = 0 => calls = <<>>
    BY Activations
  <2>3. QED
    BY <2>1, <2>2, Activations DEF Top, BaseInv, ScopesClosed
<1>17. NestingOK'
  <2>1. ASSUME NEW i \in 1 .. (n + 1), NEW j \in 1 .. (n + 1), i < j
        PROVE  EnterAfter(calls'[i]) <= calls'[j].enter /\ LevelOf(i)' <= calls'[j].lookup
    <3>1. i \in 1 .. n
      BY <1>1, <2>1
    <3>2. CASE j \in 1 .. n
      BY <1>1, <1>2, <2>1, <3>1, <3>2 DEF ScopesInv, NestingOK
    <3>3. CASE j = n + 1
      BY <1>1, <1>2, <1>15, <3>1, <3>3
    <3>4. QED
      BY <1>4, <3>2, <3>3
  <2>2. ASSUME NEW i \in 1 .. (n + 1), NEW j \in 1 .. (n + 1), i <= j,
               \A k \in (i + 1) .. j : k \notin Entering'
        PROVE  EnterAfter(calls'[j]) = EnterAfter(calls'[i])
    <3>1. CASE j \in 1 .. n
      <4>1. i \in 1 .. n
        BY <1>1, <2>2, <3>1
      <4>2. \A k \in (i + 1) .. j : k \notin Entering
        BY <1>5, <2>2
      <4>3. QED
        BY <1>2, <2>2, <3>1, <4>1, <4>2 DEF ScopesInv, NestingOK
    <3>2. CASE j = n + 1 /\ i # n + 1
      <4>1. i \in 1 .. n /\ n > 0
        BY <1>1, <3>2
      <4>2. n + 1 \in (i + 1) .. j /\ \A k \in (i + 1) .. n : k \in (i + 1) .. j
        BY <1>1, <3>2, <4>1
      <4>3. ~opens /\ \A k \in (i + 1) .. n : k \notin Entering
        BY <1>5, <2>2, <4>2
      <4>4. EnterAfter(calls[n]) = EnterAfter(calls[i])
        BY <1>16, <4>1, <4>3 DEF ScopesInv, NestingOK
      <4>5. QED
        BY <1>2, <1>3, <1>16, <3>2, <4>1, <4>3, <4>4
    <3>3. CASE i = n + 1
      BY <1>1, <1>4, <2>2, <3>3
    <3>4. QED
      BY <1>4, <3>1, <3>2, <3>3
  <2>3. ASSUME ~leaked', NEW j \in 1 .. (n + 1)
        PROVE  /\ (\A k \in 1 .. j : k \notin Entering') => EnterAfter(calls'[j]) = 0
               /\ \A l \in 1 .. LevelOf(j)' : \E i \in Open' : i <= j /\ LevelOf(i)' = l
    <3>1. ~leaked
      BY <2>3
    <3>2. \A m \in 1 .. n : /\ (\A k \in 1 .. m : k \notin Entering) => EnterAfter(calls[m]) = 0
                            /\ \A l \in 1 .. LevelOf(m) : \E i \in Open : i <= m /\ LevelOf(i) = l
      BY <3>1 DEF ScopesInv, NestingOK
    <3>3. \A i \in Open : i \in Open' /\ LevelOf(i)' = LevelOf(i)
      BY <1>2, <1>5
    <3>4. CASE j \in 1 .. n
      <4>1. LevelOf(j)' = LevelOf(j) /\ EnterAfter(calls'[j]) = EnterAfter(calls[j])
        BY <1>2, <3>4
      <4>2. QED
        BY <1>5, <3>2, <3>3, <3>4, <4>1
    <3>5. CASE j = n + 1
      <4>1. ASSUME \A k \in 1 .. j : k \notin Entering'
            PROVE  EnterAfter(calls'[j]) = 0
        <5>1. ~opens /\ \A k \in 1 .. n : k \notin Entering
          BY <1>1, <1>4, <1>5, <3>5, <4>1
        <5>2. CASE n = 0
          BY <1>3, <1>16, <3>1, <3>5, <5>1, <5>2
        <5>3. CASE n > 0
          BY <1>3, <1>16, <3>2, <3>5, <5>1, <5>3
        <5>4. QED
          BY <1>1, <5>2, <5>3
      <4>2. ASSUME NEW l \in 1 .. LevelOf(j)'
            PROVE  \E i \in Open' : i <= j /\ LevelOf(i)' = l
        <5>1. display_lookup \in Nat
          BY Context
        <5>2. CASE l \in 1 .. display_lookup
          <6>1. n > 0
            BY <1>1, <1>16, <3>1, <5>2
          <6>2. PICK i \in Open : i <= n /\ LevelOf(i) = l
            BY <1>16, <3>2, <5>2, <6>1
          <6>3. i \in 1 .. n
            BY <1>5
          <6>4. i <= j
            BY <1>1, <3>5, <6>3
          <6>5. QED
            BY <3>3, <6>2, <6>4
        <5>3. CASE l \notin 1 .. display_lookup
          <6>1. opens /\ l = LevelOf(j)'
            BY <1>3, <3>5, <4>2, <5>1, <5>3
          <6>2. j \in Open' /\ j <= j
            BY <1>1, <1>5, <3>5, <6>1
          <6>3. QED
            BY <6>1, <6>2
        <5>4. QED
          BY <5>2, <5>3
      <4>3. QED
        BY <4>1, <4>2
    <3>6. QED
      BY <1>4, <3>4, <3>5
  <2>4. QED
    BY <1>1, <2>1, <2>2, <2>3 DEF NestingOK
<1>18. QED
  BY <1>1, <1>2, <1>3, <1>5, <1>6, <1>7, <1>9, <1>10, <1>13, <1>14, <1>17

\* Symbols that begin a definition sequence, and definition calling compound_def.
LEMMA PlainScopes ==
  ASSUME BaseInv, ScopesInv, NEW a \in {"public", "nested"},
         calls' = Append(calls, Call(a)), UNCHANGED <<table, scopes, leaked>>
  PROVE  ScopesInv'
<1> DEFINE f == Call(a)
<1>1. /\ f \in Frame /\ f.at = a /\ f.enter = display_enter /\ f.lookup = display_lookup /\ ~f.lost
      /\ calls \in Seq(Frame)
  BY CallType, Context DEF Call
<1>a. calls' = Append(calls, f) /\ UNCHANGED <<entry, hashentry, display, scopes, leaked>>
  BY DEF table
<1> HIDE DEF f
<1> SUFFICES ASSUME NEW n, n = Len(calls) PROVE ScopesInv'
  OBVIOUS
<1>2. /\ NumbersOK' /\ NestingOK' /\ n \in Nat /\ Entries' = Entries
      /\ \A i \in 1 .. n : calls'[i] = calls[i] /\ LevelOf(i)' = LevelOf(i)
      /\ Open' = Open /\ \A i \in Open : i \in 1 .. n
      /\ \A i \in Open : Sharing(i)' = Sharing(i) /\ OwnedBy(i)' = OwnedBy(i)
  <2>1. /\ f.at = "hidden" => display_enter = display_lookup
        /\ f.at = "inside" => display_enter < display_lookup
        /\ f.at \in {"public", "nested", "module", "hidden", "inside"}
        /\ IF f.at \in {"public", "nested"} THEN scopes' = scopes
           ELSE scopes' = scopes + 1 /\ f.id = scopes + 1
    BY <1>1, <1>a
  <2>2. f.at \in {"public", "nested"}
    BY <1>1
  <2>3. QED
    <3>1. \A i \in 1 .. Len(calls) :
            /\ calls[i].at = calls[i].at /\ calls[i].oldplace = calls[i].oldplace
            /\ calls[i].enter = calls[i].enter /\ calls[i].lookup = calls[i].lookup
            /\ calls[i].id = calls[i].id
      OBVIOUS
    <3>2. /\ NumbersOK' /\ NestingOK' /\ n \in Nat /\ Entries' = Entries
          /\ \A i \in 1 .. n : calls'[i] = calls[i] /\ LevelOf(i)' = LevelOf(i)
          /\ Open' = Open \cup (IF f.at \in {"public", "nested"} THEN {} ELSE {n + 1})
          /\ \A i \in Open : i \in 1 .. n
          /\ \A i \in Open : Sharing(i)' = Sharing(i) /\ OwnedBy(i)' = OwnedBy(i)
      BY <1>1, <1>a, <2>1, <3>1, PushFrame
    <3>3. QED
      BY <2>2, <3>2
<1>3. \A i \in Open : calls'[i] = calls[i] /\ LevelOf(i)' = LevelOf(i) /\ Pure(i)' = Pure(i)
  BY <1>2 DEF Pure
<1>4. SharingOK'
  BY <1>2, <1>3 DEF ScopesInv, SharingOK
<1>5. \A i \in Open : \A j \in Sharing(i) : j \in Open
  BY DEF Sharing
<1>6. \A i \in Open : /\ OwnedByAny(Sharing(i))' = OwnedByAny(Sharing(i))
                      /\ OwnedByAny(Sharing(i) \ {i})' = OwnedByAny(Sharing(i) \ {i})
  BY <1>2, <1>5 DEF OwnedByAny
<1>7. TablesOK'
  <2> SUFFICES ASSUME NEW i \in Open, Pure(i)
               PROVE  /\ (\A k \in Open : k > i => LevelOf(k)' # LevelOf(i)')
                           => display'[LevelOf(i)'] = OwnedByAny(Sharing(i))'
                      /\ calls'[i].at \in {"inside", "inside_public"}
                           => calls'[i].oldplace = OwnedByAny(Sharing(i) \ {i})'
                      /\ \A j \in Sharing(i)' \ {i} : \A e \in OwnedBy(j)', e2 \in OwnedBy(i)' : e < e2
    BY <1>2, <1>3 DEF TablesOK
  <2>1. \A k \in Open : LevelOf(k)' = LevelOf(k) /\ OwnedBy(k)' = OwnedBy(k)
    BY <1>2, <1>3
  <2>2. QED
    <3>1. (\A k \in Open : k > i => LevelOf(k) # LevelOf(i)) => display[LevelOf(i)] = OwnedByAny(Sharing(i))
      BY DEF ScopesInv, TablesOK
    <3>2. (\A k \in Open : k > i => LevelOf(k)' # LevelOf(i)') => \A k \in Open : k > i => LevelOf(k) # LevelOf(i)
      BY <2>1
    <3>3. calls[i].at \in {"inside", "inside_public"} => calls[i].oldplace = OwnedByAny(Sharing(i) \ {i})
      BY DEF ScopesInv, TablesOK
    <3>4. \A j \in Sharing(i) \ {i} : \A e \in OwnedBy(j), e2 \in OwnedBy(i) : e < e2
      BY DEF ScopesInv, TablesOK
    <3>5. \A j \in Sharing(i)' \ {i} : \A e \in OwnedBy(j)', e2 \in OwnedBy(i)' : e < e2
      BY <1>2, <1>5, <2>1, <3>4
    <3>6. QED
      BY <1>2, <1>3, <1>6, <1>a, <2>1, <3>1, <3>2, <3>3, <3>5
<1>8. QED
  BY <1>2, <1>4, <1>7 DEF ScopesInv

\* Unless its table is lost, the innermost scope is looked up right above the level
\* that names are entered at, which is then the level of another scope as well.
LEMMA PureLookup ==
  ASSUME BaseInv, ScopesInv, \A i \in Open : ~calls[i].lost, ~leaked,
         display_enter < display_lookup
  PROVE  /\ display_lookup = display_enter + 1
         /\ \E j \in Open : LevelOf(j) = display_lookup /\ calls[j].enter = display_enter
<1>1. display_enter \in Nat /\ display_lookup \in Nat
  BY Context
<1>2. Len(calls) \in 1 .. Len(calls) /\ display_lookup = LevelOf(Len(calls))
  BY <1>1, Activations DEF BaseInv, ScopesClosed
<1>3. display_lookup \in 1 .. LevelOf(Len(calls))
  BY <1>1, <1>2
<1>4. PICK j \in Open : LevelOf(j) = display_lookup
  BY <1>2, <1>3 DEF ScopesInv, NestingOK
<1>5. LevelOf(j) = calls[j].enter + 1
  BY DEF ScopesInv, SharingOK, Pure
<1>6. j \in 1 .. Len(calls) /\ calls[j].enter \in Nat
  BY Activations
<1>7. calls[j].enter <= EnterAfter(calls[j]) /\ EnterAfter(calls[j]) <= display_enter
      /\ EnterAfter(calls[j]) \in Nat
  <2>1. EnterAfter(calls[j]) = calls[j].enter \/ EnterAfter(calls[j]) = calls[j].enter + 1
    BY <1>6, Activations
  <2>2. QED
    BY <1>6, <2>1, Highest
<1>8. QED
  BY <1>1, <1>4, <1>5, <1>6, <1>7

\* MODULE, and HIDE where nothing is hidden around it, begin a table.
LEMMA NewTableScopes ==
  ASSUME BaseInv, ScopesInv, NEW a \in {"module", "hidden"},
         a = "hidden" => display_enter = display_lookup, Fits,
         NEW c, c.at = a, c.enter = display_enter, c.lookup = display_lookup, ~c.lost,
         c \in Frame, NewTable(c)
  PROVE  ScopesInv'
<1> DEFINE f == [c EXCEPT !.id = scopes + 1]
<1>1. /\ f \in Frame /\ f.at = a /\ f.enter = display_enter /\ f.lookup = display_lookup /\ ~f.lost
      /\ f.id = scopes + 1
  BY Activations DEF Frame
<1>2. /\ calls' = Append(MarkLost, f) /\ scopes' = scopes + 1
      /\ display' = [display EXCEPT ![display_enter + 1] = {}]
      /\ UNCHANGED <<entry, hashentry, leaked>>
  BY DEF NewTable
<1> HIDE DEF f
<1> SUFFICES ASSUME NEW n, n = Len(calls) PROVE ScopesInv'
  OBVIOUS
<1>3. /\ MarkLost \in Seq(Frame) /\ Len(MarkLost) = Len(calls)
      /\ \A i \in 1 .. Len(calls) :
           /\ MarkLost[i].at = calls[i].at /\ MarkLost[i].oldplace = calls[i].oldplace
           /\ MarkLost[i].enter = calls[i].enter /\ MarkLost[i].lookup = calls[i].lookup
           /\ MarkLost[i].id = calls[i].id
           /\ MarkLost[i].lost <=> \/ calls[i].lost
                                   \/ /\ calls[i].at \in {"hidden_public", "inside_public"}
                                      /\ calls[i].enter = display_enter
  <2>1. \A i \in 1 .. Len(calls) : calls[i] \in Frame
    BY Context
  <2>2. \A i \in 1 .. Len(calls) :
           /\ MarkLost[i].at = calls[i].at /\ MarkLost[i].oldplace = calls[i].oldplace
           /\ MarkLost[i].enter = calls[i].enter /\ MarkLost[i].lookup = calls[i].lookup
           /\ MarkLost[i].id = calls[i].id
           /\ MarkLost[i].lost <=> \/ calls[i].lost
                                   \/ /\ calls[i].at \in {"hidden_public", "inside_public"}
                                      /\ calls[i].enter = display_enter
    BY <2>1 DEF MarkLost, Frame
  <2>3. QED
    BY <2>2, MarkLostFacts
<1>4. /\ f.at = "hidden" => display_enter = display_lookup
      /\ f.at = "inside" => display_enter < display_lookup
      /\ f.at \in {"module", "hidden"} /\ f.at \in {"public", "nested", "module", "hidden", "inside"}
      /\ f.at \notin {"public", "nested"}
      /\ IF f.at \in {"public", "nested"} THEN scopes' = scopes
         ELSE scopes' = scopes + 1 /\ f.id = scopes + 1
  BY <1>1, <1>2
<1>5. /\ NumbersOK' /\ NestingOK' /\ n \in Nat /\ calls'[n + 1] = f /\ Entries' = Entries
      /\ \A i \in 1 .. n : calls'[i] = MarkLost[i] /\ LevelOf(i)' = LevelOf(i)
      /\ LevelOf(n + 1)' = IF f.at \in {"module", "hidden"} THEN display_lookup + 1 ELSE display_lookup
      /\ Open' = Open \cup (IF f.at \in {"public", "nested"} THEN {} ELSE {n + 1})
      /\ \A i \in Open : i \in 1 .. n
      /\ \A i \in Open : Sharing(i)' = Sharing(i) /\ OwnedBy(i)' = OwnedBy(i)
      /\ f.at \notin {"public", "nested"} => OwnedBy(n + 1)' = {}
  <2>1. UNCHANGED <<entry, hashentry, leaked>> /\ calls' = Append(MarkLost, f)
    BY <1>2
  <2> DEFINE g == MarkLost
  <2>2. /\ g \in Seq(Frame) /\ Len(g) = Len(calls)
        /\ \A i \in 1 .. Len(calls) :
           /\ g[i].at = calls[i].at /\ g[i].oldplace = calls[i].oldplace
           /\ g[i].enter = calls[i].enter /\ g[i].lookup = calls[i].lookup
           /\ g[i].id = calls[i].id
    BY <1>3
  <2>3. calls' = Append(g, f)
    BY <2>1
  <2> HIDE DEF g
  <2>4. /\ NumbersOK' /\ NestingOK' /\ n \in Nat /\ calls'[n + 1] = f /\ Entries' = Entries
        /\ \A i \in 1 .. n : calls'[i] = g[i] /\ LevelOf(i)' = LevelOf(i)
        /\ LevelOf(n + 1)' = IF f.at \in {"module", "hidden"} THEN display_lookup + 1 ELSE display_lookup
        /\ Open' = Open \cup (IF f.at \in {"public", "nested"} THEN {} ELSE {n + 1})
        /\ \A i \in Open : i \in 1 .. n
        /\ \A i \in Open : Sharing(i)' = Sharing(i) /\ OwnedBy(i)' = OwnedBy(i)
        /\ f.at \notin {"public", "nested"} => OwnedBy(n + 1)' = {}
    BY <1>1, <1>4, <2>1, <2>2, <2>3, PushFrame
  <2>5. g = MarkLost
    BY DEF g
  <2>6. \A i \in 1 .. n : calls'[i] = MarkLost[i] /\ LevelOf(i)' = LevelOf(i)
    BY <2>4, <2>5
  <2>7. QED
    BY <2>4, <2>6
<1>6. Open' = Open \cup {n + 1} /\ LevelOf(n + 1)' = display_lookup + 1 /\ OwnedBy(n + 1)' = {}
  BY <1>4, <1>5
<1>7. display_enter \in Nat /\ display_lookup \in Nat /\ display_enter <= display_lookup
      /\ display_enter + 1 \in Levels /\ display_lookup + 1 \in Levels
      /\ display \in [Levels -> SUBSET Entries]
  BY Context, ConstantFacts DEF BaseInv, LevelsOK, Fits, Levels, TableOK
\* A hide that keeps its table is no hide at the level of the new one.
<1>8. ASSUME NEW i \in Open, ~MarkLost[i].lost PROVE calls[i].enter # display_enter
  <2>1. i \in 1 .. n
    BY <1>5
  <2>2. CASE i \in Entering
    BY <1>7, <2>1, <2>2, Activations, Highest
  <2>3. CASE i \notin Entering
    BY <1>3, <1>8, <2>1, <2>3, Activations
  <2>4. QED
    BY <2>2, <2>3
<1>9. ASSUME NEW i \in Open, Pure(i)'
      PROVE  Pure(i) /\ calls[i].enter # display_enter /\ LevelOf(i) # display_enter + 1
             /\ LevelOf(i) # display_lookup + 1
  <2>1. \A j \in Open : j <= i => ~MarkLost[j].lost
    BY <1>5, <1>6, <1>9 DEF Pure
  <2>2. Pure(i)
    BY <1>2, <1>3, <1>5, <1>9, <2>1 DEF Pure
  <2>3. i \in 1 .. n /\ i <= i /\ calls[i].enter \in Nat /\ LevelOf(i) \in Nat
    BY <1>5, Activations
  <2>4. calls[i].enter # display_enter
    BY <1>8, <2>1, <2>3
  <2>5. LevelOf(i) = calls[i].enter + 1
    BY <2>2 DEF ScopesInv, SharingOK
  <2>6. LevelOf(i) <= display_lookup
    BY <2>3, Highest
  <2>7. QED
    BY <1>7, <2>2, <2>3, <2>4, <2>5, <2>6
<1>10. ASSUME Pure(n + 1)' PROVE display_lookup = display_enter
  <2>1. \A j \in Open : ~MarkLost[j].lost
    BY <1>5, <1>6, <1>10 DEF Pure
  <2>2. ~leaked /\ \A j \in Open : ~calls[j].lost
    BY <1>2, <1>3, <1>5, <1>10, <2>1 DEF Pure
  <2>3. CASE display_enter < display_lookup
    <3>1. PICK j \in Open : calls[j].enter = display_enter
      BY <2>2, <2>3, PureLookup
    <3>2. QED
      BY <1>8, <2>1, <3>1
  <2>4. QED
    BY <1>7, <2>3
<1>11. SharingOK'
  <2>1. ASSUME NEW i \in Open', NEW j \in Open', i < j, calls'[i].enter = calls'[j].enter
        PROVE  /\ calls'[j].lost => calls'[i].lost
               /\ Pure(i)' => LevelOf(i)' = LevelOf(j)'
    <3>1. i \in Open /\ i \in 1 .. n
      BY <1>5, <1>6, <2>1
    <3>2. CASE j \in Open
      <4>1. j \in 1 .. n /\ calls[i].enter = calls[j].enter
        BY <1>3, <1>5, <2>1, <3>1, <3>2
      <4>2. i \notin Entering
        <5>1. EnterAfter(calls[i]) <= calls[j].enter
          BY <2>1, <3>1, <4>1 DEF ScopesInv, NestingOK
        <5>2. QED
          BY <3>1, <4>1, <5>1, Activations
      <4>3. calls[i].at \in {"hidden_public", "inside_public"}
        BY <3>1, <4>2, Activations
      <4>4. calls[j].lost => calls[i].lost
        BY <2>1, <3>1, <3>2, <4>1 DEF ScopesInv, SharingOK
      <4>5. MarkLost[j].lost => MarkLost[i].lost
        BY <1>3, <3>1, <4>1, <4>3, <4>4
      <4>6. Pure(i)' => LevelOf(i) = LevelOf(j)
        BY <1>9, <2>1, <3>1, <3>2, <4>1 DEF ScopesInv, SharingOK
      <4>7. QED
        BY <1>5, <3>1, <4>1, <4>5, <4>6
    <3>3. CASE j = n + 1
      <4>1. calls[i].enter = display_enter
        BY <1>1, <1>3, <1>5, <2>1, <3>1, <3>3
      <4>2. ~calls'[j].lost
        BY <1>1, <1>5, <3>3
      <4>3. ~Pure(i)'
        BY <1>9, <3>1, <4>1
      <4>4. QED
        BY <4>2, <4>3
    <3>4. QED
      BY <1>6, <3>2, <3>3
  <2>2. ASSUME NEW i \in Open', Pure(i)' PROVE LevelOf(i)' = calls'[i].enter + 1
    <3>1. CASE i \in Open
      <4>1. LevelOf(i) = calls[i].enter + 1
        BY <1>9, <2>2, <3>1 DEF ScopesInv, SharingOK
      <4>2. QED
        BY <1>3, <1>5, <3>1, <4>1
    <3>2. CASE i = n + 1
      BY <1>1, <1>5, <1>6, <1>10, <2>2, <3>2
    <3>3. QED
      BY <1>6, <3>1, <3>2
  <2>3. QED
    BY <2>1, <2>2 DEF SharingOK
<1>12. TablesOK'
  <2> SUFFICES ASSUME NEW i \in Open', Pure(i)'
               PROVE  /\ (\A k \in Open' : k > i => LevelOf(k)' # LevelOf(i)')
                           => display'[LevelOf(i)'] = OwnedByAny(Sharing(i))'
                      /\ calls'[i].at \in {"inside", "inside_public"}
                           => calls'[i].oldplace = OwnedByAny(Sharing(i) \ {i})'
                      /\ \A j \in Sharing(i)' \ {i} : \A e \in OwnedBy(j)', e2 \in OwnedBy(i)' : e < e2
    BY DEF TablesOK
  <2>1. CASE i \in Open
    <3>1. Pure(i) /\ LevelOf(i) # display_enter + 1 /\ LevelOf(i) # display_lookup + 1 /\ i \in 1 .. n
      BY <1>5, <1>9, <2>1
    <3>2. Sharing(i)' = Sharing(i) /\ \A j \in Sharing(i) : j \in Open
      BY <1>5, <2>1 DEF Sharing
    <3>3. /\ OwnedByAny(Sharing(i))' = OwnedByAny(Sharing(i))
          /\ OwnedByAny(Sharing(i) \ {i})' = OwnedByAny(Sharing(i) \ {i})
      BY <1>5, <3>2 DEF OwnedByAny
    <3>4. ASSUME \A k \in Open' : k > i => LevelOf(k)' # LevelOf(i)'
          PROVE  display'[LevelOf(i)'] = OwnedByAny(Sharing(i))'
      <4>1. \A k \in Open : k > i => LevelOf(k) # LevelOf(i)
        BY <1>5, <1>6, <3>1, <3>4
      <4>2. display[LevelOf(i)] = OwnedByAny(Sharing(i))
        BY <2>1, <3>1, <4>1 DEF ScopesInv, TablesOK
      <4>3. LevelOf(i) \in Levels
        BY <3>1, Highest
      <4>4. display'[LevelOf(i)] = display[LevelOf(i)]
        BY <1>2, <1>7, <3>1, <4>3
      <4>5. QED
        BY <1>5, <3>1, <3>3, <4>2, <4>4
    <3>5. calls[i].at \in {"inside", "inside_public"} => calls[i].oldplace = OwnedByAny(Sharing(i) \ {i})
      BY <2>1, <3>1 DEF ScopesInv, TablesOK
    <3>6. \A j \in Sharing(i) \ {i} : \A e \in OwnedBy(j), e2 \in OwnedBy(i) : e < e2
      BY <2>1, <3>1 DEF ScopesInv, TablesOK
    <3>7. \A j \in Sharing(i)' \ {i} : \A e \in OwnedBy(j)', e2 \in OwnedBy(i)' : e < e2
      BY <1>5, <2>1, <3>2, <3>6
    <3>8. calls'[i].at = calls[i].at /\ calls'[i].oldplace = calls[i].oldplace
      BY <1>3, <1>5, <3>1
    <3>9. QED
      BY <3>3, <3>4, <3>5, <3>7, <3>8
  <2>2. CASE i = n + 1
    <3>1. \A j \in Open : LevelOf(j)' # display_lookup + 1
      <4> SUFFICES ASSUME NEW j \in Open PROVE LevelOf(j)' # display_lookup + 1
        OBVIOUS
      <4>1. LevelOf(j) <= display_lookup /\ LevelOf(j) \in Nat /\ LevelOf(j)' = LevelOf(j)
        BY <1>5, Activations, Highest
      <4>2. QED
        BY <1>7, <4>1
    <3>2. Sharing(i)' = {i}
      <4>1. Sharing(i)' = {j \in Open' : j <= i /\ LevelOf(j)' = LevelOf(i)'}
        BY DEF Sharing
      <4>2. \A j \in Open' : LevelOf(j)' = LevelOf(i)' => j = i
        BY <1>6, <2>2, <3>1
      <4>3. i \in Open' /\ i <= i
        BY <1>5, <2>2
      <4>4. QED
        BY <4>1, <4>2, <4>3
    <3>3. OwnedByAny(Sharing(i))' = {}
      BY <1>6, <2>2, <3>2 DEF OwnedByAny
    <3>4. display'[LevelOf(i)'] = {}
      BY <1>2, <1>6, <1>7, <1>10, <2>2
    <3>5. calls'[i].at \notin {"inside", "inside_public"}
      BY <1>1, <1>5, <2>2
    <3>6. QED
      BY <3>2, <3>3, <3>4, <3>5
  <2>3. QED
    BY <1>6, <2>1, <2>2
<1>13. QED
  BY <1>5, <1>11, <1>12 DEF ScopesInv

\* While no table is lost, each level holds what the scopes looked up at it were
\* entered: the last of them shares its table with all the others.
LEMMA LevelTable ==
  ASSUME BaseInv, ScopesInv, ~leaked, \A i \in Open : ~calls[i].lost,
         NEW l \in 1 .. display_lookup
  PROVE  \E q \in Open : /\ display[l] = OwnedByAny(Sharing(q))
                         /\ Sharing(q) = {j \in Open : LevelOf(j) = l}
<1> DEFINE Q == {j \in Open : LevelOf(j) = l}
           n == Len(calls)
<1>1. n \in Nat /\ \A i \in Open : i \in 1 .. n
  BY Activations
<1>2. PICK j \in Open : LevelOf(j) = l
  <2>1. display_lookup \in Nat /\ n \in 1 .. n /\ display_lookup = LevelOf(n)
    BY <1>1, Context, Activations DEF BaseInv, ScopesClosed
  <2>2. QED
    BY <2>1 DEF ScopesInv, NestingOK
<1>3. Q \in SUBSET (1 .. n) /\ Q # {}
  BY <1>1, <1>2
<1>4. Newest(Q) \in Q /\ \A k \in Q : k <= Newest(Q)
  BY <1>1, <1>3, NewestIn
<1>5. PICK q \in Open : LevelOf(q) = l /\ \A k \in Q : k <= q
  BY <1>4
<1>6. \A k \in Open : k > q => LevelOf(k) # LevelOf(q)
  <2> SUFFICES ASSUME NEW k \in Open, k > q, LevelOf(k) = LevelOf(q) PROVE FALSE
    OBVIOUS
  <2>1. k <= q /\ k \in 1 .. n /\ q \in 1 .. n
    BY <1>1, <1>5
  <2>2. QED
    BY <1>1, <2>1
<1>7. Pure(q)
  BY DEF Pure
<1>8. display[LevelOf(q)] = OwnedByAny(Sharing(q))
  BY <1>6, <1>7 DEF ScopesInv, TablesOK
<1>9. Sharing(q) = Q
  BY <1>5 DEF Sharing
<1>10. QED
  BY <1>5, <1>8, <1>9

\* HIDE inside the public part of another hide shares the table of that one.
LEMMA InsideBeginsScopes ==
  ASSUME BaseInv, ScopesInv, inside_begins
  PROVE  ScopesInv'
<1> DEFINE f == [Call("inside") EXCEPT !.oldplace = display[display_lookup], !.id = scopes + 1]
<1>1. display[display_lookup] \in SUBSET (1 .. SYMTABMAX) /\ Call("inside") \in Frame
      /\ display_enter < display_lookup /\ display_enter \in Nat /\ display_lookup \in Nat
  BY Context, CallType, ConstantFacts DEF TableOK, Entries, inside_begins
<1>2. /\ f \in Frame /\ f.at = "inside" /\ f.enter = display_enter /\ f.lookup = display_lookup /\ ~f.lost
      /\ f.id = scopes + 1 /\ f.oldplace = display[display_lookup]
  <2> DEFINE c == Call("inside")
  <2>1. /\ c \in Frame /\ c.at = "inside" /\ c.enter = display_enter /\ c.lookup = display_lookup
        /\ ~c.lost
    BY <1>1, CallType DEF Call
  <2>2. scopes + 1 \in Nat
    BY Activations
  <2>3. f = [c EXCEPT !.oldplace = display[display_lookup], !.id = scopes + 1]
    OBVIOUS
  <2> HIDE DEF c, f
  <2>4. QED
    BY <1>1, <2>1, <2>2, <2>3 DEF Frame
<1>3. /\ calls' = Append(calls, f) /\ scopes' = scopes + 1
      /\ UNCHANGED <<entry, hashentry, display, leaked>>
  BY DEF inside_begins, Push, table
<1> HIDE DEF f
<1> SUFFICES ASSUME NEW n, n = Len(calls) PROVE ScopesInv'
  OBVIOUS
<1>4. /\ NumbersOK' /\ NestingOK' /\ n \in Nat /\ calls'[n + 1] = f /\ Entries' = Entries
      /\ \A i \in 1 .. n : calls'[i] = calls[i] /\ LevelOf(i)' = LevelOf(i)
      /\ LevelOf(n + 1)' = display_lookup
      /\ Open' = Open \cup {n + 1}
      /\ \A i \in Open : i \in 1 .. n
      /\ \A i \in Open : Sharing(i)' = Sharing(i) /\ OwnedBy(i)' = OwnedBy(i)
      /\ OwnedBy(n + 1)' = {}
  <2>1. /\ f.at = "hidden" => display_enter = display_lookup
        /\ f.at = "inside" => display_enter < display_lookup
        /\ f.at \in {"public", "nested", "module", "hidden", "inside"}
        /\ IF f.at \in {"public", "nested"} THEN scopes' = scopes
           ELSE scopes' = scopes + 1 /\ f.id = scopes + 1
    BY <1>1, <1>2, <1>3
  <2>2. f.at \notin {"public", "nested"} /\ f.at \notin {"module", "hidden"}
    BY <1>2
  <2>3. \A i \in 1 .. Len(calls) :
          /\ calls[i].at = calls[i].at /\ calls[i].oldplace = calls[i].oldplace
          /\ calls[i].enter = calls[i].enter /\ calls[i].lookup = calls[i].lookup
          /\ calls[i].id = calls[i].id
    OBVIOUS
  <2>4. calls \in Seq(Frame)
    BY Context
  <2>5. /\ NumbersOK' /\ NestingOK' /\ n \in Nat /\ calls'[n + 1] = f /\ Entries' = Entries
        /\ \A i \in 1 .. n : calls'[i] = calls[i] /\ LevelOf(i)' = LevelOf(i)
        /\ LevelOf(n + 1)' = IF f.at \in {"module", "hidden"} THEN display_lookup + 1 ELSE display_lookup
        /\ Open' = Open \cup (IF f.at \in {"public", "nested"} THEN {} ELSE {n + 1})
        /\ \A i \in Open : i \in 1 .. n
        /\ \A i \in Open : Sharing(i)' = Sharing(i) /\ OwnedBy(i)' = OwnedBy(i)
        /\ f.at \notin {"public", "nested"} => OwnedBy(n + 1)' = {}
    BY <1>2, <1>3, <2>1, <2>3, <2>4, PushFrame, SMTT(40)
  <2>6. QED
    BY <2>2, <2>5
<1>5. \A i \in Open : calls'[i] = calls[i] /\ LevelOf(i)' = LevelOf(i) /\ i \in 1 .. n /\ i < n + 1
  BY <1>4
<1>6. \A i \in Open : Pure(i)' <=> Pure(i)
  BY <1>3, <1>4, <1>5 DEF Pure
\* A hide at the same level whose table is kept bears witness that all are.
<1>7. ASSUME NEW i \in Open, Pure(i), calls[i].enter = display_enter
      PROVE  ~leaked /\ \A m \in Open : ~calls[m].lost
  <2> SUFFICES ASSUME NEW m \in Open, calls[m].lost PROVE FALSE
    BY <1>7 DEF Pure
  <2>1. i \in 1 .. n /\ m \in 1 .. n /\ i < m
    BY <1>4, <1>7 DEF Pure
  <2>2. EnterAfter(calls[i]) <= calls[m].enter /\ EnterAfter(calls[m]) <= display_enter
    BY <2>1, Highest DEF ScopesInv, NestingOK
  <2>3. /\ EnterAfter(calls[i]) = calls[i].enter \/ EnterAfter(calls[i]) = calls[i].enter + 1
        /\ EnterAfter(calls[m]) = calls[m].enter \/ EnterAfter(calls[m]) = calls[m].enter + 1
        /\ calls[i].enter \in Nat /\ calls[m].enter \in Nat
    BY <2>1, Activations
  <2>4. calls[m].enter = calls[i].enter
    BY <1>7, <2>2, <2>3
  <2>5. calls[i].lost
    BY <2>1, <2>4 DEF ScopesInv, SharingOK
  <2>6. QED
    BY <1>7, <2>1, <2>5 DEF Pure
<1>8. ASSUME Pure(n + 1)' PROVE ~leaked /\ \A m \in Open : ~calls[m].lost
  BY <1>3, <1>4, <1>5, <1>8 DEF Pure
<1>9. SharingOK'
  <2>1. ASSUME NEW i \in Open', NEW j \in Open', i < j, calls'[i].enter = calls'[j].enter
        PROVE  /\ calls'[j].lost => calls'[i].lost
               /\ Pure(i)' => LevelOf(i)' = LevelOf(j)'
    <3>1. i \in Open /\ i \in 1 .. n
      BY <1>4, <2>1
    <3>2. CASE j \in Open
      <4>1. /\ calls'[i] = calls[i] /\ LevelOf(i)' = LevelOf(i) /\ (Pure(i)' <=> Pure(i))
            /\ calls'[j] = calls[j] /\ LevelOf(j)' = LevelOf(j)
        BY <1>5, <1>6, <3>1, <3>2
      <4>2. /\ calls[j].lost => calls[i].lost
            /\ Pure(i) => LevelOf(i) = LevelOf(j)
        BY <2>1, <3>1, <3>2, <4>1 DEF ScopesInv, SharingOK
      <4>3. QED
        BY <4>1, <4>2
    <3>3. CASE j = n + 1
      <4>1. calls[i].enter = display_enter /\ ~calls'[j].lost
        BY <1>2, <1>4, <1>5, <2>1, <3>1, <3>3
      <4>2. ASSUME Pure(i)' PROVE LevelOf(i)' = LevelOf(j)'
        <5>1. Pure(i) /\ display_lookup = display_enter + 1
          BY <1>1, <1>6, <1>7, <3>1, <4>1, <4>2, PureLookup
        <5>2. LevelOf(i) = calls[i].enter + 1
          BY <3>1, <5>1 DEF ScopesInv, SharingOK
        <5>3. QED
          BY <1>4, <1>5, <3>1, <3>3, <4>1, <5>1, <5>2
      <4>3. QED
        BY <4>1, <4>2
    <3>4. QED
      BY <1>4, <3>2, <3>3
  <2>2. ASSUME NEW i \in Open', Pure(i)' PROVE LevelOf(i)' = calls'[i].enter + 1
    <3>1. CASE i \in Open
      <4>1. LevelOf(i) = calls[i].enter + 1
        BY <1>6, <2>2, <3>1 DEF ScopesInv, SharingOK
      <4>2. QED
        BY <1>5, <3>1, <4>1
    <3>2. CASE i = n + 1
      BY <1>1, <1>2, <1>4, <1>8, <2>2, <3>2, PureLookup
    <3>3. QED
      BY <1>4, <3>1, <3>2
  <2>3. QED
    BY <2>1, <2>2 DEF SharingOK
<1>10. ASSUME NEW i \in Open
       PROVE  /\ \A j \in Sharing(i) : j \in Open
              /\ OwnedByAny(Sharing(i))' = OwnedByAny(Sharing(i))
              /\ OwnedByAny(Sharing(i) \ {i})' = OwnedByAny(Sharing(i) \ {i})
  <2>1. Sharing(i)' = Sharing(i) /\ \A j \in Sharing(i) : j \in Open
    BY <1>4 DEF Sharing
  <2>2. QED
    BY <1>4, <2>1 DEF OwnedByAny
\* The table as it was is that of the last hide that shares it.
<1>11. ASSUME Pure(n + 1)'
       PROVE  \E q \in Open : /\ display[display_lookup] = OwnedByAny(Sharing(q))
                              /\ Sharing(q) = {j \in Open : LevelOf(j) = display_lookup}
  <2>1. display_lookup \in 1 .. display_lookup
    BY <1>1
  <2>2. QED
    BY <1>8, <1>11, <2>1, LevelTable
<1>12. TablesOK'
  <2> SUFFICES ASSUME NEW i \in Open', Pure(i)'
               PROVE  /\ (\A k \in Open' : k > i => LevelOf(k)' # LevelOf(i)')
                           => display'[LevelOf(i)'] = OwnedByAny(Sharing(i))'
                      /\ calls'[i].at \in {"inside", "inside_public"}
                           => calls'[i].oldplace = OwnedByAny(Sharing(i) \ {i})'
                      /\ \A j \in Sharing(i)' \ {i} : \A e \in OwnedBy(j)', e2 \in OwnedBy(i)' : e < e2
    BY DEF TablesOK
  <2>1. CASE i \in Open
    <3>1. Pure(i) /\ i \in 1 .. n /\ Sharing(i)' = Sharing(i)
      BY <1>4, <1>6, <2>1
    <3>2. ASSUME \A k \in Open' : k > i => LevelOf(k)' # LevelOf(i)'
          PROVE  display'[LevelOf(i)'] = OwnedByAny(Sharing(i))'
      <4>1. \A k \in Open : k > i => LevelOf(k) # LevelOf(i)
        BY <1>4, <1>5, <2>1, <3>2
      <4>2. display[LevelOf(i)] = OwnedByAny(Sharing(i))
        BY <2>1, <3>1, <4>1 DEF ScopesInv, TablesOK
      <4>3. QED
        BY <1>3, <1>5, <1>10, <2>1, <4>2
    <3>3. calls[i].at \in {"inside", "inside_public"} => calls[i].oldplace = OwnedByAny(Sharing(i) \ {i})
      BY <2>1, <3>1 DEF ScopesInv, TablesOK
    <3>4. \A j \in Sharing(i) \ {i} : \A e \in OwnedBy(j), e2 \in OwnedBy(i) : e < e2
      BY <2>1, <3>1 DEF ScopesInv, TablesOK
    <3>5. \A j \in Sharing(i)' \ {i} : \A e \in OwnedBy(j)', e2 \in OwnedBy(i)' : e < e2
      BY <1>4, <1>10, <2>1, <3>1, <3>4
    <3>6. QED
      BY <1>5, <1>10, <2>1, <3>2, <3>3, <3>5
  <2>2. CASE i = n + 1
    <3>1. PICK q \in Open : /\ display[display_lookup] = OwnedByAny(Sharing(q))
                            /\ Sharing(q) = {j \in Open : LevelOf(j) = display_lookup}
      BY <1>11, <2>2
    <3>2. Sharing(i)' = Sharing(q) \cup {i} /\ i \notin Sharing(q)
      <4>1. Sharing(i)' = {j \in Open' : j <= i /\ LevelOf(j)' = LevelOf(i)'}
        BY DEF Sharing
      <4>2. \A j \in Open : j <= i /\ j # i
        BY <1>4, <1>5, <2>2
      <4>3. i <= i /\ i \notin Open
        BY <1>4, <2>2, <4>2
      <4>4. \A j : j \in Sharing(i)' <=> j = i \/ (j \in Open /\ LevelOf(j) = display_lookup)
        BY <1>4, <1>5, <2>2, <4>1, <4>2, <4>3
      <4>5. QED
        BY <3>1, <4>3, <4>4
    <3>3. OwnedByAny(Sharing(i))' = OwnedByAny(Sharing(q))
      <4>1. OwnedBy(i)' = {} /\ \A j \in Sharing(q) : OwnedBy(j)' = OwnedBy(j)
        BY <1>4, <1>10, <2>2
      <4>2. QED
        BY <1>4, <3>2, <4>1 DEF OwnedByAny
    <3>4. OwnedByAny(Sharing(i) \ {i})' = OwnedByAny(Sharing(q))
      <4>1. (Sharing(i) \ {i})' = Sharing(q) /\ \A j \in Sharing(q) : OwnedBy(j)' = OwnedBy(j)
        BY <1>4, <1>10, <3>2
      <4>2. QED
        BY <1>4, <4>1 DEF OwnedByAny
    <3>5. calls'[i].oldplace = display[display_lookup] /\ display'[LevelOf(i)'] = display[display_lookup]
      BY <1>2, <1>3, <1>4, <2>2
    <3>6. QED
      BY <1>4, <2>2, <3>1, <3>3, <3>4, <3>5
  <2>3. QED
    BY <1>4, <2>1, <2>2
<1>13. QED
  BY <1>4, <1>9, <1>12 DEF ScopesInv

-----------------------------------------------------------------------------
(* The steps that are neither calls nor returns. *)

\* Where the hidden names of the innermost scope are complete, names are entered
\* where they were before it began.
LEMMA PublicScopes ==
  ASSUME BaseInv, ScopesInv, calls # <<>>, Top.at \in {"hidden", "inside"},
         calls' = [calls EXCEPT ![Len(calls)].at =
                     IF Top.at = "hidden" THEN "hidden_public" ELSE "inside_public"],
         UNCHANGED <<table, scopes, leaked>>
  PROVE  ScopesInv'
<1> SUFFICES ASSUME NEW n, n = Len(calls) PROVE ScopesInv'
  OBVIOUS
<1> DEFINE a == IF Top.at = "hidden" THEN "hidden_public" ELSE "inside_public"
<1>1. n \in Nat /\ n \in 1 .. n /\ calls \in Seq(Frame) /\ Top = calls[n] /\ calls[n] \in Frame
      /\ \A i \in 1 .. n : calls[i] \in Frame
  BY Context DEF Top
<1>2. calls' = [calls EXCEPT ![n].at = a]
  OBVIOUS
<1>3. /\ Len(calls') = n /\ \A i \in 1 .. n : i # n => calls'[i] = calls[i]
      /\ calls'[n] = [calls[n] EXCEPT !.at = a]
  BY <1>1, <1>2
<1>4. \A i \in 1 .. n : /\ calls'[i].enter = calls[i].enter /\ calls'[i].lookup = calls[i].lookup
                        /\ calls'[i].id = calls[i].id /\ calls'[i].lost = calls[i].lost
                        /\ calls'[i].oldplace = calls[i].oldplace
                        /\ i # n => calls'[i].at = calls[i].at
  BY <1>1, <1>3 DEF Frame
<1>5. calls'[n].at = a /\ calls[n].at \in {"hidden", "inside"}
      /\ a = IF calls[n].at = "hidden" THEN "hidden_public" ELSE "inside_public"
  BY <1>1, <1>3 DEF Frame
<1>6. \A i \in 1 .. n : /\ LevelOf(i)' = LevelOf(i)
                        /\ i # n => EnterAfter(calls'[i]) = EnterAfter(calls[i])
  BY <1>4, <1>5 DEF LevelOf, LookupAfter, EnterAfter
<1>7. EnterAfter(calls'[n]) = calls[n].enter /\ calls[n].enter \in Nat
  BY <1>1, <1>4, <1>5, Activations DEF EnterAfter
<1>8. /\ Open' = Open /\ n \in Open /\ Entering' = Entering \ {n} /\ \A i \in Open : i \in 1 .. n
  BY <1>1, <1>3, <1>4, <1>5 DEF Open, Entering
<1>9. Entries' = Entries /\ entry' = entry /\ hashentry' = hashentry /\ display' = display
      /\ scopes' = scopes /\ leaked' = leaked
  BY DEF table, Entries
<1>10. \A i \in Open : /\ OwnedBy(i)' = OwnedBy(i) /\ Sharing(i)' = Sharing(i)
                       /\ Pure(i)' <=> Pure(i)
  BY <1>4, <1>6, <1>8, <1>9 DEF OwnedBy, Sharing, Pure
<1>11. NumbersOK'
  BY <1>4, <1>8, <1>9 DEF ScopesInv, NumbersOK
<1>12. NestingOK'
  <2>1. ASSUME NEW i \in 1 .. n, NEW j \in 1 .. n, i < j
        PROVE  EnterAfter(calls'[i]) <= calls'[j].enter /\ LevelOf(i)' <= calls'[j].lookup
    BY <1>1, <1>4, <1>6, <2>1 DEF ScopesInv, NestingOK
  <2>2. ASSUME NEW m \in 1 .. n, m + 1 = n
        PROVE  calls[n].enter = EnterAfter(calls[m])
    BY <1>1, <2>2 DEF BaseInv, LevelsOK
  <2>3. ASSUME NEW i \in 1 .. n, NEW j \in 1 .. n, i <= j,
               \A k \in (i + 1) .. j : k \notin Entering'
        PROVE  EnterAfter(calls'[j]) = EnterAfter(calls'[i])
    <3>1. CASE j # n
      <4>1. i # n /\ \A k \in (i + 1) .. j : k \notin Entering
        BY <1>1, <1>8, <2>3, <3>1
      <4>2. QED
        BY <1>6, <2>3, <3>1, <4>1 DEF ScopesInv, NestingOK
    <3>2. CASE j = n /\ i # n
      <4>1. PICK m \in 1 .. n : m + 1 = n /\ i <= m
        <5>1. n - 1 \in 1 .. n /\ (n - 1) + 1 = n /\ i <= n - 1
          BY <1>1, <2>3, <3>2
        <5>2. QED
          BY <5>1
      <4>2. m # n /\ \A k \in (i + 1) .. m : k \in (i + 1) .. j /\ k # n
        BY <1>1, <3>2, <4>1
      <4>3. \A k \in (i + 1) .. m : k \notin Entering
        BY <1>8, <2>3, <4>2
      <4>4. EnterAfter(calls[m]) = EnterAfter(calls[i])
        BY <4>1, <4>3 DEF ScopesInv, NestingOK
      <4>5. QED
        BY <1>6, <1>7, <2>2, <3>2, <4>1, <4>4
    <3>3. CASE i = n
      BY <1>1, <2>3, <3>3
    <3>4. QED
      BY <3>1, <3>2, <3>3
  <2>4. ASSUME ~leaked', NEW j \in 1 .. n
        PROVE  /\ (\A k \in 1 .. j : k \notin Entering') => EnterAfter(calls'[j]) = 0
               /\ \A l \in 1 .. LevelOf(j)' : \E i \in Open' : i <= j /\ LevelOf(i)' = l
    <3>1. ~leaked
      BY <1>9, <2>4
    <3>2. ASSUME \A k \in 1 .. j : k \notin Entering'
          PROVE  EnterAfter(calls'[j]) = 0
      <4>1. CASE j # n
        <5>1. \A k \in 1 .. j : k \notin Entering
          BY <1>1, <1>8, <3>2, <4>1
        <5>2. QED
          BY <1>6, <3>1, <4>1, <5>1 DEF ScopesInv, NestingOK
      <4>2. CASE j = n /\ n = 1
        BY <1>7, <3>1, <4>2 DEF BaseInv, LevelsOK
      <4>3. CASE j = n /\ n # 1
        <5>1. PICK m \in 1 .. n : m + 1 = n
          <6>1. n - 1 \in 1 .. n /\ (n - 1) + 1 = n
            BY <1>1, <4>3
          <6>2. QED
            BY <6>1
        <5>2. \A k \in 1 .. m : k \in 1 .. j /\ k # n
          BY <1>1, <4>3, <5>1
        <5>3. \A k \in 1 .. m : k \notin Entering
          BY <1>8, <3>2, <5>2
        <5>4. EnterAfter(calls[m]) = 0
          BY <3>1, <5>3 DEF ScopesInv, NestingOK
        <5>5. QED
          BY <1>7, <2>2, <4>3, <5>1, <5>4
      <4>4. QED
        BY <4>1, <4>2, <4>3
    <3>3. \A l \in 1 .. LevelOf(j) : \E i \in Open : i <= j /\ LevelOf(i) = l
      BY <3>1 DEF ScopesInv, NestingOK
    <3>4. QED
      BY <1>6, <1>8, <3>2, <3>3
  <2>5. QED
    BY <1>3, <2>1, <2>3, <2>4 DEF NestingOK
<1>13. SharingOK'
  BY <1>4, <1>6, <1>8, <1>10 DEF ScopesInv, SharingOK
<1>14. TablesOK'
  <2> SUFFICES ASSUME NEW i \in Open, Pure(i)
               PROVE  /\ (\A k \in Open : k > i => LevelOf(k)' # LevelOf(i)')
                           => display'[LevelOf(i)'] = OwnedByAny(Sharing(i))'
                      /\ calls'[i].at \in {"inside", "inside_public"}
                           => calls'[i].oldplace = OwnedByAny(Sharing(i) \ {i})'
                      /\ \A j \in Sharing(i)' \ {i} : \A e \in OwnedBy(j)', e2 \in OwnedBy(i)' : e < e2
    BY <1>8, <1>10 DEF TablesOK
  <2>1. \A k \in Open : LevelOf(k)' = LevelOf(k) /\ OwnedBy(k)' = OwnedBy(k)
    BY <1>6, <1>8, <1>10
  <2>2. Sharing(i)' = Sharing(i) /\ \A j \in Sharing(i) : j \in Open
    BY <1>10 DEF Sharing
  <2>3. /\ OwnedByAny(Sharing(i))' = OwnedByAny(Sharing(i))
        /\ OwnedByAny(Sharing(i) \ {i})' = OwnedByAny(Sharing(i) \ {i})
    BY <1>9, <2>1, <2>2 DEF OwnedByAny
  <2>4. calls'[i].at \in {"inside", "inside_public"} => calls[i].at \in {"inside", "inside_public"}
    BY <1>1, <1>4, <1>5, <1>8
  <2>5. (\A k \in Open : k > i => LevelOf(k) # LevelOf(i)) => display[LevelOf(i)] = OwnedByAny(Sharing(i))
    BY DEF ScopesInv, TablesOK
  <2>6. calls[i].at \in {"inside", "inside_public"} => calls[i].oldplace = OwnedByAny(Sharing(i) \ {i})
    BY DEF ScopesInv, TablesOK
  <2>7. \A j \in Sharing(i) \ {i} : \A e \in OwnedBy(j), e2 \in OwnedBy(i) : e < e2
    BY DEF ScopesInv, TablesOK
  <2>8. calls'[i].oldplace = calls[i].oldplace
    BY <1>4, <1>8
  <2>9. (\A k \in Open : k > i => LevelOf(k)' # LevelOf(i)')
          => display'[LevelOf(i)'] = OwnedByAny(Sharing(i))'
    BY <1>9, <2>1, <2>3, <2>5
  <2>10. \A j \in Sharing(i)' \ {i} : \A e \in OwnedBy(j)', e2 \in OwnedBy(i)' : e < e2
    BY <2>1, <2>2, <2>7
  <2>11. QED
    BY <2>3, <2>4, <2>6, <2>8, <2>9, <2>10
<1>15. QED
  BY <1>11, <1>12, <1>13, <1>14 DEF ScopesInv

\* In a module or a hidden part a name is entered for the scope that names are
\* entered for, in front of the table it shares.
LEMMA EnteratomScopes ==
  ASSUME BaseInv, ScopesInv, NEW n \in Names, enteratom(n), display_enter > 0,
         UNCHANGED <<calls, level, scopes, leaked>>
  PROVE  ScopesInv'
<1> SUFFICES ASSUME NEW N, N = Len(entry) + 1 PROVE ScopesInv'
  OBVIOUS
<1>1. /\ entry' = Append(entry, NewEntry(n, Owner)) /\ hashentry' = hashentry
      /\ display' = [display EXCEPT ![display_enter] = @ \cup {N}]
      /\ entry \in Seq(Entry) /\ Len(entry) \in Nat /\ display \in [Levels -> SUBSET Entries]
      /\ display_enter \in Levels /\ display_enter \in Nat
  BY Context DEF enteratom, TableOK
<1>2. /\ Entries' = Entries \cup {N} /\ N \notin Entries /\ \A e \in Entries : entry'[e] = entry[e] /\ e < N
      /\ entry'[N] = NewEntry(n, Owner)
  BY <1>1, AppendProperties DEF Entries
<1>3. NewEntry(n, Owner).owner = Owner
  BY DEF NewEntry
<1>4. Owner \in 0 .. scopes
  <2>1. CASE Entering = {}
    BY <2>1, Activations DEF Owner
  <2>2. CASE Entering # {}
    <3>1. Newest(Entering) \in Entering
      BY <2>2, Activations, NewestIn
    <3>2. QED
      BY <2>2, <3>1, Activations DEF Owner, ScopesInv, NumbersOK
  <2>3. QED
    BY <2>1, <2>2
<1>5. /\ Open' = Open /\ calls' = calls /\ scopes' = scopes /\ leaked' = leaked
      /\ \A i : Sharing(i)' = Sharing(i) /\ LevelOf(i)' = LevelOf(i) /\ (Pure(i)' <=> Pure(i))
  BY DEF Open, Sharing, LevelOf, Pure
<1>6. NumbersOK'
  <2>1. \A e \in Entries' : entry'[e].owner \in 0 .. scopes
    BY <1>2, <1>3, <1>4 DEF ScopesInv, NumbersOK
  <2>2. \A e \in hashentry' : entry'[e].owner = 0
    BY <1>1, <1>2, Context DEF ScopesInv, NumbersOK, TableOK
  <2>3. QED
    BY <1>5, <2>1, <2>2 DEF ScopesInv, NumbersOK
<1>7. NestingOK' /\ SharingOK'
  BY <1>5 DEF ScopesInv, NestingOK, SharingOK, Entering
<1>8. TablesOK'
  <2> SUFFICES ASSUME NEW i \in Open, Pure(i)
               PROVE  /\ (\A k \in Open : k > i => LevelOf(k) # LevelOf(i))
                           => display'[LevelOf(i)] = OwnedByAny(Sharing(i))'
                      /\ calls[i].at \in {"inside", "inside_public"}
                           => calls[i].oldplace = OwnedByAny(Sharing(i) \ {i})'
                      /\ \A j \in Sharing(i) \ {i} : \A e \in OwnedBy(j)', e2 \in OwnedBy(i)' : e < e2
    BY <1>5 DEF TablesOK
  <2>1. ~leaked /\ Len(calls) \in 1 .. Len(calls) /\ display_enter = EnterAfter(calls[Len(calls)])
        /\ i \in 1 .. Len(calls) /\ Len(calls) \in Nat
    <3>1. ~leaked /\ i \in 1 .. Len(calls) /\ Len(calls) \in Nat
      BY Activations DEF Pure
    <3>2. QED
      BY <3>1, Activations DEF Top
  <2>2. Entering # {}
    BY <1>1, <2>1 DEF ScopesInv, NestingOK
  <2>3. /\ Newest(Entering) \in Entering /\ \A k \in Entering : k <= Newest(Entering)
        /\ Owner = calls[Newest(Entering)].id
    BY <2>2, Activations, NewestIn DEF Owner
  <2>4. PICK k \in Entering : Owner = calls[k].id /\ \A j \in Entering : j <= k
    BY <2>3
  <2>5. k \in Open /\ k \in 1 .. Len(calls) /\ EnterAfter(calls[k]) = calls[k].enter + 1
        /\ calls[k].enter \in Nat
    BY Activations
  <2>6. display_enter = calls[k].enter + 1
    <3>1. \A m \in (k + 1) .. Len(calls) : m \notin Entering
      BY <2>1, <2>4, <2>5
    <3>2. EnterAfter(calls[Len(calls)]) = EnterAfter(calls[k])
      BY <2>1, <2>5, <3>1 DEF ScopesInv, NestingOK
    <3>3. QED
      BY <2>1, <2>5, <3>2
  <2>7. \A j \in Open : OwnedBy(j)' = IF j = k THEN OwnedBy(j) \cup {N} ELSE OwnedBy(j)
    <3> SUFFICES ASSUME NEW j \in Open
                 PROVE  OwnedBy(j)' = IF j = k THEN OwnedBy(j) \cup {N} ELSE OwnedBy(j)
      OBVIOUS
    <3>1. calls[j].id = calls[k].id <=> j = k
      <4>1. j \in 1 .. Len(calls)
        BY Activations
      <4>2. calls[j].id \in Nat /\ calls[k].id \in Nat
        BY <2>5, <4>1, Activations
      <4>3. j < k \/ j = k \/ k < j
        BY <2>1, <2>5, <4>1
      <4>4. QED
        BY <2>5, <4>2, <4>3 DEF ScopesInv, NumbersOK
    <3>2. OwnedBy(j)' = {e \in Entries' : entry'[e].owner = calls[j].id}
      BY <1>5 DEF OwnedBy
    <3>3. entry'[N].owner = calls[k].id
      BY <1>2, <1>3, <2>4
    <3>4. QED
      BY <1>2, <3>1, <3>2, <3>3 DEF OwnedBy
  <2>8. \A j \in Sharing(i) : j \in Open /\ j <= i /\ LevelOf(j) = LevelOf(i)
    BY DEF Sharing
  \* Sharing a level, k would have begun at the one that it enters names above.
  <2>9. k \notin Sharing(i) \ {i}
    <3> SUFFICES ASSUME k \in Sharing(i), k # i PROVE FALSE
      OBVIOUS
    <3>1. k < i /\ LevelOf(k) = LevelOf(i)
      BY <2>1, <2>5, <2>8
    <3>2. Pure(k)
      BY <2>1, <2>5, <3>1, Activations DEF Pure
    <3>3. LevelOf(k) = calls[k].enter + 1 /\ LevelOf(i) = calls[i].enter + 1
      BY <2>5, <3>2 DEF ScopesInv, SharingOK
    <3>4. EnterAfter(calls[k]) <= calls[i].enter /\ calls[i].enter \in Nat
      BY <2>1, <2>5, <3>1, Activations DEF ScopesInv, NestingOK
    <3>5. calls[k].enter + 1 <= calls[i].enter
      BY <2>5, <3>4
    <3>6. calls[k].enter + 1 = calls[i].enter + 1
      BY <3>1, <3>3
    <3>7. QED
      BY <3>4, <3>5, <3>6
  <2>10. OwnedByAny(Sharing(i) \ {i})' = OwnedByAny(Sharing(i) \ {i})
    <3>1. \A j \in Sharing(i) \ {i} : OwnedBy(j)' = OwnedBy(j)
      BY <2>7, <2>8, <2>9
    <3>2. \A j : OwnedBy(j) \subseteq Entries
      BY DEF OwnedBy
    <3>3. QED
      BY <1>2, <1>5, <3>1, <3>2 DEF OwnedByAny
  <2>11. \A j \in Sharing(i) \ {i} : \A e \in OwnedBy(j)', e2 \in OwnedBy(i)' : e < e2
    <3>1. \A j \in Sharing(i) \ {i} : \A e \in OwnedBy(j), e2 \in OwnedBy(i) : e < e2
      BY DEF ScopesInv, TablesOK
    <3>2. \A j \in Sharing(i) \ {i} : OwnedBy(j)' = OwnedBy(j) /\ OwnedBy(j) \subseteq Entries
      BY <2>7, <2>8, <2>9 DEF OwnedBy
    <3>3. OwnedBy(i)' \subseteq OwnedBy(i) \cup {N}
      BY <2>7
    <3>4. QED
      BY <1>2, <3>1, <3>2, <3>3
  <2>12. ASSUME \A j \in Open : j > i => LevelOf(j) # LevelOf(i)
         PROVE  display'[LevelOf(i)] = OwnedByAny(Sharing(i))'
    <3>1. display[LevelOf(i)] = OwnedByAny(Sharing(i)) /\ LevelOf(i) = calls[i].enter + 1
      BY <2>12 DEF ScopesInv, TablesOK, SharingOK
    <3>2. LevelOf(i) \in Levels /\ calls[i].enter \in Nat
      BY <2>1, Highest, Activations
    <3>3. CASE k \in Sharing(i)
      <4>1. k = i
        BY <2>9, <3>3
      <4>2. LevelOf(i) = display_enter
        BY <2>6, <3>1, <4>1
      <4>3. display'[LevelOf(i)] = display[LevelOf(i)] \cup {N}
        BY <1>1, <3>2, <4>2
      <4>4. OwnedByAny(Sharing(i))' = OwnedByAny(Sharing(i)) \cup {N}
        <5>1. \A j \in Sharing(i) : OwnedBy(j)' = IF j = k THEN OwnedBy(j) \cup {N} ELSE OwnedBy(j)
          BY <2>7, <2>8
        <5>2. OwnedByAny(Sharing(i))' = {e \in Entries' : \E j \in Sharing(i) : e \in OwnedBy(j)'}
          BY <1>5 DEF OwnedByAny
        <5>3. \A j : N \notin OwnedBy(j)
          BY <1>2 DEF OwnedBy
        <5>4. QED
          BY <1>2, <3>3, <5>1, <5>2, <5>3 DEF OwnedByAny
      <4>5. QED
        BY <3>1, <4>3, <4>4
    <3>4. CASE k \notin Sharing(i)
      <4>1. LevelOf(i) # display_enter
        <5> SUFFICES ASSUME LevelOf(i) = display_enter PROVE FALSE
          OBVIOUS
        <5>1. calls[i].enter = calls[k].enter
          BY <2>5, <2>6, <3>1, <3>2
        <5>2. CASE k > i
          <6>1. LevelOf(i) = LevelOf(k)
            BY <2>5, <5>1, <5>2 DEF ScopesInv, SharingOK
          <6>2. QED
            BY <2>5, <2>12, <5>2, <6>1
        <5>3. CASE k <= i
          <6>1. Pure(k)
            BY <2>1, <2>5, <5>3, Activations DEF Pure
          <6>2. LevelOf(k) = calls[k].enter + 1
            BY <2>5, <6>1 DEF ScopesInv, SharingOK
          <6>3. QED
            BY <2>5, <3>1, <3>4, <5>1, <5>3, <6>2 DEF Sharing
        <5>4. QED
          BY <2>1, <2>5, <5>2, <5>3
      <4>2. display'[LevelOf(i)] = display[LevelOf(i)]
        BY <1>1, <3>2, <4>1
      <4>3. OwnedByAny(Sharing(i))' = OwnedByAny(Sharing(i))
        <5>1. \A j \in Sharing(i) : OwnedBy(j)' = OwnedBy(j) /\ OwnedBy(j) \subseteq Entries
          BY <2>7, <2>8, <3>4 DEF OwnedBy
        <5>2. OwnedByAny(Sharing(i))' = {e \in Entries' : \E j \in Sharing(i) : e \in OwnedBy(j)'}
          BY <1>5 DEF OwnedByAny
        <5>3. QED
          BY <1>2, <5>1, <5>2 DEF OwnedByAny
      <4>4. QED
        BY <3>1, <4>2, <4>3
    <3>5. QED
      BY <3>3, <3>4
  <2>13. calls[i].at \in {"inside", "inside_public"} => calls[i].oldplace = OwnedByAny(Sharing(i) \ {i})
    BY DEF ScopesInv, TablesOK
  <2>14. QED
    BY <2>10, <2>11, <2>12, <2>13
<1>9. QED
  BY <1>6, <1>7, <1>8 DEF ScopesInv

-----------------------------------------------------------------------------
(* The inductive invariant. *)

LEMMA InitScopes == Init => ScopesInv
<1> SUFFICES ASSUME Init PROVE ScopesInv
  OBVIOUS
<1>1. Len(calls) = 0 /\ scopes = 0
  BY DEF Init
<1>2. Open = {} /\ Entering = {}
  BY <1>1 DEF Open, Entering
<1>3. \A e \in Entries : entry[e].owner = 0
  <2> DEFINE k == Cardinality(Inbuilts)
  <2>1. PICK name \in [1 .. k -> Inbuilts] :
          entry = [e \in 1 .. k |-> [NewEntry(name[e], 0) EXCEPT !.kind = "inbuilt"]]
    BY DEF Init
  <2>2. k \in Nat
    BY ConstantFacts
  <2> HIDE DEF k
  <2>3. Len(entry) = k
    BY <2>1, <2>2
  <2>4. QED
    BY <2>1, <2>3 DEF Entries, NewEntry
<1>4. hashentry = Entries
  BY DEF Init
<1>5. NumbersOK /\ NestingOK /\ SharingOK /\ TablesOK
  BY <1>1, <1>2, <1>3, <1>4 DEF NumbersOK, NestingOK, SharingOK, TablesOK
<1>6. QED
  BY <1>5 DEF ScopesInv

LEMMA ReadingScopes ==
  ASSUME BaseInv, ScopesInv, Reading
  PROVE  ScopesInv'
<1>1. ASSUME NEW n \in Names, read_atom(n) PROVE ScopesInv'
  <2>1. OwnersStay /\ display' = display
    BY <1>1, LookupOwners DEF read_atom
  <2>2. QED
    BY <1>1, <2>1, KeepScopes DEF read_atom
<1>2. ASSUME NEW n \in Names, read_field(n) PROVE ScopesInv'
  <2>1. OwnersStay /\ display' = display
    BY <1>2, LookupOwners DEF read_field
  <2>2. QED
    BY <1>2, <2>1, KeepScopes DEF read_field
<1>3. ASSUME NEW n \in Names, read_bad_field(n) PROVE ScopesInv'
  <2>1. OwnersStay
    BY <1>3, LookupOwners DEF read_bad_field
  <2>2. QED
    BY <1>3, <2>1, AbortScopes DEF read_bad_field
<1>4. CASE read_no_field
  BY <1>4, SameOwners, KeepScopes DEF read_no_field, table
<1>5. CASE execerror
  BY <1>5, SameOwners, AbortScopes DEF execerror, table
<1>6. QED
  BY <1>1, <1>2, <1>3, <1>4, <1>5 DEF Reading

\* A name is entered for the innermost scope, or is global.
LEMMA EnterScopes ==
  ASSUME BaseInv, ScopesInv, NEW n \in Names, enteratom(n), UNCHANGED <<level, calls, scopes, leaked>>
  PROVE  ScopesInv'
<1>1. CASE display_enter > 0
  BY <1>1, EnteratomScopes
<1>2. CASE ~(display_enter > 0)
  <2>1. OwnersStay /\ display' = display
    BY <1>2, LookupOwners DEF enteratom
  <2>2. QED
    BY <2>1, KeepScopes
<1>3. QED
  BY <1>1, <1>2

LEMMA DefinitionScopes ==
  ASSUME BaseInv, ScopesInv, Definition
  PROVE  ScopesInv'
<1>1. CASE definition_compound
  BY <1>1, PlainScopes DEF definition_compound, Push
<1>2. CASE definition_empty \/ defsequence_goes_on
  BY <1>2, SameOwners, KeepScopes DEF definition_empty, defsequence_goes_on, table
<1>3. CASE definition_assigns
  <2>1. here \in Entries
    BY <1>3 DEF definition_assigns, BaseInv, ControlOK
  <2>2. /\ entry' = [entry EXCEPT ![here].kind = "body", ![here].fields = {}]
        /\ UNCHANGED <<hashentry, display, calls, scopes, leaked>>
    BY <1>3 DEF definition_assigns
  <2>3. OwnersStay
    BY <2>1, <2>2, SetEntryOwners
  <2>4. QED
    BY <2>2, <2>3, KeepScopes
<1>4. ASSUME NEW n \in Names, definition_atom(n) PROVE ScopesInv'
  <2>1. CASE IsInbuilt(EnteredAt(n))
    <3>1. enterglobal(n)
      BY <1>4, <2>1 DEF definition_atom
    <3>2. QED
      BY <1>4, <3>1, EnterglobalOwners, KeepScopes DEF definition_atom, enterglobal
  <2>2. CASE ~IsInbuilt(EnteredAt(n))
    BY <1>4, <2>2, EnterScopes DEF definition_atom
  <2>3. QED
    BY <2>1, <2>2
<1>5. QED
  BY <1>1, <1>2, <1>3, <1>4 DEF Definition

LEMMA ReturnScopes ==
  ASSUME BaseInv, ScopesInv, public_ends \/ nested_ends \/ hide_ends \/ module_ends
  PROVE  ScopesInv'
<1>1. CASE public_ends
  <2>1. calls # <<>>
    BY <1>1 DEF public_ends, BaseInv, ControlOK
  <2>2. QED
    BY <1>1, <2>1, SameOwners, PopScopes DEF public_ends, table
<1>2. CASE nested_ends
  BY <1>2, SameOwners, PopScopes DEF nested_ends, table
<1>3. CASE hide_ends
  BY <1>3, SameOwners, PopScopes DEF hide_ends, table
<1>4. CASE module_ends
  <2>1. Top.here \in Entries
    BY <1>4, TopLevels DEF module_ends
  <2>2. /\ entry' = [entry EXCEPT ![Top.here].kind = "module", ![Top.here].fields = display[display_enter]]
        /\ UNCHANGED hashentry
    BY <1>4 DEF module_ends
  <2>3. OwnersStay
    BY <2>1, <2>2, SetEntryOwners
  <2>4. QED
    BY <1>4, <2>3, PopScopes DEF module_ends
<1>5. QED
  BY <1>1, <1>2, <1>3, <1>4

LEMMA BeginScopes ==
  ASSUME BaseInv, ScopesInv, public_begins \/ module_begins \/ hide_begins \/ inside_begins
  PROVE  ScopesInv'
<1>1. CASE public_begins
  BY <1>1, PlainScopes DEF public_begins, Push
<1>2. CASE module_begins
  <2> DEFINE c == [Call("module") EXCEPT !.here = here]
  <2>1. here \in 0 .. SYMTABMAX
    BY <1>2, Context, ConstantFacts DEF module_begins, BaseInv, ControlOK, TableOK, Entries
  <2>2. /\ c \in Frame /\ c.at = "module" /\ c.enter = display_enter /\ c.lookup = display_lookup
        /\ ~c.lost
    BY <2>1, CallType DEF Call, Frame
  <2>3. NewTable(c) /\ Fits
    BY <1>2 DEF module_begins
  <2> HIDE DEF c
  <2>4. QED
    BY <2>2, <2>3, NewTableScopes
<1>3. CASE hide_begins
  <2> DEFINE c == Call("hidden")
  <2>1. /\ c \in Frame /\ c.at = "hidden" /\ c.enter = display_enter /\ c.lookup = display_lookup
        /\ ~c.lost
    BY CallType DEF Call
  <2>2. NewTable(c) /\ Fits /\ display_enter = display_lookup
    BY <1>3, Context DEF hide_begins, BaseInv, LevelsOK
  <2> HIDE DEF c
  <2>3. QED
    BY <2>1, <2>2, NewTableScopes
<1>4. CASE inside_begins
  BY <1>4, InsideBeginsScopes
<1>5. QED
  BY <1>1, <1>2, <1>3, <1>4

LEMMA CompoundScopes ==
  ASSUME BaseInv, ScopesInv, Compound
  PROVE  ScopesInv'
<1>1. CASE main_compound \/ compound_empty \/ main_goes_on \/ display_overruns
  BY <1>1, SameOwners, KeepScopes
  DEF main_compound, compound_empty, main_goes_on, display_overruns, table
<1>2. ASSUME NEW n \in Names, module_name(n) PROVE ScopesInv'
  BY <1>2, EnterScopes DEF module_name
<1>3. CASE module_unnamed
  BY <1>3, SameOwners, AbortScopes DEF module_unnamed, table
<1>4. CASE hide_public \/ inside_public
  <2>1. calls # <<>>
    BY <1>4 DEF hide_public, inside_public, BaseInv, ControlOK
  <2>2. QED
    BY <1>4, <2>1, PublicScopes DEF hide_public, inside_public
<1>5. QED
  BY <1>1, <1>2, <1>3, <1>4, BeginScopes, ReturnScopes, InsideEndsScopes DEF Compound

LEMMA NextScopes == BaseInv /\ ScopesInv /\ [Next]_vars => ScopesInv'
<1> SUFFICES ASSUME BaseInv, ScopesInv, [Next]_vars PROVE ScopesInv'
  OBVIOUS
<1>1. CASE UNCHANGED vars
  BY <1>1, SameOwners, KeepScopes DEF vars, table
<1>2. QED
  BY <1>1, ReadingScopes, DefinitionScopes, CompoundScopes DEF Next

-----------------------------------------------------------------------------
(* Theorems. *)

\* Whatever modules and hides a text nests, and whatever errors it has, each table
\* of the display that no later one has replaced holds the names of the open
\* scopes that share it, the names of inner scopes in front.
THEOREM Invariance == Spec => []IInv
<1>1. Init => IInv
  BY InitBaseInv, InitScopes DEF IInv
<1>2. IInv /\ [Next]_vars => IInv'
  BY NextBaseInv, NextScopes DEF IInv
<1>3. QED
  BY <1>1, <1>2, PTL DEF Spec

\* The newest of a set of entries is the only one that none is newer than.
LEMMA NewestIs ==
  ASSUME NEW k \in Nat, NEW S \in SUBSET (1 .. k), NEW e \in S, \A f \in S : f <= e
  PROVE  Newest(S) = e
<1>1. Newest(S) \in S /\ e <= Newest(S)
  BY NewestIn
<1>2. Newest(S) <= e /\ Newest(S) \in 1 .. k /\ e \in 1 .. k
  BY <1>1
<1> HIDE DEF Newest
<1>3. QED
  BY <1>1, <1>2

\* Levels rise with the depth of the scopes looked up at them.
LEMMA Rising ==
  ASSUME BaseInv, ScopesInv, NEW i \in Open, NEW j \in Open, i <= j
  PROVE  LevelOf(i) <= LevelOf(j)
<1>1. i \in 1 .. Len(calls) /\ j \in 1 .. Len(calls) /\ LevelOf(i) \in Nat /\ LevelOf(j) \in Nat
      /\ calls[j].lookup \in Nat /\ LevelOf(j) \in {calls[j].lookup, calls[j].lookup + 1}
  BY Activations
<1>2. i < j => LevelOf(i) <= calls[j].lookup
  BY <1>1 DEF ScopesInv, NestingOK
<1>3. i < j \/ i = j
  BY <1>1
<1>4. QED
  BY <1>1, <1>2, <1>3

LEMMA LexicalLookup == IInv => LookupIsLexical
<1> SUFFICES ASSUME IInv, Undisturbed, NEW n \in Names PROVE Resolved(n) = Lexical(n)
  BY DEF LookupIsLexical
<1>1. BaseInv /\ ScopesInv /\ ~leaked /\ (\A i \in Open : ~calls[i].lost) /\ \A i \in Open : Pure(i)
  BY DEF IInv, Undisturbed, Pure
<1> DEFINE scoped == {i \in Open : Found(OwnedBy(i), n) # {}}
<1>2. /\ Len(calls) \in Nat /\ Len(entry) \in Nat /\ display_lookup \in Nat
      /\ Open \subseteq 1 .. Len(calls)
  BY <1>1, Activations, Context
<1>3. ASSUME NEW i \in Open PROVE LevelOf(i) \in 1 .. display_lookup
  <2>1. LevelOf(i) = calls[i].enter + 1 /\ calls[i].enter \in Nat /\ LevelOf(i) <= display_lookup
    BY <1>1, <1>2, Activations, Highest DEF ScopesInv, SharingOK
  <2>2. QED
    BY <1>2, <2>1
<1>4. ASSUME NEW l \in 1 .. display_lookup
      PROVE  \A e : e \in Found(display[l], n) <=>
                      \E i \in scoped : LevelOf(i) = l /\ e \in Found(OwnedBy(i), n)
  <2>1. PICK q \in Open : /\ display[l] = OwnedByAny(Sharing(q))
                          /\ Sharing(q) = {j \in Open : LevelOf(j) = l}
    BY <1>1, LevelTable
  <2>2. QED
    BY <2>1 DEF Found, OwnedByAny, OwnedBy
<1>5. LevelsWith(n) = {l \in 1 .. display_lookup : \E i \in scoped : LevelOf(i) = l}
  <2>1. \A l \in 1 .. display_lookup : Found(display[l], n) # {} <=> \E i \in scoped : LevelOf(i) = l
    BY <1>4
  <2>2. QED
    BY <2>1 DEF LevelsWith
<1>6. CASE scoped # {}
  <2>1. Newest(scoped) \in scoped /\ \A i \in scoped : i <= Newest(scoped)
    BY <1>2, <1>6, NewestIn
  <2>2. PICK s \in scoped : s = Newest(scoped) /\ \A i \in scoped : i <= s
    BY <2>1
  <2> DEFINE L == LevelOf(s)
  <2>3. L \in LevelsWith(n) /\ LevelsWith(n) \in SUBSET (1 .. display_lookup)
    BY <1>3, <1>5
  <2>4. \A l \in LevelsWith(n) : l <= L
    BY <1>1, <1>5, <2>2, Rising
  <2>5. Newest(LevelsWith(n)) = L
    BY <1>2, <2>3, <2>4, NewestIs
  <2>6. Found(OwnedBy(s), n) \in SUBSET (1 .. Len(entry)) /\ Found(OwnedBy(s), n) # {}
    BY DEF Found, OwnedBy, Entries
  <2> DEFINE e == Newest(Found(OwnedBy(s), n))
  <2>7. e \in Found(OwnedBy(s), n) /\ \A f \in Found(OwnedBy(s), n) : f <= e
    BY <1>2, <2>6, NewestIn
  <2>8. e \in Found(display[L], n)
    BY <1>4, <2>3, <2>7
  <2>9. ASSUME NEW f \in Found(display[L], n) PROVE f <= e /\ f \in 1 .. Len(entry)
    <3>1. PICK i \in scoped : LevelOf(i) = L /\ f \in Found(OwnedBy(i), n)
      BY <1>4, <2>3
    <3>2. f \in OwnedBy(i) /\ e \in OwnedBy(s) /\ f \in 1 .. Len(entry) /\ e \in 1 .. Len(entry)
      BY <2>7, <3>1 DEF Found, OwnedBy, Entries
    <3>3. CASE i = s
      BY <2>7, <3>1, <3>2, <3>3
    <3>4. CASE i # s
      <4>1. i \in Sharing(s) \ {s}
        BY <2>2, <3>1, <3>4 DEF Sharing
      <4>2. f < e
        BY <1>1, <3>2, <4>1 DEF ScopesInv, TablesOK
      <4>3. QED
        BY <1>2, <3>2, <4>2
    <3>5. QED
      BY <3>3, <3>4
  <2> HIDE DEF e, L
  <2>10. Newest(Found(display[L], n)) = e
    BY <1>2, <2>8, <2>9, NewestIs
  <2>11. Resolved(n) = e
    BY <2>3, <2>5, <2>10 DEF Resolved
  <2>12. Lexical(n) = e
    BY <1>6, <2>2 DEF Lexical, e
  <2>13. QED
    BY <2>11, <2>12
<1>7. CASE scoped = {}
  <2>1. LevelsWith(n) = {}
    BY <1>5, <1>7
  <2>2. QED
    BY <1>7, <2>1 DEF Resolved, Lexical
<1>8. QED
  BY <1>6, <1>7

\* The display implements lexical scope, at any depth and for any number of names:
\* lookup finds what the name means in the text, unless an abort or a module in the
\* public part of a hide has spoiled a table.
THEOREM LookupFindsMeaning == Spec => []LookupIsLexical
<1>1. QED
  BY Invariance, LexicalLookup, PTL

-----------------------------------------------------------------------------
(* Definitions. *)

\* Below the first scope that names are entered for, they are entered at level 0.
LEMMA EnteringLevel ==
  ASSUME BaseInv, ScopesInv, ~leaked
  PROVE  /\ display_enter = 0 <=> Entering = {}
         /\ Entering # {} => Owner # 0
<1>1. ASSUME Entering = {} PROVE display_enter = 0
  <2>1. CASE calls = <<>>
    BY <2>1 DEF BaseInv, ScopesClosed
  <2>2. CASE calls # <<>>
    <3>1. Len(calls) \in 1 .. Len(calls) /\ display_enter = EnterAfter(calls[Len(calls)])
      BY <2>2, Activations DEF Top
    <3>2. QED
      BY <1>1, <3>1 DEF ScopesInv, NestingOK
  <2>3. QED
    BY <2>1, <2>2
<1>2. ASSUME NEW k \in Entering PROVE display_enter # 0
  <2>1. k \in 1 .. Len(calls) /\ EnterAfter(calls[k]) = calls[k].enter + 1 /\ calls[k].enter \in Nat
    BY Activations
  <2>2. EnterAfter(calls[k]) <= display_enter /\ display_enter \in Nat
    BY <2>1, Context, Highest
  <2>3. QED
    BY <2>1, <2>2
<1>3. ASSUME Entering # {} PROVE Owner # 0
  <2>1. Newest(Entering) \in Open
    BY <1>3, Activations, NewestIn
  <2>2. calls[Newest(Entering)].id \in 1 .. scopes /\ scopes \in Nat
    BY <2>1, Activations DEF ScopesInv, NumbersOK
  <2>3. QED
    BY <1>3, <2>2 DEF Owner
<1>4. QED
  BY <1>1, <1>2, <1>3

\* While a body is read the entry it is for stays what it is.
LEMMA BodyStays ==
  ASSUME BaseInv, ScopesInv, DefinitionInScope, OwnersStay, hashentry \subseteq hashentry',
         UNCHANGED <<calls, leaked, here, display_enter>>, pc' = "body" => pc = "body"
  PROVE  DefinitionInScope'
<1> SUFFICES ASSUME pc = "body", Undisturbed'
             PROVE  \/ entry'[here].owner = Owner' /\ (Owner' = 0 => here \in hashentry')
                    \/ display_enter = 0 /\ \E i \in Open' : entry'[here].owner = calls'[i].id
  BY DEF DefinitionInScope
<1>1. Undisturbed /\ Owner' = Owner /\ Open' = Open
  BY DEF Undisturbed, Owner, Open, Entering
<1>2. here \in Entries /\ entry'[here].owner = entry[here].owner
  BY DEF BaseInv, ControlOK, OwnersStay
<1>3. QED
  BY <1>1, <1>2 DEF DefinitionInScope

LEMMA GlobalKept ==
  ASSUME NEW n \in Names, lookup(n)
  PROVE  hashentry \subseteq hashentry'
BY DEF lookup, enterglobal, table

\* name ==
LEMMA AtomInScope ==
  ASSUME BaseInv, ScopesInv, NEW n \in Names, definition_atom(n)
  PROVE  DefinitionInScope'
<1> SUFFICES ASSUME Undisturbed'
             PROVE  \/ entry'[here'].owner = Owner' /\ (Owner' = 0 => here' \in hashentry')
                    \/ display_enter' = 0 /\ \E i \in Open' : entry'[here'].owner = calls'[i].id
  BY DEF DefinitionInScope
<1>1. UNCHANGED <<calls, leaked, display_enter, display_lookup>>
  BY DEF definition_atom, level
<1>2. Undisturbed /\ Owner' = Owner /\ Open' = Open
  BY <1>1 DEF Undisturbed, Owner, Open, Entering
<1>3. ~leaked /\ \A i \in Open : ~calls[i].lost
  BY <1>2 DEF Undisturbed
<1>4. /\ entry \in Seq(Entry) /\ Len(entry) \in Nat /\ Cardinality(Inbuilts) <= Len(entry)
      /\ Cardinality(Inbuilts) \in Nat
  BY Context, ConstantFacts DEF TableOK
<1>5. ASSUME NEW o, entry' = Append(entry, NewEntry(n, o))
      PROVE  entry'[Len(entry) + 1].owner = o
  BY <1>4, <1>5, AppendProperties DEF NewEntry
<1>6. CASE display_enter > 0
  <2>1. ~IsInbuilt(EnteredAt(n))
    BY <1>4, <1>6 DEF IsInbuilt, EnteredAt
  <2>2. entry' = Append(entry, NewEntry(n, Owner)) /\ here' = Len(entry) + 1
    BY <1>6, <2>1 DEF definition_atom, enteratom, EnteredAt
  <2>3. Owner # 0
    BY <1>3, <1>6, EnteringLevel
  <2>4. QED
    BY <1>2, <1>5, <2>2, <2>3
<1>7. CASE ~(display_enter > 0)
  <2>1. display_enter = 0 /\ Owner = 0
    <3>1. display_enter = 0
      BY <1>7, Context
    <3>2. QED
      BY <1>3, <3>1, EnteringLevel DEF Owner
  <2>2. CASE enterglobal(n) /\ here' = Len(entry) + 1
    BY <1>2, <1>5, <2>1, <2>2 DEF enterglobal
  <2>3. CASE UNCHANGED table /\ Resolved(n) # NULL /\ here' = Resolved(n)
    <3>1. CASE LevelsWith(n) # {}
      <4>1. /\ LevelsWith(n) \in SUBSET (1 .. display_lookup) /\ display_lookup \in Nat
            /\ \A l \in LevelsWith(n) : Found(display[l], n) # {}
        BY Context DEF LevelsWith
      <4>2. Newest(LevelsWith(n)) \in LevelsWith(n)
        BY <3>1, <4>1, NewestIn
      <4>3. PICK l \in 1 .. display_lookup : /\ Found(display[l], n) # {}
                                             /\ here' = Newest(Found(display[l], n))
        BY <2>3, <3>1, <4>1, <4>2 DEF Resolved
      <4>4. PICK q \in Open : /\ display[l] = OwnedByAny(Sharing(q))
                              /\ Sharing(q) = {j \in Open : LevelOf(j) = l}
        BY <1>3, LevelTable
      <4>5. Found(display[l], n) \in SUBSET (1 .. Len(entry))
        BY <4>4 DEF Found, OwnedByAny, Entries
      <4>6. here' \in Found(display[l], n)
        BY <1>4, <4>3, <4>5, NewestIn
      <4>7. PICK i \in Open : here' \in OwnedBy(i)
        BY <4>4, <4>6 DEF Found, OwnedByAny
      <4>8. entry'[here'].owner = calls'[i].id
        BY <1>1, <2>3, <4>7 DEF OwnedBy, table
      <4>9. QED
        BY <1>1, <1>2, <2>1, <4>8
    <3>2. CASE LevelsWith(n) = {}
      <4>1. Found(hashentry, n) # {} /\ here' = Newest(Found(hashentry, n))
        BY <2>3, <3>2 DEF Resolved
      <4>2. Found(hashentry, n) \in SUBSET (1 .. Len(entry))
        BY Context DEF Found, TableOK, Entries
      <4>3. here' \in Found(hashentry, n)
        BY <1>4, <4>1, <4>2, NewestIn
      <4>4. here' \in hashentry /\ entry[here'].owner = 0
        BY <4>3 DEF Found, ScopesInv, NumbersOK
      <4>5. QED
        BY <1>2, <2>1, <2>3, <4>4 DEF table
    <3>3. QED
      BY <3>1, <3>2
  <2>4. QED
    BY <1>7, <2>2, <2>3 DEF definition_atom, enteratom, lookup, EnteredAt, Location
<1>8. QED
  BY <1>6, <1>7

LEMMA InitInScope == Init => DefinitionInScope
BY DEF Init, DefinitionInScope

LEMMA NextInScope == BaseInv /\ ScopesInv /\ DefinitionInScope /\ [Next]_vars => DefinitionInScope'
<1> SUFFICES ASSUME BaseInv, ScopesInv, DefinitionInScope, [Next]_vars PROVE DefinitionInScope'
  OBVIOUS
<1>1. ASSUME NEW n \in Names, read_atom(n) \/ read_field(n) PROVE DefinitionInScope'
  <2>1. lookup(n) /\ UNCHANGED <<calls, leaked, here, display_enter, pc>>
    BY <1>1 DEF read_atom, read_field, level
  <2>2. QED
    BY <2>1, LookupOwners, GlobalKept, BodyStays
<1>2. CASE read_no_field \/ UNCHANGED vars
  <2>1. UNCHANGED <<entry, hashentry, calls, leaked, here, display_enter, pc>>
    BY <1>2 DEF read_no_field, vars, table, level
  <2>2. QED
    BY <2>1, SameOwners, BodyStays
<1>3. ASSUME NEW n \in Names, definition_atom(n) PROVE DefinitionInScope'
  BY <1>3, AtomInScope
<1>4. ASSUME pc' # "body" PROVE DefinitionInScope'
  BY <1>4 DEF DefinitionInScope
<1>5. ASSUME NEW n \in Names, read_bad_field(n) PROVE pc' # "body"
  BY <1>5 DEF read_bad_field, abortexecution_
<1>6. CASE execerror \/ module_unnamed
  BY <1>4, <1>6 DEF execerror, module_unnamed, abortexecution_
<1>7. CASE definition_compound \/ definition_empty \/ definition_assigns \/ defsequence_goes_on
  BY <1>4, <1>7 DEF definition_compound, definition_empty, definition_assigns, defsequence_goes_on
<1>8. CASE Compound
  <2>1. pc' # "body" \/ (pc' = pc /\ pc = "return")
    <3>1. CASE module_ends \/ hide_ends \/ inside_ends
      BY <3>1 DEF module_ends, hide_ends, inside_ends
    <3>2. CASE main_compound \/ public_begins \/ public_ends \/ compound_empty
      BY <3>2 DEF main_compound, public_begins, public_ends, compound_empty
    <3>3. ASSUME NEW n \in Names, module_name(n) PROVE pc' # "body"
      BY <3>3 DEF module_name
    <3>4. CASE module_unnamed
      BY <3>4 DEF module_unnamed, abortexecution_
    <3>5. CASE module_begins \/ hide_begins \/ hide_public
      BY <3>5 DEF module_begins, hide_begins, hide_public
    <3>6. CASE inside_begins \/ inside_public \/ nested_ends \/ main_goes_on \/ display_overruns
      BY <3>6 DEF inside_begins, inside_public, nested_ends, main_goes_on, display_overruns
    <3>7. QED
      BY <1>8, <3>1, <3>2, <3>3, <3>4, <3>5, <3>6 DEF Compound
  <2>2. QED
    BY <1>4, <2>1
<1>9. QED
  BY <1>1, <1>2, <1>3, <1>4, <1>5, <1>6, <1>7, <1>8 DEF Next, Reading, Definition

\* A definition defines a name of the module or hidden part it stands in, or a
\* global one; the exception is a name hidden around it at the top level.
THEOREM DefinitionsStayInScope == Spec => []DefinitionInScope
<1>1. Init => IInv /\ DefinitionInScope
  BY InitBaseInv, InitScopes, InitInScope DEF IInv
<1>2. (IInv /\ DefinitionInScope) /\ [Next]_vars => (IInv /\ DefinitionInScope)'
  BY NextBaseInv, NextScopes, NextInScope DEF IInv
<1>3. QED
  BY <1>1, <1>2, PTL DEF Spec

=============================================================================
