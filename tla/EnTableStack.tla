---------------------------- MODULE EnTableStack ----------------------------
(***************************************************************************)
(* From the states of the grammar to the states of the parser (Stack.h).   *)
(* NoteStack turns the goto transitions into instructions for a parser     *)
(* that keeps only some states on its stack: it settles the error          *)
(* messages, finds for every reduction the switch on the state on the      *)
(* stack, lays out the keyword lists, finds the reference states, which    *)
(* are the ones stacked, and how many of them a reduction prunes, equates  *)
(* and renumbers the states, and groups the terminals.  Every stage is an  *)
(* action.  throw ends the program.                                        *)
(***************************************************************************)
EXTENDS EnTableStates

VARIABLES
  Merged,         \* the keyword lists: keywords, separators and labels
  BitMatrix,      \* the true elements <<row, column>> of the matrix of pairs
  ParseStateNum,  \* the number of parser states
  GroupNum,       \* the number of the group of every terminal
  GroupCount,     \* the number of groups
  NonKeyCount     \* the number of groups before those of the keywords

stackVars == <<Merged, BitMatrix, ParseStateNum, GroupNum, GroupCount, NonKeyCount>>

InitStack ==
  /\ Merged = <<>> /\ BitMatrix = {} /\ ParseStateNum = 0
  /\ GroupNum = <<>> /\ GroupCount = 0 /\ NonKeyCount = 0

\* A transition is <<discriminator, target>>.
Discrims(row) == [t \in DOMAIN row |-> row[t][1]]
Targets(row) == [t \in DOMAIN row |-> row[t][2]]

statesBut == <<grammar, States, inPlay, Uncertains, flaw, doubts>>

Throw(n) == phase' = IF n = 8 THEN "throw 8" ELSE "throw 9"

(***************************************************************************)
(* Messages.  At most one stays with a state; when it is preferred to the  *)
(* messages a reduction would lead to, every other terminal that may       *)
(* follow the reduction becomes a mock shift, a transition to state 0.     *)
(***************************************************************************)
MajMin(m, n) == 256 * m + n

Ranked(A, B) ==
  \/ A = B
  \/ {A, B} \cap {MajMin(21, 1), MajMin(35, 1)} # {}
  \/ {A, B} = {MajMin(25, 16), MajMin(27, 1)}

BetterMsg(A, B) ==
  /\ A # B
  /\ A # MajMin(21, 1)
  /\ \/ B = MajMin(21, 1)
     \/ A = MajMin(35, 1) /\ B \in {MajMin(27, 1), MajMin(36, 0), MajMin(38, 3)}
     \/ B = MajMin(35, 1) /\ A \notin {MajMin(36, 0), MajMin(38, 3)}
     \/ A = MajMin(25, 16) /\ B = MajMin(27, 1)

MsgsOf(g, state) ==
  LET row == SelectSeq(state.Transits, LAMBDA t : IsMsg(g, t[1]))
  IN  [t \in DOMAIN row |-> g.msg[row[t][1]]]

BestSmsg(msgs) ==
  IF msgs = <<>> THEN 0
  ELSE FoldLeft(LAMBDA best, m : IF BetterMsg(m, best) THEN m ELSE best, Head(msgs), Tail(msgs))

BestRmsg(g, state) ==
  LET ahead == {d \in state.RedAhead : IsMsg(g, d)}
  IN  IF state.HasRed /\ ahead # {} THEN g.msg[Min(ahead)] ELSE 0

\* The comparisons the loop makes, in pairs.
Compared(g, state) ==
  LET msgs == MsgsOf(g, state)
  IN  {<<msgs[i], BestSmsg(SubSeq(msgs, 1, i - 1))>> : i \in 2..Len(msgs)}
      \cup (IF msgs # <<>> /\ BestRmsg(g, state) # 0
              THEN {<<BestSmsg(msgs), BestRmsg(g, state)>>} ELSE {})

SettleMessage(g, state) ==
  LET S    == BestSmsg(MsgsOf(g, state))
      R    == BestRmsg(g, state)
      row  == SelectSeq(state.Transits, LAMBDA t : ~IsMsg(g, t[1]))
      mock == Ascending({d \in state.RedAhead : ~IsMsg(g, d)})
  IN  IF S = 0 \/ R = 0 THEN [state EXCEPT !.MsgMN = S, !.Transits = row]
      ELSE IF ~BetterMsg(S, R) THEN [state EXCEPT !.MsgMN = 0, !.Transits = row]
      ELSE [state EXCEPT !.MsgMN = S,
                         !.Transits = row \o [k \in DOMAIN mock |-> <<mock[k], 0>>]]

SettleMessages ==
  /\ phase = "messages"
  /\ IF \E s \in DOMAIN States : \E c \in Compared(grammar, States[s]) : ~Ranked(c[1], c[2])
       THEN Throw(9) /\ UNCHANGED States
       ELSE /\ States' = [s \in DOMAIN States |-> SettleMessage(grammar, States[s])]
            /\ phase' = "reductions"
  /\ UNCHANGED <<grammar, inPlay, Uncertains, flaw, doubts, stackVars>>

(***************************************************************************)
(* Reductions.  Froms are the transitions in reverse; walking them back    *)
(* over the right side of a production leads to the states it was begun    *)
(* in.  The weight of a state is what entering a state puts on the stack, and the walk    *)
(* adds it up: its elements are <<state, amount>>.  (No state turns up     *)
(* twice, a discriminator being unique among the transitions of a state,   *)
(* so the throw at line 208 has no step.)                                  *)
(***************************************************************************)
Froms(S, s) ==
  FlattenSeq([i \in 1..Cardinality(DOMAIN S) |->
                LET over == SelectSeq(S[i - 1].Transits, LAMBDA t : t[2] = s /\ s # 0)
                IN  [k \in DOMAIN over |-> <<over[k][1], i - 1>>]])

StepBack(S, post, d, weight) ==
  FlattenSeq([k \in DOMAIN post |->
                LET from == SelectSeq(S[post[k][1]].Froms, LAMBDA f : f[1] = d)
                IN  [i \in DOMAIN from |-> <<from[i][2], weight[post[k][1]] + post[k][2]>>]])

WalkBack(g, S, j, weight) ==
  FoldLeft(LAMBDA post, d : StepBack(S, post, d, weight),
           << <<j, 0>> >>, Reverse(g.prods[S[j].RedPos].rhs))

RedSwitch(g, S, j) ==
  LET lhs   == g.prods[S[j].RedPos].lhs
      goto(k) == SelectSeq(S[k].Transits, LAMBDA t : t[1] = lhs)
      begun == SelectSeq(Discrims(WalkBack(g, S, j, [s \in DOMAIN S |-> 0])), LAMBDA k : goto(k) # <<>>)
  IN  [i \in DOMAIN begun |-> <<begun[i], goto(begun[i])[1][2]>>]

FindReductions ==
  /\ phase = "reductions"
  /\ LET linked == [s \in DOMAIN States |-> [States[s] EXCEPT !.Froms = Froms(States, s)]]
     IN  States' = [s \in DOMAIN States |->
                      IF ~States[s].HasRed THEN linked[s]
                      ELSE [linked[s] EXCEPT
                              !.RedSwitch = RedSwitch(grammar, linked, s),
                              !.Action = ActionOf(grammar, grammar.prods[States[s].RedPos].lhs)]]
  /\ phase' = "tokens"
  /\ UNCHANGED <<grammar, inPlay, Uncertains, flaw, doubts, stackVars>>

\* The parser has no use for the transitions over productions.
DropProductions ==
  /\ phase = "tokens"
  /\ IF flaw \in DOMAIN States
       THEN Throw(8) /\ UNCHANGED States
       ELSE /\ States' = [s \in DOMAIN States |->
                 [States[s] EXCEPT !.Transits =
                    SelectSeq(@, LAMBDA t : t[1] \in Terminals(grammar))]]
            /\ phase' = "keywords"
  /\ UNCHANGED <<grammar, inPlay, Uncertains, flaw, doubts, stackVars>>

(***************************************************************************)
(* Keyword lists.  One list for every set of keywords that are shifts of a *)
(* state, the longest first; a list that can be had as the tail of one     *)
(* that is there already only gets a label in it, after keywords were      *)
(* swapped to make it a tail.  The sort leaves the order of lists of one   *)
(* length open; states with equal lists are taken in ascending order.      *)
(***************************************************************************)
Separator == -1
Label(s) == Separator - s - 1

ShiftKeys(g, state) == {t[1] : t \in Range(state.Transits)} \cap g.keys

RECURSIVE ListOrders(_, _, _)
ListOrders(g, S, left) ==
  LET size(s) == Cardinality(ShiftKeys(g, S[s]))
      first   == {s \in left : \A r \in left :
                    size(r) < size(s) \/ (size(r) = size(s)
                       /\ (ShiftKeys(g, S[r]) = ShiftKeys(g, S[s]) => s <= r))}
  IN  IF left = {} THEN {<<>>}
      ELSE UNION {{<<s>> \o rest : rest \in ListOrders(g, S, left \ {s})} : s \in first}

\* Scan back from mm for the keywords of work; at is 0 when they are no tail.
\* Mutant of TailScan: the keywords are found but left where they are.
RECURSIVE TailScanStill(_, _, _)
TailScanStill(M, mm, work) ==
  LET mmm  == Max({i \in 1..mm : M[i] < 0 \/ M[i] \in work})
      rest == work \ {M[mmm]}
  IN  IF M[mm] < 0 \/ M[mmm] < 0 THEN [M |-> M, at |-> 0]
      ELSE IF rest = {} THEN [M |-> M, at |-> mm]
      ELSE TailScanStill(M, mm - 1, rest)

RECURSIVE TailScan(_, _, _)
TailScan(M, mm, work) ==
  LET mmm  == Max({i \in 1..mm : M[i] < 0 \/ M[i] \in work})
      N    == [M EXCEPT ![mmm] = M[mm], ![mm] = M[mmm]]
      rest == work \ {N[mm]}
  IN  IF M[mm] < 0 \/ M[mmm] < 0 THEN [M |-> M, at |-> 0]
      ELSE IF rest = {} THEN [M |-> N, at |-> mm]
      ELSE TailScan(N, mm - 1, rest)

RECURSIVE PlaceFrom(_, _, _)
PlaceFrom(M, start, work) ==
  LET ends == {i \in start..Len(M) : M[i] = Separator}
      m    == Min(ends)
      this == {M[i] : i \in start..m} \cap Nat
      tail == IF work \subseteq this THEN TailScan(M, m - 1, work) ELSE [M |-> M, at |-> 0]
  IN  IF ends = {} THEN [M |-> M \o Append(Ascending(work), Separator), at |-> start]
      ELSE IF this = work THEN [M |-> M, at |-> start]
      ELSE IF tail.at > 0 THEN tail
      ELSE PlaceFrom(tail.M, m + 1, work)

MergeList(g, S, M, s) ==
  LET place == PlaceFrom(M, 1, ShiftKeys(g, S[s]))
  IN  InsertAt(place.M, place.at, Label(s))

\* WriteKeywords: an entry takes one unit here, and the first has offset 1.
KeysOffset(M, s) ==
  IF \E i \in DOMAIN M : M[i] = Label(s)
    THEN 1 + Cardinality({i \in DOMAIN M : M[i] >= 0
                            /\ \E k \in (i + 1)..Len(M) : M[k] = Label(s)})
    ELSE 0

\* A word that could follow the reduction as a keyword is a symbol to the state,
\* which shifts symbols and does not look for that keyword.
TakesForSymbol(g, state) ==
  /\ state.HasRed
  /\ g.symbol \in Range(Discrims(state.Transits))
  /\ ~(state.RedAhead \cap g.keys \subseteq ShiftKeys(g, state))

\* Without any keyword the loop over Merged runs up to its size less one, the
\* greatest of the unsigned numbers.
Keywords ==
  /\ phase = "keywords"
  /\ \E order \in ListOrders(grammar, States,
                            {s \in DOMAIN States : ShiftKeys(grammar, States[s]) # {}}) :
       LET M == FoldLeft(LAMBDA acc, s : MergeList(grammar, States, acc, s), <<>>, order)
       IN  /\ Merged' = M
           /\ States' = [s \in DOMAIN States |-> [States[s] EXCEPT !.KeysOffset = KeysOffset(M, s)]]
           /\ phase' = IF M = <<>> THEN "crash" ELSE "references"
  /\ doubts' = IF \E s \in DOMAIN States : TakesForSymbol(grammar, States[s])
                 THEN doubts \cup {"symbol"} ELSE doubts
  /\ UNCHANGED <<grammar, inPlay, Uncertains, flaw, BitMatrix, ParseStateNum, GroupNum, GroupCount, NonKeyCount>>

(***************************************************************************)
(* Reference states: those a switch with different targets tests.  Prune:  *)
(* the reference states entered since the production was begun, which had  *)
(* better be as many on every path.                                        *)
(***************************************************************************)
OneTarget(switch) == switch # <<>> /\ \A r \in DOMAIN switch : switch[r][2] = switch[1][2]

Tested(S) ==
  UNION {{r[1] : r \in Range(S[s].RedSwitch)}
         : s \in {k \in DOMAIN S : S[k].HasRed /\ ~OneTarget(S[k].RedSwitch)}}

NoteReferences ==
  /\ phase = "references"
  /\ States' = [s \in DOMAIN States |->
                  [States[s] EXCEPT
                     !.Reference = IF s \in Tested(States) THEN 1 ELSE 0,
                     !.RedSwitch = IF OneTarget(@) THEN << <<0, @[1][2]>> >> ELSE @]]
  /\ phase' = "prune"
  /\ UNCHANGED <<grammar, inPlay, Uncertains, flaw, doubts, stackVars>>

Prunes(g, S, j, weight) == Targets(WalkBack(g, S, j, weight))

Unequal(row) == \E k \in DOMAIN row : row[k] # row[1]

NotePrunes ==
  /\ phase = "prune"
  /\ LET prunes == [s \in {k \in DOMAIN States : States[k].HasRed} |->
                      Prunes(grammar, States, s, [x \in DOMAIN States |-> States[x].Reference])]
     IN  IF \E s \in DOMAIN prunes : Unequal(prunes[s])
           THEN Throw(9) /\ UNCHANGED States
           ELSE /\ States' = [s \in DOMAIN States |->
                     IF s \in DOMAIN prunes THEN [States[s] EXCEPT !.Prune = prunes[s][1]]
                                             ELSE States[s]]
                /\ phase' = "matrix"
  /\ UNCHANGED <<grammar, inPlay, Uncertains, flaw, doubts, stackVars>>

(***************************************************************************)
(* Duplicate states.  Of the two elements of BitMatrix about a pair one    *)
(* says "decided" (smaller row), the other what was decided; undecided but *)
(* true marks the awkward pairs, both tested by one switch.                *)
(***************************************************************************)
DifferPlainly(a, b) ==
  \/ Len(a.RedSwitch) # Len(b.RedSwitch)
  \/ a.HasRed # b.HasRed \/ a.Reference # b.Reference \/ a.Action # b.Action
  \/ a.Prune # b.Prune \/ a.MsgMN # b.MsgMN
  \/ Discrims(a.Transits) # Discrims(b.Transits)

\* Pairs of elements of the switch of state s, in the order of the loops.
SwitchPairs(switch) ==
  FlattenSeq([r \in DOMAIN switch |->
                [q \in 1..(Len(switch) - r) |-> <<switch[r], switch[r + q]>>]])

\* The loop over the states stops before the last one.
MarkAwkward(S, plain) ==
  LET n     == Cardinality(DOMAIN S)
      pairs == FlattenSeq([i \in 1..(n - 1) |-> SwitchPairs(S[i - 1].RedSwitch)])
      mark(B, pq) ==
        LET a == pq[1][1]  b == pq[2][1]
        IN  IF <<Min({a, b}), Max({a, b})>> \in B \/ pq[1][2] = pq[2][2]
              THEN B ELSE B \cup {<<b, a>>}
  IN  FoldLeft(mark, plain, pairs)

PlainMatrix(S) ==
  {<<k, k>> : k \in DOMAIN S}
  \cup {p \in (DOMAIN S) \X (DOMAIN S) : p[1] < p[2] /\ DifferPlainly(S[p[1]], S[p[2]])}

\* The pairs that have to be equal for j and k to be.
Questions(S, j, k, awkward) ==
  LET a == S[j]  b == S[k]
      byShift  == [t \in DOMAIN a.Transits |-> <<a.Transits[t][2], b.Transits[t][2]>>]
      bySwitch == FlattenSeq([t \in DOMAIN a.RedSwitch |->
                     << <<a.RedSwitch[t][1], b.RedSwitch[t][1]>>,
                        <<a.RedSwitch[t][2], b.RedSwitch[t][2]>> >>])
      tested   == SelectSeq(FlattenSeq([i \in 1..Cardinality(DOMAIN S) |-> SwitchPairs(S[i - 1].RedSwitch)]),
                            LAMBDA pq : {pq[1][1], pq[2][1]} = {j, k})
  IN  byShift \o bySwitch
      \o (IF awkward THEN [i \in DOMAIN tested |-> <<tested[i][1][2], tested[i][2][2]>>] ELSE <<>>)

\* SameTargets supposes that the two match, and takes it back when they do not.
RECURSIVE SameTargets(_, _, _, _), AllSame(_, _, _)
SameTargets(S, B, x, y) ==
  LET j == Min({x, y})  k == Max({x, y})
      below == AllSame(S, B \cup {<<j, k>>, <<k, j>>}, Questions(S, j, k, <<k, j>> \in B))
  IN  IF <<j, k>> \in B THEN [B |-> B, same |-> <<k, j>> \in B]
      ELSE IF below.same THEN below
      ELSE [B |-> below.B \ {<<k, j>>}, same |-> FALSE]

AllSame(S, B, pairs) ==
  LET first == SameTargets(S, B, pairs[1][1], pairs[1][2])
  IN  IF pairs = <<>> THEN [B |-> B, same |-> TRUE]
      ELSE IF first.same THEN AllSame(S, first.B, Tail(pairs))
      ELSE first

Matrix ==
  /\ phase = "matrix"
  /\ BitMatrix' = MarkAwkward(States, PlainMatrix(States))
  /\ phase' = "compare"
  /\ UNCHANGED <<statesBut, Merged, ParseStateNum, GroupNum, GroupCount, NonKeyCount>>

\* The loops over the pairs, a state with those after it in a step.
ComparePairs ==
  /\ phase = "compare"
  /\ LET n     == Cardinality(DOMAIN States)
         pairs == [k \in 1..(n - 1 - inPlay) |-> <<inPlay, inPlay + k>>]
     IN  /\ BitMatrix' = FoldLeft(LAMBDA B, p : SameTargets(States, B, p[1], p[2]).B, BitMatrix, pairs)
         /\ inPlay' = IF inPlay + 1 < n THEN inPlay + 1 ELSE 0
         /\ phase' = IF inPlay + 1 < n THEN "compare" ELSE "renumber"
  /\ UNCHANGED <<grammar, States, Uncertains, flaw, doubts, Merged, ParseStateNum, GroupNum, GroupCount, NonKeyCount>>

(***************************************************************************)
(* Renumbering.  The first of every class of equal states is kept.         *)
(***************************************************************************)
\* Mutant of ClassNumbers: the parser states are counted from 1.
ClassNumbersFromOne(S, B) ==
  LET n == Cardinality(DOMAIN S)
      take(acc, j) ==
        IF acc.num[j] # n THEN acc
        ELSE [num |-> [k \in DOMAIN S |-> IF k >= j /\ <<k, j>> \in B THEN acc.count ELSE acc.num[k]],
              count |-> acc.count + 1]
  IN  FoldLeft(take, [num |-> [k \in DOMAIN S |-> n], count |-> 1], [i \in 1..n |-> i - 1])

ClassNumbers(S, B) ==
  LET n == Cardinality(DOMAIN S)
      take(acc, j) ==
        IF acc.num[j] # n THEN acc
        ELSE [num |-> [k \in DOMAIN S |-> IF k >= j /\ <<k, j>> \in B THEN acc.count ELSE acc.num[k]],
              count |-> acc.count + 1]
  IN  FoldLeft(take, [num |-> [k \in DOMAIN S |-> n], count |-> 0], [i \in 1..n |-> i - 1])

Renumber ==
  /\ phase = "renumber"
  /\ LET classes == ClassNumbers(States, BitMatrix)
     IN  States' = [s \in DOMAIN States |->
                      [States[s] EXCEPT !.ParseStateNum = classes.num[s], !.Reference = 0]]
  /\ phase' = "switches"
  /\ UNCHANGED <<grammar, inPlay, Uncertains, flaw, doubts, stackVars>>

Kept(S) == {s \in DOMAIN S : \A r \in 0..(s - 1) : S[r].ParseStateNum # S[s].ParseStateNum}

\* The uniques of a switch, in the order of TransitSort.
SortSwitch(pairs) ==
  LET before(p, q) == p[1] < q[1] \/ (p[1] = q[1] /\ p[2] < q[2])
  IN  [i \in 1..Cardinality(pairs) |->
         CHOOSE p \in pairs : Cardinality({q \in pairs : before(q, p)}) = i - 1]

ParserSwitch(S, s) ==
  LET row == [r \in DOMAIN S[s].RedSwitch |->
                <<S[S[s].RedSwitch[r][1]].ParseStateNum, S[S[s].RedSwitch[r][2]].ParseStateNum>>]
  IN  IF ~S[s].HasRed \/ row = <<>> THEN row
      ELSE IF OneTarget(row) THEN <<row[1]>>
      ELSE SortSwitch(Range(row))

ParserShifts(S, s) ==
  [t \in DOMAIN S[s].Transits |-> <<S[s].Transits[t][1], S[S[s].Transits[t][2]].ParseStateNum>>]

\* A switch has two targets for one number, or states of one number go on to
\* states of different numbers.
Misjudged(S) ==
  \E s, t \in DOMAIN S :
    /\ S[s].ParseStateNum = S[t].ParseStateNum
    /\ \/ ParserShifts(S, s) # ParserShifts(S, t)
       \/ \E p \in Range(ParserSwitch(S, s)), q \in Range(ParserSwitch(S, t)) :
            p[1] = q[1] /\ p[2] # q[2]

\* The switches of the states kept get the new numbers.  From here Reference is
\* indexed with the number of a parser state.
TidySwitches ==
  /\ phase = "switches"
  /\ LET switch == [s \in Kept(States) |-> ParserSwitch(States, s)]
         refs   == UNION {Range(Discrims(switch[s])) :
                            s \in {k \in Kept(States) : States[k].HasRed /\ ~OneTarget(switch[k])}}
     IN  States' = [s \in DOMAIN States |->
           LET old == [States[s] EXCEPT !.Reference = IF s \in refs THEN 1 ELSE 0]
           IN  IF s \notin Kept(States) THEN old
               ELSE [old EXCEPT
                       !.RedSwitch = switch[s],
                       !.Transits = ParserShifts(States, s)]]
  /\ phase' = "reprune"
  /\ doubts' = IF Misjudged(States) THEN doubts \cup {"merged"} ELSE doubts
  /\ UNCHANGED <<grammar, inPlay, Uncertains, flaw, stackVars>>

\* What is subtracted at the end is indexed with the number of the grammar state,
\* although Reference is that of the parser states by now.
NewPrune(S, s, p) == (p - S[s].Reference) % 65536

RecomputePrunes ==
  /\ phase = "reprune"
  /\ LET prunes == [s \in {k \in DOMAIN States : States[k].HasRed} |->
                      Prunes(grammar, States, s, [x \in DOMAIN States |-> States[States[x].ParseStateNum].Reference])]
     IN  /\ IF \E s \in DOMAIN prunes : Unequal(prunes[s])
              THEN Throw(9) /\ UNCHANGED States
              ELSE /\ States' = [s \in DOMAIN States |->
                        IF s \in DOMAIN prunes
                          THEN [States[s] EXCEPT !.Prune = NewPrune(States, s, prunes[s][1])]
                          ELSE States[s]]
                   /\ phase' = "squeeze"
         /\ doubts' = IF \E s \in DOMAIN prunes :
                           States[s].Reference # States[States[s].ParseStateNum].Reference
                        THEN doubts \cup {"prune"} ELSE doubts
  /\ UNCHANGED <<grammar, inPlay, Uncertains, flaw, stackVars>>

Squeeze ==
  /\ phase = "squeeze"
  /\ LET kept == Ascending(Kept(States))
     IN  /\ States' = [n \in 0..(Len(kept) - 1) |->
                         [States[kept[n + 1]] EXCEPT !.Reference = States[n].Reference]]
         /\ ParseStateNum' = Len(kept)
  /\ phase' = "groups"
  /\ UNCHANGED <<grammar, inPlay, Uncertains, flaw, doubts, Merged, BitMatrix, GroupNum, GroupCount, NonKeyCount>>

(***************************************************************************)
(* Groups of terminals that every state treats alike, keywords apart from  *)
(* the others; then the shifts are by group.                               *)
(***************************************************************************)
TermsDiffer(S, d, e) ==
  \E s \in DOMAIN S :
    LET inside == Range(Discrims(S[s].Transits))
    IN  \/ (d \in inside) # (e \in inside)
        \/ \E t, u \in Range(S[s].Transits) : t[1] = d /\ u[1] = e /\ t[2] # u[2]

\* One of the two passes over the terminals, from the numbers acc of the other.
NumberGroups(g, S, heads, members, acc) ==
  LET take(a, d) ==
        IF d \notin heads \/ a.num[d] # g.T THEN a
        ELSE [num |-> [e \in Terminals(g) |->
                         IF e = d \/ (e > d /\ e \in members /\ ~TermsDiffer(S, d, e))
                           THEN a.count ELSE a.num[e]],
              count |-> a.count + 1]
  IN  FoldLeft(take, acc, Ascending(Terminals(g)))

GroupTerminals ==
  /\ phase = "groups"
  /\ LET g       == grammar
         nonKeys == Terminals(g) \ g.keys
         first   == NumberGroups(g, States, nonKeys \ DOMAIN g.msg, nonKeys,
                                 [num |-> [d \in Terminals(g) |-> g.T], count |-> 0])
         all     == NumberGroups(g, States, g.keys, g.keys, first)
     IN  /\ GroupNum' = all.num
         /\ GroupCount' = all.count
         /\ NonKeyCount' = first.count
  /\ phase' = "regroup"
  /\ UNCHANGED <<statesBut, Merged, BitMatrix, ParseStateNum>>

Regroup ==
  /\ phase = "regroup"
  /\ States' = [s \in DOMAIN States |->
        [States[s] EXCEPT !.Transits =
           LET row == SortSwitch({<<GroupNum[t[1]], t[2]>> : t \in Range(@)})
           IN  SelectSeq(row, LAMBDA t : \A u \in Range(row) : u[1] = t[1] => u[2] >= t[2])]]
  /\ phase' = "pack"
  /\ UNCHANGED <<grammar, inPlay, Uncertains, flaw, doubts, stackVars>>

NoteStack ==
  \/ SettleMessages \/ FindReductions \/ DropProductions \/ Keywords
  \/ NoteReferences \/ NotePrunes \/ Matrix \/ ComparePairs
  \/ Renumber \/ TidySwitches \/ RecomputePrunes \/ Squeeze
  \/ GroupTerminals \/ Regroup
=============================================================================
