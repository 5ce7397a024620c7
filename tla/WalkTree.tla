------------------------------ MODULE WalkTree ------------------------------
(***************************************************************************)
(* The Walks cluster of crx's older tools (CRX1999/Tools/WAL.C): a binary  *)
(* tree of symbols in which LookUp finds a symbol, or has it made, while   *)
(* it takes the tree apart and puts it together again with that symbol as  *)
(* its root.                                                               *)
(*                                                                         *)
(* A dictionary d is the WalkHead, with the three fields that hold         *)
(* offsets, and the nodes in the order in which they were made; the offset *)
(* of a node is its place in that order, 0 is no node.  A slot is a place  *)
(* that holds an offset: a field of the head or of a node.                 *)
(***************************************************************************)
EXTENDS Integers, Sequences

CONSTANTS
  Alphabet,   \* the words, in the order memcmp gives them
  Messages,   \* those that begin with Msg
  Dotted      \* those with a dot in them

Words == {Alphabet[i] : i \in DOMAIN Alphabet}

\* A word has a character at least.
ASSUME WordsAssumption ==
  /\ Alphabet \in Seq(STRING) /\ "" \notin Words
  /\ (Messages \cup Dotted) \subseteq Words

Rank(w) == CHOOSE i \in DOMAIN Alphabet : Alphabet[i] = w

\* How the word of a node compares with the word that is looked for: messages
\* are high, otherwise the order is the alphabet's.
Sign(n) == IF n < 0 THEN -1 ELSE IF n > 0 THEN 1 ELSE 0

IsIt(held, sought) ==
  IF (held \in Messages) # (sought \in Messages)
    THEN IF held \in Messages THEN 1 ELSE -1
    ELSE Sign(Rank(held) - Rank(sought))

-----------------------------------------------------------------------------
HeadSlot(field) == <<0, field>>

EmptyTree == [Root |-> 0, LowHeld |-> 0, HighHeld |-> 0, node |-> <<>>]

Node(w) == [word |-> w, Lower |-> 0, Higher |-> 0, Prod |-> FALSE,
            Temp |-> FALSE, Hatch |-> FALSE, IsExit |-> FALSE,
            IsMsg |-> FALSE, ProdPos |-> 0, Num |-> 0]

ReadSlot(d, s) == IF s[1] = 0 THEN d[s[2]] ELSE d.node[s[1]][s[2]]

WriteSlot(d, s, offset) ==
  IF s[1] = 0 THEN [d EXCEPT ![s[2]] = offset]
              ELSE [d EXCEPT !.node[s[1]][s[2]] = offset]

(***************************************************************************)
(* LookUp.  A search is the word, the node it looks at (Look) and the two  *)
(* slots that are trash at the moment: the next node that is passed on     *)
(* either side is written there.                                           *)
(***************************************************************************)
NoSearch == [word |-> "", Look |-> 0, low |-> HeadSlot("LowHeld"), high |-> HeadSlot("HighHeld")]

Begin(d, w) == [NoSearch EXCEPT !.word = w, !.Look = d.Root]

\* One turn of the loop that does not find the word: the tree that is looked at
\* goes to the low or to the high side, with what is below it on the other one.
ProbeLow(d, s) ==
  LET kept == WriteSlot(d, s.low, s.Look)
      slot == <<s.Look, "Higher">>
  IN  <<kept, [s EXCEPT !.low = slot, !.Look = ReadSlot(kept, slot)]>>

ProbeHigh(d, s) ==
  LET kept == WriteSlot(d, s.high, s.Look)
      slot == <<s.Look, "Lower">>
  IN  <<kept, [s EXCEPT !.high = slot, !.Look = ReadSlot(kept, slot)]>>

\* The two sides become the subtrees of the root.
Join(d, n) ==
  [d EXCEPT !.node[n].Lower = d.LowHeld, !.node[n].Higher = d.HighHeld, !.Root = n]

Found(d, s) ==
  LET lowDone == WriteSlot(d, s.low, d.node[s.Look].Lower)
  IN  Join(WriteSlot(lowDone, s.high, lowDone.node[s.Look].Higher), s.Look)

\* Mutant: the high side keeps what its slot held before.
MakeHalf(d, s) ==
  LET done == WriteSlot(d, s.low, 0)
      made == [done EXCEPT !.node = Append(@, Node(s.word))]
  IN  Join(made, Len(made.node))

\* The word is new: both sides are completed, and MakeIt appends a node.
Make(d, s) ==
  LET done == WriteSlot(WriteSlot(d, s.low, 0), s.high, 0)
      made == [done EXCEPT !.node = Append(@, Node(s.word))]
  IN  Join(made, Len(made.node))

(***************************************************************************)
(* Walk: the nodes of a subtree from the lowest to the highest.  A tree is *)
(* no deeper than it has nodes.                                            *)
(***************************************************************************)
Walk2(d, n) ==
  LET walk[deep \in 0 .. Len(d.node)] ==
        [m \in 0 .. Len(d.node) |->
           IF deep = 0 \/ m = 0 THEN <<>>
           ELSE walk[deep - 1][d.node[m].Lower] \o <<m>> \o walk[deep - 1][d.node[m].Higher]]
  IN  walk[Len(d.node)][n]

Walk(d) == Walk2(d, d.Root)
=============================================================================
