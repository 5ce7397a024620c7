------------------------------- MODULE Wallets -------------------------------
(***************************************************************************)
(* The Wallet cluster of crx's older tools (CRX1999/Tools/WAL.C): arrays   *)
(* that grow, known by numbers that are used again, and written to a file  *)
(* when there is no memory left.                                           *)
(*                                                                         *)
(* The file is a sequence of cells.  The header of a wallet is one cell,   *)
(* and so is each of its slots.  The slots are cleared when they are new.  *)
(***************************************************************************)
EXTENDS Integers, Sequences, FiniteSets

CONSTANTS
  NULL,
  Values,       \* what is kept in a slot
  Clear,        \* one of them, the slot is cleared
  Modulus,      \* the numbers of an Ushort are 0 .. Modulus - 1
  Sizes,        \* the numbers of slots that are asked for
  MaxNumber,    \* bound: the highest number of a wallet
  WalletSpill   \* the cells that may be written

ASSUME WalletsAssumption ==
  /\ Modulus \in Nat \ {0, 1} /\ MaxNumber \in Nat /\ WalletSpill \in Nat
  /\ Sizes \subseteq 1 .. Modulus - 1 /\ Clear \in Values

\* A wallet in memory, and what tells about it on the file.
Wallet  == [Has : Nat, Needs : Nat, Exact : BOOLEAN, slots : Seq(Values)]
Headers == [Has : Nat, Needs : Nat, Exact : BOOLEAN]

ASSUME NullAssumption == NULL \notin Wallet

VARIABLES
  index,    \* the header of Wallets: Has and Needs
  p,        \* the wallet of each number in memory, or NULL
  u,        \* its place on the file; of a number deleted, the next such
  anchor,   \* WalletAnchor
  file, pos, accum,  \* the file, the position of its stream, and WalletAccum
  FPos,     \* static: the place last sought or written at
  call,     \* the request that a purge makes memory for, or NULL
  j,        \* the wallet that the purge looks at
  failed,   \* longjmp(ErrSig)
  inGet,    \* the purge that makes memory for a WalletGet has written a wallet
  harm,     \* a spill began before the end of the file, a wallet has fewer slots than
            \* it needs, a WalletGet is over that was inGet, or the numbers are used up
  array     \* what the clients have put into the wallets they have

spill == <<file, pos, accum, FPos>>
vars == <<index, p, u, anchor, spill, call, j, failed, harm, inGet, array>>

-----------------------------------------------------------------------------
(***************************************************************************)
(* WalletEx.                                                               *)
(***************************************************************************)
Grown(needs) == ((needs \div 4) + needs + 1) % Modulus

\* The number of slots a wallet that needs so many more is given.
NewHas(w) == IF w.Exact THEN w.Needs ELSE Grown(w.Needs)

\* Mutant: all slots are cleared, and not the new ones.
ReallocClearing(slots, n) == [i \in 1 .. n |-> Clear]

Realloc(slots, n) == [i \in 1 .. n |-> IF i <= Len(slots) THEN slots[i] ELSE Clear]

WalletEx(w) ==
  IF w.Needs <= w.Has
    THEN IF w.Exact THEN [w EXCEPT !.Has = w.Needs, !.slots = Realloc(@, w.Needs)] ELSE w
    ELSE [w EXCEPT !.Has = NewHas(w), !.slots = Realloc(@, NewHas(w))]

WalletCheck(w) == IF w.Has < w.Needs THEN WalletEx(w) ELSE w

Fresh(exact) == [Has |-> 0, Needs |-> 0, Exact |-> exact, slots |-> <<>>]

-----------------------------------------------------------------------------
Init ==
  /\ index = [Has |-> 0, Needs |-> 1, Exact |-> FALSE, slots |-> <<>>]
  /\ p = [n \in 0 .. MaxNumber |-> NULL] /\ u = [n \in 0 .. MaxNumber |-> 0]
  /\ anchor = 0
  /\ file = <<>> /\ pos = 0 /\ accum = 0 /\ FPos = 0
  /\ call = NULL /\ j = 0
  /\ failed = FALSE /\ harm = FALSE /\ inGet = FALSE
  /\ array = [n \in {} |-> <<>>]

Live == DOMAIN array

Running == ~failed /\ ~harm

-----------------------------------------------------------------------------
(***************************************************************************)
(* WalletPurge: every wallet in memory is written where the stream is,     *)
(* which FPos then holds, and freed.  It stops when the file would become  *)
(* too long.                                                               *)
(***************************************************************************)
Header(w) == [Has |-> w.Has, Needs |-> w.Needs, Exact |-> w.Exact]

\* The used part of a wallet, as it is on the file.
Image(w) == <<Header(w)>> \o [i \in 1 .. w.Needs |-> IF i <= Len(w.slots) THEN w.slots[i] ELSE Clear]

Overlay(f, at, cells) ==
  [i \in 1 .. (IF at + Len(cells) > Len(f) THEN at + Len(cells) ELSE Len(f)) |->
     IF i \in at + 1 .. at + Len(cells) THEN cells[i - at] ELSE f[i]]

\* There is no memory for a request: WalletMalloc and WalletCalloc call
\* WalletPurge.  When memory runs out is left open.
Purging(request) ==
  /\ call' = request /\ j' = 0
  /\ UNCHANGED <<index, p, u, anchor, file, accum, failed, harm, inGet, array>>

WalletPurge ==
  /\ Running /\ call # NULL /\ j < index.Needs
  /\ IF p[j] = NULL
       THEN j' = j + 1 /\ UNCHANGED <<p, u, spill, failed, harm, inGet>>
       ELSE LET cells == Image(p[j])
            IN  \/ /\ accum + Len(cells) > WalletSpill
                   /\ failed' = TRUE
                   /\ UNCHANGED <<p, u, spill, j, harm, inGet>>
                \/ /\ accum + Len(cells) <= WalletSpill
                   /\ accum' = accum + Len(cells)
                   /\ FPos' = pos /\ u' = [u EXCEPT ![j] = pos]
                   /\ file' = Overlay(file, pos, cells)
                   /\ pos' = pos + Len(cells)
                   /\ p' = [p EXCEPT ![j] = NULL]
                   /\ j' = j + 1
                   /\ harm' = (pos < Len(file)) /\ inGet' = (call.op = "get")
                   /\ UNCHANGED failed
  /\ UNCHANGED <<index, anchor, call, array>>

-----------------------------------------------------------------------------
\* A number that was deleted is used again, otherwise there is a new one.
Numbered(exact) ==
  LET n == IF anchor # 0 THEN anchor ELSE index.Needs
  IN  /\ p' = [p EXCEPT ![n] = Fresh(exact)]
      /\ array' = [k \in Live \cup {n} |-> IF k = n THEN <<>> ELSE array[k]]
      /\ IF anchor # 0
           THEN anchor' = u[anchor] /\ UNCHANGED <<index, harm>>
           ELSE /\ index' = WalletCheck([index EXCEPT !.Needs = (@ + 1) % Modulus])
                /\ harm' = (index'.Has < index'.Needs \/ index'.Needs = 0)
                /\ UNCHANGED anchor
      /\ call' = NULL /\ j' = 0
      /\ UNCHANGED <<u, spill, failed, inGet>>

WalletNew(exact) ==
  /\ Running /\ call = NULL /\ (anchor # 0 \/ index.Needs <= MaxNumber)
  /\ \/ Numbered(exact)
     \/ Purging([op |-> "new", exact |-> exact]) /\ UNCHANGED <<pos, FPos>>

\* What is on the file at this place is read into wallet n, as many cells of it
\* as n's header said.
Reread(n, at, needs) ==
  LET header == file[at + 1]
  IN  /\ p' = [p EXCEPT ![n] = [Has |-> header.Has, Needs |-> header.Needs, Exact |-> header.Exact,
                                slots |-> SubSeq(file, at + 2, at + 1 + needs)]]
      /\ FPos' = at /\ pos' = at + 1 + needs
      /\ harm' = inGet /\ inGet' = FALSE
      /\ call' = NULL /\ j' = 0
      /\ UNCHANGED <<index, u, anchor, file, accum, failed, array>>

\* The header is read first, and tells how much memory to ask for.
WalletGet(n) ==
  /\ Running /\ call = NULL /\ n \in Live /\ p[n] = NULL
  /\ LET t == file[u[n] + 1]
     IN  \/ Reread(n, u[n], t.Needs)
         \/ /\ Purging([op |-> "get", n |-> n, needs |-> t.Needs])
            /\ FPos' = u[n] /\ pos' = u[n] + 1

\* The purge is over, and there is memory.  A get goes back to FPos, where the
\* purge has left it.
Purged ==
  /\ Running /\ call # NULL /\ j = index.Needs
  /\ \/ call.op = "new" /\ Numbered(call.exact)
     \/ call.op = "get" /\ Reread(call.n, FPos, call.needs)

\* Mutant: the number deleted before is forgotten.
WalletDelUnchained(n) ==
  /\ Running /\ call = NULL /\ n \in Live
  /\ p' = [p EXCEPT ![n] = NULL]
  /\ u' = [u EXCEPT ![n] = 0]
  /\ anchor' = n
  /\ array' = [k \in Live \ {n} |-> array[k]]
  /\ UNCHANGED <<index, spill, call, j, failed, harm, inGet>>

WalletDel(n) ==
  /\ Running /\ call = NULL /\ n \in Live
  /\ p' = [p EXCEPT ![n] = NULL]
  /\ u' = [u EXCEPT ![n] = anchor]
  /\ anchor' = n
  /\ array' = [k \in Live \ {n} |-> array[k]]
  /\ UNCHANGED <<index, spill, call, j, failed, harm, inGet>>

\* The client sets Needs in a wallet that is in memory, and calls WalletSize.
WalletSize(n, needs) ==
  /\ Running /\ call = NULL /\ n \in Live /\ p[n] # NULL
  /\ LET w == WalletCheck([p[n] EXCEPT !.Needs = needs])
         had == Len(array[n])
     IN  /\ p' = [p EXCEPT ![n] = w]
         /\ harm' = (Len(w.slots) < needs)
         /\ array' = [array EXCEPT ![n] = [i \in 1 .. needs |->
                        IF i <= had THEN @[i] ELSE IF i <= Len(w.slots) THEN w.slots[i] ELSE Clear]]
  /\ UNCHANGED <<index, u, anchor, spill, call, j, failed, inGet>>

\* The client writes into a slot.
Put(n, i, v) ==
  /\ Running /\ call = NULL /\ n \in Live /\ p[n] # NULL /\ i \in 1 .. p[n].Needs
  /\ p' = [p EXCEPT ![n].slots[i] = v]
  /\ array' = [array EXCEPT ![n][i] = v]
  /\ UNCHANGED <<index, u, anchor, spill, call, j, failed, harm, inGet>>

Next ==
  \/ \E exact \in BOOLEAN : WalletNew(exact)
  \/ WalletPurge \/ Purged
  \/ \E n \in 1 .. MaxNumber :
       \/ WalletDel(n) \/ WalletGet(n)
       \/ \E needs \in Sizes : WalletSize(n, needs)
       \/ \E i \in Sizes, v \in Values : Put(n, i, v)
  \/ ~Running /\ UNCHANGED vars

Spec == Init /\ [][Next]_vars

-----------------------------------------------------------------------------
(***************************************************************************)
(* Properties.                                                             *)
(***************************************************************************)
\* The k numbers c are those deleted, in the order in which they are used again.
Chained(k, c) ==
  /\ \A i, l \in 1 .. k : c[i] = c[l] => i = l
  /\ anchor = IF k = 0 THEN 0 ELSE c[1]
  /\ \A i \in 1 .. k : u[c[i]] = IF i = k THEN 0 ELSE c[i + 1]
  /\ \A n \in 1 .. index.Needs - 1 : n \in Live <=> \A i \in 1 .. k : c[i] # n

\* The index holds every number that is in use, and those on the chain of
\* deleted numbers exactly once: WalletNew never hands out a number that
\* somebody has.  The chain shares its field with the places on the file.
NumbersApart ==
  ~harm => /\ index.Needs <= index.Has \/ index.Needs = 1
           /\ Live \subseteq 1 .. index.Needs - 1
           /\ \E k \in 0 .. index.Needs - 1 : \E c \in [1 .. k -> 1 .. index.Needs - 1] : Chained(k, c)

\* A wallet, in memory or on the file, holds what its client has put there,
\* through every extension, spill and reading back, for as long as no spill
\* begins before the end of the file, each wallet has the slots it needs, and
\* no purge that makes memory for a WalletGet writes one: that get reads the
\* wallet written last.
ContentsKept ==
  ~harm /\ ~failed => \A n \in Live :
    array[n] = IF p[n] # NULL THEN SubSeq(p[n].slots, 1, p[n].Needs)
               ELSE SubSeq(file, u[n] + 2, u[n] + 1 + file[u[n] + 1].Needs)

-----------------------------------------------------------------------------
(***************************************************************************)
(* The inductive invariant behind them.                                    *)
(***************************************************************************)
\* The wallet w in memory holds a, in the slots that are used.
InMemory(w, a) ==
  /\ w \in Wallet /\ w.Needs = Len(a) /\ Len(a) <= Len(w.slots)
  /\ \A i \in 1 .. Len(a) : w.slots[i] = a[i]

\* The file f holds a: a header at this place, and the slots behind it.
OnFile(f, at, a) ==
  /\ at \in Nat /\ at + 1 + Len(a) <= Len(f)
  /\ f[at + 1] \in Headers /\ f[at + 1].Needs = Len(a)
  /\ \A i \in 1 .. Len(a) : f[at + 1 + i] = a[i]

TypeOK ==
  /\ index \in Wallet /\ ~index.Exact /\ index.Has < Modulus
  /\ index.Needs \in 1 .. MaxNumber + 1
  /\ index.Needs <= index.Has \/ index.Needs = 1
  /\ DOMAIN p = 0 .. MaxNumber /\ u \in [0 .. MaxNumber -> Nat] /\ anchor \in Nat
  /\ file \in Seq(Values \cup Headers) /\ pos \in 0 .. Len(file) /\ accum \in Nat /\ j \in Nat
  /\ inGet \in BOOLEAN
  /\ array \in [Live -> Seq(Values)]

\* What a request waits for stays possible while a purge makes memory for it.
\* FPos is where a get was, until the purge writes.
CallOK ==
  call # NULL =>
    \/ call.op = "new" /\ call.exact \in BOOLEAN /\ (anchor # 0 \/ index.Needs <= MaxNumber)
    \/ call.op = "get" /\ call.n \in Live /\ p[call.n] = NULL /\ call.needs = Len(array[call.n])
       /\ (inGet \/ FPos = u[call.n])

\* Each number in use has its contents in one place, and no other one is in memory.
PlacesOK ==
  /\ \A n \in 0 .. MaxNumber : p[n] # NULL => n \in Live
  /\ \A n \in Live : IF p[n] # NULL THEN InMemory(p[n], array[n]) ELSE OnFile(file, u[n], array[n])

IInv == ~harm => TypeOK /\ CallOK /\ PlacesOK /\ NumbersApart

=============================================================================
