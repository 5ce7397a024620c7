------------------------- MODULE SemaphoreClassProofs -------------------------
(***************************************************************************)
(* Proofs about SemaphoreClass for any finite set of threads, either class *)
(* of semaphore, shared or not: its types, the counts that Waiting and     *)
(* Query return, and that MutexSemaphore implements a mutex.               *)
(***************************************************************************)
EXTENDS SemaphoreClass, FiniteSetTheorems, TLAPS

\* Who has which lock.
LocksInv ==
  /\ (base = Creator) <=> pc[Creator] \in {"initial", "initialized"}
  /\ \A t \in Threads : t # Creator => pc[t] \notin Making
  /\ \A t \in Threads : ~known => pc[t] \in Making \cup {"idle"}
  /\ \A t \in Threads : pc[t] \in Inside <=> guard = t
  /\ guard \in Replies => pc[Creator] \notin Making
  /\ pc[Creator] = "new" => ~known
  /\ \A t \in Threads : pc[t] \in {"asleep", "uncount"} => pc[Creator] \notin Making

\* No thread is in a method of the other class.
ClassInv ==
  /\ kind = "event" => \A t \in Threads : pc[t] \notin {"requests", "set", "uncount", "holds", "reset"}
  /\ kind = "mutex" => guard \notin Replies /\ \A t \in Threads : pc[t] \notin {"post", "clear"}

Holds(t) == pc[t] \in {"holds", "reset"}

\* The state of the semaphore is 1 while one thread has it.
HoldersInv ==
  /\ \A t \in Threads : pc[Creator] \in Making => ~Holds(t)
  /\ kind = "mutex" /\ pc[Creator] \notin Making => (sem = 1 <=> \E t \in Threads : Holds(t))
  /\ \A s, t \in Threads : Holds(s) /\ Holds(t) => s = t

\* What the activity that has the lock owes to posts.
EventInv ==
  /\ kind = "event" /\ pc[Creator] = "initialized" => posted = sem /\ posts = sem /\ calls = sem
  /\ kind = "event" /\ pc[Creator] \notin Making =>
       /\ posted = sem
       /\ posts \in Nat
       /\ calls = CASE guard = "post" -> posts + 1 [] guard = "reset" -> 0
                    [] guard \notin {"post", "reset"} -> posts

IInv == TypeOK /\ WaitsCounted /\ LocksInv /\ ClassInv /\ HoldersInv /\ EventInv

-----------------------------------------------------------------------------
(* Counting threads. *)

LEMMA WaitersFinite == IsFiniteSet(Waiters) /\ Cardinality(Waiters) \in Nat
  BY SemaphoreAssumption, FS_Subset, FS_CardinalityType DEF Waiters

\* One more thread waits.
LEMMA OneMore ==
  ASSUME NEW t \in Threads, TypeOK, pc[t] \notin {"asleep", "uncount"},
         NEW l \in {"asleep", "uncount"}, Goes(t, l)
  PROVE  Cardinality(Waiters') = Cardinality(Waiters) + 1
<1>1. Waiters' = Waiters \cup {t}
  BY DEF Waiters, Goes, TypeOK
<1>2. t \notin Waiters
  BY DEF Waiters
<1> QED BY <1>1, <1>2, WaitersFinite, FS_AddElement

\* One thread waits no longer.
LEMMA OneLess ==
  ASSUME NEW t \in Threads, TypeOK, pc[t] \in {"asleep", "uncount"},
         NEW l, l \notin {"asleep", "uncount"}, Goes(t, l)
  PROVE  Cardinality(Waiters') = Cardinality(Waiters) - 1 /\ Cardinality(Waiters') \in Nat
<1>1. Waiters' = Waiters \ {t}
  BY DEF Waiters, Goes, TypeOK
<1>2. t \in Waiters
  BY DEF Waiters
<1> QED BY <1>1, <1>2, WaitersFinite, FS_RemoveElement, FS_CardinalityType

LEMMA AsMany ==
  ASSUME NEW t \in Threads, TypeOK, NEW l, Goes(t, l),
         pc[t] \in {"asleep", "uncount"} <=> l \in {"asleep", "uncount"}
  PROVE  Cardinality(Waiters') = Cardinality(Waiters)
<1>1. Waiters' = Waiters
  BY DEF Waiters, Goes, TypeOK
<1> QED BY <1>1

-----------------------------------------------------------------------------
(* The invariant. *)

LEMMA InitIInv == Init => IInv
<1> SUFFICES ASSUME Init PROVE IInv
  OBVIOUS
<1> USE SemaphoreAssumption, NamesAssumption
<1>1. TypeOK
  BY DEF Init, TypeOK, Unset, Nobody, Making, Inside, Replies
<1>2. Waiters = {}
  BY DEF Init, Waiters
<1>3. WaitsCounted
  BY <1>2, FS_EmptySet DEF Init, WaitsCounted, Nobody
<1>4. LocksInv
  BY DEF Init, LocksInv, Making, Inside, Replies, Nobody
<1>5. ClassInv /\ HoldersInv /\ EventInv
  BY DEF Init, ClassInv, HoldersInv, EventInv, Holds, Making, Replies, Nobody
<1> QED BY <1>1, <1>3, <1>4, <1>5 DEF IInv

USE DEF Goes, Takes

\* The names of the locks' owners are different.
LEMMA Names ==
  \A t \in Threads : t \notin {Nobody, "post", "wait", "reset"}
  BY NamesAssumption DEF Replies

LEMMA StepLocks ==
  ASSUME IInv, Next
  PROVE  LocksInv' /\ ClassInv'
<1> USE SemaphoreAssumption, Names DEF IInv, TypeOK, LocksInv, ClassInv, Nobody, Replies, Making, Inside
<1>1. CASE init_begin
  BY <1>1 DEF init_begin
<1>2. CASE setInitialState
  BY <1>2 DEF setInitialState
<1>3. CASE init_ends
  BY <1>3 DEF init_ends
<1>4. CASE post_counts \/ wait_uncounts \/ reset_counts
  BY <1>4 DEF post_counts, wait_uncounts, reset_counts
<1>5. ASSUME NEW t \in Threads, Calls(t) \/ Proceeds(t)
      PROVE  LocksInv' /\ ClassInv'
  <2>1. CASE Calls(t)
    BY <1>5, <2>1 DEF Calls, requestMutex, post_begin, wait_begin, reset_begin
  <2>2. CASE counts(t) \/ request_begin(t) \/ request_set(t)
    BY <1>5, <2>2 DEF counts, request_begin, request_set
  <2>3. CASE request_wakes(t) \/ request_uncounts(t)
    BY <1>5, <2>3 DEF request_wakes, request_uncounts
  <2>4. CASE release_begin(t) \/ release_resets(t)
    BY <1>5, <2>4 DEF release_begin, release_resets
  <2>5. CASE post_replies(t) \/ wait_wakes(t) \/ reset_replies(t)
    BY <1>5, <2>5 DEF post_replies, wait_wakes, reset_replies
  <2> QED BY <1>5, <2>1, <2>2, <2>3, <2>4, <2>5 DEF Proceeds
<1> QED BY <1>1, <1>2, <1>3, <1>4, <1>5 DEF Next, Finishes

LEMMA StepTypes ==
  ASSUME IInv, Next
  PROVE  TypeOK' /\ WaitsCounted'
<1> USE SemaphoreAssumption, Names DEF IInv, TypeOK, WaitsCounted, Nobody, Unset, Replies, Making, Inside
<1>1. CASE init_begin \/ init_ends
  <2>1. PICK l \in {"initial", "holds", "idle"} :
             /\ Goes(Creator, l)
             /\ waits' = waits /\ (guard' = "wait" <=> guard = "wait") /\ pc[Creator] \in Making
    BY <1>1 DEF init_begin, init_ends
  <2>2. Cardinality(Waiters') = Cardinality(Waiters)
    BY <2>1, AsMany
  <2>3. TypeOK'
    BY <1>1 DEF init_begin, init_ends
  <2> QED BY <2>1, <2>2, <2>3
<1>2. CASE setInitialState
  <2>1. Cardinality(Waiters') = Cardinality(Waiters)
    BY <1>2, AsMany DEF setInitialState
  <2>2. CASE kind = "mutex"
    BY <1>2, <2>1, <2>2 DEF setInitialState
  <2>3. CASE kind = "event"
    BY <1>2, <2>1, <2>3 DEF setInitialState
  <2> QED BY <2>2, <2>3
<1>3. CASE post_counts \/ reset_counts
  <2>1. Waiters' = Waiters
    BY <1>3 DEF Waiters, post_counts, reset_counts
  <2>2. kind = "event" /\ pc[Creator] \notin Making
    BY <1>3 DEF post_counts, reset_counts, ClassInv, LocksInv
  <2>3. TypeOK'
    BY <1>3, <2>2 DEF post_counts, reset_counts, EventInv
  <2> QED BY <1>3, <2>1, <2>3 DEF post_counts, reset_counts
<1>4. CASE wait_uncounts
  <2>1. Waiters' = Waiters
    BY <1>4 DEF Waiters, wait_uncounts
  <2> QED BY <1>4, <2>1, WaitersFinite DEF wait_uncounts
<1>5. ASSUME NEW t \in Threads, Calls(t) \/ Proceeds(t)
      PROVE  TypeOK' /\ WaitsCounted'
  <2> DEFINE Same == waits' = waits /\ guard # "wait" /\ guard' # "wait"
  <2>1. CASE counts(t)
    <3>1. Cardinality(Waiters') = Cardinality(Waiters) + 1
      BY <2>1, OneMore DEF counts
    <3> QED BY <2>1, <3>1, WaitersFinite DEF counts, LocksInv
  <2>2. CASE request_uncounts(t)
    <3>1. Cardinality(Waiters') = Cardinality(Waiters) - 1 /\ Cardinality(Waiters') \in Nat
      BY <2>2, OneLess DEF request_uncounts
    <3> QED BY <2>2, <3>1, WaitersFinite DEF request_uncounts, LocksInv
  <2>3. CASE wait_wakes(t)
    <3>1. Cardinality(Waiters') = Cardinality(Waiters) - 1
      BY <2>3, OneLess DEF wait_wakes
    <3> QED BY <2>3, <3>1, WaitersFinite DEF wait_wakes
  <2>4. CASE requestMutex(t)
    <3>1. Cardinality(Waiters') = Cardinality(Waiters)
      BY <2>4, AsMany DEF requestMutex
    <3> QED BY <2>4, <3>1 DEF requestMutex
  <2>5. CASE post_begin(t) \/ wait_begin(t) \/ reset_begin(t) \/ request_begin(t)
             \/ release_begin(t) \/ request_wakes(t)
    <3>1. PICK l \in {"post", "count", "clear", "set", "reset", "uncount"} :
               /\ Goes(t, l) /\ pc[t] # "uncount"
               /\ pc[t] = "asleep" <=> l = "uncount"
      BY <2>5 DEF post_begin, wait_begin, reset_begin, request_begin, release_begin, request_wakes
    <3>2. Cardinality(Waiters') = Cardinality(Waiters)
      BY <3>1, AsMany
    <3>3. Same
      BY <2>5 DEF post_begin, wait_begin, reset_begin, request_begin, release_begin, request_wakes
    <3>4. TypeOK'
      BY <2>5 DEF post_begin, wait_begin, reset_begin, request_begin, release_begin, request_wakes
    <3> QED BY <3>2, <3>3, <3>4
  <2>6. CASE request_set(t) \/ release_resets(t) \/ post_replies(t) \/ reset_replies(t)
    <3>1. PICK l \in {"holds", "count", "idle"} :
               /\ Goes(t, l)
               /\ pc[t] \notin {"asleep", "uncount"}
      BY <2>6 DEF request_set, release_resets, post_replies, reset_replies
    <3>2. Cardinality(Waiters') = Cardinality(Waiters)
      BY <3>1, AsMany
    <3>3. Same
      BY <2>6 DEF request_set, release_resets, post_replies, reset_replies, LocksInv
    <3>4. TypeOK'
      BY <2>6 DEF request_set, release_resets, post_replies, reset_replies
    <3> QED BY <3>2, <3>3, <3>4
  <2> QED BY <1>5, <2>1, <2>2, <2>3, <2>4, <2>5, <2>6 DEF Calls, Proceeds
<1> QED BY <1>1, <1>2, <1>3, <1>4, <1>5 DEF Next, Finishes

LEMMA StepHolders ==
  ASSUME IInv, Next
  PROVE  HoldersInv'
<1> USE SemaphoreAssumption, Names DEF IInv, TypeOK, LocksInv, ClassInv, HoldersInv, Holds, Nobody, Replies, Making, Inside
<1>1. CASE init_begin \/ setInitialState
  BY <1>1 DEF init_begin, setInitialState
<1>2. CASE init_ends
  BY <1>2 DEF init_ends
<1>3. CASE post_counts \/ wait_uncounts \/ reset_counts
  BY <1>3 DEF post_counts, wait_uncounts, reset_counts
<1>4. ASSUME NEW t \in Threads, Calls(t) \/ Proceeds(t)
      PROVE  HoldersInv'
  <2>1. CASE Calls(t)
    BY <1>4, <2>1 DEF Calls, requestMutex, post_begin, wait_begin, reset_begin
  <2>2. CASE counts(t) \/ request_begin(t)
    BY <1>4, <2>2 DEF counts, request_begin
  <2>3. CASE request_set(t)
    BY <1>4, <2>3 DEF request_set
  <2>4. CASE request_wakes(t) \/ request_uncounts(t)
    BY <1>4, <2>4 DEF request_wakes, request_uncounts
  <2>5. CASE release_begin(t)
    BY <1>4, <2>5 DEF release_begin
  <2>6. CASE release_resets(t)
    BY <1>4, <2>6 DEF release_resets
  <2>7. CASE post_replies(t) \/ wait_wakes(t) \/ reset_replies(t)
    BY <1>4, <2>7 DEF post_replies, wait_wakes, reset_replies
  <2> QED BY <1>4, <2>1, <2>2, <2>3, <2>4, <2>5, <2>6, <2>7 DEF Proceeds
<1> QED BY <1>1, <1>2, <1>3, <1>4 DEF Next, Finishes

LEMMA StepEvents ==
  ASSUME IInv, Next
  PROVE  EventInv'
<1> USE SemaphoreAssumption, Names DEF IInv, TypeOK, LocksInv, ClassInv, EventInv, Nobody, Replies, Making, Inside
<1>1. CASE init_begin
  BY <1>1 DEF init_begin
<1>2. CASE setInitialState
  BY <1>2 DEF setInitialState
<1>3. CASE init_ends
  BY <1>3 DEF init_ends
<1>4. CASE post_counts \/ wait_uncounts \/ reset_counts
  BY <1>4 DEF post_counts, wait_uncounts, reset_counts
<1>5. ASSUME NEW t \in Threads, Calls(t) \/ Proceeds(t)
      PROVE  EventInv'
  <2>1. CASE Calls(t)
    BY <1>5, <2>1 DEF Calls, requestMutex, post_begin, wait_begin, reset_begin
  <2>2. CASE counts(t) \/ request_begin(t) \/ request_set(t)
    BY <1>5, <2>2 DEF counts, request_begin, request_set
  <2>3. CASE request_wakes(t) \/ request_uncounts(t)
    BY <1>5, <2>3 DEF request_wakes, request_uncounts
  <2>4. CASE release_begin(t) \/ release_resets(t)
    BY <1>5, <2>4 DEF release_begin, release_resets
  <2>5. CASE post_replies(t)
    BY <1>5, <2>5 DEF post_replies
  <2>6. CASE wait_wakes(t)
    BY <1>5, <2>6 DEF wait_wakes
  <2>7. CASE reset_replies(t)
    BY <1>5, <2>7 DEF reset_replies
  <2> QED BY <1>5, <2>1, <2>2, <2>3, <2>4, <2>5, <2>6, <2>7 DEF Proceeds
<1> QED BY <1>1, <1>2, <1>3, <1>4, <1>5 DEF Next, Finishes

\* A step in which nothing of the object changes.
LEMMA StutterIInv == IInv /\ UNCHANGED vars => IInv'
<1> SUFFICES ASSUME IInv, UNCHANGED vars PROVE IInv'
  OBVIOUS
<1> USE DEF IInv, vars
<1>1. TypeOK' /\ LocksInv' /\ ClassInv'
  BY DEF TypeOK, LocksInv, ClassInv
<1>2. WaitsCounted'
  BY DEF WaitsCounted, Waiters
<1>3. HoldersInv' /\ EventInv'
  BY DEF HoldersInv, EventInv, Holds
<1> QED BY <1>1, <1>2, <1>3

LEMMA Inductive == Spec => []IInv
<1>1. IInv /\ [Next]_vars => IInv'
  BY StepTypes, StepLocks, StepHolders, StepEvents, StutterIInv DEF IInv
<1> QED BY InitIInv, <1>1, PTL DEF Spec

-----------------------------------------------------------------------------
(* The theorems. *)

\* Every variable of the object has its type, and Waiting never falls below 0.
THEOREM TypeCorrect == Spec => []TypeOK
  BY Inductive, PTL DEF IInv

\* Waiting is the number of the threads that wait or have just been let go.
THEOREM CountCorrect == Spec => []WaitsCounted
  BY Inductive, PTL DEF IInv

\* Whoever asks an event semaphore when its lock is free sees every post that has
\* replied, and the state that wait looks at.
THEOREM QueryCorrect == Spec => []QueryIsRight
<1>1. IInv => QueryIsRight
  BY DEF IInv, EventInv, QueryIsRight, Nobody
<1> QED BY Inductive, <1>1, PTL

\* MutexSemaphore implements a mutex: requestMutex returns to one thread at a time.
THEOREM Refines == Spec => ImplementsLock
<1>1. Init => Lock!Init
  BY DEF Init, Lock!Init, holders
<1>2. IInv /\ [Next]_vars => [Lock!Next]_holders
  <2> SUFFICES ASSUME IInv, [Next]_vars PROVE [Lock!Next]_holders
    OBVIOUS
  <2> USE SemaphoreAssumption DEF IInv, TypeOK
  <2>1. CASE init_ends
    BY <2>1 DEF init_ends, holders, Lock!Next, Lock!Acquire, HoldersInv, Holds, LocksInv, Making
  <2>2. CASE init_begin \/ setInitialState \/ post_counts \/ wait_uncounts \/ reset_counts
    BY <2>2 DEF init_begin, setInitialState, post_counts, wait_uncounts, reset_counts, holders
  <2>3. ASSUME NEW t \in Threads, Calls(t) \/ Proceeds(t)
        PROVE  [Lock!Next]_holders
    <3>1. CASE request_set(t)
      BY <3>1 DEF request_set, holders, Lock!Next, Lock!Acquire, HoldersInv, Holds, LocksInv, Making, Nobody, Inside, ClassInv
    <3>2. CASE release_resets(t)
      BY <3>2 DEF release_resets, holders, Lock!Next, Lock!Release, HoldersInv, Holds
    <3>3. CASE Calls(t)
      BY <3>3 DEF Calls, requestMutex, post_begin, wait_begin, reset_begin, holders
    <3>4. CASE counts(t) \/ request_begin(t) \/ request_wakes(t) \/ request_uncounts(t) \/ release_begin(t)
      BY <3>4 DEF counts, request_begin, request_wakes, request_uncounts, release_begin, holders
    <3>5. CASE post_replies(t) \/ wait_wakes(t) \/ reset_replies(t)
      BY <3>5 DEF post_replies, wait_wakes, reset_replies, holders
    <3> QED BY <2>3, <3>1, <3>2, <3>3, <3>4, <3>5 DEF Proceeds
  <2>4. CASE UNCHANGED vars
    BY <2>4 DEF vars, holders
  <2> QED BY <2>1, <2>2, <2>3, <2>4 DEF Next, Finishes
<1> QED BY <1>1, <1>2, Inductive, PTL DEF Spec, Lock!Spec, ImplementsLock
=============================================================================
