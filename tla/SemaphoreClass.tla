----------------------------- MODULE SemaphoreClass -----------------------------
(***************************************************************************)
(* The semaphore classes of Object Rexx                                    *)
(* (src/Object_Rexx/semcls.cls): the class Semaphore and its subclasses    *)
(* MutexSemaphore and EventSemaphore, one object of which is made and used *)
(* by several threads.                                                     *)
(*                                                                         *)
(* A method is guarded unless it says otherwise: while it runs, its thread *)
(* has the lock of the variables that the method's class gave the object.  *)
(* So an object has two locks, base for the variables of Semaphore and     *)
(* guard for those of the subclass, and a method of the subclass that      *)
(* sends itself setSem has both.  "guard off" gives the lock up, "guard on *)
(* when" takes it as soon as the condition holds, and after "reply" the    *)
(* caller goes on while the rest of the method, with its lock, becomes an  *)
(* activity of its own.  One action is what a method does between two      *)
(* places where it may have to wait for a lock.                            *)
(***************************************************************************)
EXTENDS Integers, FiniteSets

CONSTANTS
  Threads,    \* that use the semaphore
  Creator,    \* the one that makes it
  Kinds,      \* the classes it may be of: "mutex", "event"
  Shared,     \* init enters it into the directory of the class
  MaxPosts    \* bound: the posts since the last reset

ASSUME SemaphoreAssumption ==
  /\ IsFiniteSet(Threads) /\ Creator \in Threads
  /\ Kinds \subseteq {"mutex", "event"}
  /\ Shared \in BOOLEAN /\ MaxPosts \in Nat

Nobody == "nobody"

\* Nobody, and the activities that reply has made: what is left of the method.
Replies == {"post", "wait", "reset"}

ASSUME NamesAssumption == Threads \cap (Replies \cup {Nobody}) = {}

Unset == -1   \* a variable that has no value yet

VARIABLES
  kind,     \* the class of the object
  sem,      \* Semaphore: its state
  waits,    \* Semaphore: the number of objects waiting
  owned,    \* MutexSemaphore: the state that setSem found
  posted,   \* EventSemaphore
  posts,    \* EventSemaphore: the number of posts since the last reset
  base,     \* who has the lock of sem and waits over more than one step
  guard,    \* who has the lock of owned, or of posted and posts
  known,    \* others than the creator can send the object messages
  pc,       \* where each thread is
  calls     \* history: the calls of post since the last reset that have replied

vars == <<kind, sem, waits, owned, posted, posts, base, guard, known, pc, calls>>

\* A thread is in a method of the subclass and has its lock.
Inside == {"set", "count", "uncount", "reset", "post", "clear"}
Making == {"new", "initial", "initialized"}

Init ==
  /\ kind \in Kinds
  /\ sem = 0 /\ waits = 0
  /\ owned = Unset /\ posted = Unset /\ posts = Unset
  /\ base = Nobody /\ guard = Nobody
  /\ known = FALSE
  /\ pc = [t \in Threads |-> IF t = Creator THEN "new" ELSE "idle"]
  /\ calls = 0

Goes(t, l) == pc' = [pc EXCEPT ![t] = l]

\* t's method of the subclass begins, or goes on, with the lock.
Takes(t, from, l) ==
  /\ known /\ pc[t] = from
  /\ guard = Nobody /\ guard' = t
  /\ Goes(t, l)

-----------------------------------------------------------------------------
(* Semaphore: init. *)

\* sem = state, and self~class[name] = self, from where any thread gets the object.
init_begin ==
  /\ pc[Creator] = "new"
  /\ base = Nobody /\ base' = Creator
  /\ sem' \in {0, 1}
  /\ known' = Shared
  /\ Goes(Creator, "initial")
  /\ UNCHANGED <<kind, waits, owned, posted, posts, guard, calls>>

\* self~setInitialState(sem), which the subclass guards.
setInitialState ==
  /\ pc[Creator] = "initial"
  /\ guard = Nobody
  /\ CASE kind = "mutex" -> owned' = sem /\ UNCHANGED <<posted, posts>>
       [] kind = "event" -> posted' = sem /\ posts' = sem /\ UNCHANGED owned
  /\ calls' = sem
  /\ Goes(Creator, "initialized")
  /\ UNCHANGED <<kind, sem, waits, base, guard, known>>

\* A mutex that is made in state 1 is the creator's.
init_ends ==
  /\ pc[Creator] = "initialized"
  /\ base' = Nobody
  /\ known' = TRUE
  /\ Goes(Creator, IF kind = "mutex" /\ sem = 1 THEN "holds" ELSE "idle")
  /\ UNCHANGED <<kind, sem, waits, owned, posted, posts, guard, calls>>

\* Mutant: the waiting thread is not counted.
counts_not(t) ==
  /\ pc[t] = "count" /\ base = Nobody
  /\ guard' = Nobody
  /\ Goes(t, "asleep")
  /\ UNCHANGED <<kind, sem, waits, owned, posted, posts, base, known, calls>>

\* incWaits, and guard off.
counts(t) ==
  /\ pc[t] = "count" /\ base = Nobody
  /\ waits' = waits + 1
  /\ guard' = Nobody
  /\ Goes(t, "asleep")
  /\ UNCHANGED <<kind, sem, owned, posted, posts, base, known, calls>>

-----------------------------------------------------------------------------
(* MutexSemaphore. *)

requestMutex(t) ==
  /\ kind = "mutex" /\ known /\ pc[t] = "idle"
  /\ Goes(t, "requests")
  /\ UNCHANGED <<kind, sem, waits, owned, posted, posts, base, guard, known, calls>>

request_begin(t) ==
  /\ Takes(t, "requests", "set")
  /\ UNCHANGED <<kind, sem, waits, owned, posted, posts, base, known, calls>>

\* Mutant: the state that was found is thrown away.
request_set_always(t) ==
  /\ pc[t] = "set" /\ base = Nobody
  /\ sem' = 1
  /\ owned' = sem
  /\ guard' = Nobody
  /\ Goes(t, "holds")
  /\ UNCHANGED <<kind, waits, posted, posts, base, known, calls>>

\* owned = self~setSem: who finds 0 has it.
request_set(t) ==
  /\ pc[t] = "set" /\ base = Nobody
  /\ sem' = 1
  /\ owned' = sem
  /\ \/ sem = 0 /\ guard' = Nobody /\ Goes(t, "holds")
     \/ sem # 0 /\ guard' = guard /\ Goes(t, "count")
  /\ UNCHANGED <<kind, waits, posted, posts, base, known, calls>>

\* guard on when \owned
request_wakes(t) ==
  /\ kind = "mutex" /\ owned = 0
  /\ Takes(t, "asleep", "uncount")
  /\ UNCHANGED <<kind, sem, waits, owned, posted, posts, base, known, calls>>

request_uncounts(t) ==
  /\ pc[t] = "uncount" /\ base = Nobody
  /\ waits' = waits - 1
  /\ Goes(t, "set")
  /\ UNCHANGED <<kind, sem, owned, posted, posts, base, guard, known, calls>>

\* Anyone may release; a thread that keeps to the protocol has the mutex.
release_begin(t) ==
  /\ Takes(t, "holds", "reset")
  /\ UNCHANGED <<kind, sem, waits, owned, posted, posts, base, known, calls>>

\* Mutant: what resetSem returns is not assigned.
release_resets_sem(t) ==
  /\ pc[t] = "reset" /\ base = Nobody
  /\ sem' = 0
  /\ guard' = Nobody
  /\ Goes(t, "idle")
  /\ UNCHANGED <<kind, waits, owned, posted, posts, base, known, calls>>

\* owned = self~resetSem
release_resets(t) ==
  /\ pc[t] = "reset" /\ base = Nobody
  /\ sem' = 0 /\ owned' = 0
  /\ guard' = Nobody
  /\ Goes(t, "idle")
  /\ UNCHANGED <<kind, waits, posted, posts, base, known, calls>>

-----------------------------------------------------------------------------
(* EventSemaphore. *)

post_begin(t) ==
  /\ kind = "event" /\ posts < MaxPosts
  /\ Takes(t, "idle", "post")
  /\ UNCHANGED <<kind, sem, waits, owned, posted, posts, base, known, calls>>

\* Mutant: posted is not set.
post_replies_only(t) ==
  /\ pc[t] = "post" /\ base = Nobody
  /\ sem' = 1
  /\ calls' = calls + 1
  /\ guard' = "post"
  /\ Goes(t, "idle")
  /\ UNCHANGED <<kind, waits, owned, posted, posts, base, known>>

\* self~setSem; posted = 1; reply
post_replies(t) ==
  /\ pc[t] = "post" /\ base = Nobody
  /\ sem' = 1 /\ posted' = 1
  /\ calls' = calls + 1
  /\ guard' = "post"
  /\ Goes(t, "idle")
  /\ UNCHANGED <<kind, waits, owned, posts, base, known>>

\* Mutant: posts says whether, not how often.
post_counts_once ==
  /\ guard = "post" /\ guard' = Nobody
  /\ posts' = 1
  /\ UNCHANGED <<kind, sem, waits, owned, posted, base, known, pc, calls>>

post_counts ==
  /\ guard = "post" /\ guard' = Nobody
  /\ posts' = posts + 1
  /\ UNCHANGED <<kind, sem, waits, owned, posted, base, known, pc, calls>>

wait_begin(t) ==
  /\ kind = "event"
  /\ Takes(t, "idle", "count")
  /\ UNCHANGED <<kind, sem, waits, owned, posted, posts, base, known, calls>>

\* guard on when posted; reply
wait_wakes(t) ==
  /\ kind = "event" /\ posted = 1
  /\ pc[t] = "asleep"
  /\ guard = Nobody /\ guard' = "wait"
  /\ Goes(t, "idle")
  /\ UNCHANGED <<kind, sem, waits, owned, posted, posts, base, known, calls>>

\* Mutant: the waiting thread is counted for ever.
wait_uncounts_not ==
  /\ guard = "wait" /\ base = Nobody
  /\ guard' = Nobody
  /\ UNCHANGED <<kind, sem, waits, owned, posted, posts, base, known, pc, calls>>

wait_uncounts ==
  /\ guard = "wait" /\ base = Nobody
  /\ waits' = waits - 1
  /\ guard' = Nobody
  /\ UNCHANGED <<kind, sem, owned, posted, posts, base, known, pc, calls>>

reset_begin(t) ==
  /\ kind = "event"
  /\ Takes(t, "idle", "clear")
  /\ UNCHANGED <<kind, sem, waits, owned, posted, posts, base, known, calls>>

\* posted = self~resetSem; reply
reset_replies(t) ==
  /\ pc[t] = "clear" /\ base = Nobody
  /\ sem' = 0 /\ posted' = 0
  /\ calls' = 0
  /\ guard' = "reset"
  /\ Goes(t, "idle")
  /\ UNCHANGED <<kind, waits, owned, posts, base, known>>

reset_counts ==
  /\ guard = "reset" /\ guard' = Nobody
  /\ posts' = 0
  /\ UNCHANGED <<kind, sem, waits, owned, posted, base, known, pc, calls>>

-----------------------------------------------------------------------------

\* What goes on in a thread t once its call has begun.
Proceeds(t) ==
  \/ counts(t)
  \/ request_begin(t) \/ request_set(t) \/ request_wakes(t) \/ request_uncounts(t)
  \/ release_begin(t) \/ release_resets(t)
  \/ post_replies(t) \/ wait_wakes(t) \/ reset_replies(t)

\* What goes on without it: in init, and after reply.
Finishes == setInitialState \/ init_ends \/ post_counts \/ wait_uncounts \/ reset_counts

Calls(t) == requestMutex(t) \/ post_begin(t) \/ wait_begin(t) \/ reset_begin(t)

Next ==
  \/ init_begin
  \/ Finishes
  \/ \E t \in Threads : Calls(t) \/ Proceeds(t)

Spec == Init /\ [][Next]_vars

\* Every activity that can run does at last; whoever has the mutex gives it back.
\* Nobody need make or use a semaphore, and a lock is given to whoever comes.
Fairness == WF_vars(Finishes) /\ \A t \in Threads : WF_vars(Proceeds(t))

FairSpec == Spec /\ Fairness

-----------------------------------------------------------------------------
(* Properties. *)

TypeOK ==
  /\ kind \in Kinds
  /\ sem \in {0, 1} /\ waits \in Nat
  /\ owned \in {Unset, 0, 1} /\ posted \in {Unset, 0, 1} /\ posts \in Nat \cup {Unset}
  /\ base \in {Nobody, Creator} /\ guard \in Threads \cup Replies \cup {Nobody}
  /\ known \in BOOLEAN
  /\ pc \in [Threads -> Inside \cup Making \cup {"idle", "requests", "asleep", "holds"}]
  /\ calls \in Nat

\* The threads that requestMutex has given exclusive use.
holders == {t \in Threads : pc[t] \in {"holds", "reset"}}

\* requestMutex gives exclusive use: whatever the threads interleave, and although
\* owned says 0 while somebody has the mutex, the threads have it by turns.
Lock == INSTANCE MutexLock WITH Threads <- Threads, holders <- holders
ImplementsLock == Lock!Spec

\* Between incWaits and decWaits, which may be after the caller has gone on.
Waiters == {t \in Threads : pc[t] \in {"asleep", "uncount"}}

\* Waiting is the number of objects waiting, and of those that have just been
\* let go by wait and are not yet subtracted.
WaitsCounted == waits = Cardinality(Waiters) + (IF guard = "wait" THEN 1 ELSE 0)

\* Whenever query can get the lock, posts is the number of posts that have replied
\* since the last reset, though it is counted after the reply; and the state of
\* the superclass, which querySem returns, is the one that wait looks at.
QueryIsRight ==
  kind = "event" /\ guard = Nobody /\ pc[Creator] \notin Making
    => posts = calls /\ posted = sem

\* If anybody wants the mutex, somebody gets it: no release goes unnoticed by those
\* that wait for owned to become 0.
Requesting == kind = "mutex" /\ \E t \in Threads : pc[t] \in {"requests", "set", "count", "asleep", "uncount"}
SomeoneEnters == Requesting ~> holders # {}

\* A thread that waits goes on if the semaphore is set for good and the others
\* leave it the lock.
WaitersWake ==
  \A t \in Threads :
    <>[](kind = "event" /\ sem = 1 /\ \A u \in Threads \ {t} : pc[u] \in {"idle", "asleep"})
      => []<>(pc[t] # "asleep")
=============================================================================
