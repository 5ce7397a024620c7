------------------------------- MODULE MutexLock -------------------------------
(***************************************************************************)
(* What a mutex promises: exclusive use, taken only while nobody has it    *)
(* and given back by the one who has it.                                   *)
(***************************************************************************)
CONSTANT Threads

VARIABLE holders   \* the threads that have exclusive use

Init == holders = {}

Acquire(t) == holders = {} /\ holders' = {t}
Release(t) == holders = {t} /\ holders' = {}

Next == \E t \in Threads : Acquire(t) \/ Release(t)

Spec == Init /\ [][Next]_holders
=============================================================================
