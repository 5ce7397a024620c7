---------------------------- MODULE CrxRecognizer ----------------------------
(***************************************************************************)
(* What the tables EnTable makes and the parser of CRX promise together:   *)
(* a program is judged by the grammar.  It is accepted exactly when it is  *)
(* a sentence; the actions called are then those of a derivation of it,    *)
(* in order, with every word read as that derivation reads it.  Every      *)
(* program is judged.                                                      *)
(***************************************************************************)
EXTENDS CrxGrammar

VARIABLES grammar, program, verdict, reading, calls

recognizerVars == <<grammar, program, verdict, reading, calls>>

Init ==
  /\ grammar \in Grammars
  /\ program = <<>> /\ verdict = "none" /\ reading = <<>> /\ calls = <<>>

Submit ==
  /\ verdict = "none"
  /\ program' \in Programs(grammar)
  /\ verdict' = "open"
  /\ UNCHANGED <<grammar, reading, calls>>

Accept ==
  /\ verdict = "open"
  /\ \E q \in Sentences[grammar] :
       /\ IsReading(grammar, program, q[1])
       /\ reading' = q[1] /\ calls' = q[2]
  /\ verdict' = "accepted"
  /\ UNCHANGED <<grammar, program>>

Reject ==
  /\ verdict = "open"
  /\ \A q \in Sentences[grammar] : q[1] # program
  /\ verdict' = "rejected"
  /\ UNCHANGED <<grammar, program, reading, calls>>

Judge == Accept \/ Reject
Next == Submit \/ Judge

\* Judge can always be taken while the verdict is open; that it is, in the end,
\* is said without ENABLED, so that it can be evaluated under a refinement.
EveryProgramJudged == verdict = "open" ~> verdict # "open"

Spec == Init /\ [][Next]_recognizerVars /\ EveryProgramJudged
=============================================================================
