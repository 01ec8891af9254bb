------------------------------ MODULE Verdicts -------------------------------
(***************************************************************************)
(* What userChecks promises to a call: the verdict of every check goes to  *)
(* the server, once and in any order, one at a time: the next one only     *)
(* after the server's progress for the last one.  The call passes when all *)
(* of them went through and none is a failure.                             *)
(***************************************************************************)
EXTENDS Naturals

CONSTANT Checks

VARIABLES
  reported,  \* checks whose verdict was sent
  failing,   \* one of those is a failure
  awaiting,  \* the server's progress for the last one is due
  outcome    \* "running", "passed", "failed", or "error" of the channel

vars == <<reported, failing, awaiting, outcome>>

Init ==
  /\ reported = {}
  /\ failing = FALSE /\ awaiting = FALSE
  /\ outcome = "running"

Report(c) ==
  /\ outcome = "running" /\ ~awaiting
  /\ c \notin reported
  /\ reported' = reported \cup {c}
  /\ failing' \in {failing, TRUE}
  /\ awaiting' = TRUE
  /\ UNCHANGED outcome

Progress ==
  /\ outcome = "running" /\ awaiting
  /\ awaiting' = FALSE
  /\ UNCHANGED <<reported, failing, outcome>>

Finish ==
  /\ outcome = "running" /\ ~awaiting /\ reported = Checks
  /\ outcome' = IF failing THEN "failed" ELSE "passed"
  /\ UNCHANGED <<reported, failing, awaiting>>

Error ==
  /\ outcome = "running"
  /\ outcome' = "error"
  /\ UNCHANGED <<reported, failing, awaiting>>

Next == (\E c \in Checks : Report(c)) \/ Progress \/ Finish \/ Error

Spec == Init /\ [][Next]_vars
=============================================================================
