------------------------------ MODULE CheckState ------------------------------
(***************************************************************************)
(* One user check through a campaign: runUserCheck of pkg/runtime/call.go  *)
(* for each call it is not excluded from, check.reset of builtin_check.go  *)
(* for each reset.  The check's script makes assertions (module Truth) and *)
(* may change the check's state, which the next call's script finds.       *)
(*                                                                         *)
(* userChecks waits for every check before the call ends, so a reset never *)
(* meets a running script (module UserChecks).                             *)
(***************************************************************************)
EXTENDS Truth

CONSTANTS
  States,         \* what a script may make of the check's state
  state0,         \* the state the check was registered with
  ProtoCompatible \* the states the server's protocol can represent

ASSUME StatesAssumption == state0 \in ProtoCompatible /\ ProtoCompatible \subseteq States

VARIABLES
  state,     \* chk.state
  snapshot,  \* its representation when the script was called
  excluded,  \* the tags filter excludes the check
  status,    \* the verdict of the last call since the reset, or "none"
  asked,     \* history: the script called a predicate
  broken     \* history: the check failed since the last reset

chkVars == <<state, snapshot, excluded, status, asked, broken>>
vars == <<truthVars, chkVars>>

-----------------------------------------------------------------------------
(* Registered with Check(), which freezes state0. *)
Init ==
  /\ TruthInit
  /\ state = state0 /\ snapshot = state0
  /\ excluded \in BOOLEAN
  /\ status = "none" /\ asked = FALSE /\ broken = FALSE

(* check.reset *)
Reset ==
  /\ script = "idle"
  /\ state' = state0
  /\ status' = "none" /\ broken' = FALSE
  /\ UNCHANGED <<truthVars, snapshot, excluded, asked>>

(* A call whose check the tags exclude. *)
Excluded ==
  /\ script = "idle" /\ excluded
  /\ status' = "skipped"
  /\ UNCHANGED <<truthVars, state, snapshot, excluded, asked, broken>>

Calls_SameThread ==
  /\ script = "idle" /\ ~excluded
  /\ script' = "runs" /\ subjects' = <<>>
  /\ snapshot' = state /\ status' = "none" /\ asked' = FALSE
  /\ UNCHANGED <<local, state, excluded, broken>>

(* The script starts, on a thread of its own. *)
Calls ==
  /\ script = "idle" /\ ~excluded
  /\ script' = "runs" /\ subjects' = <<>> /\ local' = "unset"
  /\ snapshot' = state /\ status' = "none" /\ asked' = FALSE
  /\ UNCHANGED <<state, excluded, broken>>

Asserts ==
  /\ \/ (\E list \in Lists : That(list)) /\ UNCHANGED asked
     \/ Predicates /\ asked' = TRUE
  /\ UNCHANGED <<state, snapshot, excluded, status, broken>>

(* ctx.state[...] = ... *)
Mutates ==
  /\ script = "runs"
  /\ state' \in States
  /\ UNCHANGED <<truthVars, snapshot, excluded, status, asked, broken>>

(* Any other error: of types, an assignment to ctx.state, too many steps... *)
Raises ==
  /\ script = "runs"
  /\ script' = "raised"
  /\ UNCHANGED <<subjects, local, chkVars>>

-----------------------------------------------------------------------------
Concludes(verdict) ==
  /\ status' = verdict
  /\ broken' = (broken \/ verdict = "failure")
  /\ script' = "idle"
  /\ UNCHANGED <<subjects, local, state, snapshot, excluded, asked>>

(* The script raised an error. *)
Fails == script = "raised" /\ Concludes("failure")

Verdict_Unrepresentable(isNone) ==
  IF CloseFails \/ ~isNone THEN "failure"
  ELSE IF snapshot = state /\ local = "unset" THEN "skipped" ELSE "success"

Verdict_NoStatus(isNone) ==
  IF ~isNone THEN "unset"
  ELSE IF CloseFails THEN "failure"
  ELSE IF snapshot # state THEN IF state \in ProtoCompatible THEN "success" ELSE "failure"
  ELSE IF local = "unset" THEN "skipped" ELSE "success"

(* It returned None, or something else. *)
Verdict(isNone) ==
  IF CloseFails \/ ~isNone THEN "failure"
  ELSE IF snapshot # state THEN IF state \in ProtoCompatible THEN "success" ELSE "failure"
  ELSE IF local = "unset" THEN "skipped" ELSE "success"

Returns == script = "runs" /\ \E isNone \in BOOLEAN : Concludes(Verdict(isNone))

Next ==
  \/ Reset \/ Excluded \/ Calls
  \/ Asserts \/ Mutates \/ Raises
  \/ Fails \/ Returns

Spec == Init /\ [][Next]_vars

-----------------------------------------------------------------------------
TypeOK ==
  /\ TruthTypeOK
  /\ state \in States /\ snapshot \in States
  /\ excluded \in BOOLEAN /\ asked \in BOOLEAN /\ broken \in BOOLEAN
  /\ status \in {"none", "success", "skipped", "failure"}

Passed == script = "idle" /\ status \in {"success", "skipped"}

(* A script whose check passes or is skipped left no subject without a     *)
(* predicate, save those that a predicate of an older subject made the     *)
(* thread forget (module.go, lines 34-46; attrs.go, lines 132-209).        *)
NoSubjectDangles == Passed => \A i \in DOMAIN subjects : subjects[i].used # "no"

(* A check succeeds when its script asked for something or left another    *)
(* state than it found, and is skipped when it did neither, whatever the   *)
(* earlier calls did (call.go, lines 269-340).                             *)
VerdictTellsWhatRan ==
  Passed /\ ~excluded => (status = "success" <=> asked \/ state # snapshot)

(* Unless the check failed since the last reset, the server can represent  *)
(* the state the next call will find (call.go, lines 318-331).             *)
StateIsRepresentable == script = "idle" /\ ~broken => state \in ProtoCompatible
=============================================================================
