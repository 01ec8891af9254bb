----------------------------- MODULE UserChecks ------------------------------
(***************************************************************************)
(* userChecks of pkg/runtime/call.go: one goroutine per user check runs it *)
(* and puts its verdict on the buffered channel vs; one consumer sends the *)
(* verdicts to the server one by one; the call waits for all of them.      *)
(*                                                                         *)
(* rt.client is the channel of module Channel: a Receive works or fails, a *)
(* Send looks at the context, hands its message to the sender and waits    *)
(* for the answer, and after a failure there is no other call.  The sender *)
(* leaves when the context ends, so the hand-off may then wait for ever.   *)
(***************************************************************************)
EXTENDS Naturals, Sequences, FiniteSets

CONSTANT Checks  \* the user's checks, by name

ASSUME ChecksAssumption == IsFiniteSet(Checks)

VARIABLES
  ctx,       \* the call's context: "live" or "canceled"
  chk,       \* each check's goroutine: "running", "sending" or "done"
  verdict,   \* what each check found, "none" while it runs
  vs,        \* the verdicts (by check) waiting in the buffered channel
  closed,    \* the consumer closed vs
  cons,      \* the consumer: "select"; in Send: "send", "handoff", "sent";
             \* in recvFuzzingProgress: "progress"; "done"
  cur,       \* the checks whose verdict the consumer holds: at most one
  received,  \* the consumer's loop variable i
  reported,  \* checks whose verdict the server was sent
  passed,    \* the variable passed the consumer shares with the call
  err,       \* what the consumer's goroutine returned
  ret        \* what userChecks returned: "none", "passed", "failed" or "error"

vars == <<ctx, chk, verdict, vs, closed, cons, cur, received, reported, passed, err, ret>>
chkVars == <<chk, verdict>>
consVars == <<closed, cons, cur, received, reported, passed, err>>

Verdict == {"success", "skipped", "failure"}

N == Cardinality(Checks)

(* make(chan ..., len(rt.checks)) *)
Capacity_One == 1
Capacity == N

Init ==
  /\ ctx = "live"
  /\ chk = [c \in Checks |-> "running"]
  /\ verdict = [c \in Checks |-> "none"]
  /\ vs = <<>> /\ closed = FALSE
  /\ cons = "select" /\ cur = {} /\ received = 0
  /\ reported = {} /\ passed = TRUE
  /\ err = "nil" /\ ret = "none"

-----------------------------------------------------------------------------
(* ^C, or the end of the time budget. *)
Cancel ==
  /\ ctx = "live"
  /\ ctx' = "canceled"
  /\ UNCHANGED <<chkVars, vs, consVars, ret>>

CheckRuns_NoStatus(c) ==
  /\ chk[c] = "running"
  /\ \E v \in Verdict \cup {"unset"} : verdict' = [verdict EXCEPT ![c] = v]
  /\ chk' = [chk EXCEPT ![c] = "sending"]
  /\ UNCHANGED <<ctx, vs, consVars, ret>>

(* runUserCheckWrapper: the check's verdict, and the line of live output. *)
CheckRuns(c) ==
  /\ chk[c] = "running"
  /\ \E v \in Verdict : verdict' = [verdict EXCEPT ![c] = v]
  /\ chk' = [chk EXCEPT ![c] = "sending"]
  /\ UNCHANGED <<ctx, vs, consVars, ret>>

(* vs <- v: waits while vs is full, and panics if vs is closed. *)
CheckSends(c) ==
  /\ chk[c] = "sending" /\ Len(vs) < Capacity /\ ~closed
  /\ vs' = Append(vs, c)
  /\ chk' = [chk EXCEPT ![c] = "done"]
  /\ UNCHANGED <<ctx, verdict, consVars, ret>>

-----------------------------------------------------------------------------
ConsumerFails_DefersClose(e) ==
  /\ cons' = "done" /\ err' = e /\ passed' = FALSE /\ closed' = TRUE
  /\ UNCHANGED <<ctx, chkVars, vs, cur, received, reported, ret>>

(* The consumer returns from its goroutine with the error e. *)
ConsumerFails(e) ==
  /\ cons' = "done" /\ err' = e /\ passed' = FALSE
  /\ UNCHANGED <<ctx, chkVars, vs, closed, cur, received, reported, ret>>

ConsumerCanceled ==
  /\ cons = "select" /\ received < N /\ ctx # "live"
  /\ ConsumerFails("canceled")

ConsumerTakes ==
  /\ cons = "select" /\ received < N /\ vs # <<>>
  /\ cur' = {Head(vs)} /\ vs' = Tail(vs)
  /\ cons' = "send"
  /\ UNCHANGED <<ctx, chkVars, closed, received, reported, passed, err, ret>>

(* Send looks at the context before anything else. *)
ConsumerSends ==
  /\ cons = "send" /\ ctx = "live"
  /\ cons' = "handoff"
  /\ UNCHANGED <<ctx, chkVars, vs, closed, cur, received, reported, passed, err, ret>>

ConsumerSendsTooLate ==
  /\ cons = "send" /\ ctx # "live"
  /\ ConsumerFails("canceled")

(* cbd.sndMsg <- msg: with neither a timeout nor a look at the context.    *)
(* The sender may take the message after the end of the context, or not.   *)
ConsumerHandsOff ==
  /\ cons = "handoff"
  /\ cons' = "sent"
  /\ UNCHANGED <<ctx, chkVars, vs, closed, cur, received, reported, passed, err, ret>>

ConsumerSent ==
  /\ cons = "sent"
  /\ reported' = reported \cup cur
  /\ cons' = "progress"
  /\ UNCHANGED <<ctx, chkVars, vs, closed, cur, received, passed, err, ret>>

(* The sender's error, or the timeout of its answer. *)
ConsumerSendFails ==
  /\ cons = "sent"
  /\ ConsumerFails("transport")

ConsumerGetsProgress_LastVerdict ==
  /\ cons = "progress"
  /\ passed' = \A c \in cur : verdict[c] # "failure"
  /\ received' = received + 1
  /\ cur' = {} /\ cons' = "select"
  /\ UNCHANGED <<ctx, chkVars, vs, closed, reported, err, ret>>

ConsumerGetsProgress ==
  /\ cons = "progress"
  /\ passed' = (passed /\ \A c \in cur : verdict[c] # "failure")
  /\ received' = received + 1
  /\ cur' = {} /\ cons' = "select"
  /\ UNCHANGED <<ctx, chkVars, vs, closed, reported, err, ret>>

(* The server answered something else, or Receive failed. *)
ConsumerGetsNoProgress ==
  /\ cons = "progress"
  /\ ConsumerFails("transport")

ConsumerCloses ==
  /\ cons = "select" /\ received = N
  /\ closed' = TRUE /\ cons' = "done"
  /\ UNCHANGED <<ctx, chkVars, vs, cur, received, reported, passed, err, ret>>

Consumer ==
  \/ ConsumerCanceled \/ ConsumerTakes
  \/ ConsumerSends \/ ConsumerSendsTooLate
  \/ ConsumerHandsOff
  \/ ConsumerSent \/ ConsumerSendFails
  \/ ConsumerGetsProgress \/ ConsumerGetsNoProgress
  \/ ConsumerCloses

-----------------------------------------------------------------------------
(* g.Wait() returns once every goroutine of the group did. *)
WaitReturns ==
  /\ ret = "none" /\ cons = "done"
  /\ \A c \in Checks : chk[c] = "done"
  /\ ret' = IF err # "nil" THEN "error" ELSE IF passed THEN "passed" ELSE "failed"
  /\ UNCHANGED <<ctx, chkVars, vs, consVars>>

Next ==
  \/ Cancel
  \/ \E c \in Checks : CheckRuns(c) \/ CheckSends(c)
  \/ Consumer
  \/ WaitReturns

Spec == Init /\ [][Next]_vars

(* The consumer waits for a sender that may have left: line 150 of         *)
(* chans_bidi.go against its line 98 (SendHangsOnlyAtTheEnd of Channel).   *)
AtHandOffTooLate == cons = "handoff" /\ ctx # "live"

(* Go runs every goroutine that can run; a check's script is bounded by    *)
(* SetMaxExecutionSteps, a Receive by its timeout, and a Send by its own   *)
(* once it has handed its message off.  Nothing but a live context bounds  *)
(* the hand-off: there is no fairness for it once the context ended.       *)
FairSpec ==
  /\ Spec
  /\ \A c \in Checks : WF_vars(CheckRuns(c)) /\ WF_vars(CheckSends(c))
  /\ WF_vars(~AtHandOffTooLate /\ Consumer)
  /\ WF_vars(WaitReturns)

-----------------------------------------------------------------------------
TypeOK ==
  /\ ctx \in {"live", "canceled"}
  /\ chk \in [Checks -> {"running", "sending", "done"}]
  /\ verdict \in [Checks -> Verdict \cup {"none"}]
  /\ vs \in Seq(Checks)
  /\ closed \in BOOLEAN
  /\ cons \in {"select", "send", "handoff", "sent", "progress", "done"}
  /\ cur \subseteq Checks
  /\ received \in Nat
  /\ reported \subseteq Checks
  /\ passed \in BOOLEAN
  /\ err \in {"nil", "canceled", "transport"}
  /\ ret \in {"none", "passed", "failed", "error"}

(* close(vs), line 212, comes after the last send on it, line 230: a send  *)
(* on the closed channel would panic.                                      *)
NoSendAfterClose == closed => \A c \in Checks : chk[c] = "done"

(* userChecks only returns without an error when the server knows of every *)
(* check's verdict, and passes only when none of them is a failure, in     *)
(* whichever order the checks end (lines 188-238).                         *)
OutcomeIsThatOfAllChecks ==
  ret \in {"passed", "failed"} =>
    /\ reported = Checks
    /\ ret = "passed" <=> \A c \in Checks : verdict[c] # "failure"

(* No check is left blocked on vs, not even when the consumer gave up on a *)
(* canceled context or a broken channel: the errgroup ends, unless its     *)
(* consumer waits for ever to hand a verdict off after the end of the      *)
(* context (line 150 of chans_bidi.go).  In particular it always ends      *)
(* under a context that stays live.                                        *)
GroupEndsOrHangsAtHandOff == <>(ret # "none") \/ <>[]AtHandOffTooLate

-----------------------------------------------------------------------------
Report == INSTANCE Verdicts WITH
  failing <- \E c \in reported : verdict[c] = "failure",
  awaiting <- (cur \cap reported # {}),
  outcome <- IF cons = "done" /\ err # "nil" THEN "error"
             ELSE IF ret = "none" THEN "running" ELSE ret

(* The goroutines of the group report as module Verdicts promises.  A      *)
(* Send that failed counts as the error of the call.                       *)
ImplementsVerdicts == Report!Spec
=============================================================================
