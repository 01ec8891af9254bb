------------------------------ MODULE Campaign -------------------------------
(***************************************************************************)
(* `monkey fuzz`: Fuzz, call, callerChecks, userChecks, reset and          *)
(* recvFuzzingProgress of pkg/runtime, from the dial to the exit code of   *)
(* main.go, in conversation with the server.                               *)
(*                                                                         *)
(* A call on the client's channel is one step, which works or fails, as    *)
(* module Channel says; userChecks sends its verdicts one by one, as       *)
(* module Verdicts says.  The server is modelled from the way this code    *)
(* talks to it: it instructs, then follows the instruction's exchange.     *)
(***************************************************************************)
EXTENDS Naturals, Sequences

CONSTANTS
  CallerChecks,  \* number of checks of the caller (modeler.Caller)
  UserChecks,    \* number of user checks
  Causes,        \* the ways the context may end: "canceled", "deadline"
  MaxInstr,      \* bound on the server's instructions
  MaxDepth       \* bound on the campaigns that follow one another

ASSUME CountsAssumption == {CallerChecks, UserChecks, MaxInstr, MaxDepth} \subseteq Nat
ASSUME CausesAssumption == Causes \subseteq {"canceled", "deadline"}

VARIABLES
  ctx,         \* "live", or why the context ended
  pc,          \* what the program does next
  after,       \* what it does after recvFuzzingProgress
  callerLeft,  \* checks of the caller still to run in this call
  userLeft,    \* user checks whose verdict is still to be sent in this call
  resetOk,     \* what runReset returned
  depth,       \* number of this campaign: 1 + the number of Fuzz's recursions
  clients,     \* number of channels opened and not closed
  progress,    \* rt.progress is set
  standing,    \* what rt.lastFuzzingProgress says of the campaign
  result,      \* the campaign's result: "none", "last", or "next" with a next seed
  ce,          \* that result has a counterexample
  bugShown,    \* Fuzz has printed a counterexample
  err,         \* the error Fuzz is about to return
  code,        \* the exit code
  cleaned,     \* Cleanup terminated the resetter
  up, down,    \* messages under way to the server, to the client
  srv,         \* the server's place in the exchange
  told,        \* the standing the server last reported in this campaign
  instr        \* number of instructions the server gave

loopVars == <<depth, clients, progress, result, ce, bugShown>>
callVars == <<after, callerLeft, userLeft>>
exitVars == <<code, cleaned>>
srvVars == <<srv, told, instr>>
vars == <<ctx, pc, callVars, resetOk, loopVars, standing, err, exitVars, up, down, srvVars>>

-----------------------------------------------------------------------------
Standing == {"resetter", "bug", "success"}  \* the three outcomes of Fuzz
Progresses == {"none"} \cup Standing
Outcome == {"nil", "canceled", "deadline", "timeout", "transport", "unhandled", "other"}

(* A message of the server: the progress it carries, its msg, and whether  *)
(* a result has a counterexample.                                          *)
Srv(fp, msg, hasCe) == [fp |-> fp, msg |-> msg, ce |-> hasCe]

EndOfCtx == {ctx} \ {"live"}

(* ChBiDi reports a finished stream (io.EOF) as context.DeadlineExceeded. *)
SendErrors_RawEOF == {"eof", "timeout", "transport"} \cup EndOfCtx
SendErrors == {"deadline", "timeout", "transport"} \cup EndOfCtx
ReceiveErrors_WaitsForEver == {}
ReceiveErrors == {"timeout", "transport"} \cup EndOfCtx

(* An error of the channel leaves the fuzzing loop through every caller. *)
Breaks_Continues(e) == pc' = "loop" /\ err' = e
Breaks(e) == pc' = "break" /\ err' = e

Sends(m, next) ==
  \/ /\ ctx = "live"
     /\ up' = Append(up, m) /\ pc' = next
     /\ UNCHANGED err
  \/ /\ \E e \in SendErrors : Breaks(e)
     /\ UNCHANGED up

(* rt.fuzzingProgress *)
Records_Nothing(fp) == UNCHANGED standing
Records(fp) == standing' = IF fp = "none" THEN standing ELSE fp

Init ==
  /\ ctx = "live"
  /\ pc = "dial"
  /\ after = "loop" /\ callerLeft = 0 /\ userLeft = 0 /\ resetOk = TRUE
  /\ depth = 1 /\ clients = 0 /\ progress = FALSE
  /\ standing = "resetter"  \* no progress yet: no success, no calls
  /\ result = "none" /\ ce = FALSE /\ bugShown = FALSE /\ err = "nil"
  /\ code = 0 /\ cleaned = FALSE
  /\ up = <<>> /\ down = <<>>
  /\ srv = "hello" /\ told = "none" /\ instr = 0

CtxEnds(cause) ==
  /\ ctx = "live" /\ pc # "exited"
  /\ ctx' = cause
  /\ UNCHANGED <<pc, callVars, resetOk, loopVars, standing, err, exitVars, up, down, srvVars>>

-----------------------------------------------------------------------------
(* Fuzz. *)

(* NewChBiDi: a new stream, to a server that knows nothing of the last one. *)
(* The dial gives up after four seconds with context.DeadlineExceeded.      *)
Dial ==
  /\ pc = "dial"
  /\ \/ /\ ctx = "live"
        /\ pc' = "hello" /\ clients' = clients + 1
        /\ up' = <<>> /\ down' = <<>> /\ srv' = "hello" /\ told' = "none"
        /\ UNCHANGED err
     \/ /\ pc' = "return"
        /\ err' \in {"deadline", "transport"} \cup EndOfCtx
        /\ UNCHANGED <<clients, up, down, srv, told>>
  /\ UNCHANGED <<ctx, callVars, resetOk, depth, progress, standing, result, ce,
                 bugShown, exitVars, instr>>

(* The only error Fuzz returns on the spot. *)
Hello ==
  /\ pc = "hello"
  /\ \/ /\ ctx = "live"
        /\ up' = Append(up, "Fuzz") /\ pc' = "loop"
        /\ UNCHANGED err
     \/ pc' = "return" /\ err' \in SendErrors /\ UNCHANGED up
  /\ UNCHANGED <<ctx, callVars, resetOk, loopVars, standing, exitVars, down, srvVars>>

(* The first message sets the progresser up, whatever it is. *)
FirstMessage ==
  /\ \/ progress' = TRUE /\ pc' = "loop" /\ UNCHANGED err
     \/ Breaks("other") /\ UNCHANGED progress  \* no such progresser
  /\ UNCHANGED <<standing, result, ce, callVars>>

Handles(m) ==
  /\ Records(m.fp)
  /\ \/ m.msg = "nil" /\ pc' = "loop" /\ UNCHANGED <<err, result, ce, callVars>>
     \/ /\ m.msg = "Call" /\ pc' = "call"
        /\ callerLeft' = CallerChecks /\ userLeft' = UserChecks
        /\ UNCHANGED <<err, result, ce, after>>
     \/ m.msg = "Reset" /\ pc' = "reset" /\ UNCHANGED <<err, result, ce, callVars>>
     \/ /\ m.msg \in {"Result", "ResultNext"} /\ pc' = "break"
        /\ result' = IF m.msg = "Result" THEN "last" ELSE "next"
        /\ ce' = m.ce
        /\ UNCHANGED <<err, callVars>>
     \/ m.msg = "FuzzRep" /\ Breaks("unhandled") /\ UNCHANGED <<result, ce, callVars>>
  /\ UNCHANGED progress

Loop ==
  /\ pc = "loop"
  /\ \/ /\ ctx = "live" /\ down # <<>>
        /\ down' = Tail(down)
        /\ IF progress THEN Handles(Head(down)) ELSE FirstMessage
     \/ /\ \E e \in ReceiveErrors : Breaks(e)
        /\ UNCHANGED <<down, callVars, progress, standing, result, ce>>
  /\ UNCHANGED <<ctx, resetOk, depth, clients, bugShown, exitVars, up, srvVars>>

Break_KeepsProgresser ==
  /\ pc = "break"
  /\ IF err = "nil" /\ result = "next"
     THEN pc' = "dial" /\ depth' = depth + 1 /\ result' = "none"
     ELSE pc' = "return" /\ UNCHANGED <<depth, result>>
  /\ UNCHANGED <<ctx, callVars, resetOk, clients, progress, ce, bugShown, standing, err,
                 exitVars, up, down, srvVars>>

(* After the loop: the progresser is terminated and forgotten; then the     *)
(* next campaign, inside this one, unless there is an error.                *)
Break ==
  /\ pc = "break"
  /\ \E errP \in {"nil", "other"} : err' = IF progress /\ err = "nil" THEN errP ELSE err
  /\ progress' = FALSE
  /\ bugShown' = (bugShown \/ (err' = "nil" /\ ce))
  /\ IF err' = "nil" /\ result = "next"
     THEN pc' = "dial" /\ depth' = depth + 1 /\ result' = "none"
     ELSE pc' = "return" /\ UNCHANGED <<depth, result>>
  /\ UNCHANGED <<ctx, callVars, resetOk, clients, ce, standing, exitVars,
                 up, down, srvVars>>

-----------------------------------------------------------------------------
(* call. *)

(* The request, or the reason why it cannot be built. *)
Request ==
  /\ pc = "call"
  /\ Sends("Request", "respond") \/ Sends("BadRequest", "loop")
  /\ UNCHANGED <<ctx, callVars, resetOk, loopVars, standing, exitVars, down, srvVars>>

Respond ==
  /\ pc = "respond"
  /\ Sends("Response", "progress")
  /\ after' = "callerCheck"
  /\ UNCHANGED <<ctx, callerLeft, userLeft, resetOk, loopVars, standing, exitVars,
                 down, srvVars>>

RecvFuzzingProgress ==
  /\ pc = "progress"
  /\ \/ /\ ctx = "live" /\ down # <<>>
        /\ down' = Tail(down)
        /\ IF Head(down).fp = "none"
           THEN Breaks("other") /\ UNCHANGED standing
           ELSE pc' = after /\ Records(Head(down).fp) /\ UNCHANGED err
     \/ (\E e \in ReceiveErrors : Breaks(e)) /\ UNCHANGED <<down, standing>>
  /\ UNCHANGED <<ctx, callVars, resetOk, loopVars, exitVars, up, srvVars>>

CallerCheck_KeepsGoing ==
  /\ pc = "callerCheck" /\ callerLeft > 0
  /\ callerLeft' = callerLeft - 1
  /\ Sends("CheckPassed", "progress") \/ Sends("CheckFailed", "progress")
  /\ UNCHANGED <<ctx, after, userLeft, resetOk, loopVars, standing, exitVars, down, srvVars>>

(* One check of the caller.  The first failure ends the call. *)
CallerCheck ==
  /\ pc = "callerCheck" /\ callerLeft > 0
  /\ callerLeft' = callerLeft - 1
  /\ \/ Sends("CheckPassed", "progress") /\ after' = "callerCheck"
     \/ Sends("CheckFailed", "progress") /\ after' = "loop"
  /\ UNCHANGED <<ctx, userLeft, resetOk, loopVars, standing, exitVars, down, srvVars>>

(* One verdict of userChecks.  A failure does not end the call. *)
UserCheck ==
  /\ pc = "callerCheck" /\ callerLeft = 0 /\ userLeft > 0
  /\ userLeft' = userLeft - 1
  /\ Sends("UserCheck", "progress") /\ after' = "callerCheck"
  /\ UNCHANGED <<ctx, callerLeft, resetOk, loopVars, standing, exitVars, down, srvVars>>

ChecksDone_AwaitsProgress ==
  /\ pc = "callerCheck" /\ callerLeft = 0 /\ userLeft = 0
  /\ Sends("Done", "progress") /\ after' = "loop"
  /\ UNCHANGED <<ctx, callerLeft, userLeft, resetOk, loopVars, standing, exitVars, down, srvVars>>

ChecksDone ==
  /\ pc = "callerCheck" /\ callerLeft = 0 /\ userLeft = 0
  /\ Sends("Done", "loop")
  /\ UNCHANGED <<ctx, callVars, resetOk, loopVars, standing, exitVars, down, srvVars>>

-----------------------------------------------------------------------------
(* reset: a failure of the system under test does not end the loop. *)

ResetStarts ==
  /\ pc = "reset"
  /\ Sends("ResetStarted", "resetting")
  /\ resetOk' \in BOOLEAN
  /\ UNCHANGED <<ctx, callVars, loopVars, standing, exitVars, down, srvVars>>

ResetEnds ==
  /\ pc = "resetting"
  /\ Sends(IF resetOk THEN "ResetEnded" ELSE "ResetFailed", "loop")
  /\ UNCHANGED <<ctx, callVars, resetOk, loopVars, standing, exitVars, down, srvVars>>

-----------------------------------------------------------------------------
(* main: Fuzz has returned through its recursions and closed its channels. *)

(* What Fuzz returns: never nil. *)
FuzzReturns == IF err # "nil" THEN err ELSE standing

ExitCode ==
  CASE FuzzReturns \in {"deadline", "success"} -> 0
    [] FuzzReturns = "bug" -> 6
    [] FuzzReturns = "resetter" -> 7
    [] OTHER -> 1

Return ==
  /\ pc = "return"
  /\ clients' = 0
  /\ code' = ExitCode
  /\ pc' = "cleanup"
  /\ UNCHANGED <<ctx, callVars, resetOk, depth, progress, result, ce, bugShown,
                 standing, err, cleaned, up, down, srvVars>>

(* The deferred Cleanup, with a context of its own; the exit code is set. *)
Cleanup ==
  /\ pc = "cleanup"
  /\ cleaned' \in BOOLEAN  \* whether the resetter's Terminate worked
  /\ pc' = "exited"
  /\ UNCHANGED <<ctx, callVars, resetOk, loopVars, standing, err, code, up, down, srvVars>>

-----------------------------------------------------------------------------
(* The server. *)

(* Its next place in the exchange, given the client's message. *)
Follows(m) ==
  CASE srv = "hello" /\ m = "Fuzz" -> "ready"
    [] srv = "request" /\ m = "Request" -> "response"
    [] srv = "request" /\ m = "BadRequest" -> "ready"
    [] srv = "response" /\ m = "Response" -> "checks"
    [] srv = "checks" /\ m \in {"CheckPassed", "UserCheck"} -> "checks"
    [] srv = "checks" /\ m \in {"CheckFailed", "Done"} -> "ready"
    [] srv = "reset" /\ m = "ResetStarted" -> "resetting"
    [] srv = "resetting" /\ m \in {"ResetEnded", "ResetFailed"} -> "ready"
    [] OTHER -> "confused"

(* It answers the first message with FuzzRep, a response and each verdict  *)
(* with its progress, and nothing else.                                    *)
ServerReads ==
  /\ up # <<>> /\ srv # "confused"
  /\ LET m == Head(up) IN
     /\ srv' = Follows(m)
     /\ \/ /\ m = "Fuzz" /\ down' = Append(down, Srv("none", "FuzzRep", FALSE))
           /\ UNCHANGED told
        \/ /\ m \in {"Response", "CheckPassed", "CheckFailed", "UserCheck"}
           /\ told' \in Standing
           /\ down' = Append(down, Srv(told', "nil", FALSE))
        \/ /\ m \notin {"Fuzz", "Response", "CheckPassed", "CheckFailed", "UserCheck"}
           /\ UNCHANGED <<down, told>>
  /\ up' = Tail(up)
  /\ UNCHANGED <<ctx, pc, callVars, resetOk, loopVars, standing, err, exitVars, instr>>

(* When no exchange is in progress it may instruct, report progress, or    *)
(* both in one message.  It reports progress in every campaign before its  *)
(* result, which has a counterexample when it is a bug's.                  *)
ServerInstructs ==
  /\ srv = "ready" /\ instr < MaxInstr
  /\ instr' = instr + 1
  /\ \E fp \in Progresses, msg \in {"nil", "Call", "Reset", "Result", "ResultNext"} :
       /\ msg = "ResultNext" => depth < MaxDepth
       /\ told' = IF fp = "none" THEN told ELSE fp
       /\ msg \in {"Result", "ResultNext"} => told' # "none"
       /\ down' = Append(down, Srv(fp, msg, msg \in {"Result", "ResultNext"} /\ told' = "bug"))
       /\ srv' = CASE msg = "Call" -> "request"
                   [] msg = "Reset" -> "reset"
                   [] msg = "nil" -> "ready"
                   [] OTHER -> "over"
  /\ UNCHANGED <<ctx, pc, callVars, resetOk, loopVars, standing, err, exitVars, up>>

-----------------------------------------------------------------------------
Fuzz ==
  \/ Dial \/ Hello \/ Loop \/ Break
  \/ Request \/ Respond \/ RecvFuzzingProgress
  \/ CallerCheck \/ UserCheck \/ ChecksDone
  \/ ResetStarts \/ ResetEnds

Main == Return \/ Cleanup

Next ==
  \/ Fuzz \/ Main
  \/ ServerReads \/ ServerInstructs
  \/ \E cause \in Causes : CtxEnds(cause)

Spec == Init /\ [][Next]_vars

(* The program goes on: every call on the channel returns (module ChBiDi   *)
(* says when) and so do the user's scripts and requests.                   *)
FairSpec == Spec /\ WF_vars(Fuzz) /\ WF_vars(Main)

-----------------------------------------------------------------------------
InCampaign == {"loop", "break", "call", "respond", "progress", "callerCheck", "reset", "resetting"}
Handling == InCampaign \ {"loop", "break"}

(* What the client says, and what the server does. *)
ClientMsgs == {"Fuzz", "Request", "BadRequest", "Response", "CheckPassed", "CheckFailed",
               "UserCheck", "Done", "ResetStarted", "ResetEnded", "ResetFailed"}
Instructions == {"nil", "Call", "Reset", "Result", "ResultNext"}
Message == [fp : Progresses, msg : Instructions \cup {"FuzzRep"}, ce : BOOLEAN]

TypeOK ==
  /\ ctx \in {"live", "canceled", "deadline"}
  /\ pc \in InCampaign \cup {"dial", "hello", "return", "cleanup", "exited"}
  /\ after \in {"callerCheck", "loop"}
  /\ callerLeft \in 0..CallerChecks /\ userLeft \in 0..UserChecks
  /\ resetOk \in BOOLEAN
  /\ depth \in Nat /\ clients \in Nat
  /\ {progress, ce, bugShown, cleaned} \subseteq BOOLEAN
  /\ standing \in Standing /\ told \in Progresses
  /\ result \in {"none", "last", "next"}
  /\ err \in Outcome
  /\ code \in {0, 1, 6, 7}
  /\ up \in Seq(ClientMsgs)
  /\ down \in Seq(Message)
  /\ srv \in {"hello", "ready", "request", "response", "checks", "reset", "resetting",
              "over", "confused"}
  /\ instr \in Nat

(* The exchanges of call and reset leave neither end without its cue: the  *)
(* server never reads a message it does not expect, and the unreachable    *)
(* case of Fuzz (fuzz.go, line 126) is unreachable.                        *)
ExchangeIsFollowed == srv # "confused" /\ err # "unhandled"

(* recvFuzzingProgress drops the msg of what it receives (progress.go,     *)
(* lines 43-58): it is never an instruction, though the server may send    *)
(* one right behind a progress.                                            *)
InstructionIsNotSwallowed ==
  pc = "progress" /\ down # <<>> => Head(down).msg = "nil" /\ Head(down).fp # "none"

(* rt.progress is there for whatever handles a message, and is nil again   *)
(* for the first message of the next campaign (fuzz.go, lines 84-147).     *)
ProgresserMatchesCampaign ==
  /\ pc \in Handling => progress
  /\ pc \in {"dial", "hello", "return", "cleanup", "exited"} => ~progress

(* The exit code of a campaign that ended without error tells the last     *)
(* standing the server reported, in whichever message it did, and Fuzz     *)
(* does not return without a result; a counterexample that was printed is  *)
(* only forgotten by the exit code when another campaign followed it       *)
(* (fuzz.go, lines 132-199; main.go, lines 223-243).                       *)
ExitCodeTellsLastStanding ==
  pc = "exited" =>
    /\ err = "nil" => /\ result = "last" /\ standing = told
                      /\ code = 0 <=> told = "success"
    /\ bugShown /\ code = 0 => depth > 1

(* After a failed call on the channel the program sends nothing more and   *)
(* opens no other channel: module Channel's rule of use (call.go,          *)
(* fuzz.go, reset.go: every errT is returned).                             *)
SilentAfterError ==
  [][err # "nil" => Len(up') <= Len(up) /\ clients' <= clients]_vars

(* ^C or the end of the time budget ends the program, provided the calls   *)
(* on its channel return (fuzz.go, lines 76-135; main.go, lines 217-243).  *)
EndOfContextExits == (ctx # "live") ~> (pc = "exited")

=============================================================================
