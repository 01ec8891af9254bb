---------------------------- MODULE ShellResetter ----------------------------
(***************************************************************************)
(* pkg/resetter/shell/resetter.go: the resetter that brings the system     *)
(* under test up, back to a neutral state and down, by running the user's  *)
(* commands in a Bash script.  Two processes race: exec, which waits for   *)
(* the script or for the end of its context, and Bash, which runs the      *)
(* commands and may be killed at any point.  They share two files: the     *)
(* script, and the environment each script leaves for the next one.        *)
(*                                                                         *)
(* `monkey fuzz` resets many times, then terminates; `monkey exec start`,  *)
(* `reset` or `stop` is a process of its own that makes one call.          *)
(*                                                                         *)
(* Killing Bash is taken to be done by the time exec has left: os/exec     *)
(* sends the signal when the context ends.  The commands Bash started may  *)
(* outlive it and hold its output open.                                    *)
(***************************************************************************)
EXTENDS Naturals, Sequences

CONSTANT MaxResets  \* bound on the resets of a campaign

ASSUME MaxResetsAssumption == MaxResets \in Nat

VARIABLES
  command,        \* the subcommand: "fuzz", "start", "reset" or "stop"
  has,            \* the commands the user's model defines
  isNotFirstRun,
  parent,         \* the campaign's context: "live" or why it ended
  resets,         \* number of resets so far
  pc,             \* where the call is: "idle" between calls
  op,             \* what the call is for: "reset", "terminate" or "exec"
  cmds,           \* the commands of its script
  ctx,            \* the context of exec
  bash,           \* the script's process: what it does, or how it ended
  ran,            \* the script's commands that ended well
  held,           \* some process holds Bash's output open
  script,         \* the script's file exists
  env,            \* the environment's file: what wrote it, if anything did
  touched,        \* its time of modification changed since exec looked
  sut,            \* the system under test: "down", "up" or "unsure"
  failed,         \* a reset of this campaign failed
  ret             \* what the last call returned, "none" during a call

vars == <<command, has, isNotFirstRun, parent, resets, pc, op, cmds, ctx, bash, ran,
          held, script, env, touched, sut, failed, ret>>
confVars == <<command, has>>
callVars == <<isNotFirstRun, resets, op, cmds>>
bashVars == <<bash, ran, held>>

-----------------------------------------------------------------------------
AllThree == {"Start", "Rst", "Stop"}
Alive == {"runs", "declares"}

(* The system under test when Bash ends before its next command does. *)
Interrupted ==
  IF Len(ran) < Len(cmds) /\ cmds[Len(ran) + 1] # "Rst" THEN "unsure" ELSE sut

Causes == {"canceled", "deadline"}

Init ==
  /\ command \in {"fuzz", "start", "reset", "stop"}
  /\ has \in SUBSET AllThree
  /\ isNotFirstRun = FALSE /\ parent = "live" /\ resets = 0
  /\ pc = "idle" /\ op = "none" /\ cmds = <<>> /\ ctx = "live"
  /\ bash = "none" /\ ran = <<>> /\ held = FALSE
  /\ script = FALSE /\ env = "none" /\ touched = FALSE
  /\ sut = IF command = "reset" THEN "up" ELSE "down"
  /\ failed = FALSE /\ ret = "none"

ParentEnds(cause) ==
  /\ parent = "live" /\ command = "fuzz" /\ pc # "over"
  /\ parent' = cause
  /\ ctx' = IF ctx = "live" /\ op = "reset" THEN cause ELSE ctx
  /\ UNCHANGED <<confVars, callVars, pc, bashVars, script, env, touched, sut, failed, ret>>

-----------------------------------------------------------------------------
(* commands() of a reset, <<>> in the unhandled cases. *)
Commands(notFirst) ==
  IF has = {"Rst"} THEN <<"Rst">>
  ELSE IF has = AllThree THEN IF notFirst THEN <<"Rst">> ELSE <<"Start", "Rst">>
  ELSE IF has = {"Start", "Stop"} THEN IF notFirst THEN <<"Stop", "Start">> ELSE <<"Start">>
  ELSE <<>>

(* exec is called with a script's commands. *)
Execs(for, cs, c) ==
  /\ pc' = "stat" /\ op' = for /\ cmds' = cs /\ ctx' = c
  /\ bash' = "none" /\ ran' = <<>> /\ held' = FALSE
  /\ ret' = "none"
  /\ UNCHANGED <<confVars, parent, script, env, touched, sut, failed>>

Returns_LeavesScript(r) ==
  /\ ret' = r
  /\ pc' = IF op = "reset" THEN "idle" ELSE IF op = "terminate" THEN "clean" ELSE "over"
  /\ failed' = (failed \/ (op = "reset" /\ r # "nil"))
  /\ script' = (script /\ r # "nil")

(* exec returns; its deferred calls remove the script. *)
Returns(r) ==
  /\ ret' = r
  /\ pc' = IF op = "reset" THEN "idle" ELSE IF op = "terminate" THEN "clean" ELSE "over"
  /\ failed' = (failed \/ (op = "reset" /\ r # "nil"))
  /\ script' = FALSE

ExecReset_FlagFirst ==
  /\ command = "fuzz" /\ pc = "idle" /\ parent = "live" /\ resets < MaxResets
  /\ resets' = resets + 1
  /\ Commands(TRUE) # <<>>
  /\ isNotFirstRun' = TRUE
  /\ Execs("reset", Commands(TRUE), parent)

(* A campaign's reset. *)
ExecReset ==
  /\ command = "fuzz" /\ pc = "idle" /\ parent = "live" /\ resets < MaxResets
  /\ resets' = resets + 1
  /\ Commands(isNotFirstRun) # <<>>
  /\ isNotFirstRun' = TRUE
  /\ Execs("reset", Commands(isNotFirstRun), parent)

ExecResetUnhandled ==
  /\ command = "fuzz" /\ pc = "idle" /\ parent = "live" /\ resets < MaxResets
  /\ resets' = resets + 1
  /\ Commands(isNotFirstRun) = <<>>
  /\ ret' = "failed" /\ failed' = TRUE
  /\ UNCHANGED <<confVars, isNotFirstRun, parent, pc, op, cmds, ctx, bashVars, script,
                 env, touched, sut>>

(* The script of `monkey exec`; its reset runs as if in between tests. *)
OnlyScript ==
  IF command = "reset" THEN Commands(TRUE)
  ELSE IF command = "start" /\ "Start" \in has THEN <<"Start">>
  ELSE IF command = "stop" /\ "Stop" \in has THEN <<"Stop">>
  ELSE <<>>

(* monkey exec: without a usable script the call ends on the spot. *)
JustExec ==
  /\ command # "fuzz" /\ pc = "idle"
  /\ isNotFirstRun' = (command = "reset")
  /\ \/ OnlyScript # <<>> /\ Execs("exec", OnlyScript, "live")
     \/ /\ OnlyScript = <<>> /\ pc' = "over" /\ ret' = "failed"
        /\ UNCHANGED <<confVars, parent, op, cmds, ctx, bashVars, script, env,
                       touched, sut, failed>>
  /\ UNCHANGED resets

(* The end of the campaign: Stop if there is one, with a context of its own. *)
Terminate ==
  /\ command = "fuzz" /\ pc = "idle"
  /\ \/ "Stop" \in has /\ Execs("terminate", <<"Stop">>, "live")
     \/ /\ "Stop" \notin has /\ pc' = "clean" /\ op' = "terminate" /\ ret' = "nil"
        /\ UNCHANGED <<confVars, parent, cmds, ctx, bashVars, script, env, touched,
                       sut, failed>>
  /\ UNCHANGED <<isNotFirstRun, resets>>

(* Whatever became of Stop, the environment is removed, if it can be. *)
RemoveEnv ==
  /\ pc = "clean"
  /\ \/ env' = "none" /\ UNCHANGED ret
     \/ env # "none" /\ ret' = "failed" /\ UNCHANGED env
  /\ pc' = "over"
  /\ UNCHANGED <<confVars, callVars, parent, ctx, bashVars, script, touched, sut, failed>>

-----------------------------------------------------------------------------
(* exec. *)

FindsEnv ==
  /\ pc = "stat" /\ env # "none"
  /\ pc' = "start"
  /\ UNCHANGED <<confVars, callVars, parent, ctx, bashVars, script, env, touched, sut,
                 failed, ret>>

SnapEnv_Ignored ==
  /\ pc = "stat" /\ env = "none"
  /\ env' \in {"partial", "snap"} /\ pc' = "start"
  /\ UNCHANGED <<confVars, callVars, parent, ctx, bashVars, script, touched, sut, failed, ret>>

(* snapEnv: Bash writes the environment it was started with; it is given   *)
(* 200ms, and what it wrote of the file by then stays.                     *)
SnapEnv ==
  /\ pc = "stat" /\ env = "none"
  /\ \/ env' = "snap" /\ pc' = "start" /\ UNCHANGED <<script, failed, ret>>
     \/ env' \in {"none", "partial"} /\ Returns("failed")
  /\ UNCHANGED <<confVars, callVars, parent, ctx, bashVars, touched, sut>>

(* The script's file must be new; then Bash starts, unless it cannot. *)
StartsScript ==
  /\ pc = "start"
  /\ touched' = FALSE
  /\ \/ /\ ~script /\ ctx = "live"
        /\ script' = TRUE /\ bash' = "runs" /\ pc' = "wait"
        /\ UNCHANGED <<failed, ret>>
     \/ Returns("failed") /\ UNCHANGED bash
  /\ UNCHANGED <<confVars, callVars, parent, ctx, ran, held, env, sut>>

(* The two minutes of timeoutLong. *)
Timeout ==
  /\ pc = "wait" /\ ctx = "live"
  /\ ctx' = "deadline"
  /\ UNCHANGED <<confVars, callVars, parent, pc, bashVars, script, env, touched, sut,
                 failed, ret>>

(* exe.Wait() returns when Bash has ended and its output is closed. *)
GetsAnswer ==
  /\ pc = "wait" /\ bash \notin Alive /\ ~held
  /\ \/ bash = "ok" /\ pc' = "check" /\ UNCHANGED <<script, failed, ret>>
     \/ bash # "ok" /\ Returns("failed")
  /\ UNCHANGED <<confVars, callVars, parent, ctx, bashVars, env, touched, sut>>

GivesUp_Never == FALSE
GivesUp_Raw ==
  /\ pc = "wait" /\ ctx # "live"
  /\ Returns(ctx)
  /\ bash' = IF bash \in Alive THEN "killed" ELSE bash
  /\ sut' = IF bash \in Alive THEN Interrupted ELSE sut
  /\ UNCHANGED <<confVars, callVars, parent, ctx, ran, held, env, touched>>
(* The race the workaround is for: exec does not wait for exe.Wait(). *)
GivesUp ==
  /\ pc = "wait" /\ ctx # "live"
  /\ Returns(IF ctx = "canceled" THEN "canceled" ELSE "failed")
  /\ bash' = IF bash \in Alive THEN "killed" ELSE bash
  /\ sut' = IF bash \in Alive THEN Interrupted ELSE sut
  /\ UNCHANGED <<confVars, callVars, parent, ctx, ran, held, env, touched>>

ChecksEnv_Skipped ==
  /\ pc = "check"
  /\ Returns("nil")
  /\ UNCHANGED <<confVars, callVars, parent, ctx, bashVars, env, touched, sut>>

(* A script that ended well but left the environment alone did not reach   *)
(* its last line.                                                          *)
ChecksEnv ==
  /\ pc = "check"
  /\ \/ touched /\ Returns("nil")
     \/ Returns("failed")  \* ~touched, or the file cannot be examined
  /\ UNCHANGED <<confVars, callVars, parent, ctx, bashVars, env, touched, sut>>

-----------------------------------------------------------------------------
(* Bash. *)

Ends(how) == bash' = how /\ held' \in BOOLEAN

(* The next command ends well. *)
CommandWorks ==
  /\ bash = "runs" /\ Len(ran) < Len(cmds)
  /\ LET c == cmds[Len(ran) + 1] IN
     /\ ran' = Append(ran, c)
     /\ sut' = IF c = "Start" THEN "up" ELSE IF c = "Stop" THEN "down" ELSE sut
  /\ UNCHANGED <<confVars, callVars, parent, pc, ctx, bash, held, script, env, touched,
                 failed, ret>>

(* It fails (errexit), or it is an `exec` or `exit` that ends the script,  *)
(* possibly with success.                                                  *)
CommandEnds ==
  /\ bash = "runs" /\ Len(ran) < Len(cmds)
  /\ \E how \in {"ok", "error"} : Ends(how)
  /\ sut' = Interrupted
  /\ UNCHANGED <<confVars, callVars, parent, pc, ctx, ran, script, env, touched, failed, ret>>

(* declare -p >: the file is truncated, then written.  The clock of the    *)
(* file system is coarse.                                                  *)
Truncates ==
  /\ bash = "runs" /\ Len(ran) = Len(cmds)
  /\ bash' = "declares"
  /\ env' = "partial" /\ touched' \in BOOLEAN
  /\ UNCHANGED <<confVars, callVars, parent, pc, ctx, ran, held, script, sut, failed, ret>>

Writes ==
  /\ bash = "declares"
  /\ touched' \in {touched, TRUE}
  /\ \/ env' = "script" /\ Ends("ok")
     \/ Ends("error") /\ UNCHANGED env
  /\ UNCHANGED <<confVars, callVars, parent, pc, ctx, ran, script, sut, failed, ret>>

Killed ==
  /\ bash \in Alive /\ ctx # "live"
  /\ Ends("killed")
  /\ sut' = Interrupted
  /\ UNCHANGED <<confVars, callVars, parent, pc, ctx, ran, script, env, touched, failed, ret>>

(* The last process that held Bash's output ends. *)
OutputCloses ==
  /\ held
  /\ held' = FALSE
  /\ UNCHANGED <<confVars, callVars, parent, pc, ctx, bash, ran, script, env, touched,
                 sut, failed, ret>>

-----------------------------------------------------------------------------
Calls == ExecReset \/ ExecResetUnhandled \/ JustExec \/ Terminate

Exec ==
  \/ FindsEnv \/ SnapEnv \/ StartsScript
  \/ GetsAnswer \/ GivesUp \/ ChecksEnv \/ RemoveEnv

Bash == CommandWorks \/ CommandEnds \/ Truncates \/ Writes \/ Killed \/ OutputCloses

Next == Calls \/ Exec \/ Timeout \/ Bash \/ \E cause \in Causes : ParentEnds(cause)

Spec == Init /\ [][Next]_vars

(* exec goes on and its timer fires.  The script owes nothing. *)
FairSpec == Spec /\ WF_vars(Exec) /\ WF_vars(Timeout)

-----------------------------------------------------------------------------
CallTypeOK ==
  /\ command \in {"fuzz", "start", "reset", "stop"}
  /\ has \subseteq AllThree
  /\ isNotFirstRun \in BOOLEAN
  /\ parent \in {"live"} \cup Causes /\ ctx \in {"live"} \cup Causes
  /\ resets \in Nat
  /\ pc \in {"idle", "stat", "start", "wait", "check", "clean", "over"}
  /\ op \in {"none", "reset", "terminate", "exec"}
  /\ cmds \in Seq(AllThree)

OutcomeTypeOK ==
  /\ bash \in Alive \cup {"none", "ok", "error", "killed"}
  /\ ran \in Seq(AllThree)
  /\ env \in {"none", "snap", "partial", "script"}
  /\ held \in BOOLEAN /\ script \in BOOLEAN /\ touched \in BOOLEAN /\ failed \in BOOLEAN
  /\ sut \in {"down", "up", "unsure"}
  /\ ret \in {"none", "nil", "failed", "canceled"}

TypeOK == CallTypeOK /\ OutcomeTypeOK

InExec == {"stat", "start", "wait", "check"}

(* "Whole script ran without error" (lines 238-250): when exec returns nil *)
(* every command ended well and the environment is the one this script     *)
(* left, though a command may have ended the script with success and Bash  *)
(* may have been killed at any point.                                      *)
OkMeansWholeScriptRan ==
  ret = "nil" /\ pc \in {"idle", "over"} /\ op \in {"reset", "exec"} =>
    ran = cmds /\ env = "script"

(* Whatever way exec returns, the script's file is gone: the next one, of  *)
(* the same name, has to be new (lines 168-194).                           *)
ScriptFileIsGone == pc \notin {"wait", "check"} => ~script

(* A reset that worked leaves the system started by a Start that ended     *)
(* well, whether it runs it again or left that to an earlier reset (lines  *)
(* 59-75, 100-139), as long as no earlier reset failed.                    *)
ResetLeavesItStarted ==
  pc = "idle" /\ ret = "nil" /\ "Start" \in has /\ (failed => "Rst" \notin has) =>
    sut = "up"

(* No script is given half an environment unless a reset failed before:    *)
(* an error of snapEnv or of the script's last line is never taken for a   *)
(* success (lines 150-162, 226-247).                                       *)
EnvIsWholeUnlessFailed ==
  pc = "start" /\ ~failed => env \in {"snap", "script"}

(* exec returns, even when the user's commands hang or outlive Bash (lines *)
(* 202-231).                                                               *)
ExecReturns == (pc \in InExec) ~> (pc \notin InExec)
=============================================================================
