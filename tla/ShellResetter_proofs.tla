------------------------ MODULE ShellResetter_proofs -------------------------
(***************************************************************************)
(* What exec's nil means, for every model the user may write and any       *)
(* number of resets: the whole script ran and left its environment.        *)
(*                                                                         *)
(* The argument: exec looks at the modification time of the environment    *)
(* only after Bash ended, and only the last line of this script touches    *)
(* it; so a touched environment tells that every command before that line  *)
(* ended well.                                                             *)
(***************************************************************************)
EXTENDS ShellResetter, TLAPS

(* Bash has run a beginning of the script, and nothing runs once exec left. *)
RunsInOrder ==
  /\ Len(ran) <= Len(cmds)
  /\ \A i \in 1..Len(ran) : ran[i] = cmds[i]
  /\ bash \in Alive => pc = "wait"

(* What a touched environment tells of the script. *)
TouchTells ==
  /\ bash = "runs" => ~touched
  /\ bash = "declares" => ran = cmds
  /\ bash = "ok" /\ touched /\ pc \in {"wait", "check"} => ran = cmds /\ env = "script"
  /\ pc = "check" => bash = "ok"

(* Only Terminate removes the environment. *)
CleanTerminates == pc = "clean" => op = "terminate"

IInv ==
  /\ TypeOK
  /\ CleanTerminates
  /\ RunsInOrder
  /\ TouchTells
  /\ OkMeansWholeScriptRan
  /\ ScriptFileIsGone

USE DEF AllThree, Alive, Causes

(* The scripts are made of the user's commands. *)
LEMMA Scripts ==
  /\ <<>> \in Seq(AllThree) /\ <<"Rst">> \in Seq(AllThree)
  /\ <<"Start">> \in Seq(AllThree) /\ <<"Stop">> \in Seq(AllThree)
  /\ <<"Start", "Rst">> \in Seq(AllThree) /\ <<"Stop", "Start">> \in Seq(AllThree)
<1>1. <<>> \in Seq(AllThree) OBVIOUS
<1>2. <<"Rst">> \in Seq(AllThree) OBVIOUS
<1>3. <<"Start">> \in Seq(AllThree) OBVIOUS
<1>4. <<"Stop">> \in Seq(AllThree) OBVIOUS
<1>5. <<"Start", "Rst">> \in Seq(AllThree) OBVIOUS
<1>6. <<"Stop", "Start">> \in Seq(AllThree) OBVIOUS
<1>7. QED BY <1>1, <1>2, <1>3, <1>4, <1>5, <1>6, Zenon

LEMMA CommandsType ==
  ASSUME NEW b
  PROVE  Commands(b) \in Seq(AllThree)
  BY Scripts, Zenon DEF Commands

LEMMA OnlyScriptType == OnlyScript \in Seq(AllThree)
  BY Scripts, CommandsType, Zenon DEF OnlyScript

(* A program that starts has run no script.                                *)
THEOREM Initial == Init => IInv
<1> SUFFICES ASSUME Init PROVE IInv OBVIOUS
<1> USE DEF Init
<1>1. CallTypeOK
  <2>1. cmds \in Seq(AllThree) OBVIOUS
  <2>2. /\ command \in {"fuzz", "start", "reset", "stop"} /\ has \subseteq AllThree
        /\ isNotFirstRun \in BOOLEAN /\ resets \in Nat
        /\ parent \in {"live"} \cup Causes /\ ctx \in {"live"} \cup Causes
        /\ pc \in {"idle", "stat", "start", "wait", "check", "clean", "over"}
        /\ op \in {"none", "reset", "terminate", "exec"}
    OBVIOUS
  <2> QED BY ONLY <2>1, <2>2 DEF CallTypeOK
<1>2. OutcomeTypeOK
  <2>1. (ran \in Seq(AllThree)) OBVIOUS
  <2>2. (bash \in Alive \cup {"none", "ok", "error", "killed"}) OBVIOUS
  <2>3. (/\ env \in {"none", "snap", "partial", "script"}
        /\ held \in BOOLEAN /\ script \in BOOLEAN /\ touched \in BOOLEAN /\ failed \in BOOLEAN
        /\ sut \in {"down", "up", "unsure"}
        /\ ret \in {"none", "nil", "failed", "canceled"}) OBVIOUS
  <2> QED BY ONLY <2>1, <2>2, <2>3 DEF OutcomeTypeOK
<1>3. CleanTerminates /\ RunsInOrder BY DEF CleanTerminates, RunsInOrder
<1>4. TouchTells BY DEF TouchTells
<1>5. OkMeansWholeScriptRan BY DEF OkMeansWholeScriptRan
<1>6. ScriptFileIsGone BY DEF ScriptFileIsGone
<1> QED BY <1>1, <1>2, <1>3, <1>4, <1>5, <1>6 DEF IInv, TypeOK

(* Bash ran the whole script once it ran as many commands. *)
LEMMA RanAll ==
  ASSUME cmds \in Seq(AllThree), ran \in Seq(AllThree), RunsInOrder, Len(ran) = Len(cmds)
  PROVE  ran = cmds
  BY DEF RunsInOrder

LEMMA CallsInd == IInv /\ Calls => IInv'
<1> SUFFICES ASSUME IInv, Calls PROVE IInv' OBVIOUS
<1> USE DEF IInv, TypeOK, CallTypeOK, OutcomeTypeOK, confVars, callVars, bashVars
<1>1. CASE ExecReset
  <2> USE <1>1 DEF ExecReset, Execs
  <2>1. CallTypeOK' BY CommandsType
  <2>2. OutcomeTypeOK'
    <3>1. (ran \in Seq(AllThree))' OBVIOUS
    <3>2. (bash \in Alive \cup {"none", "ok", "error", "killed"})' OBVIOUS
    <3>3. (/\ env \in {"none", "snap", "partial", "script"}
          /\ held \in BOOLEAN /\ script \in BOOLEAN /\ touched \in BOOLEAN /\ failed \in BOOLEAN
          /\ sut \in {"down", "up", "unsure"}
          /\ ret \in {"none", "nil", "failed", "canceled"})' OBVIOUS
    <3> QED BY ONLY <3>1, <3>2, <3>3 DEF OutcomeTypeOK
  <2>3. CleanTerminates' BY DEF CleanTerminates
  <2>4. RunsInOrder' BY DEF RunsInOrder
  <2>5. TouchTells' BY DEF TouchTells
  <2>6. OkMeansWholeScriptRan' BY DEF OkMeansWholeScriptRan
  <2>7. ScriptFileIsGone' BY DEF ScriptFileIsGone
  <2> QED BY <2>1, <2>2, <2>3, <2>4, <2>5, <2>6, <2>7
<1>2. CASE ExecResetUnhandled
  <2> USE <1>2 DEF ExecResetUnhandled
  <2>1. CallTypeOK' OBVIOUS
  <2>2. OutcomeTypeOK' OBVIOUS
  <2>3. CleanTerminates' BY DEF CleanTerminates
  <2>4. RunsInOrder' BY DEF RunsInOrder
  <2>5. TouchTells' BY DEF TouchTells
  <2>6. OkMeansWholeScriptRan' BY DEF OkMeansWholeScriptRan
  <2>7. ScriptFileIsGone' BY DEF ScriptFileIsGone
  <2> QED BY <2>1, <2>2, <2>3, <2>4, <2>5, <2>6, <2>7
<1>3. CASE JustExec
  <2> USE <1>3 DEF JustExec, Execs
  <2>1. CallTypeOK' BY OnlyScriptType
  <2>2. OutcomeTypeOK'
    <3>1. (ran \in Seq(AllThree))'
      <4>1. ran' \in {<<>>, ran} OBVIOUS
      <4> QED BY <4>1, Scripts
    <3>2. (bash \in Alive \cup {"none", "ok", "error", "killed"})' OBVIOUS
    <3>3. (/\ env \in {"none", "snap", "partial", "script"}
          /\ held \in BOOLEAN /\ script \in BOOLEAN /\ touched \in BOOLEAN /\ failed \in BOOLEAN
          /\ sut \in {"down", "up", "unsure"}
          /\ ret \in {"none", "nil", "failed", "canceled"})' OBVIOUS
    <3> QED BY ONLY <3>1, <3>2, <3>3 DEF OutcomeTypeOK
  <2>3. CleanTerminates' BY DEF CleanTerminates
  <2>4. RunsInOrder' BY DEF RunsInOrder
  <2>5. TouchTells' BY DEF TouchTells
  <2>6. OkMeansWholeScriptRan' BY DEF OkMeansWholeScriptRan
  <2>7. ScriptFileIsGone' BY DEF ScriptFileIsGone
  <2> QED BY <2>1, <2>2, <2>3, <2>4, <2>5, <2>6, <2>7
<1>4. CASE Terminate
  <2> USE <1>4 DEF Terminate, Execs
  <2>1. CallTypeOK' BY Scripts
  <2>2. OutcomeTypeOK'
    <3>1. (ran \in Seq(AllThree))'
      <4>1. ran' \in {<<>>, ran} OBVIOUS
      <4> QED BY <4>1, Scripts
    <3>2. (bash \in Alive \cup {"none", "ok", "error", "killed"})' OBVIOUS
    <3>3. (/\ env \in {"none", "snap", "partial", "script"}
          /\ held \in BOOLEAN /\ script \in BOOLEAN /\ touched \in BOOLEAN /\ failed \in BOOLEAN
          /\ sut \in {"down", "up", "unsure"}
          /\ ret \in {"none", "nil", "failed", "canceled"})' OBVIOUS
    <3> QED BY ONLY <3>1, <3>2, <3>3 DEF OutcomeTypeOK
  <2>3. CleanTerminates' BY DEF CleanTerminates
  <2>4. RunsInOrder' BY DEF RunsInOrder
  <2>5. TouchTells' BY DEF TouchTells
  <2>6. OkMeansWholeScriptRan' BY DEF OkMeansWholeScriptRan
  <2>7. ScriptFileIsGone' BY DEF ScriptFileIsGone
  <2> QED BY <2>1, <2>2, <2>3, <2>4, <2>5, <2>6, <2>7
<1> QED BY <1>1, <1>2, <1>3, <1>4 DEF Calls

LEMMA ExecInd == IInv /\ Exec => IInv'
<1> SUFFICES ASSUME IInv, Exec PROVE IInv' OBVIOUS
<1> USE DEF IInv, TypeOK, CallTypeOK, OutcomeTypeOK, confVars, callVars, bashVars
<1>1. CASE FindsEnv
  <2> USE <1>1 DEF FindsEnv
  <2>1. CallTypeOK' OBVIOUS
  <2>2. OutcomeTypeOK' OBVIOUS
  <2>3. CleanTerminates' BY DEF CleanTerminates
  <2>4. RunsInOrder' BY DEF RunsInOrder
  <2>5. TouchTells' BY DEF TouchTells
  <2>6. OkMeansWholeScriptRan' BY DEF OkMeansWholeScriptRan
  <2>7. ScriptFileIsGone' BY DEF ScriptFileIsGone
  <2> QED BY <2>1, <2>2, <2>3, <2>4, <2>5, <2>6, <2>7
<1>2. CASE SnapEnv
  <2> USE <1>2 DEF SnapEnv, Returns
  <2>1. CallTypeOK' OBVIOUS
  <2>2. OutcomeTypeOK' OBVIOUS
  <2>3. CleanTerminates' BY DEF CleanTerminates
  <2>4. RunsInOrder' BY DEF RunsInOrder
  <2>5. TouchTells' BY DEF TouchTells
  <2>6. OkMeansWholeScriptRan' BY DEF OkMeansWholeScriptRan
  <2>7. ScriptFileIsGone' BY DEF ScriptFileIsGone
  <2> QED BY <2>1, <2>2, <2>3, <2>4, <2>5, <2>6, <2>7
<1>3. CASE StartsScript
  <2> USE <1>3 DEF StartsScript, Returns
  <2>1. CallTypeOK' OBVIOUS
  <2>2. OutcomeTypeOK' OBVIOUS
  <2>3. CleanTerminates' BY DEF CleanTerminates
  <2>4. RunsInOrder' BY DEF RunsInOrder
  <2>5. TouchTells' BY DEF TouchTells
  <2>6. OkMeansWholeScriptRan' BY DEF OkMeansWholeScriptRan
  <2>7. ScriptFileIsGone' BY DEF ScriptFileIsGone
  <2> QED BY <2>1, <2>2, <2>3, <2>4, <2>5, <2>6, <2>7
<1>4. CASE GetsAnswer
  <2> USE <1>4 DEF GetsAnswer, Returns
  <2>1. CallTypeOK' OBVIOUS
  <2>2. OutcomeTypeOK' OBVIOUS
  <2>3. CleanTerminates' BY DEF CleanTerminates
  <2>4. RunsInOrder' BY DEF RunsInOrder
  <2>5. TouchTells' BY DEF TouchTells
  <2>6. OkMeansWholeScriptRan' BY DEF OkMeansWholeScriptRan, TouchTells
  <2>7. ScriptFileIsGone' BY DEF ScriptFileIsGone
  <2> QED BY <2>1, <2>2, <2>3, <2>4, <2>5, <2>6, <2>7
<1>5. CASE GivesUp
  <2> USE <1>5 DEF GivesUp, Returns, Interrupted
  <2>1. CallTypeOK' OBVIOUS
  <2>2. OutcomeTypeOK' OBVIOUS
  <2>3. CleanTerminates' BY DEF CleanTerminates
  <2>4. RunsInOrder' BY DEF RunsInOrder
  <2>5. TouchTells' BY DEF TouchTells
  <2>6. OkMeansWholeScriptRan' BY DEF OkMeansWholeScriptRan, TouchTells
  <2>7. ScriptFileIsGone' BY DEF ScriptFileIsGone
  <2> QED BY <2>1, <2>2, <2>3, <2>4, <2>5, <2>6, <2>7
<1>6. CASE ChecksEnv
  <2> USE <1>6 DEF ChecksEnv, Returns
  <2>1. CallTypeOK' OBVIOUS
  <2>2. OutcomeTypeOK' OBVIOUS
  <2>3. CleanTerminates' BY DEF CleanTerminates
  <2>4. RunsInOrder' BY DEF RunsInOrder
  <2>5. TouchTells' BY DEF TouchTells
  <2>6. OkMeansWholeScriptRan' BY DEF OkMeansWholeScriptRan, TouchTells
  <2>7. ScriptFileIsGone' BY DEF ScriptFileIsGone
  <2> QED BY <2>1, <2>2, <2>3, <2>4, <2>5, <2>6, <2>7
<1>7. CASE RemoveEnv
  <2> USE <1>7 DEF RemoveEnv
  <2>1. CallTypeOK' OBVIOUS
  <2>2. OutcomeTypeOK' OBVIOUS
  <2>3. CleanTerminates' BY DEF CleanTerminates
  <2>4. RunsInOrder' BY DEF RunsInOrder
  <2>5. TouchTells' BY DEF TouchTells
  <2>6. OkMeansWholeScriptRan' BY DEF OkMeansWholeScriptRan, CleanTerminates
  <2>7. ScriptFileIsGone' BY DEF ScriptFileIsGone
  <2> QED BY <2>1, <2>2, <2>3, <2>4, <2>5, <2>6, <2>7
<1> QED BY <1>1, <1>2, <1>3, <1>4, <1>5, <1>6, <1>7 DEF Exec

LEMMA BashInd == IInv /\ Bash => IInv'
<1> SUFFICES ASSUME IInv, Bash PROVE IInv' OBVIOUS
<1> USE DEF IInv, TypeOK, CallTypeOK, OutcomeTypeOK, confVars, callVars, bashVars
<1>1. CASE CommandWorks
  <2> USE <1>1 DEF CommandWorks
  <2>1. CallTypeOK' OBVIOUS
  <2>2. OutcomeTypeOK' OBVIOUS
  <2>3. CleanTerminates' BY DEF CleanTerminates
  <2>4. RunsInOrder' BY DEF RunsInOrder
  <2>5. TouchTells' BY DEF TouchTells
  <2>6. OkMeansWholeScriptRan' BY DEF OkMeansWholeScriptRan, RunsInOrder
  <2>7. ScriptFileIsGone' BY DEF ScriptFileIsGone
  <2> QED BY <2>1, <2>2, <2>3, <2>4, <2>5, <2>6, <2>7
<1>2. CASE CommandEnds
  <2> USE <1>2 DEF CommandEnds, Ends, Interrupted
  <2>1. CallTypeOK' OBVIOUS
  <2>2. OutcomeTypeOK' OBVIOUS
  <2>3. CleanTerminates' BY DEF CleanTerminates
  <2>4. RunsInOrder' BY DEF RunsInOrder
  <2>5. TouchTells' BY DEF TouchTells
  <2>6. OkMeansWholeScriptRan' BY DEF OkMeansWholeScriptRan
  <2>7. ScriptFileIsGone' BY DEF ScriptFileIsGone
  <2> QED BY <2>1, <2>2, <2>3, <2>4, <2>5, <2>6, <2>7
<1>3. CASE Truncates
  <2> USE <1>3 DEF Truncates
  <2>1. CallTypeOK' OBVIOUS
  <2>2. OutcomeTypeOK' OBVIOUS
  <2>3. CleanTerminates' BY DEF CleanTerminates
  <2>4. RunsInOrder' BY DEF RunsInOrder
  <2>5. TouchTells' BY RanAll DEF TouchTells
  <2>6. OkMeansWholeScriptRan' BY DEF OkMeansWholeScriptRan, RunsInOrder
  <2>7. ScriptFileIsGone' BY DEF ScriptFileIsGone
  <2> QED BY <2>1, <2>2, <2>3, <2>4, <2>5, <2>6, <2>7
<1>4. CASE Writes
  <2> USE <1>4 DEF Writes, Ends
  <2>1. CallTypeOK' OBVIOUS
  <2>2. OutcomeTypeOK' OBVIOUS
  <2>3. CleanTerminates' BY DEF CleanTerminates
  <2>4. RunsInOrder' BY DEF RunsInOrder
  <2>5. TouchTells' BY DEF TouchTells
  <2>6. OkMeansWholeScriptRan' BY DEF OkMeansWholeScriptRan, RunsInOrder
  <2>7. ScriptFileIsGone' BY DEF ScriptFileIsGone
  <2> QED BY <2>1, <2>2, <2>3, <2>4, <2>5, <2>6, <2>7
<1>5. CASE Killed
  <2> USE <1>5 DEF Killed, Ends, Interrupted
  <2>1. CallTypeOK' OBVIOUS
  <2>2. OutcomeTypeOK' OBVIOUS
  <2>3. CleanTerminates' BY DEF CleanTerminates
  <2>4. RunsInOrder' BY DEF RunsInOrder
  <2>5. TouchTells' BY DEF TouchTells
  <2>6. OkMeansWholeScriptRan' BY DEF OkMeansWholeScriptRan
  <2>7. ScriptFileIsGone' BY DEF ScriptFileIsGone
  <2> QED BY <2>1, <2>2, <2>3, <2>4, <2>5, <2>6, <2>7
<1>6. CASE OutputCloses
  <2> USE <1>6 DEF OutputCloses
  <2>1. CallTypeOK' OBVIOUS
  <2>2. OutcomeTypeOK' OBVIOUS
  <2>3. CleanTerminates' BY DEF CleanTerminates
  <2>4. RunsInOrder' BY DEF RunsInOrder
  <2>5. TouchTells' BY DEF TouchTells
  <2>6. OkMeansWholeScriptRan' BY DEF OkMeansWholeScriptRan
  <2>7. ScriptFileIsGone' BY DEF ScriptFileIsGone
  <2> QED BY <2>1, <2>2, <2>3, <2>4, <2>5, <2>6, <2>7
<1> QED BY <1>1, <1>2, <1>3, <1>4, <1>5, <1>6 DEF Bash

LEMMA TimeoutInd == IInv /\ Timeout => IInv'
<1> SUFFICES ASSUME IInv, Timeout PROVE IInv' OBVIOUS
<1> USE DEF Timeout, IInv, TypeOK, CallTypeOK, OutcomeTypeOK, confVars, callVars, bashVars
<1>1. CallTypeOK' OBVIOUS
<1>2. OutcomeTypeOK' OBVIOUS
<1>3. CleanTerminates' BY DEF CleanTerminates
<1>4. RunsInOrder' BY DEF RunsInOrder
<1>5. TouchTells' BY DEF TouchTells
<1>6. OkMeansWholeScriptRan' BY DEF OkMeansWholeScriptRan
<1>7. ScriptFileIsGone' BY DEF ScriptFileIsGone
<1> QED BY <1>1, <1>2, <1>3, <1>4, <1>5, <1>6, <1>7

LEMMA ParentInd ==
  ASSUME IInv, NEW cause \in Causes, ParentEnds(cause)
  PROVE  IInv'
<1> USE DEF ParentEnds, IInv, TypeOK, CallTypeOK, OutcomeTypeOK, confVars, callVars, bashVars
<1>1. CallTypeOK' OBVIOUS
<1>2. OutcomeTypeOK' OBVIOUS
<1>3. CleanTerminates' BY DEF CleanTerminates
<1>4. RunsInOrder' BY DEF RunsInOrder
<1>5. TouchTells' BY DEF TouchTells
<1>6. OkMeansWholeScriptRan' BY DEF OkMeansWholeScriptRan
<1>7. ScriptFileIsGone' BY DEF ScriptFileIsGone
<1> QED BY <1>1, <1>2, <1>3, <1>4, <1>5, <1>6, <1>7

LEMMA StutterInd == IInv /\ UNCHANGED vars => IInv'
<1> SUFFICES ASSUME IInv, UNCHANGED vars PROVE IInv' OBVIOUS
<1> USE DEF vars, IInv, TypeOK, CallTypeOK, OutcomeTypeOK, confVars, callVars, bashVars
<1>1. CallTypeOK' OBVIOUS
<1>2. OutcomeTypeOK' OBVIOUS
<1>3. CleanTerminates' BY DEF CleanTerminates
<1>4. RunsInOrder' BY DEF RunsInOrder
<1>5. TouchTells' BY DEF TouchTells
<1>6. OkMeansWholeScriptRan' BY DEF OkMeansWholeScriptRan
<1>7. ScriptFileIsGone' BY DEF ScriptFileIsGone
<1> QED BY <1>1, <1>2, <1>3, <1>4, <1>5, <1>6, <1>7

(* Bash, exec and the resetter step within the invariant.                  *)
THEOREM Inductive == IInv /\ [Next]_vars => IInv'
BY CallsInd, ExecInd, TimeoutInd, BashInd, ParentInd, StutterInd DEF Next

(* It holds however many resets there are, and whenever one is interrupted. *)
THEOREM Invariance == Spec => []IInv
BY Initial, Inductive, PTL DEF Spec

(* Every variable keeps to its type, however the script ends. *)
THEOREM TypeCorrect == Spec => []TypeOK
<1>1. IInv => TypeOK BY DEF IInv
<1>2. QED BY <1>1, Invariance, PTL

(* exec's nil: every command of the script ended well and the environment  *)
(* is the one it left ("Whole script ran without error", line 249).        *)
THEOREM OkCorrect == Spec => []OkMeansWholeScriptRan
<1>1. IInv => OkMeansWholeScriptRan BY DEF IInv
<1>2. QED BY <1>1, Invariance, PTL

(* No call leaves its script behind: the next one can create its own.      *)
THEOREM ScriptCorrect == Spec => []ScriptFileIsGone
<1>1. IInv => ScriptFileIsGone BY DEF IInv
<1>2. QED BY <1>1, Invariance, PTL

-----------------------------------------------------------------------------
(* From one reset to the next: what a reset that worked leaves, and what   *)
(* the one behind it may rely upon.                                        *)

Starts(cs) == \E i \in 1..Len(cs) : cs[i] = "Start"
RstOnly == \A i \in 1..Len(cmds) : cmds[i] = "Rst"

(* No script stops what it started. *)
StopsFirst == pc \in InExec => \A i \in 1..Len(cmds) : cmds[i] = "Stop" => i = 1

(* A reset's script starts the system, unless an earlier one did. *)
StartsOrStarted ==
  pc \in InExec /\ op = "reset" /\ "Start" \in has =>
    Starts(cmds) \/ (has = AllThree /\ RstOnly)

(* What started and was not interrupted is up. *)
UpOnceStarted ==
  \/ pc \in {"stat", "start"}
  \/ bash \in Alive
  \/ bash = "ok" /\ touched /\ pc \in {"wait", "check"}
  => (Starts(ran) => sut = "up")

(* Rst leaves the system up; only a failed reset may not. *)
StaysUp ==
  has = AllThree /\ ~failed =>
    /\ pc = "idle" /\ isNotFirstRun => sut = "up"
    /\ pc \in InExec /\ op = "reset" /\ RstOnly => sut = "up"

(* The environment is whole at the beginning of a call. *)
EnvInv ==
  ~failed => /\ pc \in {"idle", "stat"} => env # "partial"
             /\ pc = "start" => env \in {"snap", "script"}

LeavesInv ==
  /\ StopsFirst
  /\ StartsOrStarted
  /\ UpOnceStarted
  /\ StaysUp
  /\ EnvInv
  /\ ResetLeavesItStarted

(* The scripts: where they start the system and where they stop it.        *)
LEMMA ScriptShapes ==
  ASSUME NEW b \in BOOLEAN, NEW cs, cs = Commands(b), cs # <<>>
  PROVE  /\ \A i \in 1..Len(cs) : cs[i] = "Stop" => i = 1
         /\ has = AllThree /\ b => \A i \in 1..Len(cs) : cs[i] = "Rst"
         /\ has = AllThree /\ ~b => \E i \in 1..Len(cs) : cs[i] # "Rst"
         /\ "Start" \in has => Starts(cs) \/ (has = AllThree /\ b)
<1>1. \/ has = {"Rst"} /\ cs = <<"Rst">>
      \/ has = AllThree /\ b /\ cs = <<"Rst">>
      \/ has = AllThree /\ ~b /\ cs = <<"Start", "Rst">>
      \/ has = {"Start", "Stop"} /\ b /\ cs = <<"Stop", "Start">>
      \/ has = {"Start", "Stop"} /\ ~b /\ cs = <<"Start">>
  BY DEF Commands
<1>2. CASE has = {"Rst"} /\ cs = <<"Rst">> BY <1>2
<1>3. CASE has = AllThree /\ b /\ cs = <<"Rst">>
  <2>1. cs = <<"Rst">> BY ONLY <1>3, Zenon
  <2>2. Len(cs) <= 1 /\ cs[1] = "Rst" BY ONLY <2>1
  <2>3. \A i \in 1..Len(cs) : cs[i] = "Rst" BY ONLY <2>1, <2>2
  <2> QED BY <1>3, <2>3, Zenon
<1>4. CASE has = AllThree /\ ~b /\ cs = <<"Start", "Rst">>
  <2>1. Len(cs) = 2 /\ cs[1] = "Start" /\ cs[2] = "Rst" BY <1>4
  <2> QED BY <1>4, <2>1 DEF Starts
<1>5. CASE has = {"Start", "Stop"} /\ b /\ cs = <<"Stop", "Start">>
  <2>1. Len(cs) <= 2 /\ 2 <= Len(cs) BY ONLY <1>5
  <2>2. cs[1] = "Stop" /\ cs[2] = "Start" BY ONLY <1>5
  <2>3. Starts(cs) BY <2>1, <2>2 DEF Starts
  <2>4. has # AllThree BY <1>5
  <2>5. \A i \in 1..Len(cs) : i = 1 \/ i = 2 BY <2>1
  <2> QED BY <2>2, <2>3, <2>4, <2>5
<1>6. CASE has = {"Start", "Stop"} /\ ~b /\ cs = <<"Start">>
  <2>1. Len(cs) = 1 /\ cs[1] = "Start" BY <1>6
  <2> QED BY <1>6, <2>1 DEF Starts
<1> QED BY <1>1, <1>2, <1>3, <1>4, <1>5, <1>6

LEMMA OnlyScriptStops == \A i \in 1..Len(OnlyScript) : OnlyScript[i] = "Stop" => i = 1
<1>1. CASE OnlyScript = <<>> BY <1>1
<1>2. CASE OnlyScript = <<"Start">> BY <1>2
<1>3. CASE OnlyScript = <<"Stop">> BY <1>3
<1>4. CASE OnlyScript = Commands(TRUE) /\ OnlyScript # <<>> BY <1>4, ScriptShapes
<1> QED BY <1>1, <1>2, <1>3, <1>4 DEF OnlyScript

LEMMA LeavesInit == Init => LeavesInv
<1> SUFFICES ASSUME Init PROVE LeavesInv OBVIOUS
<1> USE DEF Init, InExec
<1>1. StopsFirst /\ StartsOrStarted BY DEF StopsFirst, StartsOrStarted
<1>2. UpOnceStarted BY DEF UpOnceStarted, Starts
<1>3. StaysUp BY DEF StaysUp
<1>4. EnvInv BY DEF EnvInv
<1>5. ResetLeavesItStarted BY DEF ResetLeavesItStarted
<1> QED BY <1>1, <1>2, <1>3, <1>4, <1>5 DEF LeavesInv

LEMMA CallsLeave == IInv /\ LeavesInv /\ Calls => LeavesInv'
<1> SUFFICES ASSUME IInv, LeavesInv, Calls PROVE LeavesInv' OBVIOUS
<1> USE DEF IInv, LeavesInv, TypeOK, CallTypeOK, OutcomeTypeOK, confVars, callVars, bashVars, InExec, RstOnly
<1>1. CASE ExecReset
  <2> USE <1>1 DEF ExecReset, Execs
  <2>1. StopsFirst' BY ScriptShapes DEF StopsFirst
  <2>2. StartsOrStarted' BY ScriptShapes DEF StartsOrStarted
  <2>3. UpOnceStarted' BY DEF UpOnceStarted, Starts
  <2>4. StaysUp' BY ScriptShapes DEF StaysUp
  <2>5. EnvInv' BY DEF EnvInv, RunsInOrder
  <2>6. ResetLeavesItStarted' BY DEF ResetLeavesItStarted, RunsInOrder
  <2> QED BY <2>1, <2>2, <2>3, <2>4, <2>5, <2>6
<1>2. CASE ExecResetUnhandled
  <2> USE <1>2 DEF ExecResetUnhandled
  <2>1. StopsFirst' BY DEF StopsFirst
  <2>2. StartsOrStarted' BY DEF StartsOrStarted
  <2>3. UpOnceStarted' BY DEF UpOnceStarted, RunsInOrder
  <2>4. StaysUp' BY DEF StaysUp, RunsInOrder
  <2>5. EnvInv' BY DEF EnvInv, RunsInOrder
  <2>6. ResetLeavesItStarted' BY DEF ResetLeavesItStarted, RunsInOrder
  <2> QED BY <2>1, <2>2, <2>3, <2>4, <2>5, <2>6
<1>3. CASE JustExec
  <2> USE <1>3 DEF JustExec, Execs
  <2>1. StopsFirst' BY OnlyScriptStops DEF StopsFirst
  <2>2. StartsOrStarted' BY DEF StartsOrStarted
  <2>3. UpOnceStarted' BY DEF UpOnceStarted, Starts, RunsInOrder, TouchTells
  <2>4. StaysUp' BY DEF StaysUp, RunsInOrder
  <2>5. EnvInv' BY DEF EnvInv, RunsInOrder
  <2>6. ResetLeavesItStarted' BY DEF ResetLeavesItStarted, RunsInOrder
  <2> QED BY <2>1, <2>2, <2>3, <2>4, <2>5, <2>6
<1>4. CASE Terminate
  <2> USE <1>4 DEF Terminate, Execs
  <2>1. StopsFirst' BY DEF StopsFirst
  <2>2. StartsOrStarted' BY DEF StartsOrStarted
  <2>3. UpOnceStarted' BY DEF UpOnceStarted, Starts, RunsInOrder, TouchTells
  <2>4. StaysUp' BY DEF StaysUp, RunsInOrder
  <2>5. EnvInv' BY DEF EnvInv, RunsInOrder
  <2>6. ResetLeavesItStarted' BY DEF ResetLeavesItStarted, RunsInOrder
  <2> QED BY <2>1, <2>2, <2>3, <2>4, <2>5, <2>6
<1> QED BY <1>1, <1>2, <1>3, <1>4 DEF Calls

LEMMA ExecLeaves == IInv /\ LeavesInv /\ Exec => LeavesInv'
<1> SUFFICES ASSUME IInv, LeavesInv, Exec PROVE LeavesInv' OBVIOUS
<1> USE DEF IInv, LeavesInv, TypeOK, CallTypeOK, OutcomeTypeOK, confVars, callVars, bashVars, InExec, RstOnly
<1>1. CASE FindsEnv
  <2> USE <1>1 DEF FindsEnv
  <2>1. StopsFirst' BY DEF StopsFirst
  <2>2. StartsOrStarted' BY DEF StartsOrStarted
  <2>3. UpOnceStarted' BY DEF UpOnceStarted, RunsInOrder
  <2>4. StaysUp' BY DEF StaysUp, RunsInOrder
  <2>5. EnvInv' BY DEF EnvInv, RunsInOrder
  <2>6. ResetLeavesItStarted' BY DEF ResetLeavesItStarted, RunsInOrder
  <2> QED BY <2>1, <2>2, <2>3, <2>4, <2>5, <2>6
<1>2. CASE SnapEnv
  <2> USE <1>2 DEF SnapEnv, Returns
  <2>1. StopsFirst' BY DEF StopsFirst
  <2>2. StartsOrStarted' BY DEF StartsOrStarted
  <2>3. UpOnceStarted' BY DEF UpOnceStarted, RunsInOrder
  <2>4. StaysUp' BY DEF StaysUp, RunsInOrder
  <2>5. EnvInv' BY DEF EnvInv, RunsInOrder
  <2>6. ResetLeavesItStarted' BY DEF ResetLeavesItStarted, RunsInOrder
  <2> QED BY <2>1, <2>2, <2>3, <2>4, <2>5, <2>6
<1>3. CASE StartsScript
  <2> USE <1>3 DEF StartsScript, Returns
  <2>1. StopsFirst' BY DEF StopsFirst
  <2>2. StartsOrStarted' BY DEF StartsOrStarted
  <2>3. UpOnceStarted' BY DEF UpOnceStarted, RunsInOrder
  <2>4. StaysUp' BY DEF StaysUp, RunsInOrder
  <2>5. EnvInv' BY DEF EnvInv, RunsInOrder
  <2>6. ResetLeavesItStarted' BY DEF ResetLeavesItStarted, RunsInOrder
  <2> QED BY <2>1, <2>2, <2>3, <2>4, <2>5, <2>6
<1>4. CASE GetsAnswer
  <2> USE <1>4 DEF GetsAnswer, Returns
  <2>1. StopsFirst' BY DEF StopsFirst
  <2>2. StartsOrStarted' BY DEF StartsOrStarted
  <2>3. UpOnceStarted' BY DEF UpOnceStarted, RunsInOrder
  <2>4. StaysUp' BY DEF StaysUp, RunsInOrder
  <2>5. EnvInv' BY DEF EnvInv, RunsInOrder
  <2>6. ResetLeavesItStarted' BY DEF ResetLeavesItStarted, RunsInOrder
  <2> QED BY <2>1, <2>2, <2>3, <2>4, <2>5, <2>6
<1>5. CASE GivesUp
  <2> USE <1>5 DEF GivesUp, Returns, Interrupted
  <2>1. StopsFirst' BY DEF StopsFirst
  <2>2. StartsOrStarted' BY DEF StartsOrStarted
  <2>3. UpOnceStarted' BY DEF UpOnceStarted, TouchTells
  <2>4. StaysUp' BY DEF StaysUp, RunsInOrder
  <2>5. EnvInv' BY DEF EnvInv, RunsInOrder
  <2>6. ResetLeavesItStarted' BY DEF ResetLeavesItStarted, RunsInOrder
  <2> QED BY <2>1, <2>2, <2>3, <2>4, <2>5, <2>6
<1>6. CASE ChecksEnv
  <2> USE <1>6 DEF ChecksEnv, Returns
  <2>1. StopsFirst' BY DEF StopsFirst
  <2>2. StartsOrStarted' BY DEF StartsOrStarted
  <2>3. UpOnceStarted' BY DEF UpOnceStarted, RunsInOrder
  <2>4. StaysUp' BY DEF StaysUp, TouchTells, StartsOrStarted, UpOnceStarted
  <2>5. EnvInv' BY DEF EnvInv, TouchTells
  <2>6. ResetLeavesItStarted' BY DEF ResetLeavesItStarted, TouchTells, StartsOrStarted, UpOnceStarted, StaysUp
  <2> QED BY <2>1, <2>2, <2>3, <2>4, <2>5, <2>6
<1>7. CASE RemoveEnv
  <2> USE <1>7 DEF RemoveEnv
  <2>1. StopsFirst' BY DEF StopsFirst
  <2>2. StartsOrStarted' BY DEF StartsOrStarted
  <2>3. UpOnceStarted' BY DEF UpOnceStarted, RunsInOrder
  <2>4. StaysUp' BY DEF StaysUp, RunsInOrder
  <2>5. EnvInv' BY DEF EnvInv
  <2>6. ResetLeavesItStarted' BY DEF ResetLeavesItStarted, RunsInOrder
  <2> QED BY <2>1, <2>2, <2>3, <2>4, <2>5, <2>6
<1> QED BY <1>1, <1>2, <1>3, <1>4, <1>5, <1>6, <1>7 DEF Exec

LEMMA BashLeaves == IInv /\ LeavesInv /\ Bash => LeavesInv'
<1> SUFFICES ASSUME IInv, LeavesInv, Bash PROVE LeavesInv' OBVIOUS
<1> USE DEF IInv, LeavesInv, TypeOK, CallTypeOK, OutcomeTypeOK, confVars, callVars, bashVars, InExec, RstOnly
<1>1. CASE CommandWorks
  <2> USE <1>1 DEF CommandWorks
  <2>1. StopsFirst' BY DEF StopsFirst
  <2>2. StartsOrStarted' BY DEF StartsOrStarted
  <2>3. UpOnceStarted' 
    <3>1. CASE cmds[Len(ran) + 1] = "Start" BY <3>1 DEF UpOnceStarted
    <3>2. CASE cmds[Len(ran) + 1] = "Stop"
      <4>1. Len(ran) = 0 BY <3>2 DEF StopsFirst, RunsInOrder
      <4>2. ran' = Append(ran, "Stop") BY <3>2
      <4>3. \A i \in 1..Len(ran') : ran'[i] = "Stop" BY <4>1, <4>2
      <4> QED BY <4>3 DEF UpOnceStarted, Starts
    <3>3. CASE cmds[Len(ran) + 1] \notin {"Start", "Stop"}
      <4>1. Starts(ran)' => Starts(ran) BY <3>3 DEF Starts
      <4> QED BY <3>3, <4>1 DEF UpOnceStarted, RunsInOrder
    <3> QED BY <3>1, <3>2, <3>3
  <2>4. StaysUp' BY DEF StaysUp, RunsInOrder
  <2>5. EnvInv' BY DEF EnvInv, RunsInOrder
  <2>6. ResetLeavesItStarted' BY DEF ResetLeavesItStarted, RunsInOrder
  <2> QED BY <2>1, <2>2, <2>3, <2>4, <2>5, <2>6
<1>2. CASE CommandEnds
  <2> USE <1>2 DEF CommandEnds, Ends, Interrupted
  <2>1. StopsFirst' BY DEF StopsFirst
  <2>2. StartsOrStarted' BY DEF StartsOrStarted
  <2>3. UpOnceStarted' BY DEF UpOnceStarted, RunsInOrder, TouchTells
  <2>4. StaysUp' BY DEF StaysUp, RunsInOrder
  <2>5. EnvInv' BY DEF EnvInv, RunsInOrder
  <2>6. ResetLeavesItStarted' BY DEF ResetLeavesItStarted, RunsInOrder
  <2> QED BY <2>1, <2>2, <2>3, <2>4, <2>5, <2>6
<1>3. CASE Truncates
  <2> USE <1>3 DEF Truncates
  <2>1. StopsFirst' BY DEF StopsFirst
  <2>2. StartsOrStarted' BY DEF StartsOrStarted
  <2>3. UpOnceStarted' BY DEF UpOnceStarted, RunsInOrder
  <2>4. StaysUp' BY DEF StaysUp, RunsInOrder
  <2>5. EnvInv' BY DEF EnvInv, RunsInOrder
  <2>6. ResetLeavesItStarted' BY DEF ResetLeavesItStarted, RunsInOrder
  <2> QED BY <2>1, <2>2, <2>3, <2>4, <2>5, <2>6
<1>4. CASE Writes
  <2> USE <1>4 DEF Writes, Ends
  <2>1. StopsFirst' BY DEF StopsFirst
  <2>2. StartsOrStarted' BY DEF StartsOrStarted
  <2>3. UpOnceStarted' BY DEF UpOnceStarted, RunsInOrder
  <2>4. StaysUp' BY DEF StaysUp, RunsInOrder
  <2>5. EnvInv' BY DEF EnvInv, RunsInOrder
  <2>6. ResetLeavesItStarted' BY DEF ResetLeavesItStarted, RunsInOrder
  <2> QED BY <2>1, <2>2, <2>3, <2>4, <2>5, <2>6
<1>5. CASE Killed
  <2> USE <1>5 DEF Killed, Ends, Interrupted
  <2>1. StopsFirst' BY DEF StopsFirst
  <2>2. StartsOrStarted' BY DEF StartsOrStarted
  <2>3. UpOnceStarted' BY DEF UpOnceStarted, RunsInOrder
  <2>4. StaysUp' BY DEF StaysUp, RunsInOrder
  <2>5. EnvInv' BY DEF EnvInv, RunsInOrder
  <2>6. ResetLeavesItStarted' BY DEF ResetLeavesItStarted, RunsInOrder
  <2> QED BY <2>1, <2>2, <2>3, <2>4, <2>5, <2>6
<1>6. CASE OutputCloses
  <2> USE <1>6 DEF OutputCloses
  <2>1. StopsFirst' BY DEF StopsFirst
  <2>2. StartsOrStarted' BY DEF StartsOrStarted
  <2>3. UpOnceStarted' BY DEF UpOnceStarted, RunsInOrder
  <2>4. StaysUp' BY DEF StaysUp, RunsInOrder
  <2>5. EnvInv' BY DEF EnvInv, RunsInOrder
  <2>6. ResetLeavesItStarted' BY DEF ResetLeavesItStarted, RunsInOrder
  <2> QED BY <2>1, <2>2, <2>3, <2>4, <2>5, <2>6
<1> QED BY <1>1, <1>2, <1>3, <1>4, <1>5, <1>6 DEF Bash

LEMMA TimeoutLeaves ==
  ASSUME IInv, LeavesInv, Timeout
  PROVE  LeavesInv'
<1> USE DEF Timeout, IInv, LeavesInv, TypeOK, CallTypeOK, OutcomeTypeOK, confVars, callVars, bashVars, InExec, RstOnly
<1>1. StopsFirst' BY DEF StopsFirst
<1>2. StartsOrStarted' BY DEF StartsOrStarted
<1>3. UpOnceStarted' BY DEF UpOnceStarted, RunsInOrder
<1>4. StaysUp' BY DEF StaysUp, RunsInOrder
<1>5. EnvInv' BY DEF EnvInv, RunsInOrder
<1>6. ResetLeavesItStarted' BY DEF ResetLeavesItStarted, RunsInOrder
<1> QED BY <1>1, <1>2, <1>3, <1>4, <1>5, <1>6

LEMMA ParentLeaves ==
  ASSUME IInv, LeavesInv, NEW cause \in Causes, ParentEnds(cause)
  PROVE  LeavesInv'
<1> USE DEF ParentEnds, IInv, LeavesInv, TypeOK, CallTypeOK, OutcomeTypeOK, confVars, callVars, bashVars, InExec, RstOnly
<1>1. StopsFirst' BY DEF StopsFirst
<1>2. StartsOrStarted' BY DEF StartsOrStarted
<1>3. UpOnceStarted' BY DEF UpOnceStarted, RunsInOrder
<1>4. StaysUp' BY DEF StaysUp, RunsInOrder
<1>5. EnvInv' BY DEF EnvInv, RunsInOrder
<1>6. ResetLeavesItStarted' BY DEF ResetLeavesItStarted, RunsInOrder
<1> QED BY <1>1, <1>2, <1>3, <1>4, <1>5, <1>6

LEMMA StutterLeaves ==
  ASSUME IInv, LeavesInv, UNCHANGED vars
  PROVE  LeavesInv'
<1> USE DEF vars, IInv, LeavesInv, TypeOK, CallTypeOK, OutcomeTypeOK, confVars, callVars, bashVars, InExec, RstOnly
<1>1. StopsFirst' BY DEF StopsFirst
<1>2. StartsOrStarted' BY DEF StartsOrStarted
<1>3. UpOnceStarted' BY DEF UpOnceStarted, RunsInOrder
<1>4. StaysUp' BY DEF StaysUp, RunsInOrder
<1>5. EnvInv' BY DEF EnvInv, RunsInOrder
<1>6. ResetLeavesItStarted' BY DEF ResetLeavesItStarted, RunsInOrder
<1> QED BY <1>1, <1>2, <1>3, <1>4, <1>5, <1>6

(* From one call to the next: what starts the system stays, and the        *)
(* environment is whole.                                                   *)
THEOREM LeavesInductive == Spec => []LeavesInv
<1>1. IInv /\ LeavesInv /\ [Next]_vars => LeavesInv'
  BY CallsLeave, ExecLeaves, BashLeaves, TimeoutLeaves, ParentLeaves, StutterLeaves DEF Next
<1> QED BY <1>1, LeavesInit, Invariance, PTL DEF Spec

(* A reset that worked leaves the system up, whether its own script        *)
(* started it or an earlier reset's did (commands(), lines 100-139).       *)
THEOREM ResetCorrect == Spec => []ResetLeavesItStarted
<1>1. LeavesInv => ResetLeavesItStarted BY DEF LeavesInv
<1> QED BY <1>1, LeavesInductive, PTL

(* No script is given half an environment before a reset has failed        *)
(* (lines 150-162, 226-247).                                               *)
THEOREM EnvCorrect == Spec => []EnvIsWholeUnlessFailed
<1>1. LeavesInv => EnvIsWholeUnlessFailed BY DEF LeavesInv, EnvInv, EnvIsWholeUnlessFailed
<1> QED BY <1>1, LeavesInductive, PTL

-----------------------------------------------------------------------------
(* Until Bash starts a script has run nothing, and until Bash ends only    *)
(* Bash holds its output; a script has two commands at most.               *)
FreshInv ==
  /\ pc \in {"stat", "start"} => bash = "none" /\ ran = <<>> /\ ~held
  /\ held => bash \notin Alive
  /\ Len(cmds) <= 2

(* No subcommand's script is longer. *)
LEMMA AtMostTwo ==
  /\ \A b : Len(Commands(b)) <= 2
  /\ Len(OnlyScript) <= 2
  /\ Len(<<"Stop">>) <= 2
<1>0. /\ Len(<<>>) <= 2 /\ Len(<<"Start">>) <= 2 /\ Len(<<"Stop">>) <= 2
  OBVIOUS
<1>1. \A b : Len(Commands(b)) <= 2
  BY DEF Commands
<1>2. Len(OnlyScript) <= 2
  BY <1>0, <1>1, Zenon DEF OnlyScript
<1> QED
  BY <1>0, <1>1, <1>2

(* A script that ends may leave its output to a process it started. *)
LEMMA FreshInd == IInv /\ FreshInv /\ [Next]_vars => FreshInv'
<1> SUFFICES ASSUME IInv, FreshInv, [Next]_vars PROVE FreshInv'
  OBVIOUS
<1> USE DEF FreshInv, confVars, callVars, bashVars
<1>1. CASE ExecReset
  BY <1>1, AtMostTwo DEF ExecReset, Execs
<1>2. CASE ExecResetUnhandled
  BY <1>2 DEF ExecResetUnhandled
<1>3. CASE JustExec
  BY <1>3, AtMostTwo DEF JustExec, Execs
<1>4. CASE Terminate
  <2>1. CASE Execs("terminate", <<"Stop">>, "live")
    BY <2>1, AtMostTwo DEF Execs
  <2>2. CASE pc' = "clean" /\ UNCHANGED <<cmds, bashVars>>
    BY <2>2
  <2> QED
    BY <1>4, <2>1, <2>2 DEF Terminate
<1>5. CASE FindsEnv \/ SnapEnv
  BY <1>5 DEF FindsEnv, SnapEnv, Returns
<1>6. CASE StartsScript \/ GetsAnswer
  BY <1>6 DEF StartsScript, GetsAnswer, Returns
<1>7. CASE GivesUp \/ ChecksEnv \/ RemoveEnv
  BY <1>7 DEF GivesUp, ChecksEnv, Returns, RemoveEnv
<1>8. CASE Timeout
  BY <1>8 DEF Timeout
<1>9. CASE CommandWorks \/ CommandEnds \/ Truncates \/ Writes \/ Killed
  <2>1. pc = "wait"
    BY <1>9 DEF CommandWorks, CommandEnds, Truncates, Writes, Killed, IInv, RunsInOrder
  <2>2. pc' = pc /\ cmds' = cmds
    BY <1>9 DEF CommandWorks, CommandEnds, Truncates, Writes, Killed
  <2>3. bash' \in Alive => bash \in Alive /\ held' = held
    BY <1>9 DEF CommandWorks, CommandEnds, Truncates, Writes, Killed, Ends
  <2> QED
    BY <2>1, <2>2, <2>3
<1>10. CASE OutputCloses
  BY <1>10 DEF OutputCloses
<1>11. CASE \E cause \in Causes : ParentEnds(cause)
  BY <1>11 DEF ParentEnds
<1>12. CASE UNCHANGED vars
  BY <1>12 DEF vars
<1> QED
  BY <1>1, <1>2, <1>3, <1>4, <1>5, <1>6, <1>7, <1>8, <1>9, <1>10, <1>11, <1>12
  DEF Next, Calls, Exec, Bash

(* How many steps exec, Bash and the clock take at most until exec returns. *)
OwnSteps == CASE pc = "stat" -> 4 [] pc = "start" -> 3 [] pc = "wait" -> 2 [] OTHER -> 1

ScriptSteps ==
  IF pc \in {"stat", "start"} \/ bash = "runs" THEN Len(cmds) - Len(ran) + 3
  ELSE IF bash = "declares" THEN 2
  ELSE IF held = TRUE THEN 1 ELSE 0

ClockSteps == (IF ctx = "live" THEN 1 ELSE 0) + (IF parent = "live" THEN 1 ELSE 0)

StepsOfExec == OwnSteps + ScriptSteps + ClockSteps

(* The summands are numbers. *)
LEMMA ExecTypes ==
  ASSUME IInv, FreshInv
  PROVE  /\ Len(cmds) \in Nat /\ Len(ran) \in Nat /\ Len(ran) <= Len(cmds) /\ Len(cmds) <= 2
         /\ OwnSteps \in 1..4 /\ ScriptSteps \in 0..5 /\ ClockSteps \in 0..2
<1>1. Len(cmds) \in Nat /\ Len(ran) \in Nat /\ Len(ran) <= Len(cmds) /\ Len(cmds) <= 2
  BY DEF IInv, TypeOK, CallTypeOK, OutcomeTypeOK, RunsInOrder, FreshInv
<1>2. OwnSteps \in 1..4
  BY DEF OwnSteps
<1>3. ScriptSteps \in 0..5
  BY <1>1 DEF ScriptSteps
<1>4. ClockSteps \in 0..2
  BY DEF ClockSteps
<1> QED
  BY <1>1, <1>2, <1>3, <1>4

(* There are eleven of them at most, with two commands in the script. *)
LEMMA ExecIsBounded == IInv /\ FreshInv => StepsOfExec \in 0..11
  BY ExecTypes DEF StepsOfExec

(* A step of exec itself. *)
LEMMA OwnDecreases ==
  ASSUME IInv, FreshInv, FindsEnv \/ SnapEnv \/ StartsScript \/ GetsAnswer \/ GivesUp \/ ChecksEnv,
         pc' \in InExec
  PROVE  OwnSteps' < OwnSteps /\ ScriptSteps' = ScriptSteps /\ ClockSteps' = ClockSteps
<1> USE DEF InExec, confVars, callVars, bashVars, OwnSteps, ScriptSteps, ClockSteps
<1>1. CASE FindsEnv
  BY <1>1 DEF FindsEnv
<1>2. CASE SnapEnv
  BY <1>2 DEF SnapEnv, Returns
<1>3. CASE StartsScript
  BY <1>3 DEF StartsScript, Returns
<1>4. CASE GetsAnswer
  BY <1>4 DEF GetsAnswer, Returns
<1>5. CASE GivesUp \/ ChecksEnv
  BY <1>5 DEF GivesUp, ChecksEnv, Returns
<1> QED
  BY <1>1, <1>2, <1>3, <1>4, <1>5

(* A step of the script. *)
LEMMA ScriptDecreases ==
  ASSUME IInv, FreshInv, Bash, pc \in InExec
  PROVE  OwnSteps' = OwnSteps /\ ScriptSteps' < ScriptSteps /\ ClockSteps' = ClockSteps
<1> DEFINE c == Len(cmds)  r == Len(ran)
<1>1. c \in Nat /\ r \in Nat /\ r <= c
  BY ExecTypes
<1>2. bash \in Alive => pc = "wait"
  BY DEF IInv, RunsInOrder
<1>3. OwnSteps' = OwnSteps /\ ClockSteps' = ClockSteps /\ c' = c
  BY DEF Bash, CommandWorks, CommandEnds, Truncates, Writes, Killed, OutputCloses, OwnSteps, ClockSteps, callVars
<1>4. ScriptSteps = IF pc \in {"stat", "start"} \/ bash = "runs" THEN c - r + 3
                    ELSE IF bash = "declares" THEN 2 ELSE IF held = TRUE THEN 1 ELSE 0
  BY DEF ScriptSteps
<1>5. ScriptSteps' = IF pc' \in {"stat", "start"} \/ bash' = "runs" THEN c' - r' + 3
                     ELSE IF bash' = "declares" THEN 2 ELSE IF held' = TRUE THEN 1 ELSE 0
  BY DEF ScriptSteps
<1>6. CASE CommandWorks
  <2>1. r' = r + 1
    BY <1>6 DEF CommandWorks, IInv, TypeOK, OutcomeTypeOK
  <2>2. bash = "runs" /\ bash' = "runs"
    BY <1>6 DEF CommandWorks
  <2> HIDE DEF c, r
  <2> QED
    BY <1>1, <1>3, <1>4, <1>5, <2>1, <2>2
<1>7. CASE CommandEnds \/ Killed \/ Truncates \/ Writes
  <2>1. pc' = "wait" /\ bash \in Alive /\ r' = r /\ bash' # "runs"
    BY <1>2, <1>7 DEF CommandEnds, Killed, Truncates, Writes, Ends
  <2>2. bash = "runs" \/ bash' # "declares"
    BY <1>7 DEF CommandEnds, Killed, Truncates, Writes, Ends
  <2> HIDE DEF c, r
  <2> QED
    BY <1>1, <1>3, <1>4, <1>5, <2>1, <2>2
<1>8. CASE OutputCloses
  <2>1. held = TRUE /\ held' = FALSE /\ UNCHANGED <<pc, bash>> /\ pc \notin {"stat", "start"}
    BY <1>8 DEF OutputCloses, FreshInv, IInv, TypeOK, OutcomeTypeOK
  <2>2. r' = r
    BY <1>8 DEF OutputCloses
  <2>3. bash \notin Alive
    BY <2>1 DEF FreshInv
  <2> HIDE DEF c, r
  <2> QED
    BY <1>1, <1>3, <1>4, <1>5, <2>1, <2>2, <2>3
<1> QED
  BY <1>3, <1>6, <1>7, <1>8 DEF Bash

(* exec's timeout, or the end of the campaign's context. *)
LEMMA ClockDecreases ==
  ASSUME IInv, Timeout \/ \E cause \in Causes : ParentEnds(cause)
  PROVE  OwnSteps' = OwnSteps /\ ScriptSteps' = ScriptSteps /\ ClockSteps' < ClockSteps
<1>1. UNCHANGED <<pc, cmds, bash, ran, held>>
  BY DEF Timeout, ParentEnds, callVars, bashVars
<1>2. ClockSteps' < ClockSteps
  BY DEF Timeout, ParentEnds, ClockSteps
<1> QED
  BY <1>1, <1>2 DEF OwnSteps, ScriptSteps

(* Whoever takes the step, there is one less. *)
LEMMA ExecDecreases ==
  ASSUME IInv, FreshInv, Next, pc \in InExec, pc' \in InExec
  PROVE  StepsOfExec' < StepsOfExec
<1>1. ~Calls /\ ~RemoveEnv
  BY DEF Calls, ExecReset, ExecResetUnhandled, JustExec, Terminate, RemoveEnv, InExec
<1>2. OwnSteps \in Nat /\ ScriptSteps \in Nat /\ ClockSteps \in Nat
  BY ExecTypes
<1>8. FreshInv' /\ IInv'
  BY FreshInd, Inductive
<1>4. OwnSteps' \in Nat /\ ScriptSteps' \in Nat /\ ClockSteps' \in Nat
  <2>1. Len(cmds') \in Nat /\ Len(ran') \in Nat /\ Len(ran') <= Len(cmds')
    BY <1>8 DEF IInv, TypeOK, CallTypeOK, OutcomeTypeOK, RunsInOrder
  <2> QED
    BY <2>1 DEF OwnSteps, ScriptSteps, ClockSteps
<1>3. /\ StepsOfExec = OwnSteps + ScriptSteps + ClockSteps
      /\ StepsOfExec' = OwnSteps' + ScriptSteps' + ClockSteps'
  BY Zenon DEF StepsOfExec
<1>9. \A a, b, c, x, y, z \in Nat :
        \/ x < a /\ y = b /\ z = c
        \/ x = a /\ y < b /\ z = c
        \/ x = a /\ y = b /\ z < c
        => x + y + z < a + b + c
  OBVIOUS
<1>5. CASE Exec
  <2>1. OwnSteps' < OwnSteps /\ ScriptSteps' = ScriptSteps /\ ClockSteps' = ClockSteps
    BY <1>1, <1>5, OwnDecreases DEF Exec
  <2> QED
    BY ONLY <1>2, <1>3, <1>4, <1>9, <2>1, Zenon
<1>6. CASE Bash
  <2>1. OwnSteps' = OwnSteps /\ ScriptSteps' < ScriptSteps /\ ClockSteps' = ClockSteps
    BY <1>6, ScriptDecreases
  <2> QED
    BY ONLY <1>2, <1>3, <1>4, <1>9, <2>1, Zenon
<1>7. CASE Timeout \/ \E cause \in Causes : ParentEnds(cause)
  <2>1. OwnSteps' = OwnSteps /\ ScriptSteps' = ScriptSteps /\ ClockSteps' < ClockSteps
    BY <1>7, ClockDecreases
  <2> QED
    BY ONLY <1>2, <1>3, <1>4, <1>9, <2>1, Zenon
<1> QED
  BY <1>1, <1>5, <1>6, <1>7 DEF Next

(* exec is short: until it returns no more than eleven steps are taken by  *)
(* it, by Bash (a command of the user's is one) and by the clock, whatever *)
(* the race between the script's end and that of its context: nothing is   *)
(* started twice and there is no retry (lines 141-250).                    *)
THEOREM ExecIsShort ==
  Spec => /\ [](StepsOfExec \in 0..11)
          /\ [][(pc \in InExec) => pc' \notin InExec \/ StepsOfExec' < StepsOfExec]_vars
<1>1. Init => FreshInv
  BY DEF Init, FreshInv
<1>2. IInv /\ FreshInv /\ [Next]_vars =>
        [(pc \in InExec) => pc' \notin InExec \/ StepsOfExec' < StepsOfExec]_vars
  BY ExecDecreases
<1> QED
  BY Invariance, FreshInd, ExecIsBounded, <1>1, <1>2, PTL DEF Spec
=============================================================================
