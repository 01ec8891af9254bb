-------------------------------- MODULE Workdir --------------------------------
(***************************************************************************)
(* The files monkey keeps for a working directory, and the processes that  *)
(* use them (pkg/cwid, do_pastseed.go, the start of main.go).              *)
(*                                                                         *)
(* Each run takes a slot, a number, for the names of its log, of its       *)
(* environment and of its script: MakePwdID lists the slots there are and  *)
(* takes the next one, then the log is created, with nothing in between to *)
(* keep another process from doing the same.  monkey pastseed looks for a  *)
(* seed in the log of the last run, then in the one before it, and so on,  *)
(* listing the slots again for each.                                       *)
(*                                                                         *)
(* A log is a sequence of lines, each of the same length: a run writes at  *)
(* its own place in the file, over what another may have written there.    *)
(***************************************************************************)
EXTENDS Naturals, Sequences, FiniteSets

CONSTANTS
  Procs,     \* the processes
  MaxLines,  \* bound on the lines a run logs
  PastSlots  \* the slot of the only log earlier runs left, an empty one; 0 if there is none

ASSUME WorkdirAssumption == IsFiniteSet(Procs) /\ MaxLines \in Nat /\ PastSlots \subseteq Nat

VARIABLES
  logs,     \* from the slots that have a log to its lines
  command,  \* what each process was started for: "run", "update" or "pastseed"
  pc,       \* "new", "listed", "open", "over" or "killed"; for pastseed also "found" and "none"
  slot,     \* pwdID, 0 before MakePwdID
  wrote,    \* the lines a run wrote
  offset,   \* doPastseed's
  answer,   \* the seeds printed by pastseed: at most one
  saw,      \* history: the processes whose log was there when it listed the slots
  biggest,  \* history: the last slot when pastseed began
  readThrough  \* history: the slots whose log pastseed read without finding a seed

pastseedVars == <<offset, answer, biggest, readThrough>>
workdirVars == <<logs, command, pc, slot, wrote, saw, pastseedVars>>

-----------------------------------------------------------------------------
(* A line holds a seed, is too long for bufio.Scanner, or is any other. *)
Line(kind, p, n) == [kind |-> kind, by |-> p, nth |-> n]
Kinds == {"seed", "long", "other"}
Lines == [kind : Kinds, by : Procs, nth : 1..MaxLines]

MaxOf(S) == CHOOSE n \in S : \A m \in S : m <= n
Slots == DOMAIN logs \cup {0}

FindIDSlot_Counts(off) ==
  IF off > Cardinality(DOMAIN logs) + 1 THEN 0 ELSE Cardinality(DOMAIN logs) + 1 - off

(* findIDSlot: the slot that comes after the last one, minus offset.  An   *)
(* offset too large wraps around to a slot that never exists: 0 as well.   *)
FindIDSlot(off) == IF off > MaxOf(Slots) + 1 THEN 0 ELSE MaxOf(Slots) + 1 - off

FirstOffset_Own == 2
(* doPastseed has no log of its own. *)
FirstOffset == 1

WorkdirInit ==
  /\ \E past \in PastSlots : logs = [s \in {past} \ {0} |-> <<>>]
  /\ pc = [p \in Procs |-> "new"]
  /\ slot = [p \in Procs |-> 0]
  /\ wrote = [p \in Procs |-> <<>>]
  /\ saw = [p \in Procs |-> {}]
  /\ offset = [p \in Procs |-> FirstOffset]
  /\ answer = [p \in Procs |-> {}]
  /\ biggest = [p \in Procs |-> 0]
  /\ readThrough = [p \in Procs |-> {}]

(* Those whose log is there, or was. *)
Created == {q \in Procs : command[q] # "pastseed" /\ pc[q] \notin {"new", "listed"} /\ slot[q] # 0}

-----------------------------------------------------------------------------
(* actualMain: MakePwdID(binName, 0). *)
Lists(p) ==
  /\ command[p] # "pastseed" /\ pc[p] = "new"
  /\ pc' = [pc EXCEPT ![p] = "listed"]
  /\ slot' = [slot EXCEPT ![p] = FindIDSlot(0)]
  /\ saw' = [saw EXCEPT ![p] = Created]
  /\ UNCHANGED <<logs, command, wrote, pastseedVars>>

(* The log is created, or opened as it is if another process did so first. *)
OpensLog(p) ==
  /\ command[p] # "pastseed" /\ pc[p] = "listed"
  /\ pc' = [pc EXCEPT ![p] = "open"]
  /\ logs' = [s \in DOMAIN logs \cup {slot[p]} |-> IF s \in DOMAIN logs THEN logs[s] ELSE <<>>]
  /\ UNCHANGED <<command, slot, wrote, saw, pastseedVars>>

(* Neither MakePwdID nor the log works out: retryOrReport. *)
StartFails(p) ==
  /\ pc[p] \in {"new", "listed"} /\ command[p] # "pastseed"
  /\ pc' = [pc EXCEPT ![p] = "over"]
  /\ slot' = [slot EXCEPT ![p] = 0]
  /\ UNCHANGED <<logs, command, wrote, saw, pastseedVars>>

(* Something is logged: by Fuzz, a seed (fuzz.go, lines 95, 96 and 124).   *)
(* The lines of an update are left out.                                    *)
Logs(p) ==
  /\ command[p] = "run" /\ pc[p] = "open" /\ Len(wrote[p]) < MaxLines
  /\ \E kind \in Kinds :
       LET n == Len(wrote[p]) + 1
           line == Line(kind, p, n)
           old == logs[slot[p]]
       IN
       /\ wrote' = [wrote EXCEPT ![p] = Append(@, line)]
       /\ logs' = IF slot[p] \notin DOMAIN logs THEN logs
                  ELSE [logs EXCEPT ![slot[p]] =
                          IF n <= Len(old) THEN [old EXCEPT ![n] = line] ELSE Append(old, line)]
  /\ UNCHANGED <<command, pc, slot, saw, pastseedVars>>

RunEnds(p) ==
  /\ command[p] = "run" /\ pc[p] = "open"
  /\ pc' = [pc EXCEPT ![p] = "over"]
  /\ UNCHANGED <<logs, command, slot, wrote, saw, pastseedVars>>

(* The system's temporary files are removed, the oldest first, those of    *)
(* running processes and of the last run excepted.                         *)
Cleans ==
  /\ Cardinality(DOMAIN logs) > 1
  /\ \E oldest \in DOMAIN logs :
       /\ \A s \in DOMAIN logs : oldest <= s
       /\ \A p \in Procs : slot[p] = oldest => pc[p] \in {"over", "killed"} \/ command[p] = "pastseed"
       /\ logs' = [s \in DOMAIN logs \ {oldest} |-> logs[s]]
  /\ UNCHANGED <<command, pc, slot, wrote, saw, pastseedVars>>

-----------------------------------------------------------------------------
(* doPastseed: MakePwdID for the current offset. *)
PastseedLists(p) ==
  /\ command[p] = "pastseed" /\ pc[p] = "new"
  /\ pc' = [pc EXCEPT ![p] = "listed"]
  /\ slot' = [slot EXCEPT ![p] = FindIDSlot(offset[p])]
  /\ biggest' = [biggest EXCEPT ![p] = IF slot[p] = 0 THEN MaxOf(Slots) ELSE @]
  /\ UNCHANGED <<logs, command, wrote, saw, offset, answer, readThrough>>

(* There is no such log: it gives up. *)
PastseedFails(p) ==
  /\ command[p] = "pastseed" /\ pc[p] = "listed"
  /\ slot[p] \notin DOMAIN logs
  /\ pc' = [pc EXCEPT ![p] = "none"]
  /\ UNCHANGED <<logs, command, slot, wrote, saw, pastseedVars>>

(* The last seed of a log.  The scanner stops at a line that is too long,  *)
(* and its error is not looked at.                                         *)
ScanSeeds(lines) ==
  LET seeds == {i \in DOMAIN lines : /\ lines[i].kind = "seed"
                                     /\ \A j \in 1..i : lines[j].kind # "long"}
  IN IF seeds = {} THEN {} ELSE {lines[MaxOf(seeds)]}

(* It reads the log of its slot and prints its seed, or goes on with the   *)
(* next offset.                                                            *)
PastseedReads(p) ==
  /\ command[p] = "pastseed" /\ pc[p] = "listed"
  /\ slot[p] \in DOMAIN logs
  /\ LET found == ScanSeeds(logs[slot[p]]) IN
     IF found # {}
     THEN /\ pc' = [pc EXCEPT ![p] = "found"]
          /\ answer' = [answer EXCEPT ![p] = found]
          /\ UNCHANGED <<offset, readThrough>>
     ELSE /\ pc' = [pc EXCEPT ![p] = "new"]
          /\ offset' = [offset EXCEPT ![p] = @ + 1]
          /\ readThrough' = [readThrough EXCEPT ![p] = @ \cup {slot[p]}]
          /\ UNCHANGED answer
  /\ UNCHANGED <<logs, command, slot, wrote, saw, biggest>>

-----------------------------------------------------------------------------
(* Killed, whatever it was doing. *)
Killed(p) ==
  /\ pc[p] \notin {"over", "killed", "found", "none"}
  /\ pc' = [pc EXCEPT ![p] = "killed"]
  /\ slot' = [slot EXCEPT ![p] = IF pc[p] = "listed" THEN 0 ELSE @]
  /\ UNCHANGED <<logs, command, wrote, saw, pastseedVars>>

(* What processes do of their own, the update of module Update excepted.   *)
WorkdirStep(p) ==
  \/ Lists(p) \/ OpensLog(p) \/ StartFails(p) \/ Logs(p) \/ RunEnds(p)
  \/ PastseedLists(p) \/ PastseedFails(p) \/ PastseedReads(p)

-----------------------------------------------------------------------------
WorkdirTypeOK ==
  /\ DOMAIN logs \subseteq Nat \ {0} /\ \A s \in DOMAIN logs : logs[s] \in Seq(Lines)
  /\ command \in [Procs -> {"run", "update", "pastseed"}]
  /\ pc \in [Procs -> {"new", "listed", "open", "over", "killed", "found", "none"}]
  /\ slot \in [Procs -> Nat] /\ offset \in [Procs -> Nat \ {0}]
  /\ wrote \in [Procs -> Seq(Lines)]
  /\ saw \in [Procs -> SUBSET Procs]
  /\ answer \in [Procs -> SUBSET Lines]
  /\ biggest \in [Procs -> Nat] /\ readThrough \in [Procs -> SUBSET Nat]

Raced(p, q) == p # q /\ p \notin saw[q] /\ q \notin saw[p]

(* What a run logged is in its log, line by line, unless another run       *)
(* listed the slots before either had created its log: later runs take     *)
(* other slots, whatever was removed or killed in between (pwd_id.go,      *)
(* lines 57-86, main.go, lines 68-71).                                     *)
LogsAreWholeUnlessRaced ==
  \A p \in Created :
    \/ slot[p] \notin DOMAIN logs
    \/ logs[slot[p]] = wrote[p]
    \/ \E q \in Created : Raced(p, q) /\ slot[q] = slot[p]

(* pastseed prints a seed that its log holds, and before it settles on a   *)
(* log it has read, without finding a seed, the log of each younger run    *)
(* that was there when it began, runs that start meanwhile and logs that   *)
(* are removed notwithstanding (do_pastseed.go, lines 19-54).              *)
PastseedPassesNoLogOver ==
  \A p \in Procs : pc[p] = "found" =>
    /\ slot[p] + 1 .. biggest[p] \subseteq readThrough[p]
    /\ \A line \in answer[p] : line.kind = "seed"
================================================================================
