--------------------------------- MODULE Update --------------------------------
(***************************************************************************)
(* monkey update (doUpdate of main.go, pkg/update/github.go) by processes  *)
(* of module Workdir: the latest release is asked for, its archive is read *)
(* through a hash up to the program it holds, which goes to a temporary    *)
(* file, and once the hash is the published one, this file takes the       *)
(* program's place.  Meanwhile releases are published, and other processes *)
(* update the same program.                                                *)
(*                                                                         *)
(* A version stands for the program of that release, and for the checksum  *)
(* of its archive.  Broken stands for any other program or checksum.       *)
(***************************************************************************)
EXTENDS Workdir

CONSTANTS
  MaxVersion,  \* bound on the releases
  Commands     \* what processes are started for, together

ASSUME VersionAssumption == MaxVersion \in Nat \ {0}
ASSUME CommandsAssumption == Commands \subseteq [Procs -> {"run", "update", "pastseed"}]

Versions == 1..MaxVersion
Broken == 0

VARIABLES
  latest,   \* the last release published
  exe,      \* the program that is installed
  running,  \* the program each process runs: binVersion
  upc,      \* "idle", "peeked", "temp", "extracted", "checked"; or "ok", "failed", "panicked"
  peeked,   \* the release asked for
  body,     \* the archive as it arrives: "whole" or "altered"
  temp,     \* what is in the process's temporary file: at most one program
  sum,      \* the hash of what was read of the archive
  exeThen   \* history: what was installed when the latest release was asked for

updateVars == <<latest, exe, running, upc, peeked, body, temp, sum, exeThen>>
vars == <<workdirVars, updateVars>>

Init ==
  /\ WorkdirInit
  /\ command \in Commands
  /\ latest = 1 /\ exe = 1
  /\ running = [p \in Procs |-> 1]
  /\ upc = [p \in Procs |-> "idle"]
  /\ peeked = [p \in Procs |-> 1]
  /\ body = [p \in Procs |-> "whole"]
  /\ temp = [p \in Procs |-> {}]
  /\ sum = [p \in Procs |-> Broken]
  /\ exeThen = [p \in Procs |-> 1]

-----------------------------------------------------------------------------
Publishes ==
  /\ latest < MaxVersion
  /\ latest' = latest + 1
  /\ UNCHANGED <<workdirVars, exe, running, upc, peeked, body, temp, sum, exeThen>>

Updating(p, step) == command[p] = "update" /\ pc[p] = "open" /\ upc[p] = step

(* ReplaceCurrentRelease or PeekLatestRelease returns: the temporary file  *)
(* is removed by what was deferred, a panic included, and locals are gone. *)
Ends(p, how) ==
  /\ upc' = [upc EXCEPT ![p] = how]
  /\ temp' = [temp EXCEPT ![p] = {}]
  /\ peeked' = [peeked EXCEPT ![p] = 1]
  /\ body' = [body EXCEPT ![p] = "whole"]
  /\ sum' = [sum EXCEPT ![p] = Broken]
  /\ exeThen' = [exeThen EXCEPT ![p] = 1]
  /\ pc' = [pc EXCEPT ![p] = "over"]
  /\ UNCHANGED <<logs, command, slot, wrote, saw, pastseedVars, latest, running>>

(* Any request, file operation or decompression may fail. *)
UpdateFails(p) ==
  /\ \E step \in {"idle", "peeked", "temp", "extracted", "checked"} : Updating(p, step)
  /\ Ends(p, "failed") /\ UNCHANGED exe

Peek_Any(p) ==
  /\ Updating(p, "idle")
  /\ \E v \in 1..latest :
     IF v = running[p] THEN Ends(p, "ok") /\ UNCHANGED exe
     ELSE /\ upc' = [upc EXCEPT ![p] = "peeked"]
          /\ peeked' = [peeked EXCEPT ![p] = v]
          /\ exeThen' = [exeThen EXCEPT ![p] = exe]
          /\ UNCHANGED <<workdirVars, latest, exe, running, body, temp, sum>>

(* PeekLatestRelease, and nothing to do when it is the program's version. *)
Peek(p) ==
  /\ Updating(p, "idle")
  /\ IF latest = running[p] THEN Ends(p, "ok") /\ UNCHANGED exe
     ELSE /\ upc' = [upc EXCEPT ![p] = "peeked"]
          /\ peeked' = [peeked EXCEPT ![p] = latest]
          /\ exeThen' = [exeThen EXCEPT ![p] = exe]
          /\ UNCHANGED <<workdirVars, latest, exe, running, body, temp, sum>>

(* The archive begins to arrive and an empty temporary file is created.    *)
Fetches(p) ==
  /\ Updating(p, "peeked")
  /\ upc' = [upc EXCEPT ![p] = "temp"]
  /\ \E how \in {"whole", "altered"} : body' = [body EXCEPT ![p] = how]
  /\ temp' = [temp EXCEPT ![p] = {Broken}]
  /\ UNCHANGED <<workdirVars, latest, exe, running, peeked, sum, exeThen>>

(* The program is found in the archive and copied.  What follows it in the *)
(* archive has gone through the hash if it was already in a buffer.        *)
Extracts(p) ==
  /\ Updating(p, "temp")
  /\ upc' = [upc EXCEPT ![p] = "extracted"]
  /\ \E program \in IF body[p] = "whole" THEN {peeked[p]} ELSE {peeked[p], Broken} :
       temp' = [temp EXCEPT ![p] = {program}]
  /\ \E h \in IF body[p] = "whole" THEN {peeked[p], Broken} ELSE {Broken} :
       sum' = [sum EXCEPT ![p] = h]
  /\ UNCHANGED <<workdirVars, latest, exe, running, peeked, body, exeThen>>

(* The archive ends without the program: the "break" of its case leaves    *)
(* the switch, not the loop, and the header that follows is nil.           *)
ArchiveEnds(p) ==
  /\ Updating(p, "temp")
  /\ Ends(p, "panicked") /\ UNCHANGED exe

ChecksSum_NotEmpty(p) ==
  /\ Updating(p, "extracted")
  /\ upc' = [upc EXCEPT ![p] = "checked"]
  /\ UNCHANGED <<workdirVars, latest, exe, running, peeked, body, temp, sum, exeThen>>

(* fetchLatestSum gives the checksum on the first line that has the name   *)
(* of the archive, or of one this name begins: the hash must be the same.  *)
ChecksSum(p) ==
  /\ Updating(p, "extracted")
  /\ \E expected \in {peeked[p], Broken} :
       /\ expected # Broken
       /\ sum[p] = expected
  /\ upc' = [upc EXCEPT ![p] = "checked"]
  /\ UNCHANGED <<workdirVars, latest, exe, running, peeked, body, temp, sum, exeThen>>

(* The temporary file is renamed. *)
Replaces(p) ==
  /\ Updating(p, "checked")
  /\ \E program \in temp[p] : exe' = program
  /\ Ends(p, "ok")

(* A killed process leaves its temporary file. *)
IsKilled(p) ==
  /\ Killed(p)
  /\ UNCHANGED updateVars

Works(p) ==
  /\ WorkdirStep(p)
  /\ running' = [running EXCEPT ![p] = IF pc[p] = "new" THEN exe ELSE @]
  /\ UNCHANGED <<latest, exe, upc, peeked, body, temp, sum, exeThen>>

UpdateStep(p) ==
  \/ UpdateFails(p) \/ Peek(p) \/ Fetches(p) \/ Extracts(p) \/ ArchiveEnds(p)
  \/ ChecksSum(p) \/ Replaces(p)

Next ==
  \/ Publishes
  \/ Cleans /\ UNCHANGED updateVars
  \/ \E p \in Procs : Works(p) \/ UpdateStep(p) \/ IsKilled(p)

Spec == Init /\ [][Next]_vars

-----------------------------------------------------------------------------
TypeOK ==
  /\ WorkdirTypeOK
  /\ latest \in Versions /\ exe \in Versions \cup {Broken}
  /\ running \in [Procs -> Versions \cup {Broken}]
  /\ upc \in [Procs -> {"idle", "peeked", "temp", "extracted", "checked", "ok", "failed", "panicked"}]
  /\ peeked \in [Procs -> Versions]
  /\ body \in [Procs -> {"whole", "altered"}]
  /\ temp \in [Procs -> SUBSET (Versions \cup {Broken})]
  /\ sum \in [Procs -> Versions \cup {Broken}]
  /\ exeThen \in [Procs -> Versions \cup {Broken}]

(* Whatever arrives, whoever else updates and wherever a process is        *)
(* killed, what is installed is the program of a published release         *)
(* (github.go, lines 86-182).                                              *)
ExeIsAReleasedProgram == exe \in 1..latest

(* An update puts an older program in place of a newer one only when       *)
(* another update has finished since it asked for the latest release       *)
(* (main.go, lines 281-298).                                               *)
NeverGoesBackUnlessOvertaken ==
  [][exe' < exe => \E p \in Procs : upc[p] = "checked" /\ upc'[p] = "ok" /\ exeThen[p] # exe]_vars
================================================================================
