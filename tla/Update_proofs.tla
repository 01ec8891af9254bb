----------------------------- MODULE Update_proofs -----------------------------
(***************************************************************************)
(* Whatever the processes, the releases and what they are started for:     *)
(* only programs of published releases are ever installed, and an older    *)
(* one only by an update that another one overtook.                        *)
(***************************************************************************)
EXTENDS Update, FiniteSetTheorems, WellFoundedInduction, TLAPS

(* The part of TypeOK that an update needs.                                *)
UpdateTypeOK ==
  /\ latest \in Nat \ {0}
  /\ upc \in [Procs -> {"idle", "peeked", "temp", "extracted", "checked", "ok", "failed", "panicked"}]
  /\ peeked \in [Procs -> Nat \ {0}]
  /\ body \in [Procs -> {"whole", "altered"}]
  /\ temp \in [Procs -> SUBSET Nat]
  /\ sum \in [Procs -> Nat]
  /\ exeThen \in [Procs -> Nat]

(* The release that is being installed was published. *)
PeekedInv == \A p \in Procs : peeked[p] \in 1..latest

(* A hash that is the release's was computed over an archive that arrived  *)
(* whole, so that the program found in it is the release's; and once the   *)
(* hash was compared, the program is.                                      *)
TempInv == \A p \in Procs :
  /\ upc[p] = "extracted" /\ sum[p] # Broken => sum[p] = peeked[p] /\ temp[p] = {peeked[p]}
  /\ upc[p] = "checked" => temp[p] = {peeked[p]}

(* What was installed when the latest release was asked for was no later.  *)
ThenInv == \A p \in Procs : exeThen[p] <= peeked[p]

IInv == UpdateTypeOK /\ PeekedInv /\ TempInv /\ ThenInv /\ ExeIsAReleasedProgram

-----------------------------------------------------------------------------
LEMMA InitEstablishes == Init => IInv
BY DEF Init, IInv, UpdateTypeOK, PeekedInv, TempInv, ThenInv, ExeIsAReleasedProgram, Broken

(* What Ends leaves is safe, whatever was done before it. *)
LEMMA EndsPreserves ==
  ASSUME IInv, NEW p \in Procs, NEW how \in {"ok", "failed", "panicked"}, Ends(p, how)
  PROVE  UpdateTypeOK' /\ PeekedInv' /\ TempInv' /\ ThenInv'
<1>1. UpdateTypeOK'
  BY DEF IInv, UpdateTypeOK, Ends, Broken
<1>2. PeekedInv'
  BY DEF IInv, UpdateTypeOK, PeekedInv, Ends
<1>3. TempInv'
  BY DEF IInv, UpdateTypeOK, TempInv, Ends
<1>4. ThenInv'
  BY DEF IInv, UpdateTypeOK, ThenInv, Ends
<1>5. QED BY <1>1, <1>2, <1>3, <1>4

LEMMA NextPreserves == IInv /\ [Next]_vars => IInv'
<1> SUFFICES ASSUME IInv, [Next]_vars PROVE IInv'
  OBVIOUS
<1> USE DEF Updating
<1>1. CASE Publishes
  BY <1>1 DEF Publishes, IInv, UpdateTypeOK, PeekedInv, TempInv, ThenInv, ExeIsAReleasedProgram
<1>2. CASE UNCHANGED updateVars
  BY <1>2 DEF updateVars, IInv, UpdateTypeOK, PeekedInv, TempInv, ThenInv, ExeIsAReleasedProgram
<1>3. ASSUME NEW p \in Procs, Works(p) PROVE IInv'
  BY <1>3 DEF Works, IInv, UpdateTypeOK, PeekedInv, TempInv, ThenInv, ExeIsAReleasedProgram
<1>4. ASSUME NEW p \in Procs, UpdateStep(p) PROVE IInv'
  <2>1. CASE UpdateFails(p)
    <3>1. Ends(p, "failed") /\ exe' = exe /\ latest' = latest
      BY <2>1 DEF UpdateFails, Ends
    <3>2. QED BY <3>1, EndsPreserves DEF IInv, ExeIsAReleasedProgram
  <2>2. CASE Peek(p)
    <3>1. CASE latest = running[p]
      <4>1. Ends(p, "ok") /\ exe' = exe /\ latest' = latest
        BY <2>2, <3>1 DEF Peek, Ends
      <4>2. QED BY <4>1, EndsPreserves DEF IInv, ExeIsAReleasedProgram
    <3>2. CASE latest # running[p]
      <4>1. UpdateTypeOK' /\ ExeIsAReleasedProgram'
        BY <2>2, <3>2 DEF Peek, IInv, UpdateTypeOK, ExeIsAReleasedProgram
      <4>2. PeekedInv'
        BY <2>2, <3>2 DEF Peek, IInv, UpdateTypeOK, PeekedInv
      <4>3. TempInv'
        BY <2>2, <3>2 DEF Peek, IInv, UpdateTypeOK, TempInv
      <4>4. ThenInv'
        BY <2>2, <3>2 DEF Peek, IInv, UpdateTypeOK, ThenInv, ExeIsAReleasedProgram
      <4>5. QED BY <4>1, <4>2, <4>3, <4>4 DEF IInv
    <3>3. QED BY <3>1, <3>2
  <2>3. CASE Fetches(p)
    <3>1. UpdateTypeOK' /\ ExeIsAReleasedProgram' /\ PeekedInv' /\ ThenInv'
      BY <2>3 DEF Fetches, IInv, UpdateTypeOK, ExeIsAReleasedProgram, PeekedInv, ThenInv, Broken
    <3>2. TempInv'
      BY <2>3 DEF Fetches, IInv, UpdateTypeOK, TempInv
    <3>3. QED BY <3>1, <3>2 DEF IInv
  <2>4. CASE Extracts(p)
    <3>1. PICK program \in {peeked[p], Broken}, h \in {peeked[p], Broken} :
            /\ temp' = [temp EXCEPT ![p] = {program}]
            /\ sum' = [sum EXCEPT ![p] = h]
            /\ h # Broken => program = peeked[p]
      BY <2>4 DEF Extracts
    <3>2. UpdateTypeOK'
      BY <2>4, <3>1 DEF Extracts, IInv, UpdateTypeOK, Broken
    <3>3. PeekedInv' /\ ThenInv' /\ ExeIsAReleasedProgram'
      BY <2>4 DEF Extracts, IInv, PeekedInv, ThenInv, ExeIsAReleasedProgram
    <3>4. TempInv'
      BY <2>4, <3>1 DEF Extracts, IInv, UpdateTypeOK, TempInv
    <3>5. QED BY <3>2, <3>3, <3>4 DEF IInv
  <2>5. CASE ArchiveEnds(p)
    <3>1. Ends(p, "panicked") /\ exe' = exe /\ latest' = latest
      BY <2>5 DEF ArchiveEnds, Ends
    <3>2. QED BY <3>1, EndsPreserves DEF IInv, ExeIsAReleasedProgram
  <2>6. CASE ChecksSum(p)
    <3>1. upc[p] = "extracted" /\ sum[p] # Broken
      BY <2>6 DEF ChecksSum
    <3>2. TempInv'
      BY <2>6, <3>1 DEF ChecksSum, IInv, UpdateTypeOK, TempInv
    <3>3. UpdateTypeOK' /\ PeekedInv' /\ ThenInv' /\ ExeIsAReleasedProgram'
      BY <2>6 DEF ChecksSum, IInv, UpdateTypeOK, PeekedInv, ThenInv, ExeIsAReleasedProgram
    <3>4. QED BY <3>2, <3>3 DEF IInv
  <2>7. CASE Replaces(p)
    <3>1. exe' = peeked[p]
      BY <2>7 DEF Replaces, IInv, TempInv
    <3>2. Ends(p, "ok") /\ latest' = latest
      BY <2>7 DEF Replaces, Ends
    <3>3. exe' \in 1..latest'
      BY <3>1, <3>2 DEF IInv, PeekedInv
    <3>4. QED BY <3>2, <3>3, EndsPreserves DEF IInv, ExeIsAReleasedProgram
  <2>8. QED BY <1>4, <2>1, <2>2, <2>3, <2>4, <2>5, <2>6, <2>7 DEF UpdateStep
<1>5. CASE UNCHANGED vars
  BY <1>2, <1>5 DEF vars
<1>6. QED BY <1>1, <1>2, <1>3, <1>4, <1>5 DEF Next, IsKilled

(* Whatever arrives, whoever else updates and wherever a process is        *)
(* killed, what is installed was released (github.go, lines 86-182).       *)
THEOREM OnlyReleasesAreInstalled == Spec => []ExeIsAReleasedProgram
<1>1. IInv => ExeIsAReleasedProgram
  BY DEF IInv
<1>2. QED BY <1>1, InitEstablishes, NextPreserves, PTL DEF Spec

-----------------------------------------------------------------------------
(* Of all steps, only the last one of an update changes the program.       *)
LEMMA OnlyReplacesInstalls ==
  ASSUME IInv, [Next]_vars, exe' # exe
  PROVE  \E p \in Procs : Replaces(p)
BY DEF Next, vars, updateVars, Publishes, IsKilled, Works, UpdateStep, UpdateFails, Peek,
       Fetches, Extracts, ArchiveEnds, ChecksSum

(* An update puts an older program in place of a newer one only when       *)
(* another update has finished since it asked for the latest release       *)
(* (main.go, lines 281-298).                                               *)
THEOREM NoUpdateGoesBack == Spec => NeverGoesBackUnlessOvertaken
<1>1. ASSUME IInv, [Next]_vars, exe' < exe
      PROVE  \E p \in Procs : upc[p] = "checked" /\ upc'[p] = "ok" /\ exeThen[p] # exe
  <2>1. exe' # exe
    BY <1>1 DEF IInv, ExeIsAReleasedProgram
  <2>2. PICK p \in Procs : Replaces(p)
    BY <1>1, <2>1, OnlyReplacesInstalls
  <2>3. exe' = peeked[p] /\ upc[p] = "checked"
    BY <1>1, <2>2 DEF Replaces, Updating, IInv, TempInv
  <2>4. upc'[p] = "ok"
    BY <1>1, <2>2 DEF Replaces, Ends, IInv, UpdateTypeOK
  <2>5. exeThen[p] # exe
    BY <1>1, <2>3 DEF IInv, UpdateTypeOK, ThenInv, PeekedInv, ExeIsAReleasedProgram
  <2>6. QED BY <2>3, <2>4, <2>5
<1>2. IInv /\ [Next]_vars =>
        [exe' < exe => \E p \in Procs :
           upc[p] = "checked" /\ upc'[p] = "ok" /\ exeThen[p] # exe]_vars
  BY <1>1
<1>3. QED BY <1>2, InitEstablishes, NextPreserves, PTL DEF Spec, NeverGoesBackUnlessOvertaken

-----------------------------------------------------------------------------
(* The slots and the logs.                                                 *)
(*                                                                         *)
(* The argument: a slot that was handed out stays below, or at, the last   *)
(* one, since a log is removed only while a younger one is there.  So a    *)
(* run that listed the slots after another one had created its log takes   *)
(* a greater slot, and pastseed, when it lists them again, comes at most   *)
(* one slot below where it was.                                            *)

Reaches(n) == \E s \in DOMAIN logs : n <= s

(* There is a last slot.                                                   *)
LastInv == \E m \in Slots : \A s \in Slots : s <= m

(* How far those that are no pastseed have come, and what stays unwritten. *)
StageInv == \A p \in Procs : command[p] # "pastseed" =>
  /\ pc[p] = "new" => slot[p] = 0
  /\ pc[p] \in {"listed", "open"} => slot[p] # 0
  /\ pc[p] \in {"new", "listed"} => wrote[p] = <<>>

(* Slots are handed out upwards.                                           *)
SlotInv == \A p \in Created : Reaches(slot[p])
SawInv == \A p \in Procs : command[p] # "pastseed" /\ slot[p] # 0 =>
  saw[p] \subseteq {q \in Created : slot[q] < slot[p]}

(* A log that nobody of these processes created is an empty one.           *)
OwnedInv == \A s \in DOMAIN logs : logs[s] = <<>> \/ \E p \in Created : slot[p] = s

(* What pastseed has read.                                                 *)
PastseedInv == \A p \in Procs : command[p] = "pastseed" =>
  /\ pc[p] = "new" /\ slot[p] = 0 => offset[p] = FirstOffset
  /\ pc[p] = "new" /\ slot[p] # 0 =>
       Reaches(slot[p] + offset[p] - 2) /\ slot[p]..biggest[p] \subseteq readThrough[p]
  /\ pc[p] = "listed" =>
       /\ slot[p] # 0 => Reaches(slot[p] + offset[p] - 1)
       /\ slot[p] + 1..biggest[p] \subseteq readThrough[p]

LogsInv ==
  /\ WorkdirTypeOK
  /\ LastInv /\ StageInv /\ SlotInv /\ SawInv /\ OwnedInv
  /\ LogsAreWholeUnlessRaced
  /\ PastseedInv /\ PastseedPassesNoLogOver

(* The least-number principle, and what it says of bounded sets.           *)
LEMMA Least ==
  ASSUME NEW T \in SUBSET Nat, T # {}
  PROVE  \E x \in T : \A y \in T : x <= y
<1> DEFINE R == OpToRel(<, Nat)
<1>1. IsWellFoundedOn(R, Nat) BY NatLessThanWellFounded
<1>2. \A x, y \in Nat : y < x => <<y, x>> \in R BY DEF OpToRel
<1> HIDE DEF R
<1>3. PICK x \in T : \A y \in T : ~ (<<y, x>> \in R) BY <1>1, WFMin
<1>4. \A y \in T : ~(y < x) BY <1>2, <1>3
<1>5. \A y \in T : x <= y BY <1>4
<1> QED BY <1>5

LEMMA Greatest ==
  ASSUME NEW S \in SUBSET Nat, S # {}, NEW n \in Nat, \A s \in S : s <= n
  PROVE  \E m \in S : \A s \in S : s <= m
<1> DEFINE T == {b \in Nat : \A s \in S : s <= b}
<1>1. PICK m \in T : \A y \in T : m <= y BY Least
<1>2. m \in Nat /\ \A s \in S : s <= m OBVIOUS
<1>3. m \in S
  <2>1. SUFFICES ASSUME m \notin S PROVE FALSE OBVIOUS
  <2>2. \A s \in S : s < m BY <1>2, <2>1
  <2>3. PICK s \in S : TRUE OBVIOUS
  <2>4. m # 0 BY <2>2, <2>3
  <2>5. m - 1 \in T BY <1>2, <2>2, <2>4
  <2> QED BY <1>1, <1>2, <2>5
<1> QED BY <1>2, <1>3

LEMMA MaxOfIsLast ==
  ASSUME NEW S, \E m \in S : \A s \in S : s <= m
  PROVE  MaxOf(S) \in S /\ \A s \in S : s <= MaxOf(S)
  BY DEF MaxOf

(* What pastseed takes from a log is a seed.                               *)
LEMMA ScanFindsSeeds ==
  ASSUME NEW lines \in Seq(Lines)
  PROVE  \A line \in ScanSeeds(lines) : line \in Lines /\ line.kind = "seed"
<1> DEFINE seeds == {i \in DOMAIN lines : /\ lines[i].kind = "seed"
                                          /\ \A j \in 1..i : lines[j].kind # "long"}
<1>1. CASE seeds = {} BY <1>1 DEF ScanSeeds
<1>2. CASE seeds # {}
  <2>1. seeds \in SUBSET Nat /\ Len(lines) \in Nat /\ \A i \in seeds : i <= Len(lines)
    OBVIOUS
  <2> HIDE DEF seeds
  <2>2. MaxOf(seeds) \in seeds BY <1>2, <2>1, Greatest, MaxOfIsLast
  <2>3. ScanSeeds(lines) = {lines[MaxOf(seeds)]} BY <1>2 DEF ScanSeeds, seeds
  <2>4. lines[MaxOf(seeds)] \in Lines /\ lines[MaxOf(seeds)].kind = "seed"
    BY <2>2 DEF seeds
  <2> QED BY <2>3, <2>4
<1> QED BY <1>1, <1>2

LEMMA LastSlot ==
  ASSUME WorkdirTypeOK, LastInv
  PROVE  /\ MaxOf(Slots) \in Nat
         /\ \A s \in DOMAIN logs : s <= MaxOf(Slots)
         /\ MaxOf(Slots) # 0 => MaxOf(Slots) \in DOMAIN logs
<1>1. MaxOf(Slots) \in Slots /\ \A s \in Slots : s <= MaxOf(Slots)
  BY MaxOfIsLast DEF LastInv
<1>2. Slots = DOMAIN logs \cup {0} /\ DOMAIN logs \subseteq Nat \ {0} BY DEF Slots, WorkdirTypeOK
<1> QED BY <1>1, <1>2

(* Those whose log was created are no longer touched.                      *)
LEMMA SameCreated ==
  ASSUME SlotInv, OwnedInv, LogsAreWholeUnlessRaced,
         logs' = logs, wrote' = wrote, Created' = Created,
         \A q \in Created : slot'[q] = slot[q] /\ saw'[q] = saw[q]
  PROVE  SlotInv' /\ OwnedInv' /\ LogsAreWholeUnlessRaced'
<1>1. SlotInv' BY DEF SlotInv, Reaches
<1>2. OwnedInv' BY DEF OwnedInv
<1>3. LogsAreWholeUnlessRaced' BY DEF LogsAreWholeUnlessRaced, Raced
<1> QED BY <1>1, <1>2, <1>3

(* A process ends, or is killed, and with it what was not yet created.     *)
Quits(p) ==
  /\ \E how \in {"over", "killed", "none"} : pc' = [pc EXCEPT ![p] = how]
  /\ slot' \in {slot, [slot EXCEPT ![p] = 0]}
  /\ command[p] # "pastseed" /\ pc[p] \in {"new", "listed"} => slot'[p] = 0
  /\ command[p] # "pastseed" /\ pc[p] \notin {"new", "listed"} => slot' = slot
  /\ UNCHANGED <<logs, command, wrote, saw, pastseedVars>>

LEMMA QuitsPreserves ==
  ASSUME LogsInv, NEW p \in Procs, Quits(p)
  PROVE  LogsInv'
<1> USE DEF Quits, pastseedVars
<1>1. WorkdirTypeOK' BY DEF LogsInv, WorkdirTypeOK
<1>2. LastInv' BY DEF LogsInv, LastInv, Slots
<1>3. StageInv' BY DEF LogsInv, WorkdirTypeOK, StageInv
<1>4. Created' = Created /\ \A q \in Created : slot'[q] = slot[q] /\ saw'[q] = saw[q]
  BY DEF LogsInv, WorkdirTypeOK, StageInv, Created
<1>5. SlotInv' /\ OwnedInv' /\ LogsAreWholeUnlessRaced' BY <1>4, SameCreated DEF LogsInv
<1>6. SawInv' BY <1>4 DEF LogsInv, WorkdirTypeOK, SawInv
<1>7. PastseedInv' BY DEF LogsInv, WorkdirTypeOK, PastseedInv, Reaches
<1>8. PastseedPassesNoLogOver' BY DEF LogsInv, WorkdirTypeOK, PastseedPassesNoLogOver
<1> QED BY <1>1, <1>2, <1>3, <1>5, <1>6, <1>7, <1>8 DEF LogsInv

LEMMA ListsPreserves ==
  ASSUME LogsInv, NEW p \in Procs, Lists(p)
  PROVE  LogsInv'
<1> USE DEF Lists, pastseedVars
<1> DEFINE M == MaxOf(Slots)
<1>0. M \in Nat /\ (\A s \in DOMAIN logs : s <= M) /\ slot' = [slot EXCEPT ![p] = M + 1]
  <2>1. M \in Nat /\ \A s \in DOMAIN logs : s <= M BY LastSlot DEF LogsInv
  <2> HIDE DEF M
  <2>2. FindIDSlot(0) = M + 1 BY <2>1 DEF FindIDSlot, M
  <2> QED BY <2>1, <2>2
<1> HIDE DEF M
<1>1. WorkdirTypeOK'
  <2>1. saw' \in [Procs -> SUBSET Procs] BY DEF LogsInv, WorkdirTypeOK, Created
  <2> QED BY <1>0, <2>1 DEF LogsInv, WorkdirTypeOK
<1>2. LastInv' BY DEF LogsInv, LastInv, Slots
<1>3. StageInv' BY <1>0 DEF LogsInv, WorkdirTypeOK, StageInv
<1>4. Created' = Created /\ \A q \in Created : slot'[q] = slot[q] /\ saw'[q] = saw[q]
  BY DEF LogsInv, WorkdirTypeOK, Created
<1>5. SlotInv' /\ OwnedInv' /\ LogsAreWholeUnlessRaced' BY <1>4, SameCreated DEF LogsInv
<1>6. SawInv'
  <2>1. \A q \in Created : slot[q] < M + 1
    BY <1>0 DEF LogsInv, WorkdirTypeOK, SlotInv, Reaches, Created
  <2>2. \A q \in Procs : q # p => slot'[q] = slot[q] /\ saw'[q] = saw[q]
    BY DEF LogsInv, WorkdirTypeOK
  <2>3. p \notin Created BY DEF Created
  <2>4. slot'[p] = M + 1 /\ saw'[p] = Created BY <1>0 DEF LogsInv, WorkdirTypeOK
  <2> QED BY <1>4, <2>1, <2>2, <2>3, <2>4 DEF LogsInv, SawInv, Created
<1>7. PastseedInv' BY DEF LogsInv, WorkdirTypeOK, PastseedInv, Reaches
<1>8. PastseedPassesNoLogOver' BY DEF LogsInv, WorkdirTypeOK, PastseedPassesNoLogOver
<1> QED BY <1>1, <1>2, <1>3, <1>5, <1>6, <1>7, <1>8 DEF LogsInv

LEMMA ExceptIsSeq ==
  ASSUME NEW S, NEW f \in Seq(S), NEW i \in Nat, NEW x \in S
  PROVE  [f EXCEPT ![i] = x] \in Seq(S)
<1>1. PICK n \in Nat : f \in [1..n -> S] OBVIOUS
<1>2. [f EXCEPT ![i] = x] \in [1..n -> S] BY <1>1
<1> QED BY <1>2

LEMMA SmallerSawAreNotRivals ==
  ASSUME SawInv, NEW p \in Procs, NEW q \in Created,
         command[p] # "pastseed", slot[p] # 0, slot[q] = slot[p], slot[p] \in Nat
  PROVE  q \notin saw[p]
  BY DEF SawInv

LEMMA OpensPreserves ==
  ASSUME LogsInv, NEW p \in Procs, OpensLog(p)
  PROVE  LogsInv'
<1> USE DEF pastseedVars
<1>1. /\ command[p] # "pastseed" /\ pc[p] = "listed" /\ slot[p] # 0 /\ slot[p] \in Nat
      /\ wrote[p] = <<>> /\ p \notin Created
  BY DEF OpensLog, LogsInv, StageInv, WorkdirTypeOK, Created
<1>2. /\ pc' = [pc EXCEPT ![p] = "open"]
      /\ UNCHANGED <<command, slot, wrote, saw, pastseedVars>>
  BY DEF OpensLog
<1>3. /\ DOMAIN logs' = DOMAIN logs \cup {slot[p]}
      /\ \A s \in DOMAIN logs : logs'[s] = logs[s]
      /\ slot[p] \notin DOMAIN logs => logs'[slot[p]] = <<>>
  BY DEF OpensLog
<1>4. Created' = Created \cup {p}
  BY <1>1, <1>2 DEF LogsInv, WorkdirTypeOK, Created
<1>5. WorkdirTypeOK'
  <2>1. \A s \in DOMAIN logs' : logs'[s] \in Seq(Lines)
    <3>1. <<>> \in Seq(Lines) OBVIOUS
    <3>2. \A s \in DOMAIN logs : logs[s] \in Seq(Lines) BY DEF LogsInv, WorkdirTypeOK
    <3> QED BY <1>3, <3>1, <3>2
  <2>2. DOMAIN logs' \subseteq Nat \ {0} BY <1>1, <1>3 DEF LogsInv, WorkdirTypeOK
  <2> QED BY <1>2, <2>1, <2>2 DEF LogsInv, WorkdirTypeOK
<1>6. LastInv'
  <2>1. PICK m \in Slots : \A s \in Slots : s <= m BY DEF LogsInv, LastInv
  <2>2. Slots' = Slots \cup {slot[p]} BY <1>3 DEF Slots
  <2>3. Slots \subseteq Nat BY DEF LogsInv, WorkdirTypeOK, Slots
  <2>4. CASE slot[p] <= m BY <2>1, <2>2, <2>4 DEF LastInv
  <2>5. CASE ~(slot[p] <= m)
    <3>1. \A s \in Slots' : s <= slot[p] BY <1>1, <2>1, <2>2, <2>3, <2>5
    <3> QED BY <2>2, <3>1 DEF LastInv
  <2> QED BY <2>4, <2>5
<1>7. StageInv' BY <1>1, <1>2 DEF LogsInv, WorkdirTypeOK, StageInv
<1>8. \A n : Reaches(n) => Reaches(n)' BY <1>3 DEF Reaches
<1>9. SlotInv'
  <2>1. slot[p] \in DOMAIN logs' /\ slot[p] <= slot[p] BY <1>1, <1>3
  <2>2. Reaches(slot[p])' BY <1>2, <2>1 DEF Reaches
  <2> QED BY <1>2, <1>4, <1>8, <2>2 DEF LogsInv, SlotInv
<1>10. SawInv' BY <1>2, <1>4 DEF LogsInv, SawInv
<1>11. OwnedInv' BY <1>2, <1>3, <1>4 DEF LogsInv, OwnedInv
<1>12. ASSUME NEW q \in Created, slot[q] = slot[p] PROVE Raced(p, q)' /\ Raced(q, p)'
  <2>1. q \notin saw[p] BY <1>1, <1>12, SmallerSawAreNotRivals DEF LogsInv
  <2>2. q \in Procs /\ command[q] # "pastseed" /\ slot[q] # 0 /\ q # p BY <1>1 DEF Created
  <2>3. p \notin saw[q] BY <1>1, <2>2 DEF LogsInv, SawInv
  <2> QED BY <1>2, <2>1, <2>2, <2>3 DEF Raced
<1>13. LogsAreWholeUnlessRaced'
  <2>1. ASSUME NEW q \in Created
        PROVE  \/ slot[q] \notin DOMAIN logs'
               \/ logs'[slot[q]] = wrote[q]
               \/ \E r \in Created' : Raced(q, r)' /\ slot[r] = slot[q]
    <3>1. CASE slot[q] = slot[p] BY <3>1, <1>4, <1>12
    <3>2. CASE slot[q] # slot[p] /\ slot[q] \in DOMAIN logs
      <4>1. logs'[slot[q]] = logs[slot[q]] BY <3>2, <1>3
      <4>2. \/ logs[slot[q]] = wrote[q]
            \/ \E r \in Created : Raced(q, r) /\ slot[r] = slot[q]
        BY <3>2 DEF LogsInv, LogsAreWholeUnlessRaced
      <4> QED BY <4>1, <4>2, <1>2, <1>4 DEF Raced
    <3>3. CASE slot[q] # slot[p] /\ slot[q] \notin DOMAIN logs BY <3>3, <1>3
    <3> QED BY <3>1, <3>2, <3>3
  <2>2. \/ logs'[slot[p]] = wrote[p]
        \/ \E r \in Created' : Raced(p, r)' /\ slot[r] = slot[p]
    <3>1. CASE slot[p] \notin DOMAIN logs BY <3>1, <1>1, <1>3
    <3>2. CASE slot[p] \in DOMAIN logs
      <4>1. logs'[slot[p]] = logs[slot[p]] BY <3>2, <1>3
      <4>2. logs[slot[p]] = <<>> \/ \E r \in Created : slot[r] = slot[p]
        BY <3>2 DEF LogsInv, OwnedInv
      <4> QED BY <4>1, <4>2, <1>1, <1>4, <1>12
    <3> QED BY <3>1, <3>2
  <2> QED BY <1>2, <1>4, <2>1, <2>2 DEF LogsAreWholeUnlessRaced
<1>14. PastseedInv' BY <1>1, <1>2, <1>8 DEF LogsInv, WorkdirTypeOK, PastseedInv
<1>15. PastseedPassesNoLogOver'
  BY <1>1, <1>2 DEF LogsInv, WorkdirTypeOK, PastseedPassesNoLogOver
<1> QED BY <1>5, <1>6, <1>7, <1>9, <1>10, <1>11, <1>13, <1>14, <1>15 DEF LogsInv

LEMMA LogsPreserves ==
  ASSUME LogsInv, NEW p \in Procs, Logs(p)
  PROVE  LogsInv'
<1> USE DEF pastseedVars
<1> DEFINE n == Len(wrote[p]) + 1
<1>1. PICK kind \in Kinds :
        /\ wrote' = [wrote EXCEPT ![p] = Append(@, Line(kind, p, n))]
        /\ logs' = IF slot[p] \notin DOMAIN logs THEN logs
                   ELSE [logs EXCEPT ![slot[p]] =
                           IF n <= Len(logs[slot[p]])
                           THEN [logs[slot[p]] EXCEPT ![n] = Line(kind, p, n)]
                           ELSE Append(logs[slot[p]], Line(kind, p, n))]
  BY DEF Logs
<1>2. /\ command[p] = "run" /\ pc[p] = "open" /\ Len(wrote[p]) < MaxLines
      /\ UNCHANGED <<command, pc, slot, saw, pastseedVars>>
  BY DEF Logs
<1> DEFINE line == Line(kind, p, n)
<1>3. wrote[p] \in Seq(Lines) /\ n \in Nat /\ 1 <= n /\ line \in Lines
  <2>1. wrote[p] \in Seq(Lines) BY DEF LogsInv, WorkdirTypeOK
  <2>2. Len(wrote[p]) \in Nat BY <2>1
  <2>3. n \in 1..MaxLines BY <1>2, <2>2, WorkdirAssumption
  <2> QED BY <2>1, <2>2, <2>3 DEF Line, Lines
<1>4. p \in Created /\ slot[p] # 0 /\ slot[p] \in Nat
  BY <1>2 DEF LogsInv, StageInv, WorkdirTypeOK, Created
<1>5. Created' = Created BY <1>2 DEF Created
<1> HIDE DEF line, n
<1>6. /\ DOMAIN logs' = DOMAIN logs
      /\ \A s \in DOMAIN logs : s # slot[p] => logs'[s] = logs[s]
      /\ \A s \in DOMAIN logs : logs'[s] \in Seq(Lines)
  <2>1. CASE slot[p] \notin DOMAIN logs
    BY <1>1, <2>1 DEF LogsInv, WorkdirTypeOK
  <2>2. CASE slot[p] \in DOMAIN logs
    <3> DEFINE old == logs[slot[p]]
               new == IF n <= Len(old) THEN [old EXCEPT ![n] = line] ELSE Append(old, line)
    <3>1. old \in Seq(Lines) BY <2>2 DEF LogsInv, WorkdirTypeOK
    <3>2. new \in Seq(Lines)
      <4>1. CASE n <= Len(old)
        <5>1. \A f \in Seq(Lines), i \in Nat, l \in Lines :
                [f EXCEPT ![i] = l] \in Seq(Lines)
          BY ONLY ExceptIsSeq
        <5> QED BY <1>3, <3>1, <4>1, <5>1
      <4>2. CASE ~(n <= Len(old)) BY <4>2, <1>3, <3>1
      <4> QED BY <4>1, <4>2
    <3>3. logs' = [logs EXCEPT ![slot[p]] = new] BY <1>1, <2>2 DEF line
    <3> HIDE DEF new
    <3> QED BY <3>2, <3>3, <2>2 DEF LogsInv, WorkdirTypeOK
  <2> QED BY <2>1, <2>2
<1>7. WorkdirTypeOK'
  <2>1. wrote' \in [Procs -> Seq(Lines)] BY <1>1, <1>3 DEF LogsInv, WorkdirTypeOK, line
  <2> QED BY <1>2, <1>6, <2>1 DEF LogsInv, WorkdirTypeOK
<1>8. LastInv' BY <1>6 DEF LogsInv, LastInv, Slots
<1>9. StageInv' BY <1>1, <1>2 DEF LogsInv, WorkdirTypeOK, StageInv
<1>10. \A k : Reaches(k)' <=> Reaches(k) BY <1>6 DEF Reaches
<1>11. SlotInv' /\ SawInv' BY <1>2, <1>5, <1>10 DEF LogsInv, SlotInv, SawInv
<1>12. OwnedInv' BY <1>2, <1>4, <1>5, <1>6 DEF LogsInv, OwnedInv
<1>13. LogsAreWholeUnlessRaced'
  <2>1. ASSUME NEW q \in Created
        PROVE  \/ slot[q] \notin DOMAIN logs'
               \/ logs'[slot[q]] = wrote'[q]
               \/ \E r \in Created : Raced(q, r)' /\ slot[r] = slot[q]
    <3>1. CASE q # p /\ slot[q] = slot[p]
      <4>1. q \in Procs /\ command[q] # "pastseed" /\ slot[q] # 0 BY DEF Created
      <4>2. q \notin saw[p]
        BY <1>2, <1>4, <3>1, SmallerSawAreNotRivals DEF LogsInv
      <4>3. p \notin saw[q]
        BY <1>4, <3>1, <4>1, SmallerSawAreNotRivals DEF LogsInv
      <4> QED BY <1>2, <1>4, <3>1, <4>2, <4>3 DEF Raced
    <3>2. CASE slot[q] # slot[p]
      <4>1. wrote'[q] = wrote[q] BY <1>1, <3>2 DEF LogsInv, WorkdirTypeOK, Created
      <4> QED BY <4>1, <1>2, <1>6, <3>2 DEF LogsInv, LogsAreWholeUnlessRaced, Raced
    <3>3. CASE q = p
      <4>1. wrote'[p] = Append(wrote[p], line) BY <1>1 DEF LogsInv, WorkdirTypeOK, line
      <4>2. CASE slot[p] \in DOMAIN logs /\ logs[slot[p]] = wrote[p]
        <5>1. ~(n <= Len(wrote[p]))
          <6>1. Len(wrote[p]) \in Nat BY <1>3
          <6> QED BY <6>1 DEF n
        <5>2. logs'[slot[p]] = Append(wrote[p], line) BY <1>1, <4>2, <5>1 DEF line
        <5> QED BY <3>3, <4>1, <5>2
      <4> QED BY <1>2, <1>6, <3>3, <4>2 DEF LogsInv, LogsAreWholeUnlessRaced, Raced
    <3> QED BY <3>1, <3>2, <3>3
  <2> QED BY <1>2, <1>5, <2>1 DEF LogsAreWholeUnlessRaced
<1>14. PastseedInv' BY <1>2, <1>10 DEF LogsInv, PastseedInv
<1>15. PastseedPassesNoLogOver' BY <1>2 DEF LogsInv, PastseedPassesNoLogOver
<1> QED BY <1>7, <1>8, <1>9, <1>11, <1>12, <1>13, <1>14, <1>15 DEF LogsInv

LEMMA CleansPreserves == LogsInv /\ Cleans => LogsInv'
<1> SUFFICES ASSUME LogsInv, Cleans PROVE LogsInv' OBVIOUS
<1> USE DEF pastseedVars
<1>1. PICK oldest \in DOMAIN logs :
        /\ \A s \in DOMAIN logs : oldest <= s
        /\ logs' = [s \in DOMAIN logs \ {oldest} |-> logs[s]]
  BY DEF Cleans
<1>2. /\ Cardinality(DOMAIN logs) > 1
      /\ UNCHANGED <<command, pc, slot, wrote, saw, pastseedVars>>
  BY DEF Cleans
<1>3. PICK younger \in DOMAIN logs : younger # oldest
  <2>1. SUFFICES ASSUME \A s \in DOMAIN logs : s = oldest PROVE FALSE OBVIOUS
  <2>2. DOMAIN logs = {oldest} BY <2>1
  <2>3. Cardinality(DOMAIN logs) = 1 BY <2>2, FS_Singleton
  <2> QED BY <1>2, <2>3
<1>4. DOMAIN logs \subseteq Nat \ {0} BY DEF LogsInv, WorkdirTypeOK
<1>5. DOMAIN logs' = DOMAIN logs \ {oldest} /\ \A s \in DOMAIN logs' : logs'[s] = logs[s]
  BY <1>1
<1>6. Created' = Created BY <1>2 DEF Created
<1>7. \A n \in Int : Reaches(n) => Reaches(n)'
  BY <1>1, <1>3, <1>4, <1>5 DEF Reaches
<1>8. WorkdirTypeOK' BY <1>2, <1>5 DEF LogsInv, WorkdirTypeOK
<1>9. LastInv'
  <2>1. PICK m \in Slots : \A s \in Slots : s <= m BY DEF LogsInv, LastInv
  <2>2. m # oldest BY <1>1, <1>3, <1>4, <2>1 DEF Slots
  <2> QED BY <1>5, <2>1, <2>2 DEF LastInv, Slots
<1>10. StageInv' BY <1>2 DEF LogsInv, StageInv
<1>11. SlotInv' BY <1>2, <1>6, <1>7 DEF LogsInv, SlotInv, WorkdirTypeOK, Created
<1>12. SawInv' BY <1>2, <1>6 DEF LogsInv, SawInv
<1>13. OwnedInv' BY <1>2, <1>5, <1>6 DEF LogsInv, OwnedInv
<1>14. LogsAreWholeUnlessRaced'
  BY <1>2, <1>5, <1>6 DEF LogsInv, LogsAreWholeUnlessRaced, Raced
<1>15. PastseedInv' BY <1>2, <1>7 DEF LogsInv, PastseedInv, WorkdirTypeOK
<1>16. PastseedPassesNoLogOver' BY <1>2 DEF LogsInv, PastseedPassesNoLogOver
<1> QED BY <1>8, <1>9, <1>10, <1>11, <1>12, <1>13, <1>14, <1>15, <1>16 DEF LogsInv

(* When pastseed lists the slots again, it comes at most one slot lower.   *)
LEMMA PastseedListsPreserves ==
  ASSUME LogsInv, NEW p \in Procs, PastseedLists(p)
  PROVE  LogsInv'
<1> USE DEF pastseedVars
<1> DEFINE M == MaxOf(Slots)
           next == FindIDSlot(offset[p])
<1>1. M \in Nat /\ (\A s \in DOMAIN logs : s <= M) /\ (M # 0 => M \in DOMAIN logs)
  BY LastSlot DEF LogsInv
<1>2. /\ command[p] = "pastseed" /\ pc[p] = "new"
      /\ pc' = [pc EXCEPT ![p] = "listed"] /\ slot' = [slot EXCEPT ![p] = next]
      /\ biggest' = [biggest EXCEPT ![p] = IF slot[p] = 0 THEN M ELSE @]
      /\ UNCHANGED <<logs, command, wrote, saw, offset, answer, readThrough>>
  BY DEF PastseedLists
<1>3. next = IF offset[p] > M + 1 THEN 0 ELSE M + 1 - offset[p] BY DEF FindIDSlot
<1> HIDE DEF M, next
<1>4. slot[p] \in Nat /\ offset[p] \in Nat \ {0} /\ biggest[p] \in Nat
  BY DEF LogsInv, WorkdirTypeOK
<1>5. next \in Nat BY <1>1, <1>3, <1>4
<1>6. WorkdirTypeOK' BY <1>1, <1>2, <1>5 DEF LogsInv, WorkdirTypeOK
<1>7. LastInv' BY <1>2 DEF LogsInv, LastInv, Slots
<1>8. StageInv' BY <1>2 DEF LogsInv, WorkdirTypeOK, StageInv
<1>9. Created' = Created /\ \A q \in Created : slot'[q] = slot[q] /\ saw'[q] = saw[q]
  BY <1>2 DEF LogsInv, WorkdirTypeOK, Created
<1>10. SlotInv' /\ OwnedInv' /\ LogsAreWholeUnlessRaced'
  BY <1>2, <1>9, SameCreated DEF LogsInv
<1>11. SawInv' BY <1>2, <1>9 DEF LogsInv, WorkdirTypeOK, SawInv
<1>12. PastseedInv'
  <2>1. ASSUME NEW q \in Procs, q # p
        PROVE  /\ pc'[q] = pc[q] /\ slot'[q] = slot[q] /\ offset'[q] = offset[q]
               /\ biggest'[q] = biggest[q] /\ readThrough'[q] = readThrough[q]
    BY <1>2, <2>1 DEF LogsInv, WorkdirTypeOK
  <2>2. \A k : Reaches(k)' <=> Reaches(k) BY <1>2 DEF Reaches
  <2>3. pc'[p] = "listed" /\ slot'[p] = next /\ offset'[p] = offset[p]
        /\ readThrough'[p] = readThrough[p]
        /\ biggest'[p] = IF slot[p] = 0 THEN M ELSE biggest[p]
    BY <1>2 DEF LogsInv, WorkdirTypeOK
  <2>4. next # 0 => Reaches(next + offset[p] - 1)
    <3>1. ASSUME next # 0 PROVE next + offset[p] - 1 = M /\ M # 0
      BY <3>1, <1>1, <1>3, <1>4
    <3>2. M <= M BY <1>1
    <3> QED BY <1>1, <3>1, <3>2 DEF Reaches
  <2>5. next + 1..biggest'[p] \subseteq readThrough[p]
    <3>1. CASE slot[p] = 0
      <4>1. offset[p] = 1 BY <1>2, <3>1 DEF LogsInv, PastseedInv, FirstOffset
      <4>2. next = M BY <1>1, <1>3, <4>1
      <4>3. next + 1..biggest'[p] = {} BY <1>1, <2>3, <3>1, <4>2
      <4> QED BY <4>3
    <3>2. CASE slot[p] # 0
      <4>1. Reaches(slot[p] + offset[p] - 2) /\ slot[p]..biggest[p] \subseteq readThrough[p]
        BY <1>2, <3>2 DEF LogsInv, PastseedInv
      <4>2. PICK s \in DOMAIN logs : slot[p] + offset[p] - 2 <= s BY <4>1 DEF Reaches
      <4>3. s \in Nat /\ s <= M BY <1>1 DEF LogsInv, WorkdirTypeOK
      <4>4. slot[p] <= next + 1 BY <1>1, <1>3, <1>4, <3>2, <4>2, <4>3
      <4>5. next + 1..biggest[p] \subseteq slot[p]..biggest[p] BY <1>4, <1>5, <4>4
      <4> QED BY <2>3, <3>2, <4>1, <4>5
    <3> QED BY <3>1, <3>2
  <2>6. ASSUME NEW q \in Procs, command[q] = "pastseed", q # p
        PROVE  /\ pc'[q] = "new" /\ slot'[q] = 0 => offset'[q] = FirstOffset
               /\ pc'[q] = "new" /\ slot'[q] # 0 =>
                    Reaches(slot[q] + offset[q] - 2)' /\ slot'[q]..biggest'[q] \subseteq readThrough'[q]
               /\ pc'[q] = "listed" =>
                    /\ slot'[q] # 0 => Reaches(slot[q] + offset[q] - 1)'
                    /\ slot'[q] + 1..biggest'[q] \subseteq readThrough'[q]
    BY <2>1, <2>2, <2>6 DEF LogsInv, PastseedInv
  <2>7. slot'[p] # 0 => Reaches(slot[p] + offset[p] - 1)'
    BY <1>2, <2>2, <2>3, <2>4
  <2> QED BY <1>2, <2>3, <2>5, <2>6, <2>7 DEF PastseedInv
<1>13. PastseedPassesNoLogOver'
  BY <1>2 DEF LogsInv, WorkdirTypeOK, PastseedPassesNoLogOver
<1> QED BY <1>6, <1>7, <1>8, <1>10, <1>11, <1>12, <1>13 DEF LogsInv

LEMMA PastseedReadsPreserves ==
  ASSUME LogsInv, NEW p \in Procs, PastseedReads(p)
  PROVE  LogsInv'
<1> USE DEF pastseedVars
<1> DEFINE found == ScanSeeds(logs[slot[p]])
<1>1. command[p] = "pastseed" /\ pc[p] = "listed" /\ slot[p] \in DOMAIN logs
      /\ UNCHANGED <<logs, command, slot, wrote, saw, biggest>>
  BY DEF PastseedReads
<1>2. \/ /\ found # {} /\ pc' = [pc EXCEPT ![p] = "found"]
         /\ answer' = [answer EXCEPT ![p] = found]
         /\ UNCHANGED <<offset, readThrough>>
      \/ /\ pc' = [pc EXCEPT ![p] = "new"]
         /\ offset' = [offset EXCEPT ![p] = @ + 1]
         /\ readThrough' = [readThrough EXCEPT ![p] = @ \cup {slot[p]}]
         /\ UNCHANGED answer
  BY DEF PastseedReads
<1>3. \A line \in found : line \in Lines /\ line.kind = "seed"
  <2>1. logs[slot[p]] \in Seq(Lines) BY <1>1 DEF LogsInv, WorkdirTypeOK
  <2> QED BY <2>1, ScanFindsSeeds
<1> HIDE DEF found
<1>4. slot[p] \in Nat \ {0} /\ offset[p] \in Nat \ {0} /\ biggest[p] \in Nat
      /\ readThrough[p] \subseteq Nat
  BY <1>1 DEF LogsInv, WorkdirTypeOK
<1>5. Reaches(slot[p] + offset[p] - 1) /\ slot[p] + 1..biggest[p] \subseteq readThrough[p]
  BY <1>1, <1>4 DEF LogsInv, PastseedInv
<1>6. WorkdirTypeOK'
  <2>1. answer' \in [Procs -> SUBSET Lines]
    <3>1. found \in SUBSET Lines BY <1>3
    <3>2. answer \in [Procs -> SUBSET Lines] BY DEF LogsInv, WorkdirTypeOK
    <3>3. answer' \in {answer, [answer EXCEPT ![p] = found]} BY <1>2
    <3> QED BY <3>1, <3>2, <3>3
  <2>2. offset' \in [Procs -> Nat \ {0}] /\ readThrough' \in [Procs -> SUBSET Nat]
    <3>1. offset \in [Procs -> Nat \ {0}] /\ readThrough \in [Procs -> SUBSET Nat]
      BY DEF LogsInv, WorkdirTypeOK
    <3>2. readThrough[p] \cup {slot[p]} \in SUBSET Nat /\ offset[p] + 1 \in Nat \ {0} BY <1>4
    <3>3. offset' \in {offset, [offset EXCEPT ![p] = offset[p] + 1]} BY <1>2
    <3>4. readThrough' \in {readThrough, [readThrough EXCEPT ![p] = readThrough[p] \cup {slot[p]}]}
      BY <1>2
    <3>5. offset' \in [Procs -> Nat \ {0}] BY <3>1, <3>2, <3>3
    <3>6. readThrough' \in [Procs -> SUBSET Nat] BY <3>1, <3>2, <3>4
    <3> QED BY <3>5, <3>6
  <2> QED BY <1>1, <1>2, <2>1, <2>2 DEF LogsInv, WorkdirTypeOK
<1>7. LastInv' BY <1>1 DEF LogsInv, LastInv, Slots
<1>8. StageInv' BY <1>1, <1>2 DEF LogsInv, WorkdirTypeOK, StageInv
<1>9. Created' = Created BY <1>1, <1>2 DEF LogsInv, WorkdirTypeOK, Created
<1>10. SlotInv' /\ OwnedInv' /\ LogsAreWholeUnlessRaced'
  BY <1>1, <1>9, SameCreated DEF LogsInv
<1>11. SawInv' BY <1>1, <1>9 DEF LogsInv, SawInv
<1>12. \A k : Reaches(k)' <=> Reaches(k) BY <1>1 DEF Reaches
<1>13. \A q \in Procs : q # p =>
        /\ pc'[q] = pc[q] /\ slot'[q] = slot[q] /\ offset'[q] = offset[q]
        /\ biggest'[q] = biggest[q] /\ readThrough'[q] = readThrough[q]
        /\ answer'[q] = answer[q]
  BY <1>1, <1>2 DEF LogsInv, WorkdirTypeOK
<1>14. ASSUME pc'[p] = "new"
       PROVE  /\ Reaches(slot[p] + offset[p] - 2)'
              /\ slot[p]..biggest[p] \subseteq readThrough'[p]
  <2>1. offset'[p] = offset[p] + 1 /\ readThrough'[p] = readThrough[p] \cup {slot[p]}
    BY <1>2, <1>14 DEF LogsInv, WorkdirTypeOK
  <2>2. slot[p] + offset'[p] - 2 = slot[p] + offset[p] - 1 BY <1>4, <2>1
  <2>3. slot[p]..biggest[p] \subseteq (slot[p] + 1..biggest[p]) \cup {slot[p]} BY <1>4
  <2>4. Reaches(slot[p] + offset[p] - 2)' BY <1>1, <1>5, <1>12, <2>2
  <2> QED BY <1>5, <2>1, <2>3, <2>4
<1>15. pc'[p] \in {"new", "found"} BY <1>2 DEF LogsInv, WorkdirTypeOK
<1>16. PastseedInv'
  BY <1>1, <1>4, <1>12, <1>13, <1>14, <1>15 DEF LogsInv, PastseedInv
<1>17. PastseedPassesNoLogOver'
  <2>1. ASSUME pc'[p] = "found"
        PROVE  /\ slot[p] + 1..biggest[p] \subseteq readThrough'[p]
               /\ \A line \in answer'[p] : line.kind = "seed"
    <3>1. answer'[p] = found /\ readThrough'[p] = readThrough[p]
      BY <1>2, <2>1 DEF LogsInv, WorkdirTypeOK
    <3> QED BY <1>3, <1>5, <3>1
  <2> QED BY <1>1, <1>13, <2>1 DEF LogsInv, PastseedPassesNoLogOver
<1> QED BY <1>6, <1>7, <1>8, <1>10, <1>11, <1>16, <1>17 DEF LogsInv

LEMMA SameWorkdir == LogsInv /\ UNCHANGED workdirVars => LogsInv'
<1> SUFFICES ASSUME LogsInv, UNCHANGED workdirVars PROVE LogsInv' OBVIOUS
<1> USE DEF workdirVars, pastseedVars
<1>1. WorkdirTypeOK' BY DEF LogsInv, WorkdirTypeOK
<1>2. LastInv' BY DEF LogsInv, LastInv, Slots
<1>3. StageInv' BY DEF LogsInv, StageInv
<1>4. Created' = Created BY DEF Created
<1>5. SlotInv' /\ OwnedInv' /\ LogsAreWholeUnlessRaced' BY <1>4, SameCreated DEF LogsInv
<1>6. SawInv' BY <1>4 DEF LogsInv, SawInv
<1>7. PastseedInv' BY DEF LogsInv, PastseedInv, Reaches
<1>8. PastseedPassesNoLogOver' BY DEF LogsInv, PastseedPassesNoLogOver
<1> QED BY <1>1, <1>2, <1>3, <1>5, <1>6, <1>7, <1>8 DEF LogsInv

LEMMA LogsInitially == Init => LogsInv
<1> SUFFICES ASSUME Init PROVE LogsInv OBVIOUS
<1> USE DEF Init, WorkdirInit
<1>1. PICK past \in PastSlots : logs = [s \in {past} \ {0} |-> <<>>] OBVIOUS
<1>2. DOMAIN logs \subseteq {past} /\ past \in Nat /\ 0 \notin DOMAIN logs
      /\ \A s \in DOMAIN logs : logs[s] = <<>>
  BY <1>1, WorkdirAssumption
<1>3. WorkdirTypeOK
  <2>1. \A s \in DOMAIN logs : logs[s] \in Seq(Lines)
    <3>1. <<>> \in Seq(Lines) OBVIOUS
    <3> QED BY <1>2, <3>1
  <2>2. DOMAIN logs \subseteq Nat \ {0} BY <1>2
  <2>3. wrote \in [Procs -> Seq(Lines)]
    <3>1. <<>> \in Seq(Lines) OBVIOUS
    <3> QED BY <3>1
  <2>4. command \in [Procs -> {"run", "update", "pastseed"}] BY CommandsAssumption
  <2>5. /\ pc \in [Procs -> {"new", "listed", "open", "over", "killed", "found", "none"}]
        /\ slot \in [Procs -> Nat] /\ offset \in [Procs -> Nat \ {0}]
        /\ saw \in [Procs -> SUBSET Procs]
        /\ answer \in [Procs -> SUBSET Lines]
        /\ biggest \in [Procs -> Nat] /\ readThrough \in [Procs -> SUBSET Nat]
    BY DEF FirstOffset
  <2> QED BY <2>1, <2>2, <2>3, <2>4, <2>5 DEF WorkdirTypeOK
<1>4. LastInv
  <2>1. CASE DOMAIN logs = {} BY <2>1 DEF LastInv, Slots
  <2>2. CASE DOMAIN logs # {}
    <3>1. Slots = {0, past} BY <1>2, <2>2 DEF Slots
    <3>2. \A s \in Slots : s <= past BY <1>2, <3>1
    <3> QED BY <3>1, <3>2 DEF LastInv
  <2> QED BY <2>1, <2>2
<1>5. StageInv BY DEF StageInv
<1>6. Created = {} BY DEF Created
<1>7. SlotInv /\ SawInv /\ LogsAreWholeUnlessRaced
  BY <1>6 DEF SlotInv, SawInv, LogsAreWholeUnlessRaced
<1>8. OwnedInv BY <1>2 DEF OwnedInv
<1>9. PastseedInv /\ PastseedPassesNoLogOver BY DEF PastseedInv, PastseedPassesNoLogOver
<1> QED BY <1>3, <1>4, <1>5, <1>7, <1>8, <1>9 DEF LogsInv

(* Slots are handed out upwards, and logs belong to them.                  *)
THEOREM LogsInductive == Spec => []LogsInv
<1>1. ASSUME LogsInv, [Next]_vars PROVE LogsInv'
  <2>1. CASE UNCHANGED workdirVars BY <1>1, <2>1, SameWorkdir
  <2>2. CASE Cleans BY <1>1, <2>2, CleansPreserves
  <2>3. ASSUME NEW p \in Procs, Works(p) PROVE LogsInv'
    <3>1. CASE Lists(p) BY <1>1, <3>1, ListsPreserves
    <3>2. CASE OpensLog(p) BY <1>1, <3>2, OpensPreserves
    <3>3. CASE Logs(p) BY <1>1, <3>3, LogsPreserves
    <3>4. CASE PastseedLists(p) BY <1>1, <3>4, PastseedListsPreserves
    <3>5. CASE PastseedReads(p) BY <1>1, <3>5, PastseedReadsPreserves
    <3>6. CASE StartFails(p) \/ RunEnds(p) \/ PastseedFails(p)
      <4>1. Quits(p)
        BY <1>1, <3>6 DEF StartFails, RunEnds, PastseedFails, Quits, LogsInv, WorkdirTypeOK
      <4> QED BY <1>1, <4>1, QuitsPreserves
    <3> QED BY <2>3, <3>1, <3>2, <3>3, <3>4, <3>5, <3>6 DEF Works, WorkdirStep
  <2>4. ASSUME NEW p \in Procs, IsKilled(p) PROVE LogsInv'
    <3>1. Quits(p) BY <1>1, <2>4 DEF IsKilled, Killed, Quits, LogsInv, StageInv, WorkdirTypeOK
    <3> QED BY <1>1, <3>1, QuitsPreserves
  <2>5. ASSUME NEW p \in Procs, UpdateStep(p) PROVE LogsInv'
    <3>1. CASE \E how \in {"ok", "failed", "panicked"} : Ends(p, how) /\ pc[p] = "open"
      <4>1. Quits(p) BY <3>1 DEF Ends, Quits
      <4> QED BY <1>1, <4>1, QuitsPreserves
    <3>2. UNCHANGED workdirVars
          \/ \E how \in {"ok", "failed", "panicked"} : Ends(p, how) /\ pc[p] = "open"
      BY <2>5 DEF UpdateStep, UpdateFails, Peek, Fetches, Extracts, ArchiveEnds, ChecksSum,
                  Replaces, Updating
    <3> QED BY <2>1, <3>1, <3>2
  <2> QED BY <1>1, <2>1, <2>2, <2>3, <2>4, <2>5 DEF Next, vars, Publishes
<1> QED BY <1>1, LogsInitially, PTL DEF Spec

(* Runs share a log only when they raced for its slot (pwd_id.go, lines    *)
(* 57-86, main.go, lines 68-71).                                           *)
THEOREM LogsAreKept == Spec => []LogsAreWholeUnlessRaced
<1>1. LogsInv => LogsAreWholeUnlessRaced BY DEF LogsInv
<1> QED BY <1>1, LogsInductive, PTL

(* pastseed skips no log on its way down (do_pastseed.go, lines 19-54).    *)
THEOREM PastseedIsThorough == Spec => []PastseedPassesNoLogOver
<1>1. LogsInv => PastseedPassesNoLogOver BY DEF LogsInv
<1> QED BY <1>1, LogsInductive, PTL

================================================================================
