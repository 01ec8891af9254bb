-------------------------- MODULE UserChecks_proofs --------------------------
(***************************************************************************)
(* For any finite set of user checks: the goroutines of userChecks keep    *)
(* the promise of module Verdicts.                                         *)
(***************************************************************************)
EXTENDS UserChecks, FiniteSetTheorems, TLAPS

(* The consumer is in Send. *)
Sending == {"send", "handoff", "sent"}

InVs(c) == \E i \in 1..Len(vs) : vs[i] = c

(* A verdict is in one place: with its check, on vs, with the consumer or  *)
(* with the server.                                                        *)
PlaceInv ==
  /\ \A i, j \in 1..Len(vs) : vs[i] = vs[j] => i = j
  /\ \A c \in Checks : InVs(c) => chk[c] = "done" /\ c \notin cur /\ c \notin reported
  /\ \A c \in reported \cup cur : chk[c] = "done"
  /\ cons = "select" \/ (cons = "done" /\ err = "nil") => cur = {}
  /\ cons \in Sending => cur \cap reported = {}
  /\ cons = "progress" => cur \subseteq reported
  /\ cons \in Sending \cup {"progress"} => \E c \in Checks : cur = {c}

(* The loop variable counts the verdicts the server acknowledged. *)
CountInv ==
  /\ cons \in Sending \cup {"select"} => Cardinality(reported) = received
  /\ cons = "progress" => Cardinality(reported) = received + 1
  /\ cons = "done" /\ err = "nil" => reported = Checks
  /\ closed => cons = "done" /\ err = "nil"

(* passed remembers the failures the consumer went through. *)
PassedInv ==
  /\ \A c \in Checks : chk[c] = "running" <=> verdict[c] = "none"
  /\ cons # "done" => err = "nil"
  /\ cons \in Sending \cup {"select"} \/ (cons = "done" /\ err = "nil") =>
       (passed <=> \A c \in reported : verdict[c] # "failure")
  /\ cons = "progress" =>
       (passed <=> \A c \in reported \ cur : verdict[c] # "failure")
  /\ ret # "none" => cons = "done"
  /\ ret = "error" => err # "nil"
  /\ ret \in {"passed", "failed"} => err = "nil" /\ (ret = "passed" <=> passed)

IInv == TypeOK /\ PlaceInv /\ CountInv /\ PassedInv

USE ChecksAssumption DEF Sending

(* The consumer's goroutine returns with an error. *)
ConsumerGivesUp ==
  /\ cons # "done"
  /\ \E e \in {"canceled", "transport"} : ConsumerFails(e)

(* The consumer's part in a step. *)
LEMMA ConsumerSteps ==
  Consumer => \/ ConsumerGivesUp
              \/ ConsumerTakes
              \/ ConsumerSends \/ ConsumerHandsOff
              \/ ConsumerSent
              \/ ConsumerGetsProgress
              \/ ConsumerCloses
<1>1. ConsumerCanceled \/ ConsumerSendsTooLate \/ ConsumerSendFails \/ ConsumerGetsNoProgress
        => ConsumerGivesUp
  BY DEF ConsumerCanceled, ConsumerSendsTooLate, ConsumerSendFails, ConsumerGetsNoProgress,
         ConsumerGivesUp
<1> QED
  BY <1>1 DEF Consumer

(* The goroutines have just started. *)
LEMMA InitInv == Init => IInv
<1> SUFFICES ASSUME Init PROVE IInv
  OBVIOUS
<1> USE DEF Init
<1>1. TypeOK
  <2>1. chk \in [Checks -> {"running", "sending", "done"}]
    OBVIOUS
  <2>2. verdict \in [Checks -> Verdict \cup {"none"}]
    BY Zenon
  <2>3. vs \in Seq(Checks)
    OBVIOUS
  <2> QED
    BY <2>1, <2>2, <2>3 DEF TypeOK
<1>2. PlaceInv
  BY DEF PlaceInv, InVs
<1>3. CountInv
  BY FS_EmptySet DEF CountInv
<1>4. PassedInv
  BY DEF PassedInv
<1> QED
  BY <1>1, <1>2, <1>3, <1>4 DEF IInv

(* Every variable keeps its type. *)
LEMMA NextType == TypeOK /\ [Next]_vars => TypeOK'
<1> SUFFICES ASSUME TypeOK, [Next]_vars PROVE TypeOK'
  OBVIOUS
<1> USE DEF TypeOK, Verdict, chkVars, consVars
<1>1. CASE Cancel
  BY <1>1 DEF Cancel
<1>2. CASE \E c \in Checks : CheckRuns(c)
  BY <1>2 DEF CheckRuns
<1>3. CASE \E c \in Checks : CheckSends(c)
  BY <1>3 DEF CheckSends
<1>4. CASE ConsumerTakes
  <2>1. Head(vs) \in Checks /\ Tail(vs) \in Seq(Checks)
    BY <1>4 DEF ConsumerTakes
  <2> QED
    BY <1>4, <2>1 DEF ConsumerTakes
<1>5. CASE ConsumerGivesUp
  BY <1>5 DEF ConsumerGivesUp, ConsumerFails
<1>6. CASE ConsumerSent \/ ConsumerCloses
  BY <1>6 DEF ConsumerSent, ConsumerCloses
<1>7. CASE ConsumerGetsProgress
  BY <1>7 DEF ConsumerGetsProgress
<1>8. CASE WaitReturns
  BY <1>8 DEF WaitReturns
<1>9. CASE UNCHANGED vars
  BY <1>9 DEF vars
<1>10. CASE ConsumerSends \/ ConsumerHandsOff
  BY <1>10 DEF ConsumerSends, ConsumerHandsOff
<1> QED
  BY <1>1, <1>2, <1>3, <1>4, <1>5, <1>6, <1>7, <1>8, <1>9, <1>10,
     ConsumerSteps DEF Next

(* A verdict moves from one place to the next. *)
LEMMA NextPlace == IInv /\ [Next]_vars => PlaceInv'
<1> SUFFICES ASSUME IInv, [Next]_vars PROVE PlaceInv'
  OBVIOUS
<1> USE DEF IInv, TypeOK, PlaceInv, InVs, chkVars, consVars
<1>1. CASE Cancel
  BY <1>1 DEF Cancel
<1>2. CASE \E c \in Checks : CheckRuns(c)
  BY <1>2 DEF CheckRuns
<1>3. ASSUME NEW c \in Checks, CheckSends(c) PROVE PlaceInv'
  <2>1. /\ Len(vs') = Len(vs) + 1
        /\ \A i \in 1..Len(vs) : vs'[i] = vs[i]
        /\ vs'[Len(vs) + 1] = c
    BY <1>3 DEF CheckSends
  <2>2. ~InVs(c)
    BY <1>3 DEF CheckSends
  <2> QED
    BY <1>3, <2>1, <2>2 DEF CheckSends
<1>4. CASE ConsumerTakes
  <2>1. /\ Len(vs) > 0 /\ cur' = {vs[1]}
        /\ Len(vs') = Len(vs) - 1
        /\ \A i \in 1..Len(vs') : vs'[i] = vs[i + 1]
    BY <1>4 DEF ConsumerTakes
  <2>2. \A c \in Checks : InVs(c)' => InVs(c) /\ c # vs[1]
    BY <2>1
  <2>3. vs[1] \in Checks /\ InVs(vs[1])
    BY <2>1
  <2>4. \A i, j \in 1..Len(vs') : vs'[i] = vs'[j] => i = j
    BY <2>1
  <2> QED
    BY <1>4, <2>1, <2>2, <2>3, <2>4 DEF ConsumerTakes
<1>5. CASE ConsumerGivesUp
  BY <1>5 DEF ConsumerGivesUp, ConsumerFails
<1>6. CASE ConsumerSent
  BY <1>6 DEF ConsumerSent
<1>7. CASE ConsumerGetsProgress \/ ConsumerCloses
  BY <1>7 DEF ConsumerGetsProgress, ConsumerCloses
<1>8. CASE WaitReturns
  BY <1>8 DEF WaitReturns
<1>9. CASE UNCHANGED vars
  BY <1>9 DEF vars
<1>10. CASE ConsumerSends \/ ConsumerHandsOff
  BY <1>10 DEF ConsumerSends, ConsumerHandsOff
<1> QED
  BY <1>1, <1>2, <1>3, <1>4, <1>5, <1>6, <1>7, <1>8, <1>9, <1>10,
     ConsumerSteps DEF Next

(* The consumer's count. *)
LEMMA NextCount == IInv /\ [Next]_vars => CountInv'
<1> SUFFICES ASSUME IInv, [Next]_vars PROVE CountInv'
  OBVIOUS
<1> USE DEF IInv, TypeOK, CountInv, chkVars, consVars
<1>1. CASE Cancel
  BY <1>1 DEF Cancel
<1>2. CASE \E c \in Checks : CheckRuns(c) \/ CheckSends(c)
  BY <1>2 DEF CheckRuns, CheckSends
<1>3. CASE ConsumerTakes
  BY <1>3 DEF ConsumerTakes
<1>4. CASE ConsumerGivesUp
  <2>1. cons # "done"
    BY <1>4 DEF ConsumerGivesUp
  <2> QED
    BY <1>4, <2>1 DEF ConsumerGivesUp, ConsumerFails
<1>5. CASE ConsumerSent
  <2>1. PICK c \in Checks : cur = {c} /\ c \notin reported
    BY <1>5 DEF ConsumerSent, PlaceInv
  <2>2. IsFiniteSet(reported)
    BY FS_Subset
  <2>3. Cardinality(reported \cup {c}) = Cardinality(reported) + 1
    BY <2>1, <2>2, FS_AddElement
  <2> QED
    BY <1>5, <2>1, <2>3 DEF ConsumerSent
<1>6. CASE ConsumerGetsProgress
  BY <1>6 DEF ConsumerGetsProgress
<1>7. CASE ConsumerCloses
  <2>1. Cardinality(reported) = Cardinality(Checks)
    BY <1>7 DEF ConsumerCloses, N
  <2>2. reported = Checks
    BY <2>1, FS_Subset
  <2> QED
    BY <1>7, <2>2 DEF ConsumerCloses, PassedInv
<1>8. CASE WaitReturns
  BY <1>8 DEF WaitReturns
<1>9. CASE UNCHANGED vars
  BY <1>9 DEF vars
<1>10. CASE ConsumerSends \/ ConsumerHandsOff
  BY <1>10 DEF ConsumerSends, ConsumerHandsOff
<1> QED
  BY <1>1, <1>2, <1>3, <1>4, <1>5, <1>6, <1>7, <1>8, <1>9, <1>10,
     ConsumerSteps DEF Next

(* What passed stands for. *)
LEMMA NextPassed == IInv /\ [Next]_vars => PassedInv'
<1> SUFFICES ASSUME IInv, [Next]_vars PROVE PassedInv'
  OBVIOUS
<1> USE DEF IInv, TypeOK, PassedInv, chkVars, consVars
<1>1. CASE Cancel
  BY <1>1 DEF Cancel
<1>2. ASSUME NEW c \in Checks, CheckRuns(c) PROVE PassedInv'
  <2>1. c \notin reported /\ c \notin cur
    BY <1>2 DEF CheckRuns, PlaceInv
  <2>2. \A d \in reported : verdict'[d] = verdict[d]
    BY <1>2, <2>1 DEF CheckRuns
  <2>3. \A d \in Checks : chk'[d] = "running" <=> verdict'[d] = "none"
    BY <1>2 DEF CheckRuns, Verdict
  <2> QED
    BY <1>2, <2>2, <2>3 DEF CheckRuns
<1>3. ASSUME NEW c \in Checks, CheckSends(c) PROVE PassedInv'
  BY <1>3 DEF CheckSends
<1>4. CASE ConsumerTakes
  BY <1>4 DEF ConsumerTakes
<1>5. CASE ConsumerGivesUp
  BY <1>5 DEF ConsumerGivesUp, ConsumerFails
<1>6. CASE ConsumerSent
  <2>1. cur \cap reported = {}
    BY <1>6 DEF ConsumerSent, PlaceInv
  <2>2. (reported \cup cur) \ cur = reported
    BY <2>1
  <2> QED
    BY <1>6, <2>2 DEF ConsumerSent
<1>7. CASE ConsumerGetsProgress
  <2>1. cur \subseteq reported
    BY <1>7 DEF ConsumerGetsProgress, PlaceInv
  <2>2. passed' <=> \A c \in reported : verdict[c] # "failure"
    BY <1>7, <2>1 DEF ConsumerGetsProgress
  <2> QED
    BY <1>7, <2>2 DEF ConsumerGetsProgress
<1>8. CASE ConsumerCloses
  BY <1>8 DEF ConsumerCloses
<1>9. CASE WaitReturns
  BY <1>9 DEF WaitReturns
<1>10. CASE UNCHANGED vars
  BY <1>10 DEF vars
<1>11. CASE ConsumerSends \/ ConsumerHandsOff
  BY <1>11 DEF ConsumerSends, ConsumerHandsOff
<1> QED
  BY <1>1, <1>2, <1>3, <1>4, <1>5, <1>6, <1>7, <1>8, <1>9, <1>10, <1>11,
     ConsumerSteps DEF Next

(* The inductive invariant holds in every state. *)
THEOREM Invariance == Spec => []IInv
<1>1. IInv /\ [Next]_vars => IInv'
  BY NextType, NextPlace, NextCount, NextPassed DEF IInv
<1> QED
  BY InitInv, <1>1, PTL DEF Spec

(* Every variable keeps its type. *)
THEOREM TypeCorrect == Spec => []TypeOK
  BY Invariance, PTL DEF IInv

(* No check sends on the closed channel. *)
THEOREM CloseIsSafe == Spec => []NoSendAfterClose
<1>1. IInv => NoSendAfterClose
  BY DEF IInv, PlaceInv, CountInv, NoSendAfterClose
<1> QED
  BY Invariance, <1>1, PTL

(* userChecks returns the verdict of all the checks. *)
THEOREM OutcomeCorrect == Spec => []OutcomeIsThatOfAllChecks
<1>1. IInv => OutcomeIsThatOfAllChecks
  BY DEF IInv, CountInv, PassedInv, OutcomeIsThatOfAllChecks
<1> QED
  BY Invariance, <1>1, PTL

-----------------------------------------------------------------------------
(* Every step of the group is a step of the abstract report or none. *)
LEMMA StepSimulation == IInv /\ [Next]_vars => [Report!Next]_(Report!vars)
<1> SUFFICES ASSUME IInv, [Next]_vars PROVE [Report!Next]_(Report!vars)
  OBVIOUS
<1> USE DEF IInv, TypeOK, Report!vars, chkVars, consVars
<1>1. CASE Cancel
  BY <1>1 DEF Cancel
<1>2. ASSUME NEW c \in Checks, CheckRuns(c) PROVE UNCHANGED Report!vars
  <2>1. c \notin reported
    BY <1>2 DEF CheckRuns, PlaceInv
  <2>2. \A d \in reported : verdict'[d] = verdict[d]
    BY <1>2, <2>1 DEF CheckRuns
  <2> QED
    BY <1>2, <2>2 DEF CheckRuns
<1>3. CASE \E c \in Checks : CheckSends(c)
  BY <1>3 DEF CheckSends
<1>4. CASE ConsumerTakes
  <2>1. cur = {} /\ \E c \in Checks : c \notin reported /\ cur' = {c}
    <3>1. vs[1] \in Checks /\ InVs(vs[1])
      BY <1>4 DEF ConsumerTakes, InVs
    <3> QED
      BY <1>4, <3>1 DEF ConsumerTakes, PlaceInv
  <2> QED
    BY <1>4, <2>1 DEF ConsumerTakes
<1>5. CASE ConsumerGivesUp
  <2>1. ret = "none" /\ cons # "done"
    BY <1>5 DEF ConsumerGivesUp, PassedInv
  <2>2. Report!Error
    BY <1>5, <2>1 DEF ConsumerGivesUp, ConsumerFails, Report!Error
  <2> QED
    BY <2>2 DEF Report!Next
<1>6. CASE ConsumerSent
  <2>1. PICK c \in Checks : cur = {c} /\ c \notin reported
    BY <1>6 DEF ConsumerSent, PlaceInv
  <2>2. ret = "none" /\ cons # "done"
    BY <1>6 DEF ConsumerSent, PassedInv
  <2>3. Report!Report(c)
    BY <1>6, <2>1, <2>2 DEF ConsumerSent, Report!Report
  <2> QED
    BY <2>3 DEF Report!Next
<1>7. CASE ConsumerGetsProgress
  <2>1. \E c \in Checks : cur = {c} /\ c \in reported
    BY <1>7 DEF ConsumerGetsProgress, PlaceInv
  <2>2. ret = "none" /\ cons # "done"
    BY <1>7 DEF ConsumerGetsProgress, PassedInv
  <2>3. Report!Progress
    BY <1>7, <2>1, <2>2 DEF ConsumerGetsProgress, Report!Progress
  <2> QED
    BY <2>3 DEF Report!Next
<1>8. CASE ConsumerCloses
  BY <1>8 DEF ConsumerCloses, PassedInv
<1>9. CASE WaitReturns
  <2>1. CASE err # "nil"
    BY <1>9, <2>1 DEF WaitReturns
  <2>2. CASE err = "nil"
    <3>1. reported = Checks
      BY <1>9, <2>2 DEF WaitReturns, CountInv
    <3>2. passed <=> ~ \E c \in reported : verdict[c] = "failure"
      BY <1>9, <2>2 DEF WaitReturns, PassedInv
    <3>3. cur \cap reported = {}
      BY <1>9, <2>2 DEF WaitReturns, PlaceInv
    <3>4. Report!Finish
      BY <1>9, <2>2, <3>1, <3>2, <3>3 DEF WaitReturns, Report!Finish
    <3> QED
      BY <3>4 DEF Report!Next
  <2> QED
    BY <2>1, <2>2
<1>10. CASE UNCHANGED vars
  BY <1>10 DEF vars
<1>11. CASE ConsumerSends \/ ConsumerHandsOff
  BY <1>11 DEF ConsumerSends, ConsumerHandsOff
<1> QED
  BY <1>1, <1>2, <1>3, <1>4, <1>5, <1>6, <1>7, <1>8, <1>9, <1>10, <1>11,
     ConsumerSteps DEF Next

(* The goroutines of the group report as module Verdicts promises. *)
THEOREM Implementation == Spec => ImplementsVerdicts
<1>1. Init => Report!Init
  BY DEF Init, Report!Init
<1> QED
  BY Invariance, StepSimulation, <1>1, PTL DEF Spec, ImplementsVerdicts, Report!Spec
-----------------------------------------------------------------------------
(* How many steps the group has left at most.  The consumer takes five for each verdict. *)
ConsumerStepsLeft ==
  CASE cons = "select"   -> 5 * (N - received) + 1
    [] cons = "send"     -> 5 * (N - received)
    [] cons = "handoff"  -> 5 * (N - received) - 1
    [] cons = "sent"     -> 5 * (N - received) - 2
    [] cons = "progress" -> 5 * (N - received) - 3
    [] OTHER             -> 0

StillAt(place) == {c \in Checks : chk[c] = place}

StepsLeft ==
  2 * Cardinality(StillAt("running")) + Cardinality(StillAt("sending"))
    + ConsumerStepsLeft
    + (IF ctx = "live" THEN 1 ELSE 0) + (IF ret = "none" THEN 1 ELSE 0)

(* The consumer does not wait for more verdicts than there are checks. *)
LEMMA ConsumerCounts ==
  ASSUME IInv
  PROVE  /\ N \in Nat
         /\ cons = "select" => received <= N
         /\ cons \in Sending \cup {"progress"} => received < N
<1> USE DEF IInv, TypeOK, CountInv, PlaceInv, N
<1>1. N \in Nat
  BY FS_CardinalityType
<1>2. IsFiniteSet(reported) /\ Cardinality(reported) <= N
  BY FS_Subset
<1>3. CASE cons \in Sending
  <2>1. PICK c \in Checks : cur = {c} /\ c \notin reported
    BY <1>3
  <2>2. Cardinality(reported) < N
    BY <2>1, FS_Subset, FS_CardinalityType
  <2> QED
    BY <1>1, <1>3, <2>2
<1> QED
  BY <1>1, <1>2, <1>3

(* What is left of the goroutines of the checks. *)
LEMMA CheckCounts ==
  /\ \A p \in {"running", "sending", "done"} :
       IsFiniteSet(StillAt(p)) /\ Cardinality(StillAt(p)) \in Nat
<1> SUFFICES ASSUME NEW p \in {"running", "sending", "done"}
             PROVE IsFiniteSet(StillAt(p)) /\ Cardinality(StillAt(p)) \in Nat
  OBVIOUS
<1>1. StillAt(p) \subseteq Checks
  BY DEF StillAt
<1> QED
  BY <1>1, FS_Subset, FS_CardinalityType

(* A check's goroutine that goes on is no longer where it was. *)
LEMMA CheckMoves ==
  ASSUME NEW c \in Checks, NEW p, NEW q, p # q, chk[c] = p,
         chk \in [Checks -> {"running", "sending", "done"}],
         chk' = [chk EXCEPT ![c] = q]
  PROVE  /\ StillAt(p)' = StillAt(p) \ {c} /\ c \in StillAt(p)
         /\ StillAt(q)' = StillAt(q) \cup {c} /\ c \notin StillAt(q)
         /\ \A r : r # p /\ r # q => StillAt(r)' = StillAt(r)
  BY DEF StillAt

LEMMA StepsLeftDecreases == IInv /\ [Next]_vars => [StepsLeft' < StepsLeft]_vars
<1> SUFFICES ASSUME IInv, Next PROVE StepsLeft' < StepsLeft
  OBVIOUS
<1> DEFINE R == Cardinality(StillAt("running"))
           S == Cardinality(StillAt("sending"))
<1>1. R \in Nat /\ S \in Nat /\ N \in Nat /\ received \in Nat
  BY CheckCounts, ConsumerCounts DEF IInv, TypeOK
<1>2. cons = "select" => received <= N
  BY ConsumerCounts
<1>3. cons \in Sending \cup {"progress"} => received < N
  BY ConsumerCounts
<1>4. UNCHANGED chk => R' = R /\ S' = S
  BY DEF StillAt
<1>5. cons \in {"select", "send", "handoff", "sent", "progress", "done"}
  BY DEF IInv, TypeOK
<1>6. CASE \E c \in Checks : CheckRuns(c)
  <2>1. PICK c \in Checks : CheckRuns(c)
    BY <1>6
  <2>2. /\ StillAt("running")' = StillAt("running") \ {c} /\ c \in StillAt("running")
        /\ StillAt("sending")' = StillAt("sending") \cup {c} /\ c \notin StillAt("sending")
    BY <2>1, CheckMoves DEF CheckRuns, IInv, TypeOK
  <2>3. R' = R - 1 /\ S' = S + 1
    <3>1. IsFiniteSet(StillAt("running")) /\ IsFiniteSet(StillAt("sending"))
      BY CheckCounts
    <3>2. Cardinality(StillAt("running") \ {c}) = R - 1
      BY <2>2, <3>1, FS_RemoveElement
    <3>3. Cardinality(StillAt("sending") \cup {c}) = S + 1
      BY <2>2, <3>1, FS_AddElement
    <3> QED
      BY <2>2, <3>2, <3>3
  <2>4. UNCHANGED <<ctx, ret>> /\ ConsumerStepsLeft' = ConsumerStepsLeft
    BY <2>1 DEF CheckRuns, consVars, ConsumerStepsLeft
  <2>5. ConsumerStepsLeft \in Int
    BY <1>1, <1>5 DEF ConsumerStepsLeft
  <2> HIDE DEF R, S
  <2>6. StepsLeft = 2 * R + S + ConsumerStepsLeft
              + (IF ctx = "live" THEN 1 ELSE 0) + (IF ret = "none" THEN 1 ELSE 0)
    BY DEF StepsLeft, R, S
  <2>7. StepsLeft' = 2 * R' + S' + ConsumerStepsLeft
              + (IF ctx = "live" THEN 1 ELSE 0) + (IF ret = "none" THEN 1 ELSE 0)
    BY <2>4 DEF StepsLeft, R, S
  <2> QED
    BY <1>1, <2>3, <2>5, <2>6, <2>7
<1>7. CASE \E c \in Checks : CheckSends(c)
  <2>1. PICK c \in Checks : CheckSends(c)
    BY <1>7
  <2>2. StillAt("sending")' = StillAt("sending") \ {c} /\ c \in StillAt("sending")
    BY <2>1, CheckMoves DEF CheckSends, IInv, TypeOK
  <2>8. StillAt("running")' = StillAt("running")
    BY <2>1 DEF CheckSends, IInv, TypeOK, StillAt
  <2>3. R' = R /\ S' = S - 1
    BY <2>2, <2>8, CheckCounts, FS_RemoveElement
  <2>4. UNCHANGED <<ctx, ret>> /\ ConsumerStepsLeft' = ConsumerStepsLeft
    BY <2>1 DEF CheckSends, consVars, ConsumerStepsLeft
  <2>5. ConsumerStepsLeft \in Int
    BY <1>1, <1>5 DEF ConsumerStepsLeft
  <2> HIDE DEF R, S
  <2>6. StepsLeft = 2 * R + S + ConsumerStepsLeft
              + (IF ctx = "live" THEN 1 ELSE 0) + (IF ret = "none" THEN 1 ELSE 0)
    BY DEF StepsLeft, R, S
  <2>7. StepsLeft' = 2 * R' + S' + ConsumerStepsLeft
              + (IF ctx = "live" THEN 1 ELSE 0) + (IF ret = "none" THEN 1 ELSE 0)
    BY <2>4 DEF StepsLeft, R, S
  <2> QED
    BY <1>1, <2>3, <2>5, <2>6, <2>7
<1> HIDE DEF R, S
<1>8. StepsLeft = 2 * R + S + ConsumerStepsLeft
              + (IF ctx = "live" THEN 1 ELSE 0) + (IF ret = "none" THEN 1 ELSE 0)
  BY DEF StepsLeft, R, S
<1>9. UNCHANGED chk => StepsLeft' = 2 * R + S + ConsumerStepsLeft'
              + (IF ctx' = "live" THEN 1 ELSE 0) + (IF ret' = "none" THEN 1 ELSE 0)
  BY <1>4 DEF StepsLeft, R, S
<1> USE DEF ConsumerStepsLeft, chkVars, consVars
<1>10. CASE Cancel
  BY <1>1, <1>5, <1>8, <1>9, <1>10 DEF Cancel
<1>11. CASE ConsumerTakes
  BY <1>1, <1>5, <1>8, <1>9, <1>11 DEF ConsumerTakes
<1>12. CASE ConsumerGivesUp
  <2>1. cons # "done" /\ cons' = "done" /\ UNCHANGED <<ctx, chk, ret>>
    BY <1>12 DEF ConsumerGivesUp, ConsumerFails
  <2>2. ConsumerStepsLeft \in Int /\ ConsumerStepsLeft > 0 /\ ConsumerStepsLeft' = 0
    BY <1>1, <1>2, <1>3, <1>5, <2>1
  <2> HIDE DEF ConsumerStepsLeft
  <2> QED
    BY <1>1, <1>8, <1>9, <2>1, <2>2
<1>13. CASE ConsumerSent
  BY <1>1, <1>8, <1>9, <1>13 DEF ConsumerSent
<1>14. CASE ConsumerGetsProgress
  BY <1>1, <1>8, <1>9, <1>14 DEF ConsumerGetsProgress
<1>15. CASE ConsumerCloses
  BY <1>1, <1>8, <1>9, <1>15 DEF ConsumerCloses
<1>16. CASE WaitReturns
  BY <1>1, <1>5, <1>8, <1>9, <1>16 DEF WaitReturns
<1>17. CASE ConsumerSends \/ ConsumerHandsOff
  BY <1>17, <1>1, <1>3, <1>5, <1>8, <1>9 DEF ConsumerSends, ConsumerHandsOff
<1> QED
  BY <1>6, <1>7, <1>10, <1>11, <1>12, <1>13, <1>14, <1>15, <1>16, <1>17,
     ConsumerSteps DEF Next

(* The group has a number of steps left that is never more than 7N + 3. *)
LEMMA StepsLeftBounded == IInv => StepsLeft \in 0..(7 * N + 3)
<1> SUFFICES ASSUME IInv PROVE StepsLeft \in 0..(7 * N + 3)
  OBVIOUS
<1> DEFINE R == Cardinality(StillAt("running"))
           S == Cardinality(StillAt("sending"))
<1>1. R \in Nat /\ S \in Nat /\ N \in Nat /\ received \in Nat
  BY CheckCounts, ConsumerCounts DEF IInv, TypeOK
<1>2. R + S <= N
  <2>1. StillAt("running") \cap StillAt("sending") = {}
    BY DEF StillAt
  <2>2. Cardinality(StillAt("running") \cup StillAt("sending")) = R + S
    <3>1. IsFiniteSet(StillAt("running")) /\ IsFiniteSet(StillAt("sending"))
      BY CheckCounts
    <3>2. Cardinality(StillAt("running") \cup StillAt("sending"))
            = R + S - Cardinality(StillAt("running") \cap StillAt("sending"))
      BY <3>1, FS_Union
    <3> QED
      BY <1>1, <2>1, <3>2, FS_EmptySet
  <2>3. StillAt("running") \cup StillAt("sending") \subseteq Checks
    BY DEF StillAt
  <2> QED
    BY <2>2, <2>3, FS_Subset DEF N
<1>3. ConsumerStepsLeft \in 0..(5 * N + 1)
  BY <1>1, ConsumerCounts DEF ConsumerStepsLeft, IInv, TypeOK
<1> HIDE DEF R, S
<1>8. StepsLeft = 2 * R + S + ConsumerStepsLeft
              + (IF ctx = "live" THEN 1 ELSE 0) + (IF ret = "none" THEN 1 ELSE 0)
  BY DEF StepsLeft, R, S
<1> QED
  BY <1>1, <1>2, <1>3, <1>8

(* The group takes at most 7N + 3 steps, whatever it does. *)
THEOREM GroupTakesFewSteps ==
  Spec => [](StepsLeft \in 0..(7 * N + 3)) /\ [][StepsLeft' < StepsLeft]_vars
  BY Invariance, StepsLeftBounded, StepsLeftDecreases, PTL DEF Spec

(* No verdict is lost on its way. *)
NoneLost == \A c \in Checks : chk[c] = "done" => InVs(c) \/ c \in cur \cup reported

LEMMA NoneIsLost == Spec => []NoneLost
<1>1. Init => NoneLost
  BY DEF Init, NoneLost
<1>2. IInv /\ NoneLost /\ [Next]_vars => NoneLost'
  <2> SUFFICES ASSUME IInv, NoneLost, [Next]_vars,
                      NEW c \in Checks, chk'[c] = "done"
               PROVE  InVs(c)' \/ c \in cur' \cup reported'
    BY DEF NoneLost
  <2> USE DEF IInv, TypeOK, NoneLost, InVs, chkVars, consVars
  <2>1. CASE Cancel
    BY <2>1 DEF Cancel
  <2>2. CASE \E d \in Checks : CheckRuns(d)
    BY <2>2 DEF CheckRuns
  <2>3. ASSUME NEW d \in Checks, CheckSends(d) PROVE InVs(c)' \/ c \in cur' \cup reported'
    <3>1. /\ Len(vs') = Len(vs) + 1
          /\ \A i \in 1..Len(vs) : vs'[i] = vs[i]
          /\ vs'[Len(vs) + 1] = d
      BY <2>3 DEF CheckSends
    <3>2. CASE c = d
      BY <3>1, <3>2
    <3>3. CASE c # d
      <4>1. chk[c] = "done" /\ cur' = cur /\ reported' = reported
        BY <2>3, <3>3 DEF CheckSends
      <4>2. CASE InVs(c)
        BY <3>1, <4>2
      <4> QED
        BY <4>1, <4>2
    <3> QED
      BY <3>2, <3>3
  <2>4. CASE ConsumerTakes
    <3>1. /\ Len(vs) > 0 /\ cur' = {vs[1]}
          /\ Len(vs') = Len(vs) - 1
          /\ \A i \in 1..Len(vs') : vs'[i] = vs[i + 1]
      BY <2>4 DEF ConsumerTakes
    <3>2. cur = {} /\ chk[c] = "done" /\ reported' = reported
      BY <2>4 DEF ConsumerTakes, PlaceInv
    <3>3. ASSUME NEW i \in 1..Len(vs), vs[i] = c, i # 1 PROVE InVs(c)'
      <4>1. i - 1 \in 1..Len(vs') /\ vs'[i - 1] = vs[i]
        BY <3>1, <3>3
      <4> QED
        BY <3>3, <4>1
    <3> QED
      BY <3>1, <3>2, <3>3
  <2>5. CASE ConsumerGivesUp
    BY <2>5 DEF ConsumerGivesUp, ConsumerFails
  <2>6. CASE ConsumerSent
    BY <2>6 DEF ConsumerSent
  <2>7. CASE ConsumerGetsProgress
    BY <2>7 DEF ConsumerGetsProgress, PlaceInv
  <2>8. CASE ConsumerCloses
    BY <2>8 DEF ConsumerCloses
  <2>9. CASE WaitReturns
    BY <2>9 DEF WaitReturns
  <2>10. CASE UNCHANGED vars
    BY <2>10 DEF vars
  <2>11. CASE ConsumerSends \/ ConsumerHandsOff
    BY <2>11 DEF ConsumerSends, ConsumerHandsOff
  <2> QED
    BY <2>1, <2>2, <2>3, <2>4, <2>5, <2>6, <2>7, <2>8, <2>9, <2>10, <2>11,
       ConsumerSteps DEF Next
<1> QED
  BY Invariance, <1>1, <1>2, PTL DEF Spec

(* While a check still has its verdict there is room for it on vs. *)
LEMMA RoomForVerdict ==
  ASSUME IInv, NEW c \in Checks, chk[c] # "done"
  PROVE  Len(vs) < Capacity
<1> USE DEF IInv, TypeOK
<1> DEFINE Others == Checks \ {c}
<1>1. IsFiniteSet(Others) /\ Cardinality(Others) = N - 1
  BY FS_RemoveElement DEF N
<1>2. [i \in 1..Len(vs) |-> vs[i]] \in Injection(1..Len(vs), Others)
  BY DEF PlaceInv, InVs, Injection, IsInjective
<1>3. Cardinality(1..Len(vs)) <= Cardinality(Others)
  BY <1>1, <1>2, FS_Injection
<1>4. \A n \in Nat : Cardinality(1..n) = n
  BY FS_Interval
<1>5. Len(vs) \in Nat
  OBVIOUS
<1> HIDE DEF IInv
<1> QED
  BY <1>1, <1>3, <1>4, <1>5, ConsumerCounts DEF Capacity

(* What lets a goroutine of the group, or g.Wait(), go on: the guards of its steps. *)
CanGoOn ==
  \/ \E c \in Checks : chk[c] = "running"
  \/ \E c \in Checks : chk[c] = "sending" /\ Len(vs) < Capacity /\ ~closed
  \/ cons = "select" /\ received < N /\ (ctx # "live" \/ vs # <<>>)
  \/ cons = "select" /\ received = N
  \/ cons \in {"send", "sent", "progress"}
  \/ cons = "handoff" /\ ctx = "live"
  \/ cons = "done" /\ \A c \in Checks : chk[c] = "done"

(* userChecks never waits for something that cannot come, but for a sender *)
(* that left at the end of the context before it took a verdict.           *)
THEOREM NeverStuckBeforeHandOff == Spec => [](ret = "none" => CanGoOn \/ AtHandOffTooLate)
<1>1. IInv /\ NoneLost => CanGoOn \/ AtHandOffTooLate
  <2> SUFFICES ASSUME IInv, NoneLost, ~CanGoOn, ~AtHandOffTooLate PROVE FALSE
    OBVIOUS
  <2> USE DEF IInv, TypeOK
  <2>1. \A c \in Checks : chk[c] = "done"
    <3> SUFFICES ASSUME NEW c \in Checks, chk[c] # "done" PROVE FALSE
      OBVIOUS
    <3>1. Len(vs) < Capacity
      BY RoomForVerdict
    <3>2. closed
      BY <3>1 DEF CanGoOn
    <3> QED
      BY <3>2 DEF CountInv, PlaceInv
  <2>2. cons = "select" /\ received # N /\ vs = <<>>
    BY <2>1, ConsumerCounts DEF CanGoOn, AtHandOffTooLate
  <2>3. \A c \in Checks : ~InVs(c)
    BY <2>2 DEF InVs
  <2>4. reported = Checks
    BY <2>1, <2>2, <2>3 DEF NoneLost, PlaceInv
  <2> QED
    BY <2>2, <2>4 DEF CountInv, N
<1> QED
  BY Invariance, NoneIsLost, <1>1, PTL
=============================================================================
