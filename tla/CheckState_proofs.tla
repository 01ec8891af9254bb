-------------------------- MODULE CheckState_proofs --------------------------
(***************************************************************************)
(* What a verdict tells of the script, for any lists, states and number of *)
(* assertions, through any number of calls and resets; and what the        *)
(* predicates on lists and dicts compute, for lists of any length.         *)
(***************************************************************************)
EXTENDS CheckState, FiniteSetTheorems, SequenceTheorems, WellFoundedInduction, TLAPS

(* Only the last subject may be without a predicate, and the thread knows. *)
PendingInv ==
  /\ \A i \in DOMAIN subjects :
       subjects[i].used = "no" => i = Len(subjects) /\ local = "pending"
  /\ excluded => subjects = <<>> /\ script = "idle"
  /\ Passed /\ ~excluded => local # "pending"

(* What the thread's local tells of the predicates called. *)
AskedInv ==
  /\ local = "resolved" => asked
  /\ asked => local # "unset"

(* The state a script found. *)
FoundInv == script # "idle" /\ ~broken => snapshot \in ProtoCompatible

IInv ==
  /\ TypeOK /\ PendingInv /\ AskedInv /\ FoundInv
  /\ VerdictTellsWhatRan /\ StateIsRepresentable

USE TruthAssumption, StatesAssumption

(* A check that was just registered. *)
LEMMA InitInv == Init => IInv
<1> SUFFICES ASSUME Init PROVE IInv
  OBVIOUS
<1> USE DEF Init, TruthInit
<1>1. TypeOK
  <2>1. subjects \in Seq(SubjectSet)
    OBVIOUS
  <2> QED
    BY <2>1 DEF TypeOK, TruthTypeOK
<1>2. PendingInv /\ AskedInv /\ FoundInv /\ VerdictTellsWhatRan /\ StateIsRepresentable
  BY DEF PendingInv, AskedInv, FoundInv, VerdictTellsWhatRan, StateIsRepresentable, Passed
<1> QED
  BY <1>1, <1>2 DEF IInv

(* A new subject. *)
LEMMA ThatStep ==
  ASSUME IInv, NEW list \in Lists, That(list)
  PROVE  /\ TruthTypeOK'
         /\ \A i \in DOMAIN subjects' :
              subjects'[i].used = "no" => i = Len(subjects') /\ local' = "pending"
         /\ local' = local \/ local' = "pending"
         /\ script = "runs" /\ script' # "idle"
<1> USE DEF That, CloseFails, IInv, TypeOK, TruthTypeOK, PendingInv, Subject
<1>1. CASE local = "pending"
  BY <1>1
<1>2. CASE local # "pending"
  <2>1. Subject(list, "nil", "no") \in SubjectSet
    BY DEF Orderings, SubjectSet
  <2>2. subjects' = Append(subjects, Subject(list, "nil", "no"))
    BY <1>2
  <2>3. subjects' \in Seq(SubjectSet) /\ Len(subjects') = Len(subjects) + 1
    BY <2>1, <2>2
  <2>4. \A i \in DOMAIN subjects' : i # Len(subjects') => i \in DOMAIN subjects /\ subjects'[i] = subjects[i]
    BY <2>2
  <2>5. \A i \in DOMAIN subjects : subjects[i].used # "no"
    BY <1>2
  <2>6. local' = "pending" /\ script' = script /\ script = "runs"
    BY <1>2
  <2> QED
    BY <2>3, <2>4, <2>5, <2>6
<1> QED
  BY <1>1, <1>2

(* A predicate, whichever it is and whatever it found. *)
LEMMA PredicateStep ==
  ASSUME IInv, NEW i \in DOMAIN subjects, NEW passes, NEW ordering \in Orderings,
         Predicate(i, passes, ordering)
  PROVE  /\ TruthTypeOK'
         /\ \A j \in DOMAIN subjects' : subjects'[j].used # "no"
         /\ local' = "resolved"
         /\ script = "runs" /\ script' # "idle"
<1> USE DEF Predicate, IInv, TypeOK, TruthTypeOK, PendingInv
<1>1. \A j \in DOMAIN subjects : subjects[j] \in SubjectSet
  OBVIOUS
<1>2. \A j \in DOMAIN subjects' : subjects'[j] \in SubjectSet /\ subjects'[j].used # "no"
  BY <1>1 DEF SubjectSet, Subject
<1>3. subjects' \in Seq(SubjectSet)
  <2>1. subjects' = [j \in 1..Len(subjects) |-> subjects'[j]]
    OBVIOUS
  <2> QED
    BY <1>2, <2>1
<1> QED
  BY <1>2, <1>3

(* What each predicate leaves in forOrdering. *)
LEMMA PredicatesStep ==
  ASSUME IInv, Predicates
  PROVE  \E i \in DOMAIN subjects, ordering \in Orderings : \E passes : Predicate(i, passes, ordering)
<1>1. \A i \in DOMAIN subjects : subjects[i].forOrdering \in Orderings
  <2>1. \A i \in DOMAIN subjects : subjects[i] \in SubjectSet
    BY DEF IInv, TypeOK, TruthTypeOK
  <2> QED
    BY <2>1 DEF SubjectSet
<1>2. \A i \in DOMAIN subjects : \A e : ExactlyOrdering(subjects[i], e) \in Orderings
  BY <1>1, Zenon DEF ExactlyOrdering, Orderings
<1>3. CASE \E i \in DOMAIN subjects : InOrder(i) \/ OtherPredicate(i)
  BY <1>1, <1>3, Zenon DEF InOrder, OtherPredicate
<1>4. ASSUME NEW i \in DOMAIN subjects, NEW e \in Lists, ContainsExactly(i, e)
      PROVE  \E ordering \in Orderings : \E passes : Predicate(i, passes, ordering)
  BY <1>1, <1>2, <1>4, Zenon DEF ContainsExactly
<1>5. ASSUME NEW i \in DOMAIN subjects, NEW e \in Lists, ContainsAll(i, e)
      PROVE  \E ordering \in Orderings : \E passes : Predicate(i, passes, ordering)
  BY <1>1, <1>5, Zenon DEF ContainsAll, Orderings
<1>6. ASSUME NEW i \in DOMAIN subjects, NEW e \in Lists, IsEqualTo(i, e)
      PROVE  \E ordering \in Orderings : \E passes : Predicate(i, passes, ordering)
  BY <1>1, <1>2, <1>6, Zenon DEF IsEqualTo
<1> QED
  BY <1>3, <1>4, <1>5, <1>6, Zenon DEF Predicates

(* One call of a check after the other. *)
LEMMA NextInv == IInv /\ [Next]_vars => IInv'
<1> SUFFICES ASSUME IInv, [Next]_vars PROVE IInv'
  OBVIOUS
<1> USE DEF IInv, TypeOK, PendingInv, AskedInv, FoundInv, VerdictTellsWhatRan,
            StateIsRepresentable, Passed
<1>1. CASE Reset
  BY <1>1 DEF Reset, truthVars, TruthTypeOK
<1>2. CASE Excluded
  BY <1>2 DEF Excluded, truthVars, TruthTypeOK
<1>3. CASE Calls
  <2>1. subjects' \in Seq(SubjectSet) /\ DOMAIN subjects' = {} /\ script' = "runs" /\ local' = "unset" /\ ~excluded'
    BY <1>3 DEF Calls
  <2>2. TypeOK' /\ PendingInv'
    BY <1>3, <2>1 DEF Calls, TruthTypeOK
  <2>3. AskedInv' /\ FoundInv'
    BY <1>3, <2>1 DEF Calls
  <2>4. VerdictTellsWhatRan' /\ StateIsRepresentable'
    BY <1>3, <2>1 DEF Calls
  <2> QED
    BY ONLY <2>2, <2>3, <2>4 DEF IInv
<1>4. CASE Asserts
  <2>0. UNCHANGED <<state, snapshot, excluded, status, broken>>
    BY <1>4 DEF Asserts
  <2>1. CASE (\E list \in Lists : That(list)) /\ UNCHANGED asked
    <3>1. PICK list \in Lists : That(list)
      BY <2>1
    <3>2. /\ TruthTypeOK'
          /\ \A i \in DOMAIN subjects' :
               subjects'[i].used = "no" => i = Len(subjects') /\ local' = "pending"
          /\ local' = local \/ local' = "pending"
          /\ script = "runs" /\ script' # "idle"
      BY <3>1, ThatStep
    <3>3. TypeOK' /\ FoundInv' /\ StateIsRepresentable' /\ VerdictTellsWhatRan'
      BY <2>0, <2>1, <3>2
    <3>4. PendingInv'
      BY <2>0, <3>2
    <3>5. AskedInv'
      BY <2>1, <3>2 DEF TruthTypeOK
    <3> QED
      BY ONLY <3>3, <3>4, <3>5 DEF IInv
  <2>2. CASE Predicates /\ asked' = TRUE
    <3>1. PICK i \in DOMAIN subjects, ordering \in Orderings : \E passes : Predicate(i, passes, ordering)
      BY <2>2, PredicatesStep
    <3>2. /\ TruthTypeOK'
          /\ \A j \in DOMAIN subjects' : subjects'[j].used # "no"
          /\ local' = "resolved"
          /\ script = "runs" /\ script' # "idle"
      BY <3>1, PredicateStep
    <3>3. TypeOK' /\ FoundInv' /\ StateIsRepresentable' /\ VerdictTellsWhatRan'
      BY <2>0, <2>2, <3>2
    <3>4. PendingInv' /\ AskedInv'
      BY <2>0, <2>2, <3>2
    <3> QED
      BY ONLY <3>3, <3>4 DEF IInv
  <2> QED
    BY <1>4, <2>1, <2>2 DEF Asserts
<1>5. CASE Mutates
  BY <1>5 DEF Mutates, truthVars, TruthTypeOK
<1>6. CASE Raises
  BY <1>6 DEF Raises, chkVars, TruthTypeOK
<1>7. CASE Fails
  BY <1>7 DEF Fails, Concludes, TruthTypeOK
<1>8. CASE Returns
  <2>1. PICK isNone \in BOOLEAN : script = "runs" /\ Concludes(Verdict(isNone))
    BY <1>8 DEF Returns
  <2>2. /\ UNCHANGED <<subjects, local, state, snapshot, excluded, asked>>
        /\ script = "runs" /\ script' = "idle" /\ status' = Verdict(isNone)
        /\ broken' = (broken \/ Verdict(isNone) = "failure")
    BY <2>1 DEF Concludes
  <2>3. Verdict(isNone) \in {"success", "skipped", "failure"}
    BY DEF Verdict
  <2>4. /\ Verdict(isNone) # "failure" => local # "pending"
        /\ Verdict(isNone) = "success" => state # snapshot \/ local # "unset"
        /\ Verdict(isNone) = "skipped" => state = snapshot /\ local = "unset"
        /\ Verdict(isNone) # "failure" /\ state # snapshot => state \in ProtoCompatible
    BY DEF Verdict, CloseFails
  <2>5. TypeOK' /\ PendingInv' /\ AskedInv' /\ FoundInv'
    BY <2>2, <2>3, <2>4 DEF TruthTypeOK
  <2>6. VerdictTellsWhatRan'
    BY <2>2, <2>3, <2>4 DEF TruthTypeOK
  <2>7. StateIsRepresentable'
    BY <2>2, <2>3, <2>4
  <2> QED
    BY ONLY <2>5, <2>6, <2>7 DEF IInv
<1>9. CASE UNCHANGED vars
  BY <1>9 DEF vars, truthVars, chkVars, TruthTypeOK
<1> QED
  BY <1>1, <1>2, <1>3, <1>4, <1>5, <1>6, <1>7, <1>8, <1>9 DEF Next

(* The inductive invariant holds at every moment. *)
THEOREM Invariance == Spec => []IInv
  BY InitInv, NextInv, PTL DEF Spec

(* The check's variables keep to their types, for any lists and states. *)
THEOREM TypeCorrect == Spec => []TypeOK
<1>1. IInv => TypeOK BY DEF IInv
<1> QED BY <1>1, Invariance, PTL

(* No passing check leaves a subject without predicate, save the forgotten. *)
THEOREM SubjectsCorrect == Spec => []NoSubjectDangles
<1>1. IInv => NoSubjectDangles
  BY DEF IInv, PendingInv, NoSubjectDangles, TypeOK
<1> QED BY <1>1, Invariance, PTL

(* Success and skipped tell what the script did. *)
THEOREM VerdictCorrect == Spec => []VerdictTellsWhatRan
<1>1. IInv => VerdictTellsWhatRan BY DEF IInv
<1> QED BY <1>1, Invariance, PTL

(* Unless the check failed, the next call finds a state the protocol can represent. *)
THEOREM StateCorrect == Spec => []StateIsRepresentable
<1>1. IInv => StateIsRepresentable BY DEF IInv
<1> QED BY <1>1, Invariance, PTL
-----------------------------------------------------------------------------
(* What follows is about the predicates: what they accept, for all lists.  *)

(* The least-number principle.                                             *)
LEMMA Least ==
  ASSUME NEW T \in SUBSET Nat, T # {}
  PROVE  \E x \in T : \A y \in T : x <= y
<1> DEFINE R == OpToRel(<, Nat)
<1>1. IsWellFoundedOn(R, Nat)
  BY NatLessThanWellFounded
<1>2. \A x, y \in Nat : y < x => <<y, x>> \in R
  BY DEF OpToRel
<1> HIDE DEF R
<1>3. PICK x \in T : \A y \in T : ~(<<y, x>> \in R)
  BY <1>1, WFMin
<1>4. \A y \in T : ~(y < x)
  BY <1>2, <1>3
<1> QED BY <1>4

(* A loop over n elements, each step of which takes a state to a state,    *)
(* has a state after each step.                                            *)
IsLoop(f, base, n, step) == f = [k \in 0..n |-> IF k = 0 THEN base ELSE step[k][f[k - 1]]]

LEMMA LoopRuns ==
  ASSUME NEW S, NEW base \in S, NEW n \in Nat, NEW step \in [1..n -> [S -> S]]
  PROVE  \E f \in [0..n -> S] : IsLoop(f, base, n, step)
<1> DEFINE runs(m) == \E f \in [0..m -> S] : f[0] = base /\ \A k \in 1..m : f[k] = step[k][f[k - 1]]
           stops == {m \in 0..n : ~runs(m)}
<1>1. runs(0)
  <2> DEFINE f == [k \in 0..0 |-> base]
  <2>1. 0 \in 0..0 /\ 1..0 = {}
    OBVIOUS
  <2>2. f \in [0..0 -> S] /\ f[0] = base
    BY <2>1
  <2> HIDE DEF f
  <2> QED BY <2>1, <2>2
<1>2. ASSUME NEW m \in 0..n, m < n, runs(m) PROVE runs(m + 1)
  <2>1. PICK f \in [0..m -> S] : f[0] = base /\ \A k \in 1..m : f[k] = step[k][f[k - 1]]
    BY <1>2
  <2> DEFINE g == [k \in 0..(m + 1) |-> IF k = m + 1 THEN step[m + 1][f[m]] ELSE f[k]]
  <2>2. m + 1 \in 1..n /\ m \in 0..m /\ 0 \in 0..m
    BY <1>2
  <2>3. step[m + 1][f[m]] \in S
    BY <2>1, <2>2
  <2>4. \A k \in 0..(m + 1) : k # m + 1 => k \in 0..m
    OBVIOUS
  <2>5. g \in [0..(m + 1) -> S]
    BY <2>1, <2>3, <2>4
  <2>6. g[0] = base
    BY <2>1, <2>2
  <2>7. ASSUME NEW k \in 1..(m + 1) PROVE g[k] = step[k][g[k - 1]]
    <3>1. k \in 0..(m + 1) /\ k - 1 \in 0..m /\ k - 1 \in 0..(m + 1) /\ k - 1 # m + 1
      OBVIOUS
    <3>2. g[k - 1] = f[k - 1]
      BY <3>1
    <3>3. CASE k = m + 1
      BY <3>1, <3>2, <3>3
    <3>4. CASE k # m + 1
      BY <2>1, <3>1, <3>2, <3>4
    <3> QED BY <3>3, <3>4
  <2> HIDE DEF g
  <2> QED BY <2>5, <2>6, <2>7
<1> HIDE DEF runs
<1>3. stops = {}
  <2>1. SUFFICES ASSUME stops # {} PROVE FALSE
    OBVIOUS
  <2>2. PICK m \in stops : \A k \in stops : m <= k
    <3>1. stops \in SUBSET Nat
      OBVIOUS
    <3> HIDE DEF stops
    <3> QED BY <2>1, <3>1, Least
  <2>3. m # 0 /\ m \in 0..n
    BY <1>1, <2>2
  <2>4. m - 1 \in 0..n /\ m - 1 < n /\ m - 1 \notin stops /\ (m - 1) + 1 = m
    BY <2>2, <2>3
  <2>5. runs((m - 1) + 1)
    BY <1>2, <2>4
  <2> QED BY <2>2, <2>4, <2>5
<1>4. runs(n)
  BY <1>3
<1>5. PICK f \in [0..n -> S] : f[0] = base /\ \A k \in 1..n : f[k] = step[k][f[k - 1]]
  BY <1>4 DEF runs
<1>6. \A k \in 0..n : k = 0 \/ k \in 1..n
  OBVIOUS
<1>7. f = [k \in 0..n |-> IF k = 0 THEN base ELSE step[k][f[k - 1]]]
  BY <1>5, <1>6
<1> QED BY <1>7 DEF IsLoop

-----------------------------------------------------------------------------
(* Counting the elements of lists.                                         *)
LEMMA CountType ==
  ASSUME NEW V, NEW s \in Seq(V), NEW v
  PROVE  /\ Count(s, v) \in Nat /\ IsFiniteSet({i \in DOMAIN s : s[i] = v})
         /\ Count(s, v) = 0 <=> \A i \in DOMAIN s : s[i] # v
<1> DEFINE I == {i \in DOMAIN s : s[i] = v}
<1>1. IsFiniteSet(1..Len(s))
  BY FS_Interval
<1>2. IsFiniteSet(I)
  BY <1>1, FS_Subset
<1>3. Count(s, v) = Cardinality(I)
  BY DEF Count
<1> HIDE DEF I
<1>4. Cardinality(I) \in Nat /\ (Cardinality(I) = 0 <=> I = {})
  BY <1>2, FS_CardinalityType, FS_EmptySet
<1> QED BY <1>2, <1>3, <1>4 DEF I

LEMMA CountConcat ==
  ASSUME NEW V, NEW s \in Seq(V), NEW t \in Seq(V), NEW v
  PROVE  Count(s \o t, v) = Count(s, v) + Count(t, v)
<1> DEFINE m == Len(s)
           I == {i \in DOMAIN s : s[i] = v}
           J == {i \in DOMAIN t : t[i] = v}
           K == {i + m : i \in J}
           f == [i \in J |-> i + m]
<1>1. /\ m \in Nat /\ Len(t) \in Nat /\ DOMAIN s = 1..m /\ DOMAIN t = 1..Len(t)
      /\ DOMAIN (s \o t) = 1..(m + Len(t))
      /\ \A i \in 1..m : (s \o t)[i] = s[i]
      /\ \A i \in 1..Len(t) : (s \o t)[i + m] = t[i]
  OBVIOUS
<1> HIDE DEF m
<1>2. f \in Bijection(J, K)
  <2>1. f \in [J -> K] /\ \A i, j \in J : f[i] = f[j] => i = j
    BY <1>1
  <2>2. \A k \in K : \E i \in J : f[i] = k
    OBVIOUS
  <2> QED BY <2>1, <2>2 DEF Bijection, Injection, Surjection, IsInjective
<1>3. IsFiniteSet(I) /\ IsFiniteSet(J) /\ Count(s, v) = Cardinality(I) /\ Count(t, v) = Cardinality(J)
      /\ Count(s, v) \in Nat /\ Count(t, v) \in Nat
  BY CountType DEF Count
<1>4. IsFiniteSet(K) /\ Cardinality(K) = Cardinality(J)
  <2> HIDE DEF f, K, J
  <2>1. ExistsBijection(J, K)
    BY <1>2 DEF ExistsBijection
  <2> QED BY <1>3, <2>1, FS_Bijection
<1>5. I \cap K = {}
  BY <1>1
<1>6. {i \in DOMAIN (s \o t) : (s \o t)[i] = v} = I \cup K
  <2>1. ASSUME NEW i \in 1..(m + Len(t)) PROVE (s \o t)[i] = v <=> i \in I \cup K
    <3>1. CASE i \in 1..m
      BY <1>1, <3>1
    <3>2. CASE i \notin 1..m
      <4>1. i - m \in 1..Len(t) /\ (i - m) + m = i
        BY <1>1, <3>2
      <4>2. (s \o t)[i] = t[i - m]
        BY <1>1, <4>1
      <4>3. i \in K <=> i - m \in J
        BY <1>1, <4>1
      <4> QED BY <1>1, <3>2, <4>1, <4>2, <4>3
    <3> QED BY <3>1, <3>2
  <2>2. I \cup K \subseteq 1..(m + Len(t))
    BY <1>1
  <2> QED BY <1>1, <2>1, <2>2
<1>7. Cardinality(I \cup K) = Cardinality(I) + Cardinality(K) - Cardinality(I \cap K)
  <2> HIDE DEF I, K
  <2> QED BY <1>3, <1>4, FS_Union
<1>8. Cardinality(I \cap K) = 0
  BY <1>5, FS_EmptySet
<1>9. Count(s \o t, v) = Cardinality(I \cup K)
  BY <1>6 DEF Count
<1> HIDE DEF I, J, K
<1> QED BY <1>3, <1>4, <1>7, <1>8, <1>9

LEMMA CountOne ==
  ASSUME NEW x, NEW v
  PROVE  Count(<<x>>, v) = IF x = v THEN 1 ELSE 0
<1>1. {i \in DOMAIN <<x>> : <<x>>[i] = v} = IF x = v THEN {1} ELSE {}
  OBVIOUS
<1> QED BY <1>1, FS_Singleton, FS_EmptySet DEF Count
(* A list from its first element on, and the same element elsewhere.       *)
LEMMA CountTail ==
  ASSUME NEW V, NEW s \in Seq(V), s # <<>>, NEW v
  PROVE  /\ Tail(s) \in Seq(V)
         /\ Count(s, v) = (IF s[1] = v THEN 1 ELSE 0) + Count(Tail(s), v)
<1>1. Tail(s) \in Seq(V) /\ <<s[1]>> \in Seq(V) /\ s = <<s[1]>> \o Tail(s)
  OBVIOUS
<1>2. Count(<<s[1]>> \o Tail(s), v) = Count(<<s[1]>>, v) + Count(Tail(s), v)
  BY <1>1, CountConcat
<1> QED BY <1>1, <1>2, CountOne

(* Two parts of a list that follow each other.                             *)
LEMMA CountParts ==
  ASSUME NEW V, NEW s \in Seq(V), NEW m \in 0..Len(s), NEW v
  PROVE  /\ SubSeq(s, 1, m) \in Seq(V) /\ SubSeq(s, m + 1, Len(s)) \in Seq(V)
         /\ Count(s, v) = Count(SubSeq(s, 1, m), v) + Count(SubSeq(s, m + 1, Len(s)), v)
<1>1. SubSeq(s, 1, m) \in Seq(V) /\ SubSeq(s, m + 1, Len(s)) \in Seq(V)
      /\ s = SubSeq(s, 1, m) \o SubSeq(s, m + 1, Len(s))
  <2>1. SubSeq(s, 1, m) \in Seq(V) /\ SubSeq(s, m + 1, Len(s)) \in Seq(V)
    OBVIOUS
  <2>2. 1 \in 1..(Len(s) + 1) /\ m \in (1 - 1)..Len(s) /\ Len(s) \in m..Len(s)
    OBVIOUS
  <2>3. SubSeq(s, 1, m) \o SubSeq(s, m + 1, Len(s)) = SubSeq(s, 1, Len(s))
    BY <2>2, ConcatAdjacentSubSeq
  <2> QED BY <2>1, <2>3, SubSeqFull
<1>2. Count(SubSeq(s, 1, m) \o SubSeq(s, m + 1, Len(s)), v)
        = Count(SubSeq(s, 1, m), v) + Count(SubSeq(s, m + 1, Len(s)), v)
  BY <1>1, CountConcat
<1> QED BY <1>1, <1>2

(* The first elements of a list, one more.                                 *)
LEMMA CountNext ==
  ASSUME NEW V, NEW s \in Seq(V), NEW m \in 0..Len(s), m < Len(s), NEW v
  PROVE  Count(SubSeq(s, 1, m + 1), v) = Count(SubSeq(s, 1, m), v) + (IF s[m + 1] = v THEN 1 ELSE 0)
<1>1. SubSeq(s, 1, m) \in Seq(V) /\ <<s[m + 1]>> \in Seq(V)
      /\ SubSeq(s, 1, m + 1) = SubSeq(s, 1, m) \o <<s[m + 1]>>
  OBVIOUS
<1>2. Count(SubSeq(s, 1, m) \o <<s[m + 1]>>, v) = Count(SubSeq(s, 1, m), v) + Count(<<s[m + 1]>>, v)
  BY <1>1, CountConcat
<1> QED BY <1>1, <1>2, CountOne

(* An element removed from a list.                                         *)
LEMMA CountRemoved ==
  ASSUME NEW V, NEW s \in Seq(V), NEW m \in 1..Len(s), NEW v
  PROVE  /\ RemoveAt(s, m) \in Seq(V)
         /\ Count(s, v) = Count(RemoveAt(s, m), v) + (IF s[m] = v THEN 1 ELSE 0)
<1> DEFINE before == SubSeq(s, 1, m - 1)
           behind == SubSeq(s, m + 1, Len(s))
<1>1. before \in Seq(V) /\ behind \in Seq(V) /\ RemoveAt(s, m) = before \o behind
  BY DEF RemoveAt
<1>2. m - 1 \in 0..Len(s) /\ m - 1 < Len(s) /\ (m - 1) + 1 = m /\ m \in 0..Len(s)
  OBVIOUS
<1>3. Count(before \o behind, v) = Count(before, v) + Count(behind, v)
  BY <1>1, CountConcat
<1>4. Count(s, v) = Count(SubSeq(s, 1, m), v) + Count(behind, v)
  BY <1>2, CountParts
<1>5. Count(SubSeq(s, 1, (m - 1) + 1), v) = Count(before, v) + (IF s[(m - 1) + 1] = v THEN 1 ELSE 0)
  BY <1>2, CountNext
<1>6. Count(before, v) \in Nat /\ Count(behind, v) \in Nat
  BY <1>1, CountType
<1>7. RemoveAt(s, m) \in Seq(V)
  BY <1>1
<1> HIDE DEF before, behind
<1> QED BY <1>1, <1>2, <1>3, <1>4, <1>5, <1>6, <1>7
-----------------------------------------------------------------------------
(* The first place of an element in a list, 0 if it is not there.          *)
IndexOf(s, v) == LET I == {i \in 1..Len(s) : s[i] = v} IN IF I # {} THEN Min(I) ELSE 0

LEMMA IndexFound ==
  ASSUME NEW V, NEW s \in Seq(V), NEW v
  PROVE  \/ IndexOf(s, v) = 0 /\ \A i \in DOMAIN s : s[i] # v
         \/ IndexOf(s, v) \in 1..Len(s) /\ s[IndexOf(s, v)] = v
<1> DEFINE I == {i \in 1..Len(s) : s[i] = v}
<1>1. I \in SUBSET Nat /\ DOMAIN s = 1..Len(s)
  OBVIOUS
<1>2. IndexOf(s, v) = IF I # {} THEN Min(I) ELSE 0
  BY DEF IndexOf
<1>3. CASE I = {}
  BY <1>1, <1>2, <1>3
<1>4. CASE I # {}
  <2>1. \E x \in I : \A y \in I : x <= y
    <3> HIDE DEF I
    <3> QED BY <1>1, <1>4, Least
  <2>2. Min(I) \in I
    <3> HIDE DEF I
    <3> QED BY <2>1 DEF Min
  <2> QED BY <1>2, <1>4, <2>2
<1> QED BY <1>3, <1>4

(* containsAll's loop: one more expected element.                          *)
AllStates == [left : Seq(Nat), skipped : Seq(Nat), ordered : BOOLEAN, missing : BOOLEAN]

LEMMA AllFields ==
  ASSUME NEW s, NEW left, NEW skipped, NEW ordered, NEW missing, NEW x, NEW y,
         s = [left |-> left, skipped |-> skipped, ordered |-> ordered, missing |-> missing]
  PROVE  /\ [s EXCEPT !.left = x, !.skipped = y]
              = [left |-> x, skipped |-> y, ordered |-> ordered, missing |-> missing]
         /\ [s EXCEPT !.skipped = x, !.ordered = y]
              = [left |-> left, skipped |-> x, ordered |-> y, missing |-> missing]
         /\ [s EXCEPT !.missing = x]
              = [left |-> left, skipped |-> skipped, ordered |-> ordered, missing |-> x]
<1>1. [s EXCEPT !.left = x, !.skipped = y]
        = [left |-> x, skipped |-> y, ordered |-> ordered, missing |-> missing]
  <2> DEFINE t == [s EXCEPT !.left = x]
  <2>1. t = [left |-> x, skipped |-> skipped, ordered |-> ordered, missing |-> missing]
    OBVIOUS
  <2>2. [s EXCEPT !.left = x, !.skipped = y] = [t EXCEPT !.skipped = y]
    OBVIOUS
  <2> HIDE DEF t
  <2>3. [t EXCEPT !.skipped = y]
          = [left |-> x, skipped |-> y, ordered |-> ordered, missing |-> missing]
    BY <2>1
  <2> QED BY <2>2, <2>3
<1>2. [s EXCEPT !.skipped = x, !.ordered = y]
        = [left |-> left, skipped |-> x, ordered |-> y, missing |-> missing]
  <2> DEFINE t == [s EXCEPT !.skipped = x]
  <2>1. t = [left |-> left, skipped |-> x, ordered |-> ordered, missing |-> missing]
    OBVIOUS
  <2>2. [s EXCEPT !.skipped = x, !.ordered = y] = [t EXCEPT !.ordered = y]
    OBVIOUS
  <2> HIDE DEF t
  <2>3. [t EXCEPT !.ordered = y]
          = [left |-> left, skipped |-> x, ordered |-> y, missing |-> missing]
    BY <2>1
  <2> QED BY <2>2, <2>3
<1>3. [s EXCEPT !.missing = x]
        = [left |-> left, skipped |-> skipped, ordered |-> ordered, missing |-> x]
  OBVIOUS
<1> QED BY <1>1, <1>2, <1>3

LEMMA AllStepDoes ==
  ASSUME NEW s \in AllStates, NEW v
  PROVE  LET found == IndexOf(s.left, v)
             behind == IndexOf(s.skipped, v)
         IN AllStep(s, v) =
              IF found > 0
              THEN [left |-> Tail(s.left), skipped |-> s.skipped \o SubSeq(s.left, 1, found - 1),
                    ordered |-> s.ordered, missing |-> s.missing]
              ELSE IF behind > 0
              THEN [left |-> s.left, skipped |-> RemoveAt(s.skipped, behind),
                    ordered |-> FALSE, missing |-> s.missing]
              ELSE [left |-> s.left, skipped |-> s.skipped, ordered |-> s.ordered, missing |-> TRUE]
<1> DEFINE found == IndexOf(s.left, v)
           behind == IndexOf(s.skipped, v)
<1>1. AllStep(s, v) =
        IF found > 0
        THEN [s EXCEPT !.left = Tail(@), !.skipped = @ \o SubSeq(s.left, 1, found - 1)]
        ELSE IF behind > 0
        THEN [s EXCEPT !.skipped = RemoveAt(@, behind), !.ordered = FALSE]
        ELSE [s EXCEPT !.missing = TRUE]
  BY DEF AllStep, SelectInSeq, IndexOf
<1> HIDE DEF found, behind
<1>2. s = [left |-> s.left, skipped |-> s.skipped, ordered |-> s.ordered, missing |-> s.missing]
  BY DEF AllStates
<1> QED BY ONLY <1>1, <1>2, AllFields DEF found, behind

(* It loses at most the expected element of what is left and skipped; the  *)
(* element it drops instead of that one it also skips.                     *)
LEMMA AllStepKeeps ==
  ASSUME NEW s \in AllStates, NEW v
  PROVE  LET t == AllStep(s, v) IN
         /\ t \in AllStates
         /\ t.missing => s.missing \/ (Count(s.left, v) = 0 /\ Count(s.skipped, v) = 0)
         /\ \A x : Count(s.left, x) + Count(s.skipped, x)
                     <= Count(t.left, x) + Count(t.skipped, x) + (IF x = v THEN 1 ELSE 0)
<1> DEFINE t == AllStep(s, v)
           found == IndexOf(s.left, v)
           behind == IndexOf(s.skipped, v)
<1>1. s.left \in Seq(Nat) /\ s.skipped \in Seq(Nat) /\ s.ordered \in BOOLEAN /\ s.missing \in BOOLEAN
  BY DEF AllStates
<1>2. \/ found = 0 /\ \A i \in DOMAIN s.left : s.left[i] # v
      \/ found \in 1..Len(s.left) /\ s.left[found] = v
  BY <1>1, IndexFound
<1>3. \/ behind = 0 /\ \A i \in DOMAIN s.skipped : s.skipped[i] # v
      \/ behind \in 1..Len(s.skipped) /\ s.skipped[behind] = v
  BY <1>1, IndexFound
<1>4. t = IF found > 0
          THEN [left |-> Tail(s.left), skipped |-> s.skipped \o SubSeq(s.left, 1, found - 1),
                ordered |-> s.ordered, missing |-> s.missing]
          ELSE IF behind > 0
          THEN [left |-> s.left, skipped |-> RemoveAt(s.skipped, behind),
                ordered |-> FALSE, missing |-> s.missing]
          ELSE [left |-> s.left, skipped |-> s.skipped, ordered |-> s.ordered, missing |-> TRUE]
  BY AllStepDoes
<1>5. \A x : Count(s.left, x) \in Nat /\ Count(s.skipped, x) \in Nat
  BY <1>1, CountType
<1> HIDE DEF t, found, behind
<1>6. CASE found \in 1..Len(s.left) /\ s.left[found] = v
  <2> DEFINE over == SubSeq(s.left, 1, found - 1)
  <2>1. s.left # <<>> /\ over \in Seq(Nat) /\ Tail(s.left) \in Seq(Nat)
    BY <1>1, <1>6
  <2>2. t = [left |-> Tail(s.left), skipped |-> s.skipped \o over,
             ordered |-> s.ordered, missing |-> s.missing]
    BY <1>4, <1>6
  <2>3. ASSUME NEW x
        PROVE  Count(s.left, x) + Count(s.skipped, x)
                 <= Count(Tail(s.left), x) + Count(s.skipped \o over, x) + (IF x = v THEN 1 ELSE 0)
    <3>1. Count(s.left, x) = (IF s.left[1] = x THEN 1 ELSE 0) + Count(Tail(s.left), x)
      BY <1>1, <2>1, CountTail
    <3>2. Count(s.skipped \o over, x) = Count(s.skipped, x) + Count(over, x)
      BY <1>1, <2>1, CountConcat
    <3>3. Count(over, x) \in Nat /\ Count(Tail(s.left), x) \in Nat
      BY <2>1, CountType
    <3>4. s.left[1] = x /\ x # v => Count(over, x) # 0
      <4>1. SUFFICES ASSUME s.left[1] = x, x # v PROVE Count(over, x) # 0
        OBVIOUS
      <4>2. found # 1 /\ 1 \in DOMAIN over /\ over[1] = x
        BY <1>1, <1>6, <4>1
      <4> QED BY <2>1, <4>2, CountType
    <3> HIDE DEF over
    <3> QED BY <1>5, <3>1, <3>2, <3>3, <3>4
  <2>4. t \in AllStates
    BY <1>1, <2>1, <2>2 DEF AllStates
  <2> HIDE DEF over
  <2> QED BY <2>2, <2>3, <2>4 DEF t
<1>7. CASE found = 0 /\ behind \in 1..Len(s.skipped) /\ s.skipped[behind] = v
  <2>1. t = [left |-> s.left, skipped |-> RemoveAt(s.skipped, behind),
             ordered |-> FALSE, missing |-> s.missing]
    BY <1>4, <1>7
  <2>2. RemoveAt(s.skipped, behind) \in Seq(Nat)
        /\ \A x : Count(s.skipped, x) = Count(RemoveAt(s.skipped, behind), x) + (IF v = x THEN 1 ELSE 0)
    BY <1>1, <1>7, CountRemoved
  <2>3. \A x : Count(RemoveAt(s.skipped, behind), x) \in Nat
    BY <2>2, CountType
  <2>4. t \in AllStates
    BY <1>1, <2>1, <2>2 DEF AllStates
  <2>5. \A x : Count(s.left, x) + Count(s.skipped, x)
               <= Count(s.left, x) + Count(RemoveAt(s.skipped, behind), x) + (IF x = v THEN 1 ELSE 0)
    BY <1>5, <2>2, <2>3
  <2> QED BY <2>1, <2>4, <2>5 DEF t
<1>8. CASE found = 0 /\ behind = 0
  <2>1. t = [left |-> s.left, skipped |-> s.skipped, ordered |-> s.ordered, missing |-> TRUE]
    BY <1>4, <1>8
  <2>2. (\A i \in DOMAIN s.left : s.left[i] # v) /\ (\A i \in DOMAIN s.skipped : s.skipped[i] # v)
    BY <1>1, <1>2, <1>3, <1>8
  <2>3. Count(s.left, v) = 0 /\ Count(s.skipped, v) = 0
    BY <1>1, <2>2, CountType
  <2>4. t \in AllStates
    BY <1>1, <2>1 DEF AllStates
  <2>5. \A x : Count(s.left, x) + Count(s.skipped, x)
               <= Count(s.left, x) + Count(s.skipped, x) + (IF x = v THEN 1 ELSE 0)
    BY <1>5
  <2> QED BY <2>1, <2>3, <2>4, <2>5 DEF t
<1> QED BY <1>2, <1>3, <1>6, <1>7, <1>8
(* The states of containsAll's loop, for two lists.                        *)
AllRun(actual, expected, after) == after =
  [n \in 0..Len(expected) |->
     IF n = 0 THEN [left |-> actual, skipped |-> <<>>, ordered |-> TRUE, missing |-> FALSE]
              ELSE AllStep(after[n - 1], expected[n])]

LEMMA AllRuns ==
  ASSUME NEW actual \in Seq(Nat), NEW expected \in Seq(Nat)
  PROVE  \E after : /\ AllRun(actual, expected, after)
                    /\ All(actual, expected) = after[Len(expected)]
<1> DEFINE base == [left |-> actual, skipped |-> <<>>, ordered |-> TRUE, missing |-> FALSE]
           step == [n \in 1..Len(expected) |-> [s \in AllStates |-> AllStep(s, expected[n])]]
<1>1. base \in AllStates
  BY DEF AllStates
<1>2. step \in [1..Len(expected) -> [AllStates -> AllStates]]
  <2>1. \A s \in AllStates : \A v : AllStep(s, v) \in AllStates
    BY AllStepKeeps
  <2> QED BY <2>1
<1>3. Len(expected) \in Nat
  OBVIOUS
<1> HIDE DEF base, step
<1>4. PICK f \in [0..Len(expected) -> AllStates] :
        f = [k \in 0..Len(expected) |-> IF k = 0 THEN base ELSE step[k][f[k - 1]]]
  <2> DEFINE m == Len(expected)
  <2>1. m \in Nat /\ step \in [1..m -> [AllStates -> AllStates]]
    BY <1>2, <1>3
  <2> HIDE DEF m
  <2>2. \E f \in [0..m -> AllStates] : IsLoop(f, base, m, step)
    BY ONLY <1>1, <2>1, LoopRuns
  <2> QED BY <2>2 DEF m, IsLoop
<1>5. ASSUME NEW n \in 0..Len(expected)
      PROVE  f[n] = IF n = 0 THEN base ELSE AllStep(f[n - 1], expected[n])
  <2>1. CASE n = 0
    BY <1>3, <1>4, <2>1
  <2>2. CASE n # 0
    <3>1. n \in 1..Len(expected) /\ n - 1 \in 0..Len(expected)
      BY <1>3, <2>2
    <3>2. f[n] = step[n][f[n - 1]] /\ f[n - 1] \in AllStates
      BY <1>4, <2>2, <3>1
    <3> QED BY <2>2, <3>1, <3>2 DEF step
  <2> QED BY <2>1, <2>2
<1>6. AllRun(actual, expected, f)
  BY <1>4, <1>5 DEF AllRun, base
<1> DEFINE after == CHOOSE after : AllRun(actual, expected, after)
<1>7. AllRun(actual, expected, after)
  BY <1>6
<1>8. All(actual, expected) = after[Len(expected)]
  BY DEF All, AllRun
<1> QED BY <1>7, <1>8

(* contains_all_of finds every element, as often as it is expected, of a   *)
(* list that has it that often: nothing is lost between the list that is   *)
(* left and the one that was skipped.                                      *)
LEMMA AllFindsAll ==
  ASSUME NEW actual \in Seq(Nat), NEW expected \in Seq(Nat), HasAll(actual, expected)
  PROVE  ~All(actual, expected).missing
<1> DEFINE len == Len(expected)
           first(n) == SubSeq(expected, 1, n)
<1>1. PICK after : AllRun(actual, expected, after) /\ All(actual, expected) = after[len]
  BY AllRuns
<1>2. len \in Nat /\ DOMAIN expected = 1..len
  OBVIOUS
<1>3. /\ after[0] = [left |-> actual, skipped |-> <<>>, ordered |-> TRUE, missing |-> FALSE]
      /\ \A n \in 1..len : after[n] = AllStep(after[n - 1], expected[n])
  <2> HIDE DEF len
  <2>1. 0 \in 0..len /\ \A n \in 1..len : n \in 0..len /\ n # 0
    BY <1>2
  <2> QED BY <1>1, <2>1 DEF AllRun, len
<1>4. \A v : v \in ToSet(expected) => Count(expected, v) <= Count(actual, v)
  BY CountType DEF HasAll
<1> DEFINE kept(n) ==
             /\ after[n] \in AllStates /\ ~after[n].missing
             /\ \A x : Count(actual, x)
                        <= Count(after[n].left, x) + Count(after[n].skipped, x) + Count(first(n), x)
           lost == {n \in 0..len : ~kept(n)}
<1>5. kept(0)
  <2>1. after[0] \in AllStates /\ ~after[0].missing /\ after[0].left = actual /\ after[0].skipped = <<>>
    BY <1>3 DEF AllStates
  <2>2. first(0) = <<>> /\ <<>> \in Seq(Nat) /\ DOMAIN <<>> = {}
    OBVIOUS
  <2>3. \A x : Count(actual, x) \in Nat /\ Count(<<>>, x) = 0
    BY <2>2, CountType
  <2> HIDE DEF first
  <2> QED BY <2>1, <2>2, <2>3
<1>6. ASSUME NEW n \in 0..len, n < len, kept(n) PROVE kept(n + 1)
  <2> DEFINE s == after[n]
             v == expected[n + 1]
             t == AllStep(s, v)
  <2>1. n + 1 \in 1..len /\ (n + 1) - 1 = n
    BY <1>2, <1>6
  <2>2. after[n + 1] = t
    BY <1>3, <2>1
  <2>3. s \in AllStates /\ ~s.missing
        /\ \A x : Count(actual, x) <= Count(s.left, x) + Count(s.skipped, x) + Count(first(n), x)
    BY <1>6
  <2>4. /\ t \in AllStates
        /\ t.missing => s.missing \/ (Count(s.left, v) = 0 /\ Count(s.skipped, v) = 0)
        /\ \A x : Count(s.left, x) + Count(s.skipped, x)
                    <= Count(t.left, x) + Count(t.skipped, x) + (IF x = v THEN 1 ELSE 0)
    BY <2>3, AllStepKeeps
  <2>5. \A x : Count(first(n + 1), x) = Count(first(n), x) + (IF v = x THEN 1 ELSE 0)
    BY <1>2, <1>6, CountNext
  <2>6. \A x : /\ Count(s.left, x) \in Nat /\ Count(s.skipped, x) \in Nat
               /\ Count(t.left, x) \in Nat /\ Count(t.skipped, x) \in Nat
    <3>1. s.left \in Seq(Nat) /\ s.skipped \in Seq(Nat) /\ t.left \in Seq(Nat) /\ t.skipped \in Seq(Nat)
      BY <2>3, <2>4 DEF AllStates
    <3> QED BY <3>1, CountType
  <2>7. \A x : Count(first(n), x) \in Nat /\ Count(actual, x) \in Nat
    <3>1. first(n) \in Seq(Nat)
      BY <1>2, <1>6
    <3> HIDE DEF first
    <3> QED BY <3>1, CountType
  <2>8. Count(first(n + 1), v) <= Count(expected, v)
    <3>1. n + 1 \in 0..len
      BY <2>1
    <3>2. /\ SubSeq(expected, n + 2, len) \in Seq(Nat) /\ first(n + 1) \in Seq(Nat)
          /\ Count(expected, v) = Count(first(n + 1), v) + Count(SubSeq(expected, (n + 1) + 1, len), v)
      BY <3>1, CountParts
    <3> DEFINE rest == SubSeq(expected, (n + 1) + 1, len)
    <3>3. rest \in Seq(Nat) /\ first(n + 1) \in Seq(Nat)
      BY <3>2, (n + 1) + 1 = n + 2
    <3> HIDE DEF first, rest, v
    <3>4. Count(rest, v) \in Nat /\ Count(first(n + 1), v) \in Nat
      BY <3>3, CountType
    <3>5. Count(expected, v) = Count(first(n + 1), v) + Count(rest, v)
      BY <3>2 DEF rest
    <3> QED BY <3>4, <3>5
  <2>9. v \in ToSet(expected)
    BY <1>2, <2>1 DEF ToSet
  <2> HIDE DEF s, t, v, first
  <2>10. ~t.missing
    <3>1. Count(expected, v) <= Count(actual, v) /\ Count(expected, v) \in Nat
      BY <1>4, <2>9, CountType
    <3>2. Count(s.left, v) + Count(s.skipped, v) # 0
      BY <2>3, <2>5, <2>6, <2>7, <2>8, <3>1
    <3> QED BY <2>3, <2>4, <2>6, <3>2
  <2>11. \A x : Count(actual, x) <= Count(t.left, x) + Count(t.skipped, x) + Count(first(n + 1), x)
    <3>1. ASSUME NEW x
          PROVE  Count(actual, x) <= Count(t.left, x) + Count(t.skipped, x) + Count(first(n + 1), x)
      <4>1. /\ Count(actual, x) <= Count(s.left, x) + Count(s.skipped, x) + Count(first(n), x)
            /\ Count(s.left, x) + Count(s.skipped, x)
                 <= Count(t.left, x) + Count(t.skipped, x) + (IF x = v THEN 1 ELSE 0)
            /\ Count(first(n + 1), x) = Count(first(n), x) + (IF v = x THEN 1 ELSE 0)
        BY <2>3, <2>4, <2>5
      <4> QED BY ONLY <2>6, <2>7, <4>1
    <3> QED BY <3>1
  <2> QED BY <2>2, <2>4, <2>10, <2>11
<1> HIDE DEF kept
<1>7. lost = {}
  <2>1. SUFFICES ASSUME lost # {} PROVE FALSE
    OBVIOUS
  <2>2. PICK n \in lost : \A m \in lost : n <= m
    <3>1. lost \in SUBSET Nat
      BY <1>2
    <3> HIDE DEF lost
    <3> QED BY <2>1, <3>1, Least
  <2>3. n # 0 /\ n \in 0..len
    BY <1>5, <2>2
  <2>4. n - 1 \in 0..len /\ n - 1 < len /\ n - 1 \notin lost /\ (n - 1) + 1 = n
    BY <1>2, <2>2, <2>3
  <2>5. kept((n - 1) + 1)
    BY <1>6, <2>4
  <2> QED BY <2>2, <2>4, <2>5
<1>8. kept(len)
  BY <1>2, <1>7
<1> QED BY <1>1, <1>8 DEF kept
(* A growing function goes at least as far as its argument.                *)
LEMMA GrowsWithItsArgument ==
  ASSUME NEW m \in Nat, NEW n \in Nat, NEW f \in [1..m -> 1..n],
         \A i, j \in 1..m : i < j => f[i] < f[j]
  PROVE  \A i \in 1..m : i <= f[i]
<1> DEFINE behind == {i \in 1..m : f[i] < i}
<1>1. behind = {}
  <2>1. SUFFICES ASSUME behind # {} PROVE FALSE
    OBVIOUS
  <2>2. PICK i \in behind : \A j \in behind : i <= j
    <3>1. behind \in SUBSET Nat
      OBVIOUS
    <3> HIDE DEF behind
    <3> QED BY <2>1, <3>1, Least
  <2>3. i \in 1..m /\ f[i] < i /\ f[i] \in 1..n
    BY <2>2
  <2>4. i - 1 \in 1..m /\ i - 1 < i /\ i - 1 \notin behind
    BY <2>2, <2>3
  <2>5. i - 1 <= f[i - 1] /\ f[i - 1] < f[i] /\ f[i - 1] \in 1..n
    BY <2>3, <2>4
  <2> QED BY <2>3, <2>4, <2>5
<1>2. \A i \in 1..m : f[i] \in Int
  OBVIOUS
<1> QED BY <1>1, <1>2

(* in_order accepts, after contains_all_of, every list that has the        *)
(* expected elements in their order: each time one element is looked for,  *)
(* the first that is left is dropped, so that it is always still there.    *)
LEMMA AllKeepsOrder ==
  ASSUME NEW actual \in Seq(Nat), NEW expected \in Seq(Nat), IsSubSequence(actual, expected)
  PROVE  All(actual, expected).ordered
<1> DEFINE len == Len(expected)
<1>1. PICK after : AllRun(actual, expected, after) /\ All(actual, expected) = after[len]
  BY AllRuns
<1>2. len \in Nat /\ Len(actual) \in Nat
  OBVIOUS
<1>3. /\ after[0] = [left |-> actual, skipped |-> <<>>, ordered |-> TRUE, missing |-> FALSE]
      /\ \A n \in 1..len : after[n] = AllStep(after[n - 1], expected[n])
  <2> HIDE DEF len
  <2>1. 0 \in 0..len /\ \A n \in 1..len : n \in 0..len /\ n # 0
    BY <1>2
  <2> QED BY <1>1, <2>1 DEF AllRun, len
<1>4. PICK f \in [1..len -> 1..Len(actual)] :
        /\ \A i, j \in 1..len : i < j => f[i] < f[j]
        /\ \A i \in 1..len : actual[f[i]] = expected[i]
  BY DEF IsSubSequence
<1>5. \A i \in 1..len : i <= f[i] /\ f[i] \in 1..Len(actual)
  <2> HIDE DEF len
  <2>1. \A i \in 1..len : i <= f[i]
    BY <1>2, <1>4, GrowsWithItsArgument
  <2> QED BY <1>4, <2>1
<1> DEFINE inOrder(n) == /\ after[n] \in AllStates /\ after[n].ordered
                         /\ n <= Len(actual) /\ after[n].left = SubSeq(actual, n + 1, Len(actual))
           astray == {n \in 0..len : ~inOrder(n)}
<1>6. inOrder(0)
  <2>1. after[0] \in AllStates /\ after[0].ordered /\ after[0].left = actual
    BY <1>3 DEF AllStates
  <2>2. SubSeq(actual, 0 + 1, Len(actual)) = actual
    BY SubSeqFull
  <2> QED BY <1>2, <2>1, <2>2
<1>7. ASSUME NEW n \in 0..len, n < len, inOrder(n) PROVE inOrder(n + 1)
  <2> DEFINE s == after[n]
             v == expected[n + 1]
             t == AllStep(s, v)
             at == f[n + 1]
  <2>1. n + 1 \in 1..len /\ (n + 1) - 1 = n /\ n \in Nat
    BY <1>2, <1>7
  <2>2. after[n + 1] = t
    BY <1>3, <2>1
  <2>3. at \in 1..Len(actual) /\ n + 1 <= at /\ actual[at] = v
    BY <1>4, <1>5, <2>1
  <2>4. s \in AllStates /\ s.ordered /\ s.left = SubSeq(actual, n + 1, Len(actual)) /\ s.left \in Seq(Nat)
    BY <1>7 DEF AllStates
  <2>5. Len(s.left) = Len(actual) - n /\ at - n \in 1..Len(s.left) /\ s.left[at - n] = v
    <3> DEFINE m == Len(actual)
               left == SubSeq(actual, n + 1, m)
    <3>1. m \in Nat /\ n \in Nat /\ n + 1 \in 1..m /\ at \in 1..m /\ n + 1 <= at
      BY <1>2, <2>1, <2>3
    <3>2. Len(left) = m - n
      <4>1. Len(left) = IF n + 1 <= m THEN m - (n + 1) + 1 ELSE 0
        OBVIOUS
      <4> HIDE DEF m, left
      <4> QED BY <3>1, <4>1
    <3>3. at - n \in 1..(m - n)
      <4> HIDE DEF m, at
      <4> QED BY <3>1
    <3>4. \A j \in 1..(m - n) : left[j] = actual[(n + 1) + j - 1]
      <4>1. m - n = m - (n + 1) + 1
        BY <3>1
      <4>2. \A j \in 1..(m - (n + 1) + 1) : left[j] = actual[(n + 1) + j - 1]
        <5>1. (n + 1) - 1 = n
          BY <3>1
        <5> QED BY <3>1, <4>1, <5>1, SubSeqProperties
      <4> QED BY <4>1, <4>2
    <3>5. left[at - n] = actual[(n + 1) + (at - n) - 1] /\ (n + 1) + (at - n) - 1 = at
      <4> HIDE DEF m, at, left
      <4> QED BY <3>1, <3>3, <3>4
    <3> HIDE DEF m, at, left, s
    <3>6. s.left = left
      BY <2>4 DEF left, m
    <3> QED BY <2>3, <3>2, <3>3, <3>5, <3>6 DEF m
  <2>6. IndexOf(s.left, v) > 0
    <3> HIDE DEF s, v, at
    <3>1. at - n \in DOMAIN s.left
      BY <2>4, <2>5
    <3>2. IndexOf(s.left, v) \in 1..Len(s.left)
      BY <2>4, <2>5, <3>1, IndexFound
    <3> QED BY <2>4, <3>2
  <2>7. Tail(s.left) = SubSeq(actual, (n + 1) + 1, Len(actual))
    <3>1. n + 1 \in 1..Len(actual)
      BY <1>2, <2>1, <2>3
    <3>2. Tail(SubSeq(actual, n + 1, Len(actual))) = SubSeq(actual, (n + 1) + 1, Len(actual))
      BY <1>2, <3>1
    <3> QED BY <2>4, <3>2
  <2>8. t \in AllStates
    BY <2>4, AllStepKeeps
  <2>9. t.left = Tail(s.left) /\ t.ordered = s.ordered
    <3> DEFINE skipped == s.skipped \o SubSeq(s.left, 1, IndexOf(s.left, v) - 1)
    <3>1. t = [left |-> Tail(s.left), skipped |-> skipped,
               ordered |-> s.ordered, missing |-> s.missing]
      <4> HIDE DEF s, v
      <4> QED BY <2>4, <2>6, AllStepDoes
    <3> HIDE DEF s, v, t, skipped
    <3> QED BY <3>1, Zenon
  <2>10. n + 1 <= Len(actual)
    BY <1>2, <2>1, <2>3
  <2> HIDE DEF s, t
  <2> QED BY <2>2, <2>4, <2>7, <2>8, <2>9, <2>10
<1> HIDE DEF inOrder
<1>8. astray = {}
  <2>1. SUFFICES ASSUME astray # {} PROVE FALSE
    OBVIOUS
  <2>2. PICK n \in astray : \A m \in astray : n <= m
    <3>1. astray \in SUBSET Nat
      BY <1>2
    <3> HIDE DEF astray
    <3> QED BY <2>1, <3>1, Least
  <2>3. n # 0 /\ n \in 0..len
    BY <1>6, <2>2
  <2>4. n - 1 \in 0..len /\ n - 1 < len /\ n - 1 \notin astray /\ (n - 1) + 1 = n
    BY <1>2, <2>2, <2>3
  <2>5. inOrder((n - 1) + 1)
    BY <1>7, <2>4
  <2> QED BY <2>2, <2>4, <2>5
<1>9. inOrder(len)
  BY <1>2, <1>8
<1> QED BY <1>1, <1>9 DEF inOrder

(* contains_all_of and in_order accept what they should, for any lists.    *)
THEOREM AllAccepts == Spec => []AllAcceptsWhatItShould
<1>1. IInv => AllAcceptsWhatItShould
  <2> SUFFICES ASSUME IInv, NEW i \in DOMAIN subjects, NEW list \in Lists
               PROVE  LET a == subjects[i].actual s == All(a, list) IN
                      /\ HasAll(a, list) => ~s.missing
                      /\ IsSubSequence(a, list) => s.ordered
    BY DEF AllAcceptsWhatItShould
  <2>1. Lists \subseteq Seq(Nat)
    BY TruthAssumption
  <2>2. subjects[i].actual \in Lists
    <3>1. subjects \in Seq(SubjectSet)
      BY DEF IInv, TypeOK, TruthTypeOK
    <3>2. subjects[i] \in SubjectSet
      BY <3>1
    <3> QED BY <3>2 DEF SubjectSet
  <2>3. subjects[i].actual \in Seq(Nat) /\ list \in Seq(Nat)
    BY <2>1, <2>2
  <2> QED BY <2>3, AllFindsAll, AllKeepsOrder
<1> QED BY <1>1, Invariance, PTL
-----------------------------------------------------------------------------
(* contains_exactly.  How often a counter of elements has one of them.     *)
Copies(B, v) == IF v \in DOMAIN B THEN B[v] ELSE 0
BagsOf(V) == UNION {[D -> Nat \ {0}] : D \in SUBSET V}

(* One copy more, or one less.                                             *)
LEMMA OneMore ==
  ASSUME NEW V, NEW B \in BagsOf(V), NEW v \in V
  PROVE  /\ B (+) SetToBag({v}) \in BagsOf(V)
         /\ \A x : Copies(B (+) SetToBag({v}), x) = Copies(B, x) + (IF x = v THEN 1 ELSE 0)
<1> DEFINE C == B (+) SetToBag({v})
           E == DOMAIN B \cup {v}
<1>1. PICK D \in SUBSET V : B \in [D -> Nat \ {0}]
  BY DEF BagsOf
<1>2. DOMAIN SetToBag({v}) = {v} /\ SetToBag({v})[v] = 1
  BY DEF SetToBag
<1>3. C = [x \in E |-> (IF x \in DOMAIN B THEN B[x] ELSE 0) + (IF x \in {v} THEN SetToBag({v})[x] ELSE 0)]
  BY <1>2 DEF (+)
<1>4. DOMAIN C = E /\ \A x \in E : C[x] = Copies(B, x) + (IF x = v THEN 1 ELSE 0)
  BY <1>2, <1>3 DEF Copies
<1>5. \A x \in E : Copies(B, x) + (IF x = v THEN 1 ELSE 0) \in Nat \ {0}
  BY <1>1 DEF Copies
<1>6. C \in [E -> Nat \ {0}] /\ E \in SUBSET V
  BY <1>1, <1>3, <1>4, <1>5
<1>7. C \in BagsOf(V)
  BY <1>6 DEF BagsOf
<1>8. ASSUME NEW x PROVE Copies(C, x) = Copies(B, x) + (IF x = v THEN 1 ELSE 0)
  <2>1. CASE x \in E
    BY <1>4, <2>1 DEF Copies
  <2>2. CASE x \notin E
    BY <1>4, <2>2 DEF Copies
  <2> QED BY <2>1, <2>2
<1> QED BY <1>7, <1>8

LEMMA OneLess ==
  ASSUME NEW V, NEW B \in BagsOf(V), NEW v \in DOMAIN B
  PROVE  /\ B (-) SetToBag({v}) \in BagsOf(V)
         /\ \A x : Copies(B (-) SetToBag({v}), x) = Copies(B, x) - (IF x = v THEN 1 ELSE 0)
<1> DEFINE C == B (-) SetToBag({v})
           less == [x \in DOMAIN B |-> IF x \in {v} THEN B[x] - SetToBag({v})[x] ELSE B[x]]
           E == {x \in DOMAIN less : less[x] > 0}
<1>1. PICK D \in SUBSET V : B \in [D -> Nat \ {0}]
  BY DEF BagsOf
<1>2. DOMAIN SetToBag({v}) = {v} /\ SetToBag({v})[v] = 1
  BY DEF SetToBag
<1>3. C = [x \in E |-> less[x]]
  BY <1>2 DEF (-)
<1>4. DOMAIN less = DOMAIN B /\ \A x \in DOMAIN B : less[x] = B[x] - (IF x = v THEN 1 ELSE 0)
  BY <1>1, <1>2
<1>5. \A x \in DOMAIN B : B[x] \in Nat \ {0}
  BY <1>1
<1> HIDE DEF less
<1>6. C \in [E -> Nat \ {0}] /\ E \in SUBSET V
  <2>1. \A x \in E : x \in DOMAIN B /\ less[x] \in Nat \ {0}
    BY <1>4, <1>5
  <2>2. E \in SUBSET V
    BY <1>1, <2>1
  <2> HIDE DEF E
  <2> QED BY <1>3, <2>1, <2>2
<1>7. C \in BagsOf(V)
  BY <1>6 DEF BagsOf
<1>8. ASSUME NEW x PROVE Copies(C, x) = Copies(B, x) - (IF x = v THEN 1 ELSE 0)
  <2>1. CASE x \in E
    BY <1>3, <1>4, <2>1 DEF Copies
  <2>2. CASE x \notin E /\ x \in DOMAIN B
    <3>1. less[x] \notin Nat \ {0} /\ less[x] = B[x] - (IF x = v THEN 1 ELSE 0) /\ B[x] \in Nat \ {0}
      BY <1>4, <1>5, <2>2
    <3>2. x = v /\ B[x] = 1
      BY <3>1
    <3> QED BY <1>3, <2>2, <3>2 DEF Copies
  <2>3. CASE x \notin DOMAIN B
    <3>1. x \notin E /\ x # v
      BY <1>4, <2>3
    <3> QED BY <1>3, <2>3, <3>1 DEF Copies
  <2> QED BY <2>1, <2>2, <2>3
<1> QED BY <1>7, <1>8

(* The counters, one more element of the list counted.                     *)
CounterStates(V) == [missing : BagsOf(V), extra : BagsOf(V)]

Counted(c, v, d) == \A x :
  /\ x = v /\ Copies(c.missing, v) > 0 =>
       /\ Copies(d.missing, x) = Copies(c.missing, x) - 1
       /\ Copies(d.extra, x) = Copies(c.extra, x)
  /\ x = v /\ Copies(c.missing, v) <= 0 =>
       /\ Copies(d.missing, x) = Copies(c.missing, x)
       /\ Copies(d.extra, x) = Copies(c.extra, x) + 1
  /\ x # v =>
       /\ Copies(d.missing, x) = Copies(c.missing, x)
       /\ Copies(d.extra, x) = Copies(c.extra, x)

LEMMA CountersStepCounts ==
  ASSUME NEW V, NEW c \in CounterStates(V), NEW v \in V, NEW d, d = CountersStep(c, v)
  PROVE  d \in CounterStates(V) /\ Counted(c, v, d)
<1> DEFINE missing == c.missing
           extra == c.extra
<1>1. missing \in BagsOf(V) /\ extra \in BagsOf(V) /\ c = [missing |-> missing, extra |-> extra]
  BY DEF CounterStates
<1>2. d = IF v \in DOMAIN missing
          THEN [missing |-> missing (-) SetToBag({v}), extra |-> extra]
          ELSE [missing |-> missing, extra |-> extra (+) SetToBag({v})]
  <2>1. \A x : /\ [c EXCEPT !.missing = x] = [missing |-> x, extra |-> extra]
               /\ [c EXCEPT !.extra = x] = [missing |-> missing, extra |-> x]
    <3> HIDE DEF missing, extra, Counted
    <3> QED BY <1>1
  <2> QED BY <2>1 DEF CountersStep
<1> HIDE DEF missing, extra, Counted
<1>3. CASE v \in DOMAIN missing
  <2> DEFINE less == missing (-) SetToBag({v})
  <2>1. d = [missing |-> less, extra |-> extra]
    BY <1>2, <1>3
  <2>2. less \in BagsOf(V) /\ \A x : Copies(less, x) = Copies(missing, x) - (IF x = v THEN 1 ELSE 0)
    BY <1>1, <1>3, OneLess
  <2>3. \A x : Copies(missing, x) \in Nat
    BY <1>1 DEF Copies, BagsOf
  <2>4. Copies(missing, v) > 0
    BY <1>1, <1>3 DEF Copies, BagsOf
  <2> HIDE DEF less
  <2>5. d \in CounterStates(V)
    BY <1>1, <2>1, <2>2 DEF CounterStates
  <2>6. \A x : Copies(less, x) = IF x = v THEN Copies(missing, x) - 1 ELSE Copies(missing, x)
    BY <2>2, <2>3
  <2>7. d.missing = less /\ d.extra = extra
    BY <2>1
  <2> QED BY <2>3, <2>4, <2>5, <2>6, <2>7 DEF missing, extra, Counted
<1>4. CASE v \notin DOMAIN missing
  <2> DEFINE more == extra (+) SetToBag({v})
  <2>1. d = [missing |-> missing, extra |-> more]
    BY <1>2, <1>4
  <2>2. more \in BagsOf(V) /\ \A x : Copies(more, x) = Copies(extra, x) + (IF x = v THEN 1 ELSE 0)
    BY <1>1, OneMore
  <2>3. \A x : Copies(extra, x) \in Nat
    BY <1>1 DEF Copies, BagsOf
  <2>4. Copies(missing, v) = 0
    BY <1>4 DEF Copies
  <2> HIDE DEF more
  <2>5. d \in CounterStates(V)
    BY <1>1, <2>1, <2>2 DEF CounterStates
  <2>6. \A x : Copies(more, x) = IF x = v THEN Copies(extra, x) + 1 ELSE Copies(extra, x)
    BY <2>2, <2>3
  <2>7. d.missing = missing /\ d.extra = more
    BY <2>1
  <2> QED BY <2>3, <2>4, <2>5, <2>6, <2>7 DEF missing, extra, Counted
<1> QED BY <1>3, <1>4

(* Before the first one they hold what is expected.                        *)
LEMMA ToBagCounts ==
  ASSUME NEW V, NEW s \in Seq(V)
  PROVE  /\ ToBag(s) \in BagsOf(V)
         /\ \A x : Copies(ToBag(s), x) = Count(s, x)
<1> DEFINE R == {s[i] : i \in DOMAIN s}
<1>1. ToBag(s) = [x \in R |-> Count(s, x)]
  BY DEF ToBag, Range, Count
<1>2. \A x : /\ Count(s, x) \in Nat
             /\ Count(s, x) = 0 <=> \A i \in DOMAIN s : s[i] # x
  BY CountType
<1>3. \A x : Count(s, x) # 0 <=> x \in R
  BY <1>2
<1>4. R \in SUBSET V
  OBVIOUS
<1> HIDE DEF R
<1>5. ToBag(s) \in [R -> Nat \ {0}]
  BY <1>1, <1>2, <1>3
<1> QED BY <1>1, <1>2, <1>3, <1>4, <1>5 DEF BagsOf, Copies

LEMMA EmptyBagCounts ==
  ASSUME NEW V
  PROVE  /\ EmptyBag \in BagsOf(V) /\ \A x : Copies(EmptyBag, x) = 0
         /\ \A B \in BagsOf(V) : B = EmptyBag <=> \A x : Copies(B, x) = 0
<1>1. EmptyBag = [x \in {} |-> 1]
  BY DEF EmptyBag, SetToBag
<1>2. EmptyBag \in [{} -> Nat \ {0}] /\ {} \in SUBSET V /\ DOMAIN EmptyBag = {}
  BY <1>1
<1>3. EmptyBag \in BagsOf(V) /\ \A x : Copies(EmptyBag, x) = 0
  BY <1>2 DEF BagsOf, Copies
<1>4. ASSUME NEW B \in BagsOf(V), \A x : Copies(B, x) = 0 PROVE B = EmptyBag
  <2>1. PICK D \in SUBSET V : B \in [D -> Nat \ {0}]
    BY DEF BagsOf
  <2>2. D = {}
    BY <1>4, <2>1 DEF Copies
  <2> QED BY <1>1, <2>1, <2>2
<1> QED BY <1>3, <1>4

(* The states of the loop that counts.                                     *)
CountersRun(actual, expected, after) == after =
  [n \in 0..Len(actual) |->
     IF n = 0 THEN [missing |-> ToBag(expected), extra |-> EmptyBag]
              ELSE CountersStep(after[n - 1], actual[n])]

LEMMA CountersRuns ==
  ASSUME NEW V, NEW actual \in Seq(V), NEW expected \in Seq(V)
  PROVE  \E after : /\ CountersRun(actual, expected, after)
                    /\ Counters(actual, expected) = after[Len(actual)]
<1> DEFINE S == CounterStates(V)
           base == [missing |-> ToBag(expected), extra |-> EmptyBag]
           step == [n \in 1..Len(actual) |-> [c \in S |-> CountersStep(c, actual[n])]]
<1>1. base \in S
  BY ToBagCounts, EmptyBagCounts DEF CounterStates
<1>2. step \in [1..Len(actual) -> [S -> S]]
  <2>1. \A c \in S : \A v \in V : CountersStep(c, v) \in S
    BY CountersStepCounts
  <2>2. \A n \in 1..Len(actual) : actual[n] \in V
    OBVIOUS
  <2> HIDE DEF S
  <2> QED BY <2>1, <2>2
<1>3. Len(actual) \in Nat
  OBVIOUS
<1> HIDE DEF base, step, S
<1>4. PICK f \in [0..Len(actual) -> S] :
        f = [k \in 0..Len(actual) |-> IF k = 0 THEN base ELSE step[k][f[k - 1]]]
  <2> DEFINE m == Len(actual)
  <2>1. m \in Nat /\ step \in [1..m -> [S -> S]]
    BY <1>2, <1>3
  <2> HIDE DEF m
  <2>2. \E f \in [0..m -> S] : IsLoop(f, base, m, step)
    BY ONLY <1>1, <2>1, LoopRuns
  <2> QED BY <2>2 DEF m, IsLoop
<1>5. ASSUME NEW n \in 0..Len(actual)
      PROVE  f[n] = IF n = 0 THEN base ELSE CountersStep(f[n - 1], actual[n])
  <2>1. CASE n = 0
    BY <1>3, <1>4, <2>1
  <2>2. CASE n # 0
    <3>1. n \in 1..Len(actual) /\ n - 1 \in 0..Len(actual)
      BY <1>3, <2>2
    <3>2. f[n] = step[n][f[n - 1]] /\ f[n - 1] \in S
      BY <1>4, <2>2, <3>1
    <3> QED BY <2>2, <3>1, <3>2 DEF step
  <2> QED BY <2>1, <2>2
<1>6. CountersRun(actual, expected, f)
  BY <1>4, <1>5 DEF CountersRun, base
<1> DEFINE after == CHOOSE after : CountersRun(actual, expected, after)
<1>7. CountersRun(actual, expected, after)
  BY <1>6
<1>8. Counters(actual, expected) = after[Len(actual)]
  BY DEF Counters, CountersRun
<1> QED BY <1>7, <1>8

(* In the end both counters are empty just when each value is as often in  *)
(* one list as in the other: until then they hold by how much it is not.   *)
LEMMA CountersTell ==
  ASSUME NEW V, NEW actual \in Seq(V), NEW expected \in Seq(V)
  PROVE  LET c == Counters(actual, expected) IN
         c.missing = EmptyBag /\ c.extra = EmptyBag <=>
           \A v : Count(actual, v) = Count(expected, v)
<1> DEFINE len == Len(actual)
           first(n) == SubSeq(actual, 1, n)
<1>1. PICK after : /\ CountersRun(actual, expected, after)
                   /\ Counters(actual, expected) = after[len]
  BY CountersRuns
<1>2. len \in Nat
  OBVIOUS
<1>3. /\ after[0] = [missing |-> ToBag(expected), extra |-> EmptyBag]
      /\ \A n \in 1..len : after[n] = CountersStep(after[n - 1], actual[n])
  <2> HIDE DEF len
  <2>1. 0 \in 0..len /\ \A n \in 1..len : n \in 0..len /\ n # 0
    BY <1>2
  <2> QED BY <1>1, <2>1 DEF CountersRun, len
<1> DEFINE
     holds(n) ==
       /\ after[n] \in CounterStates(V)
       /\ \A x : Copies(after[n].missing, x) =
                   IF Count(first(n), x) <= Count(expected, x)
                   THEN Count(expected, x) - Count(first(n), x) ELSE 0
       /\ \A x : Copies(after[n].extra, x) =
                   IF Count(first(n), x) <= Count(expected, x)
                   THEN 0 ELSE Count(first(n), x) - Count(expected, x)
     fails == {n \in 0..len : ~holds(n)}
<1>4. holds(0)
  <2>1. first(0) \in Seq(V) /\ \A i \in DOMAIN first(0) : FALSE
    OBVIOUS
  <2>2. \A x : Count(first(0), x) = 0 /\ Count(expected, x) \in Nat
    <3> HIDE DEF first
    <3> QED BY <2>1, CountType
  <2>3. /\ ToBag(expected) \in BagsOf(V) /\ EmptyBag \in BagsOf(V)
        /\ \A x : Copies(ToBag(expected), x) = Count(expected, x)
        /\ \A x : Copies(EmptyBag, x) = 0
    BY ToBagCounts, EmptyBagCounts
  <2>4. after[0].missing = ToBag(expected) /\ after[0].extra = EmptyBag
    BY <1>3
  <2>5. after[0] \in CounterStates(V)
    BY <1>3, <2>3 DEF CounterStates
  <2> HIDE DEF first
  <2> QED BY <2>2, <2>3, <2>4, <2>5
<1>5. ASSUME NEW n \in 0..len, n < len, holds(n) PROVE holds(n + 1)
  <2> DEFINE c == after[n]
             d == after[n + 1]
             v == actual[n + 1]
  <2>1. n + 1 \in 1..len /\ (n + 1) - 1 = n
    BY <1>2, <1>5
  <2>2. d = CountersStep(c, v) /\ v \in V
    BY <1>3, <2>1
  <2>3. first(n) \in Seq(V)
    BY <1>2, CountParts
  <2>4. \A x : /\ Count(first(n), x) \in Nat /\ Count(expected, x) \in Nat
               /\ Count(first(n + 1), x) = Count(first(n), x) + (IF v = x THEN 1 ELSE 0)
    <3>1. \A x : Count(first(n), x) \in Nat /\ Count(expected, x) \in Nat
      <4> HIDE DEF first
      <4> QED BY <2>3, CountType
    <3>2. \A x : Count(first(n + 1), x) = Count(first(n), x) + (IF v = x THEN 1 ELSE 0)
      BY <1>5, CountNext
    <3> QED BY <3>1, <3>2
  <2> HIDE DEF first, len
  <2>5. /\ c \in CounterStates(V)
        /\ \A x : Copies(c.missing, x) =
                    IF Count(first(n), x) <= Count(expected, x)
                    THEN Count(expected, x) - Count(first(n), x) ELSE 0
        /\ \A x : Copies(c.extra, x) =
                    IF Count(first(n), x) <= Count(expected, x)
                    THEN 0 ELSE Count(first(n), x) - Count(expected, x)
    BY <1>5
  <2> HIDE DEF c, d, v
  <2>6. d \in CounterStates(V) /\ Counted(c, v, d)
    <3>1. c \in CounterStates(V) /\ v \in V /\ d = CountersStep(c, v)
      BY <2>2, <2>5 DEF c, d, v
    <3> QED BY ONLY <3>1, CountersStepCounts
  <2>7. ASSUME NEW x
        PROVE  /\ Copies(d.missing, x) =
                    IF Count(first(n + 1), x) <= Count(expected, x)
                    THEN Count(expected, x) - Count(first(n + 1), x) ELSE 0
               /\ Copies(d.extra, x) =
                    IF Count(first(n + 1), x) <= Count(expected, x)
                    THEN 0 ELSE Count(first(n + 1), x) - Count(expected, x)
    <3>1. CASE x # v
      BY <2>4, <2>5, <2>6, <3>1 DEF Counted
    <3>2. CASE x = v /\ Copies(c.missing, v) > 0
      BY <2>4, <2>5, <2>6, <3>2 DEF Counted
    <3>3. CASE x = v /\ Copies(c.missing, v) <= 0
      BY <2>4, <2>5, <2>6, <3>3 DEF Counted
    <3>4. Copies(c.missing, v) \in Int
      BY <2>4, <2>5
    <3> QED BY <3>1, <3>2, <3>3, <3>4
  <2> QED BY <2>6, <2>7 DEF d
<1> HIDE DEF holds
<1>6. fails = {}
  <2>1. SUFFICES ASSUME fails # {} PROVE FALSE
    OBVIOUS
  <2>2. PICK n \in fails : \A m \in fails : n <= m
    <3>1. fails \in SUBSET Nat
      BY <1>2
    <3> HIDE DEF fails
    <3> QED BY <2>1, <3>1, Least
  <2>3. n # 0 /\ n \in 0..len
    BY <1>4, <2>2
  <2>4. n - 1 \in 0..len /\ n - 1 < len /\ n - 1 \notin fails /\ (n - 1) + 1 = n
    BY <1>2, <2>2, <2>3
  <2>5. holds((n - 1) + 1)
    BY <1>5, <2>4
  <2> QED BY <2>2, <2>4, <2>5
<1>7. holds(len)
  BY <1>2, <1>6
<1>8. first(len) = actual
  BY SubSeqFull
<1> DEFINE c == Counters(actual, expected)
<1>9. /\ c \in CounterStates(V)
      /\ \A x : Copies(c.missing, x) =
                  IF Count(actual, x) <= Count(expected, x)
                  THEN Count(expected, x) - Count(actual, x) ELSE 0
      /\ \A x : Copies(c.extra, x) =
                  IF Count(actual, x) <= Count(expected, x)
                  THEN 0 ELSE Count(actual, x) - Count(expected, x)
  BY <1>1, <1>7, <1>8 DEF holds
<1>10. \A x : Count(actual, x) \in Nat /\ Count(expected, x) \in Nat
  BY CountType
<1>11. c.missing \in BagsOf(V) /\ c.extra \in BagsOf(V)
  BY <1>9 DEF CounterStates
<1>12. /\ c.missing = EmptyBag <=> \A x : Copies(c.missing, x) = 0
       /\ c.extra = EmptyBag <=> \A x : Copies(c.extra, x) = 0
  <2> HIDE DEF c
  <2> QED BY <1>11, EmptyBagCounts
<1> HIDE DEF c
<1>13. \A x : Copies(c.missing, x) = 0 /\ Copies(c.extra, x) = 0 <=> Count(actual, x) = Count(expected, x)
  BY <1>9, <1>10
<1> QED BY <1>12, <1>13 DEF c

(* Lists that have the same elements have each value equally often.        *)
LEMMA SameElementsCount ==
  ASSUME NEW V, NEW a \in Seq(V), NEW b \in Seq(V)
  PROVE  SameElements(a, b) <=> \A v : Count(a, v) = Count(b, v)
<1>1. \A v : v \notin ToSet(a) \cup ToSet(b) => Count(a, v) = 0 /\ Count(b, v) = 0
  BY CountType DEF ToSet
<1> QED BY <1>1 DEF SameElements

(* The place of the first difference.                                      *)
LEMMA DifferenceFound ==
  ASSUME NEW V, NEW a \in Seq(V), NEW b \in Seq(V)
  PROVE  \/ /\ Difference(a, b) = 0
            /\ \A i \in DOMAIN a \cap DOMAIN b : a[i] = b[i]
         \/ /\ Difference(a, b) \in DOMAIN a \cap DOMAIN b
            /\ a[Difference(a, b)] # b[Difference(a, b)]
            /\ \A i \in 1..(Difference(a, b) - 1) : a[i] = b[i]
<1> DEFINE differ == {i \in 1..Len(a) : i <= Len(b) /\ a[i] # b[i]}
<1>1. Difference(a, b) = IF differ = {} THEN 0 ELSE Min(differ)
  BY DEF Difference
<1>2. /\ Len(a) \in Nat /\ Len(b) \in Nat /\ DOMAIN a = 1..Len(a) /\ DOMAIN b = 1..Len(b)
      /\ differ \in SUBSET Nat
  OBVIOUS
<1>3. CASE differ = {}
  <2>1. Difference(a, b) = 0
    BY <1>1, <1>3
  <2>2. ASSUME NEW i \in DOMAIN a \cap DOMAIN b PROVE a[i] = b[i]
    <3>1. i \in 1..Len(a) /\ i <= Len(b) /\ i \notin differ
      BY <1>2, <1>3
    <3> QED BY <3>1
  <2> QED BY <2>1, <2>2
<1>4. CASE differ # {}
  <2> DEFINE m == Min(differ)
  <2>1. m \in differ /\ \A i \in differ : m <= i
    <3>1. \E x \in differ : \A y \in differ : x <= y
      <4> HIDE DEF differ
      <4> QED BY <1>2, <1>4, Least
    <3> HIDE DEF differ
    <3> QED BY <3>1 DEF Min
  <2>2. Difference(a, b) = m
    BY <1>1, <1>4
  <2> HIDE DEF m
  <2>3. m \in 1..Len(a) /\ m <= Len(b) /\ a[m] # b[m]
    BY <2>1
  <2>4. ASSUME NEW i \in 1..(m - 1) PROVE a[i] = b[i]
    <3>1. i \in 1..Len(a) /\ i <= Len(b) /\ ~(m <= i)
      BY <1>2, <2>3
    <3>2. i \notin differ
      BY <2>1, <3>1
    <3> QED BY <3>1, <3>2
  <2>5. m \in DOMAIN a \cap DOMAIN b
    BY <1>2, <2>3
  <2> QED BY <2>2, <2>3, <2>4, <2>5
<1> QED BY <1>3, <1>4

(* A list longer than another one that it begins with has other elements.  *)
LEMMA LongerDiffers ==
  ASSUME NEW V, NEW a \in Seq(V), NEW b \in Seq(V), Len(a) < Len(b),
         \A i \in DOMAIN a \cap DOMAIN b : a[i] = b[i]
  PROVE  \E v : Count(a, v) # Count(b, v)
<1> DEFINE m == Len(a)
           v == b[m + 1]
           rest == SubSeq(b, m + 1, Len(b))
<1>1. m \in Nat /\ Len(b) \in Nat /\ m \in 0..Len(b) /\ m < Len(b)
      /\ DOMAIN a = 1..m /\ DOMAIN b = 1..Len(b)
  OBVIOUS
<1>2. SubSeq(b, 1, m) = a
  <2>1. \A i \in 1..m : i \in 1..Len(b)
    BY <1>1
  <2>2. \A i \in 1..m : a[i] = b[i]
    BY <1>1, <2>1
  <2> HIDE DEF m
  <2>3. SubSeq(b, 1, m) = [i \in 1..m |-> b[i]]
    BY <1>1
  <2> QED BY <1>1, <2>2, <2>3
<1>3. Count(b, v) = Count(a, v) + Count(rest, v) /\ rest \in Seq(V)
  <2> HIDE DEF m, v
  <2>1. Count(b, v) = Count(SubSeq(b, 1, m), v) + Count(rest, v) /\ rest \in Seq(V)
    BY <1>1, CountParts
  <2> QED BY <1>2, <2>1
<1>4. 1 \in DOMAIN rest /\ rest[1] = v
  <2>1. \A i \in (m + 1)..Len(b) : b[i] \in V
    BY <1>1
  <2> QED BY <1>1, <2>1, SubSeqProperties
<1>5. Count(rest, v) \in Nat /\ Count(rest, v) # 0 /\ Count(a, v) \in Nat
  <2> HIDE DEF rest, v
  <2> QED BY <1>3, <1>4, CountType
<1> HIDE DEF v, rest
<1> QED BY <1>3, <1>5

(* contains_exactly passes just on lists of the same elements.             *)
LEMMA ExactlyTells ==
  ASSUME NEW V, NEW a \in Seq(V), NEW b \in Seq(V)
  PROVE  ExactlyPasses(a, b) <=> SameElements(a, b)
<1> DEFINE i == Difference(a, b)
<1>1. Len(a) \in Nat /\ Len(b) \in Nat /\ DOMAIN a = 1..Len(a) /\ DOMAIN b = 1..Len(b)
  OBVIOUS
<1>2. CASE i = 0
  <2>1. \A k \in DOMAIN a \cap DOMAIN b : a[k] = b[k]
    BY <1>1, <1>2, DifferenceFound
  <2>2. ExactlyPasses(a, b) <=> Len(a) = Len(b)
    BY <1>2 DEF ExactlyPasses
  <2>3. Len(a) = Len(b) => a = b
    BY <1>1, <2>1
  <2>4. Len(a) < Len(b) => \E v : Count(a, v) # Count(b, v)
    BY <2>1, LongerDiffers
  <2>5. Len(b) < Len(a) => \E v : Count(a, v) # Count(b, v)
    <3>1. \A k \in DOMAIN b \cap DOMAIN a : b[k] = a[k]
      BY <2>1
    <3>2. Len(b) < Len(a) => \E v : Count(b, v) # Count(a, v)
      BY <3>1, LongerDiffers
    <3> QED BY <3>2
  <2>6. SameElements(a, b) <=> \A v : Count(a, v) = Count(b, v)
    BY SameElementsCount
  <2>7. /\ Len(a) < Len(b) \/ Len(b) < Len(a) \/ Len(a) = Len(b)
        /\ Len(a) < Len(b) \/ Len(b) < Len(a) => Len(a) # Len(b)
    <3>1. \A m, n \in Nat : m < n \/ n < m \/ m = n
      OBVIOUS
    <3>2. \A m, n \in Nat : m < n \/ n < m => m # n
      OBVIOUS
    <3> QED BY ONLY <1>1, <3>1, <3>2, Zenon
  <2>8. a = b => \A v : Count(a, v) = Count(b, v)
    OBVIOUS
  <2> QED BY ONLY <2>2, <2>3, <2>4, <2>5, <2>6, <2>7, <2>8, Zenon
<1>3. CASE i # 0
  <2>1. /\ i \in 1..Len(a) /\ i \in 1..Len(b) /\ \A k \in 1..(i - 1) : a[k] = b[k]
    BY <1>1, <1>3, DifferenceFound
  <2> DEFINE aRest == SubSeq(a, i, Len(a))
             bRest == SubSeq(b, i, Len(b))
  <2>2. ExactlyPasses(a, b) <=>
          Counters(aRest, bRest).missing = EmptyBag /\ Counters(aRest, bRest).extra = EmptyBag
    BY <1>3 DEF ExactlyPasses
  <2> HIDE DEF i
  <2>3. i - 1 \in 0..Len(a) /\ i - 1 \in 0..Len(b) /\ (i - 1) + 1 = i
    BY <1>1, <2>1
  <2>4. /\ SubSeq(a, 1, i - 1) = [k \in 1..(i - 1) |-> a[k]]
        /\ SubSeq(b, 1, i - 1) = [k \in 1..(i - 1) |-> b[k]]
    BY <2>3
  <2>5. SubSeq(a, 1, i - 1) = SubSeq(b, 1, i - 1)
    BY <2>1, <2>4
  <2>6. /\ aRest \in Seq(V)
        /\ \A v : Count(a, v) = Count(SubSeq(a, 1, i - 1), v) + Count(aRest, v)
    BY <2>3, CountParts
  <2>7. /\ bRest \in Seq(V) /\ SubSeq(b, 1, i - 1) \in Seq(V)
        /\ \A v : Count(b, v) = Count(SubSeq(b, 1, i - 1), v) + Count(bRest, v)
    BY <2>3, CountParts
  <2> HIDE DEF aRest, bRest
  <2>8. \A v : /\ Count(aRest, v) \in Nat /\ Count(bRest, v) \in Nat
               /\ Count(SubSeq(b, 1, i - 1), v) \in Nat
    BY <2>6, <2>7, CountType
  <2>9. \A v : Count(a, v) = Count(b, v) <=> Count(aRest, v) = Count(bRest, v)
    <3> TAKE v
    <3>1. Count(a, v) = Count(SubSeq(b, 1, i - 1), v) + Count(aRest, v)
      BY <2>5, <2>6
    <3> QED BY <2>7, <2>8, <3>1
  <2>10. Counters(aRest, bRest).missing = EmptyBag /\ Counters(aRest, bRest).extra = EmptyBag <=>
           \A v : Count(aRest, v) = Count(bRest, v)
    BY <2>6, <2>7, CountersTell
  <2> QED BY <2>2, <2>9, <2>10, SameElementsCount
<1> QED BY <1>2, <1>3

(* is_equal_to, with no predicate before it, just on equal ones.           *)
LEMMA EqualTells ==
  ASSUME NEW V, NEW t, NEW b \in Seq(V), t.actual \in Seq(V), t.forOrdering = "nil"
  PROVE  EqualPasses(t, b) <=> t.actual = b
<1> DEFINE a == t.actual
<1>1. a \in Seq(V) /\ Len(a) \in Nat /\ Len(b) \in Nat /\ DOMAIN a = 1..Len(a) /\ DOMAIN b = 1..Len(b)
  OBVIOUS
<1>2. ExactlyOrdering(t, b) = "ordered" <=> Difference(a, b) = 0
  BY DEF ExactlyOrdering
<1>3. Difference(a, b) = 0 => (ExactlyPasses(a, b) <=> Len(a) = Len(b))
  BY DEF ExactlyPasses
<1>4. EqualPasses(t, b) <=> Difference(a, b) = 0 /\ Len(a) = Len(b)
  BY <1>2, <1>3 DEF EqualPasses
<1> HIDE DEF a
<1>5. Difference(a, b) = 0 /\ Len(a) = Len(b) => a = b
  <2>1. Difference(a, b) = 0 => \A k \in DOMAIN a \cap DOMAIN b : a[k] = b[k]
    BY <1>1, DifferenceFound
  <2> QED BY <1>1, <2>1
<1>6. a = b => Difference(a, b) = 0 /\ Len(a) = Len(b)
  BY <1>1, DifferenceFound
<1> QED BY <1>4, <1>5, <1>6 DEF a
-----------------------------------------------------------------------------
(* Dicts.  One has one item of each key.                                   *)
OneOfEach(d) == \A i, j \in DOMAIN d : d[i][1] = d[j][1] => i = j
Dicts(P) == {d \in Seq(P) : OneOfEach(d)}

(* A key set takes the place of the item that has it, or comes last.       *)
LEMMA SetKeySets ==
  ASSUME NEW P, NEW d \in Dicts(P), NEW item \in P
  PROVE  /\ SetKey(d, item) \in Dicts(P)
         /\ ToSet(SetKey(d, item)) = {x \in ToSet(d) : x[1] # item[1]} \cup {item}
<1> DEFINE I == {i \in 1..Len(d) : d[i][1] = item[1]}
           at == IF I # {} THEN Min(I) ELSE 0
<1>1. SetKey(d, item) = IF at = 0 THEN Append(d, item) ELSE [d EXCEPT ![at] = item]
  BY DEF SetKey, SelectInSeq, ReplaceAt
<1>2. d \in Seq(P) /\ OneOfEach(d) /\ Len(d) \in Nat /\ DOMAIN d = 1..Len(d) /\ I \in SUBSET Nat
  BY DEF Dicts
<1>3. CASE I = {}
  <2> DEFINE e == Append(d, item)
             m == Len(d) + 1
  <2>1. SetKey(d, item) = e
    BY <1>1, <1>3
  <2>2. /\ e \in Seq(P) /\ DOMAIN e = 1..m /\ e[m] = item
        /\ \A i \in 1..Len(d) : e[i] = d[i] /\ d[i][1] # item[1]
    BY <1>2, <1>3
  <2>3. \A i \in 1..m : i = m \/ i \in 1..Len(d)
    BY <1>2
  <2>4. m \in 1..m /\ \A i \in 1..Len(d) : i \in 1..m
    BY <1>2
  <2> HIDE DEF e, m
  <2>5. OneOfEach(e)
    <3>1. SUFFICES ASSUME NEW i \in 1..m, NEW j \in 1..m, e[i][1] = e[j][1] PROVE i = j
      BY <2>2 DEF OneOfEach
    <3> QED BY <1>2, <2>2, <2>3, <3>1 DEF OneOfEach
  <2>6. ToSet(e) = {x \in ToSet(d) : x[1] # item[1]} \cup {item}
    BY <1>2, <2>2, <2>3, <2>4 DEF ToSet
  <2> QED BY <2>1, <2>2, <2>5, <2>6 DEF Dicts
<1>4. CASE I # {}
  <2>1. at \in I
    <3>1. \E x \in I : \A y \in I : x <= y
      <4> HIDE DEF I
      <4> QED BY <1>2, <1>4, Least
    <3>2. Min(I) \in I
      <4> HIDE DEF I
      <4> QED BY <3>1 DEF Min
    <3> QED BY <1>4, <3>2
  <2> DEFINE e == [d EXCEPT ![at] = item]
  <2>2. SetKey(d, item) = e
    <3>1. at # 0
      BY <1>2, <2>1
    <3> HIDE DEF at
    <3> QED BY <1>1, <3>1
  <2> HIDE DEF at
  <2>3. at \in 1..Len(d) /\ d[at][1] = item[1]
    BY <2>1
  <2>4. /\ e \in Seq(P) /\ DOMAIN e = 1..Len(d) /\ e[at] = item
        /\ \A i \in 1..Len(d) : i # at => e[i] = d[i]
    BY <1>2, <2>3
  <2>5. \A i \in 1..Len(d) : d[i][1] = item[1] <=> i = at
    BY <1>2, <2>3 DEF OneOfEach
  <2>6. \A i \in 1..Len(d) : e[i][1] = d[i][1]
    BY <2>3, <2>4
  <2> HIDE DEF e
  <2>7. OneOfEach(e)
    BY <1>2, <2>4, <2>6 DEF OneOfEach
  <2>8. ToSet(e) = {x \in ToSet(d) : x[1] # item[1]} \cup {item}
    BY <1>2, <2>3, <2>4, <2>5 DEF ToSet
  <2> QED BY <2>2, <2>4, <2>7, <2>8 DEF Dicts
<1> QED BY <1>3, <1>4

(* The states of the loop that sets the keys.                              *)
DictRun(pairs, after) == after =
  [n \in 0..Len(pairs) |-> IF n = 0 THEN <<>> ELSE SetKey(after[n - 1], pairs[n])]

LEMMA DictRuns ==
  ASSUME NEW P, NEW pairs \in Seq(P)
  PROVE  \E after : DictRun(pairs, after) /\ DictOf(pairs) = after[Len(pairs)]
<1> DEFINE S == Dicts(P)
           step == [n \in 1..Len(pairs) |-> [d \in S |-> SetKey(d, pairs[n])]]
<1>1. <<>> \in S
  BY DEF Dicts, OneOfEach
<1>2. step \in [1..Len(pairs) -> [S -> S]]
  <2>1. \A d \in S : \A item \in P : SetKey(d, item) \in S
    BY SetKeySets
  <2>2. \A n \in 1..Len(pairs) : pairs[n] \in P
    OBVIOUS
  <2> HIDE DEF S
  <2> QED BY <2>1, <2>2
<1>3. Len(pairs) \in Nat
  OBVIOUS
<1> HIDE DEF step, S
<1>4. PICK f \in [0..Len(pairs) -> S] :
        f = [k \in 0..Len(pairs) |-> IF k = 0 THEN <<>> ELSE step[k][f[k - 1]]]
  <2> DEFINE m == Len(pairs)
  <2>1. m \in Nat /\ step \in [1..m -> [S -> S]]
    BY <1>2, <1>3
  <2> HIDE DEF m
  <2>2. \E f \in [0..m -> S] : IsLoop(f, <<>>, m, step)
    BY ONLY <1>1, <2>1, LoopRuns
  <2> QED BY <2>2 DEF m, IsLoop
<1>5. ASSUME NEW n \in 0..Len(pairs)
      PROVE  f[n] = IF n = 0 THEN <<>> ELSE SetKey(f[n - 1], pairs[n])
  <2>1. CASE n = 0
    BY <1>3, <1>4, <2>1
  <2>2. CASE n # 0
    <3>1. n \in 1..Len(pairs) /\ n - 1 \in 0..Len(pairs)
      BY <1>3, <2>2
    <3>2. f[n] = step[n][f[n - 1]] /\ f[n - 1] \in S
      BY <1>4, <2>2, <3>1
    <3> QED BY <2>2, <3>1, <3>2 DEF step
  <2> QED BY <2>1, <2>2
<1>6. DictRun(pairs, f)
  BY <1>4, <1>5 DEF DictRun
<1> DEFINE after == CHOOSE after : DictRun(pairs, after)
<1>7. DictRun(pairs, after)
  BY <1>6
<1>8. DictOf(pairs) = after[Len(pairs)]
  BY DEF DictOf, DictRun
<1> QED BY <1>7, <1>8

(* The last items of each key, among the first n.                          *)
LastsOf(items, n) ==
  {items[i] : i \in {j \in 1..n : \A k \in 1..n : k > j => items[k][1] # items[j][1]}}

(* They are those of the dict made of the items.                           *)
LEMMA DictTells ==
  ASSUME NEW P, NEW pairs \in Seq(P)
  PROVE  DictOf(pairs) \in Dicts(P) /\ ToSet(DictOf(pairs)) = LastsOf(pairs, Len(pairs))
<1> DEFINE len == Len(pairs)
<1>1. PICK after : DictRun(pairs, after) /\ DictOf(pairs) = after[len]
  BY DictRuns
<1>2. len \in Nat /\ \A n \in 1..len : pairs[n] \in P
  OBVIOUS
<1>3. after[0] = <<>> /\ \A n \in 1..len : after[n] = SetKey(after[n - 1], pairs[n])
  <2> HIDE DEF len
  <2>1. 0 \in 0..len /\ \A n \in 1..len : n \in 0..len /\ n # 0
    BY <1>2
  <2> QED BY <1>1, <2>1 DEF DictRun, len
<1> DEFINE holds(n) == after[n] \in Dicts(P) /\ ToSet(after[n]) = LastsOf(pairs, n)
           fails == {n \in 0..len : ~holds(n)}
<1>4. holds(0)
  <2>1. <<>> \in Dicts(P)
    BY DEF Dicts, OneOfEach
  <2>2. ToSet(<<>>) = {} /\ LastsOf(pairs, 0) = {}
    BY DEF ToSet, LastsOf
  <2> QED BY <1>3, <2>1, <2>2
<1>5. ASSUME NEW n \in 0..len, n < len, holds(n) PROVE holds(n + 1)
  <2> DEFINE item == pairs[n + 1]
             last(m, j) == \A k \in 1..m : k > j => pairs[k][1] # pairs[j][1]
  <2>1. n + 1 \in 1..len /\ (n + 1) - 1 = n
    BY <1>2, <1>5
  <2>2. after[n + 1] = SetKey(after[n], item) /\ item \in P
    BY <1>2, <1>3, <2>1
  <2>3. /\ SetKey(after[n], item) \in Dicts(P)
        /\ ToSet(SetKey(after[n], item)) = {x \in ToSet(after[n]) : x[1] # item[1]} \cup {item}
    BY <1>5, <2>2, SetKeySets
  <2>4. ASSUME NEW j \in 1..n
        PROVE  last(n + 1, j) <=> last(n, j) /\ pairs[j][1] # item[1]
    <3>1. \A k \in 1..(n + 1) : k = n + 1 \/ k \in 1..n
      BY <1>2
    <3>2. n + 1 > j /\ n + 1 \in 1..(n + 1) /\ \A k \in 1..n : k \in 1..(n + 1)
      BY <1>2
    <3> QED BY <3>1, <3>2
  <2>5. last(n + 1, n + 1) /\ n + 1 \in 1..(n + 1)
    BY <1>2
  <2>6. \A j : j \in 1..(n + 1) <=> j = n + 1 \/ j \in 1..n
    BY <1>2
  <2>7. \A m : LastsOf(pairs, m) = {pairs[j] : j \in {j \in 1..m : last(m, j)}}
    BY DEF LastsOf
  <2> HIDE DEF last
  <2>8. LastsOf(pairs, n + 1) = {x \in LastsOf(pairs, n) : x[1] # item[1]} \cup {item}
    BY <2>4, <2>5, <2>6, <2>7
  <2> QED BY <1>5, <2>2, <2>3, <2>8
<1> HIDE DEF holds
<1>6. fails = {}
  <2>1. SUFFICES ASSUME fails # {} PROVE FALSE
    OBVIOUS
  <2>2. PICK n \in fails : \A m \in fails : n <= m
    <3>1. fails \in SUBSET Nat
      BY <1>2
    <3> HIDE DEF fails
    <3> QED BY <2>1, <3>1, Least
  <2>3. n # 0 /\ n \in 0..len
    BY <1>4, <2>2
  <2>4. n - 1 \in 0..len /\ n - 1 < len /\ n - 1 \notin fails /\ (n - 1) + 1 = n
    BY <1>2, <2>2, <2>3
  <2>5. holds((n - 1) + 1)
    BY <1>5, <2>4
  <2> QED BY <2>2, <2>4, <2>5
<1>7. holds(len)
  BY <1>2, <1>6
<1> QED BY <1>1, <1>7 DEF holds

(* Two dicts pass just if they have the same items.                        *)
LEMMA ItemsTell ==
  ASSUME NEW P, NEW d \in Dicts(P), NEW e \in Dicts(P)
  PROVE  ItemsPass(d, e) <=> ToSet(d) = ToSet(e)
<1>1. d \in Seq(P) /\ e \in Seq(P)
  BY DEF Dicts
<1>2. ASSUME NEW f \in Dicts(P), NEW v
      PROVE  Count(f, v) = IF v \in ToSet(f) THEN 1 ELSE 0
  <2>1. CASE v \in ToSet(f)
    <3>1. PICK i \in DOMAIN f : f[i] = v
      BY <2>1 DEF ToSet
    <3>2. {j \in DOMAIN f : f[j] = v} = {i}
      BY <1>2, <3>1 DEF Dicts, OneOfEach
    <3> QED BY <2>1, <3>2, FS_Singleton DEF Count
  <2>2. CASE v \notin ToSet(f)
    <3>1. \A i \in DOMAIN f : f[i] # v
      BY <2>2 DEF ToSet
    <3>2. f \in Seq(P)
      BY <1>2 DEF Dicts
    <3> QED BY <2>2, <3>1, <3>2, CountType
  <2> QED BY <2>1, <2>2
<1>3. ItemsPass(d, e) <=> \A v : Count(d, v) = Count(e, v)
  BY <1>1, ExactlyTells, SameElementsCount DEF ItemsPass
<1>4. \A v : /\ Count(d, v) = IF v \in ToSet(d) THEN 1 ELSE 0
             /\ Count(e, v) = IF v \in ToSet(e) THEN 1 ELSE 0
  BY <1>2
<1>5. (\A v : Count(d, v) = Count(e, v)) <=> \A v : v \in ToSet(d) <=> v \in ToSet(e)
  BY <1>4
<1> QED BY <1>3, <1>5

(* The last item of each key is one of them, and they are all of those.    *)
KeysOf(items) == {items[i][1] : i \in DOMAIN items}
LastOf(items, k) == Max({i \in DOMAIN items : items[i][1] = k})

LEMMA LastFound ==
  ASSUME NEW P, NEW items \in Seq(P)
  PROVE  LET lasts == LastsOf(items, Len(items)) IN
         /\ \A k \in KeysOf(items) : /\ items[LastOf(items, k)] \in lasts
                                     /\ items[LastOf(items, k)][1] = k
         /\ \A x \in lasts : x[1] \in KeysOf(items) /\ x = items[LastOf(items, x[1])]
<1> DEFINE len == Len(items)
           lasts == LastsOf(items, len)
<1>1. len \in Nat /\ DOMAIN items = 1..len
  OBVIOUS
<1>2. lasts = {items[i] : i \in {j \in 1..len : \A k \in 1..len : k > j => items[k][1] # items[j][1]}}
  BY DEF LastsOf
<1> HIDE DEF len, lasts
<1>3. ASSUME NEW k \in KeysOf(items)
      PROVE  /\ LastOf(items, k) \in 1..len /\ items[LastOf(items, k)][1] = k
             /\ \A i \in 1..len : items[i][1] = k => i <= LastOf(items, k)
  <2> DEFINE I == {i \in 1..len : items[i][1] = k}
             fromEnd == {len - i : i \in I}
  <2>1. I # {}
    BY <1>1, <1>3 DEF KeysOf
  <2>2. fromEnd \in SUBSET Nat /\ fromEnd # {}
    BY <1>1, <2>1
  <2>3. PICK m \in fromEnd : \A n \in fromEnd : m <= n
    <3> HIDE DEF fromEnd
    <3> QED BY <2>2, Least
  <2>4. PICK i \in I : m = len - i
    BY <2>3
  <2>5. \A j \in I : i >= j
    <3>1. \A j \in I : m <= len - j
      BY <2>3
    <3>2. \A j \in I : j \in Nat
      BY <1>1
    <3> HIDE DEF I
    <3> QED BY <1>1, <2>4, <3>1, <3>2
  <2>6. Max(I) \in I /\ \A j \in I : Max(I) >= j
    <3> HIDE DEF I
    <3> QED BY <2>4, <2>5 DEF Max
  <2>7. LastOf(items, k) = Max(I)
    BY <1>1 DEF LastOf
  <2> DEFINE last == Max(I)
  <2> HIDE DEF last
  <2>8. last \in 1..len /\ items[last][1] = k /\ \A j \in 1..len : items[j][1] = k => j <= last
    BY <1>1, <2>6 DEF last
  <2> QED BY <2>7, <2>8 DEF last
<1>4. ASSUME NEW k \in KeysOf(items) PROVE items[LastOf(items, k)] \in lasts
  <2> DEFINE i == LastOf(items, k)
  <2>1. i \in 1..len /\ items[i][1] = k /\ \A j \in 1..len : items[j][1] = k => j <= i
    BY <1>3
  <2> HIDE DEF i
  <2>2. \A j \in 1..len : j > i => items[j][1] # items[i][1]
    BY <1>1, <2>1
  <2> QED BY <1>2, <2>1, <2>2 DEF i
<1>5. ASSUME NEW x \in lasts PROVE x[1] \in KeysOf(items) /\ x = items[LastOf(items, x[1])]
  <2>1. PICK j \in 1..len : x = items[j] /\ \A k \in 1..len : k > j => items[k][1] # items[j][1]
    BY <1>2, <1>5
  <2>2. x[1] \in KeysOf(items)
    BY <1>1, <2>1 DEF KeysOf
  <2> DEFINE i == LastOf(items, x[1])
  <2>3. i \in 1..len /\ items[i][1] = x[1] /\ j <= i
    BY <1>3, <2>1, <2>2
  <2> HIDE DEF i
  <2>4. i = j
    BY <1>1, <2>1, <2>3
  <2> QED BY <2>1, <2>2, <2>4 DEF i
<1> QED BY <1>3, <1>4, <1>5 DEF lasts, len

LEMMA SameDictLasts ==
  ASSUME NEW P, NEW a \in Seq(P), NEW b \in Seq(P)
  PROVE  SameDict(a, b) <=> LastsOf(a, Len(a)) = LastsOf(b, Len(b))
<1> DEFINE lastsA == LastsOf(a, Len(a))
           lastsB == LastsOf(b, Len(b))
<1>1. SameDict(a, b) <=> /\ KeysOf(a) = KeysOf(b)
                         /\ \A k \in KeysOf(a) : a[LastOf(a, k)] = b[LastOf(b, k)]
  BY DEF SameDict, KeysOf, LastOf
<1>2. /\ \A k \in KeysOf(a) : a[LastOf(a, k)] \in lastsA /\ a[LastOf(a, k)][1] = k
      /\ \A x \in lastsA : x[1] \in KeysOf(a) /\ x = a[LastOf(a, x[1])]
  BY LastFound
<1>3. /\ \A k \in KeysOf(b) : b[LastOf(b, k)] \in lastsB /\ b[LastOf(b, k)][1] = k
      /\ \A x \in lastsB : x[1] \in KeysOf(b) /\ x = b[LastOf(b, x[1])]
  BY LastFound
<1> HIDE DEF lastsA, lastsB
<1>4. ASSUME KeysOf(a) = KeysOf(b), \A k \in KeysOf(a) : a[LastOf(a, k)] = b[LastOf(b, k)]
      PROVE  lastsA = lastsB
  <2>1. \A x : x \in lastsA => x \in lastsB
    BY <1>2, <1>3, <1>4
  <2>2. \A x : x \in lastsB => x \in lastsA
    BY <1>2, <1>3, <1>4
  <2> QED BY <2>1, <2>2
<1>5. ASSUME lastsA = lastsB
      PROVE  KeysOf(a) = KeysOf(b) /\ \A k \in KeysOf(a) : a[LastOf(a, k)] = b[LastOf(b, k)]
  <2>1. \A k : k \in KeysOf(a) => k \in KeysOf(b)
    BY <1>2, <1>3, <1>5
  <2>2. \A k : k \in KeysOf(b) => k \in KeysOf(a)
    BY <1>2, <1>3, <1>5
  <2>3. \A k \in KeysOf(a) : a[LastOf(a, k)] = b[LastOf(b, k)]
    BY <1>2, <1>3, <1>5
  <2> QED BY <2>1, <2>2, <2>3
<1> QED BY <1>1, <1>4, <1>5 DEF lastsA, lastsB

(* is_equal_to on dicts made of items.                                     *)
LEMMA DictsTell ==
  ASSUME NEW P, NEW a \in Seq(P), NEW b \in Seq(P)
  PROVE  ItemsPass(DictOf(a), DictOf(b)) <=> SameDict(a, b)
<1>1. /\ DictOf(a) \in Dicts(P) /\ ToSet(DictOf(a)) = LastsOf(a, Len(a))
      /\ DictOf(b) \in Dicts(P) /\ ToSet(DictOf(b)) = LastsOf(b, Len(b))
  BY DictTells
<1>2. ItemsPass(DictOf(a), DictOf(b)) <=> ToSet(DictOf(a)) = ToSet(DictOf(b))
  BY <1>1, ItemsTell
<1> QED BY <1>1, <1>2, SameDictLasts

(* The pairs contains_exactly reads: the first half, rounded up.           *)
LEMMA PairsAreHalf ==
  ASSUME NEW P, NEW b \in Seq(P)
  PROVE  PairsRead(b) = SubSeq(b, 1, Len(b) - (Len(b) \div 2)) /\ PairsRead(b) \in Seq(P)
<1>1. \A n \in Nat : (n + 1) \div 2 = n - (n \div 2) /\ (n + 1) \div 2 <= n /\ (n + 1) \div 2 \in Nat
  OBVIOUS
<1>2. Len(b) \in Nat
  OBVIOUS
<1>3. PairsRead(b) = SubSeq(b, 1, (Len(b) + 1) \div 2)
  BY DEF PairsRead
<1> DEFINE half == (Len(b) + 1) \div 2
<1>4. half \in 0..Len(b) /\ half = Len(b) - (Len(b) \div 2)
  <2> DEFINE m == Len(b)
  <2> HIDE DEF m
  <2>1. m \in Nat
    BY <1>2 DEF m
  <2>2. (m + 1) \div 2 \in 0..m /\ (m + 1) \div 2 = m - (m \div 2)
    BY <1>1, <2>1
  <2> QED BY <2>2 DEF m
<1> HIDE DEF half
<1>5. SubSeq(b, 1, half) \in Seq(P)
  BY <1>4, CountParts
<1> QED BY <1>3, <1>4, <1>5 DEF half

(* How far contains_exactly on a dict is from the documentation (the run   *)
(* of PairsMeanItems): it passes just when the dict is that of the first   *)
(* half of its pairs, whatever the others are (assert_that.go, lines       *)
(* 114-121).                                                               *)
THEOREM PairsPassForTheirFirstHalf ==
  ASSUME NEW P, NEW a \in Seq(P), NEW b \in Seq(P)
  PROVE  PairsPass(DictOf(a), b) <=> SameDict(a, SubSeq(b, 1, Len(b) - (Len(b) \div 2)))
<1>1. PairsRead(b) = SubSeq(b, 1, Len(b) - (Len(b) \div 2)) /\ PairsRead(b) \in Seq(P)
  BY PairsAreHalf
<1>2. ItemsPass(DictOf(a), DictOf(PairsRead(b))) <=> SameDict(a, PairsRead(b))
  BY <1>1, DictsTell
<1> QED BY <1>1, <1>2 DEF PairsPass

(* contains_exactly and is_equal_to on lists, is_equal_to on dicts, for    *)
(* lists of any length (assert_that.go, lines 28-86, 162-310).             *)
THEOREM EqualityTells == Spec => []ExactlyAndEqualTellTheTruth
<1>1. ASSUME NEW list \in Seq(Nat) PROVE AsItems(list) \in Seq(Nat \X Nat)
  <2>1. Len(list) \in Nat /\ DOMAIN list = 1..Len(list) /\ \A i \in DOMAIN list : list[i] \in Nat
    OBVIOUS
  <2>2. \A i \in DOMAIN list : SubSeq(list, 1, i) \in Seq(Nat)
    <3>1. \A i \in DOMAIN list : i \in 0..Len(list)
      BY <2>1
    <3> QED BY <3>1, CountParts
  <2>3. \A i \in DOMAIN list : Count(SubSeq(list, 1, i), list[i]) \in Nat
    BY <2>2, CountType
  <2>4. AsItems(list) = [i \in 1..Len(list) |-> <<list[i], Count(SubSeq(list, 1, i), list[i])>>]
    BY <2>1 DEF AsItems
  <2>5. \A i \in 1..Len(list) : <<list[i], Count(SubSeq(list, 1, i), list[i])>> \in Nat \X Nat
    BY <2>1, <2>3
  <2> QED BY <2>1, <2>4, <2>5
<1>2. IInv => ExactlyAndEqualTellTheTruth
  <2> SUFFICES ASSUME IInv, NEW i \in DOMAIN subjects, NEW list \in Lists
               PROVE  LET t == subjects[i] IN
                      /\ ExactlyPasses(t.actual, list) <=> SameElements(t.actual, list)
                      /\ t.forOrdering = "nil" => (EqualPasses(t, list) <=> t.actual = list)
                      /\ LET a == AsItems(t.actual) b == AsItems(list) IN
                           ItemsPass(DictOf(a), DictOf(b)) <=> SameDict(a, b)
    BY DEF ExactlyAndEqualTellTheTruth
  <2> DEFINE t == subjects[i]
             a == AsItems(t.actual)
             b == AsItems(list)
  <2>1. t.actual \in Seq(Nat) /\ list \in Seq(Nat)
    <3>1. Lists \subseteq Seq(Nat)
      BY TruthAssumption
    <3>2. subjects \in Seq(SubjectSet)
      BY DEF IInv, TypeOK, TruthTypeOK
    <3>3. t \in SubjectSet
      BY <3>2
    <3> QED BY <3>1, <3>3 DEF SubjectSet
  <2>2. a \in Seq(Nat \X Nat) /\ b \in Seq(Nat \X Nat)
    BY <1>1, <2>1
  <2> HIDE DEF t, a, b
  <2>3. ExactlyPasses(t.actual, list) <=> SameElements(t.actual, list)
    BY <2>1, ExactlyTells
  <2>4. t.forOrdering = "nil" => (EqualPasses(t, list) <=> t.actual = list)
    BY <2>1, EqualTells
  <2>5. ItemsPass(DictOf(a), DictOf(b)) <=> SameDict(a, b)
    BY <2>2, DictsTell
  <2> QED BY <2>3, <2>4, <2>5 DEF t, a, b
<1> QED BY <1>2, Invariance, PTL
=============================================================================
