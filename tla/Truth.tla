-------------------------------- MODULE Truth ---------------------------------
(***************************************************************************)
(* pkg/starlarktruth: the assertions of a check's script.                  *)
(* assert.that(x) makes a subject; the predicates called on it raise an    *)
(* error, which ends the script, or return.  The interpreter's thread      *)
(* remembers, in one local, whether an assertion was begun and not yet     *)
(* brought to a predicate.  A script may keep its subjects in variables.   *)
(*                                                                         *)
(* Subjects are lists.  The predicates modelled are those that compare a   *)
(* list, or a dict, with another as a whole; the others look at one value  *)
(* and keep nothing.                                                       *)
(***************************************************************************)
EXTENDS Naturals, Sequences, SequencesExt

CONSTANTS
  Lists,       \* the lists a script asserts on, and compares them with
  MaxSubjects  \* bound on the calls of assert.that() in a script

ASSUME TruthAssumption == Lists \subseteq Seq(Nat) /\ MaxSubjects \in Nat

VARIABLES
  subjects,  \* those the script made
  local,     \* LocalThreadKeyForClose: "unset", "pending" (a call frame) or "resolved"
  script     \* "idle", "runs", or "raised" by an error

truthVars == <<subjects, local, script>>

-----------------------------------------------------------------------------
(* The counters of containsExactlyElementsIn, once they have gone through  *)
(* what is left of both lists.                                             *)
CountersStep(c, v) ==
  IF v \in DOMAIN c.missing THEN [c EXCEPT !.missing = @ (-) SetToBag({v})]
                            ELSE [c EXCEPT !.extra = @ (+) SetToBag({v})]
Counters(actual, expected) ==
  LET after[n \in 0..Len(actual)] ==
        IF n = 0 THEN [missing |-> ToBag(expected), extra |-> EmptyBag]
                 ELSE CountersStep(after[n - 1], actual[n])
  IN after[Len(actual)]

(* The first pair of elements that differ, 0 if there is none. *)
Difference(actual, expected) ==
  LET differ == {i \in 1..Len(actual) : i <= Len(expected) /\ actual[i] # expected[i]}
  IN IF differ = {} THEN 0 ELSE Min(differ)

ExactlyPasses_CountsOnce(actual, expected) ==
  LET i == Difference(actual, expected) IN
  IF i = 0 THEN Len(actual) = Len(expected)
  ELSE ToSet(actual) = ToSet(expected)

(* containsExactlyElementsIn: pairwise while the elements are equal, then  *)
(* by counting.                                                            *)
ExactlyPasses(actual, expected) ==
  LET i == Difference(actual, expected) IN
  IF i = 0 THEN Len(actual) = Len(expected)
  ELSE LET c == Counters(SubSeq(actual, i, Len(actual)), SubSeq(expected, i, Len(expected)))
       IN c.missing = EmptyBag /\ c.extra = EmptyBag

(* What it leaves in forOrdering: it only sets what is nil. *)
ExactlyOrdering(t, expected) ==
  IF t.forOrdering # "nil" THEN t.forOrdering
  ELSE IF Difference(t.actual, expected) = 0 THEN "ordered" ELSE "unordered"

(* isEqualTo on two lists: containsExactlyElementsIn, then inOrder. *)
EqualPasses(t, expected) ==
  ExactlyPasses(t.actual, expected) /\ ExactlyOrdering(t, expected) = "ordered"

(* A dict is its items, <<key, value>>, in the order of their insertion.   *)
SetKey(dict, item) ==
  LET at == SelectInSeq(dict, LAMBDA x : x[1] = item[1])
  IN IF at = 0 THEN Append(dict, item) ELSE ReplaceAt(dict, at, item)
DictOf(pairs) ==
  LET after[n \in 0..Len(pairs)] == IF n = 0 THEN <<>> ELSE SetKey(after[n - 1], pairs[n])
  IN after[Len(pairs)]

(* is_equal_to and contains_exactly_items_in on a dict, another given.     *)
ItemsPass(dict, expected) == ExactlyPasses(dict, expected)

(* contains_exactly on a dict, keys and values given: its loop counts      *)
(* pairs, in steps of two.                                                 *)
PairsRead(pairs) == SubSeq(pairs, 1, (Len(pairs) + 1) \div 2)
PairsPass(dict, pairs) == ItemsPass(dict, DictOf(PairsRead(pairs)))

AllStep_ForgetsSkipped(s, v) ==
  LET found == SelectInSeq(s.left, LAMBDA x : x = v)
  IN IF found > 0 THEN [s EXCEPT !.left = SubSeq(@, found + 1, Len(@))]
     ELSE [s EXCEPT !.missing = TRUE]

(* containsAll, one expected element at a time: what is left of the list,  *)
(* what was skipped of it, and what was found.  An element found is        *)
(* removed from the list by dropping the list's first.                     *)
AllStep(s, v) ==
  LET found == SelectInSeq(s.left, LAMBDA x : x = v)
      behind == SelectInSeq(s.skipped, LAMBDA x : x = v)
  IN IF found > 0
     THEN [s EXCEPT !.left = Tail(@), !.skipped = @ \o SubSeq(s.left, 1, found - 1)]
     ELSE IF behind > 0
     THEN [s EXCEPT !.skipped = RemoveAt(@, behind), !.ordered = FALSE]
     ELSE [s EXCEPT !.missing = TRUE]

All(actual, expected) ==
  LET after[n \in 0..Len(expected)] ==
        IF n = 0 THEN [left |-> actual, skipped |-> <<>>, ordered |-> TRUE, missing |-> FALSE]
                 ELSE AllStep(after[n - 1], expected[n])
  IN after[Len(expected)]

-----------------------------------------------------------------------------
(* A subject.  "used" is history: whether a predicate was called on it, or *)
(* an older subject's made the thread forget it.                           *)
Subject(actual, forOrdering, used) ==
  [actual |-> actual, forOrdering |-> forOrdering, used |-> used]

TruthInit == subjects = <<>> /\ local = "unset" /\ script = "idle"

(* Close, an error if the last subject made is still pending. *)
CloseFails == local = "pending"

That_NoClose(list) ==
  /\ script = "runs" /\ Len(subjects) < MaxSubjects
  /\ subjects' = Append(subjects, Subject(list, "nil", "no"))
  /\ local' = "pending"
  /\ UNCHANGED script

(* assert.that(list) *)
That(list) ==
  /\ script = "runs" /\ Len(subjects) < MaxSubjects
  /\ IF CloseFails
     THEN script' = "raised" /\ UNCHANGED <<subjects, local>>
     ELSE /\ subjects' = Append(subjects, Subject(list, "nil", "no"))
          /\ local' = "pending"
          /\ UNCHANGED script

(* builtinAttr: whatever its outcome a predicate marks the thread's local, *)
(* which is the last subject's.                                            *)
Predicate(i, passes, forOrdering) ==
  /\ script = "runs"
  /\ local' = "resolved"
  /\ subjects' = [j \in DOMAIN subjects |->
       IF j = i THEN Subject(subjects[j].actual, forOrdering, "yes")
       ELSE IF j = Len(subjects) /\ subjects[j].used = "no"
            THEN [subjects[j] EXCEPT !.used = "forgotten"]
       ELSE subjects[j]]
  /\ script' = IF passes THEN "runs" ELSE "raised"

(* contains_exactly and contains_exactly_elements_in *)
ContainsExactly(i, expected) ==
  LET t == subjects[i] passes == ExactlyPasses(t.actual, expected) IN
  Predicate(i, passes, IF passes THEN ExactlyOrdering(t, expected) ELSE t.forOrdering)

(* contains_all_of and contains_all_in *)
ContainsAll(i, expected) ==
  LET t == subjects[i] s == All(t.actual, expected) IN
  Predicate(i, ~s.missing, IF s.missing THEN t.forOrdering
                           ELSE IF s.ordered THEN "ordered" ELSE "unordered")

InOrder(i) == Predicate(i, subjects[i].forOrdering = "ordered", subjects[i].forOrdering)

IsEqualTo(i, expected) ==
  LET t == subjects[i] IN
  Predicate(i, EqualPasses(t, expected),
            IF ExactlyPasses(t.actual, expected) THEN ExactlyOrdering(t, expected)
                                                 ELSE t.forOrdering)

(* A predicate that looks at one value, or at a dict that has items: their *)
(* order is kept by a subject made for the occasion.  (named, is_within    *)
(* and is_not_within change nothing here: they do not mark the local.)     *)
OtherPredicate(i) == \E passes \in BOOLEAN : Predicate(i, passes, subjects[i].forOrdering)

Predicates ==
  \/ \E i \in DOMAIN subjects : InOrder(i) \/ OtherPredicate(i)
  \/ \E i \in DOMAIN subjects, list \in Lists :
       ContainsExactly(i, list) \/ ContainsAll(i, list) \/ IsEqualTo(i, list)

-----------------------------------------------------------------------------
Orderings == {"nil", "ordered", "unordered"}
SubjectSet == [actual : Lists, forOrdering : Orderings, used : {"no", "yes", "forgotten"}]

TruthTypeOK ==
  /\ subjects \in Seq(SubjectSet)
  /\ local \in {"unset", "pending", "resolved"}
  /\ script \in {"idle", "runs", "raised"}

(* What the predicates mean. *)
Count(list, v) == Cardinality({i \in DOMAIN list : list[i] = v})
SameElements(a, b) == \A v \in ToSet(a) \cup ToSet(b) : Count(a, v) = Count(b, v)
HasAll(a, b) == \A v \in ToSet(b) : Count(b, v) <= Count(a, v)
IsSubSequence(a, b) ==
  \E f \in [1..Len(b) -> 1..Len(a)] :
    /\ \A i, j \in 1..Len(b) : i < j => f[i] < f[j]
    /\ \A i \in 1..Len(b) : a[f[i]] = b[i]

(* Items with the elements of a list as keys, no item twice.               *)
AsItems(list) ==
  [i \in DOMAIN list |-> <<list[i], Count(SubSeq(list, 1, i), list[i])>>]
SameDict(items1, items2) ==
  LET LastOf(items, k) == Max({i \in DOMAIN items : items[i][1] = k})
      Keys(items) == {items[i][1] : i \in DOMAIN items}
  IN /\ Keys(items1) = Keys(items2)
     /\ \A k \in Keys(items1) : items1[LastOf(items1, k)] = items2[LastOf(items2, k)]

(* contains_exactly passes just for lists of the same elements, and on a   *)
(* subject no such predicate was called on before, is_equal_to just for    *)
(* equal lists.  On dicts is_equal_to and contains_exactly_items_in pass   *)
(* just for the same items in any order, the last one of a key             *)
(* (assert_that.go, lines 28-86, 162-310).                                 *)
ExactlyAndEqualTellTheTruth ==
  \A i \in DOMAIN subjects, list \in Lists :
    LET t == subjects[i] IN
    /\ ExactlyPasses(t.actual, list) <=> SameElements(t.actual, list)
    /\ t.forOrdering = "nil" => (EqualPasses(t, list) <=> t.actual = list)
    /\ LET a == AsItems(t.actual) b == AsItems(list) IN
         ItemsPass(DictOf(a), DictOf(b)) <=> SameDict(a, b)

(* contains_all_of accepts every list that has all the elements, and       *)
(* in_order after it every one that has them in that order (lines          *)
(* 747-797); it accepts others too.                                        *)
AllAcceptsWhatItShould ==
  \A i \in DOMAIN subjects, list \in Lists :
    LET a == subjects[i].actual s == All(a, list) IN
    /\ HasAll(a, list) => ~s.missing
    /\ IsSubSequence(a, list) => s.ordered

-----------------------------------------------------------------------------
(* assert_that.go, lines 746 and 768: "Determines if the subject contains  *)
(* all the expected elements", "And remove the element from the            *)
(* actual_list": what contains_all_of and then in_order accept does have   *)
(* all the elements, and in that order.                                    *)
AllMeansAll ==
  \A i \in DOMAIN subjects, list \in Lists :
    LET a == subjects[i].actual s == All(a, list) IN
    /\ ~s.missing => HasAll(a, list)
    /\ ~s.missing /\ s.ordered => IsSubSequence(a, list)

(* doc.go, line 157: "assert.that(d).contains_exactly(k1, v1, k2, v2)";    *)
(* assert_that.go, line 175: "Determines if the subject contains exactly   *)
(* the expected elements": on a dict contains_exactly passes just for the  *)
(* dict's own pairs.                                                       *)
PairsMeanItems ==
  \A i \in DOMAIN subjects, list \in Lists :
    LET a == AsItems(subjects[i].actual) b == AsItems(list) IN
    PairsPass(DictOf(a), b) <=> SameDict(a, b)
=============================================================================
