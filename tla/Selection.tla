------------------------------- MODULE Selection -------------------------------
(***************************************************************************)
(* What the command line of monkey fuzz selects: the endpoints that are    *)
(* tested (FilterEndpoints, on the table of SpecIR) and the checks that    *)
(* run (newTagsFilter, and Excludes each time a check could run).          *)
(*                                                                         *)
(* A regular expression is the word of an endpoint's line that it matches: *)
(* its path, or the name of a schema that it takes or returns.             *)
(***************************************************************************)
EXTENDS SpecIR, SequencesExt

CONSTANTS
  TagNames,    \* tags that are legal
  IllegalTags, \* and strings that are not
  CommandLines \* the filters of the command lines, in their order

OnlyOptions == {"only", "calls-with-input", "calls-with-output"}
ExceptOptions == {"except", "calls-without-input", "calls-without-output"}

PathWord(e) == <<"path", e>>
RefWord(name) == <<"schema", name>>
NoRefs == <<"schema", 0>>     \* "_"
BadWord == <<"bad", 0>>       \* not a regular expression
Words == {PathWord(e) : e \in 1..MaxEndpoints} \cup {RefWord(n) : n \in 0..NumNames}
           \cup {BadWord}

(* The filters of a command line, joined when given as --option=word.  The *)
(* other words of the command line pass through FilterEndpoints unseen.    *)
Options == [name : OnlyOptions \cup ExceptOptions, word : Words, joined : BOOLEAN]

ASSUME SelectionAssumption ==
  TagNames \cap IllegalTags = {} /\ CommandLines \subseteq Seq(Options)

-----------------------------------------------------------------------------
(* refsFromSIDs, for schemas of the document. *)
RefsFromSIDs(nodes) ==
  LET found == {json[sidOf[i]].ref : i \in nodes \ {0}} \ {NoName}
  IN IF found = {} THEN {NoRefs} ELSE {RefWord(name) : name \in found}

(* The lines the regular expressions are matched with. *)
Lines == [e \in DOMAIN endpoints |->
  [path |-> PathWord(e),
   ins |-> RefsFromSIDs(ToSet(endpoints[e].inputs)),
   outs |-> RefsFromSIDs({endpoints[e].outputs[code] : code \in DOMAIN endpoints[e].outputs})]]

Matches(option, line) ==
  \/ option.name \in {"only", "except"}
     /\ option.word \in {line.path} \cup line.ins \cup line.outs
  \/ option.name \in {"calls-with-input", "calls-without-input"} /\ option.word \in line.ins
  \/ option.name \in {"calls-with-output", "calls-without-output"} /\ option.word \in line.outs

(* The first loop of FilterEndpoints splits the first option given with an *)
(* "=" and leaves: the rest of the command line is not looked at.          *)
Obeyed(options) ==
  LET first == SelectInSeq(options, LAMBDA o : o.joined)
  IN IF first = 0 THEN options ELSE SubSeq(options, 1, first)

FilterStep_KeepsUnmatched(all, s, option) ==
  LET matched == {e \in s.left : Matches(option, all[e])} IN
  IF s.err \/ option.word = BadWord THEN [s EXCEPT !.err = TRUE]
  ELSE IF option.name \in OnlyOptions THEN [s EXCEPT !.err = matched = {}]
  ELSE [s EXCEPT !.left = @ \ matched]

(* filterEndpoints, an error when an "only" matches nothing that is left. *)
FilterStep(all, s, option) ==
  LET matched == {e \in s.left : Matches(option, all[e])} IN
  IF s.err \/ option.word = BadWord THEN [s EXCEPT !.err = TRUE]
  ELSE IF option.name \in OnlyOptions THEN [left |-> matched, err |-> matched = {}]
  ELSE [s EXCEPT !.left = @ \ matched]

(* FilterEndpoints: the endpoints to test; none is an error. *)
FilterEndpoints(all, options) ==
  LET obeyed == Obeyed(options)
      after[n \in 0..Len(obeyed)] ==
        IF n = 0 THEN [left |-> DOMAIN all, err |-> FALSE]
                 ELSE FilterStep(all, after[n - 1], obeyed[n])
      s == after[Len(obeyed)]
  IN IF s.err THEN {} ELSE s.left

-----------------------------------------------------------------------------
(* The --tags and --exclude-tags of a command line: unset, or a list.      *)
Unset == <<"unset">>
TagLists == {Unset} \cup UNION {[1..n -> TagNames \cup IllegalTags] : n \in 0..2}

(* fromSlice *)
IllegalList(list) == list # Unset /\
  \/ ToSet(list) \cap IllegalTags # {}
  \/ Cardinality(ToSet(list)) # Len(list)

NewFilter_Both(tags, excludeTags) ==
  IF IllegalList(tags) \/ IllegalList(excludeTags)
  THEN {}
  ELSE {[excludeAll |-> tags = <<>>, includeAll |-> excludeTags = <<>>,
         include |-> IF tags = Unset THEN {} ELSE ToSet(tags),
         exclude |-> IF excludeTags = Unset THEN {} ELSE ToSet(excludeTags)]}

(* newTagsFilter and NewFilter: a filter, or none if the command line is   *)
(* refused.                                                                *)
NewFilter(tags, excludeTags) ==
  IF (tags # Unset /\ excludeTags # Unset) \/ IllegalList(tags) \/ IllegalList(excludeTags)
  THEN {}
  ELSE {[excludeAll |-> tags = <<>>, includeAll |-> excludeTags = <<>>,
         include |-> IF tags = Unset THEN {} ELSE ToSet(tags),
         exclude |-> IF excludeTags = Unset THEN {} ELSE ToSet(excludeTags)]}

(* Excludes returns at the first of the check's tags that is in one of the *)
(* lists, and a map's keys come in any order: the outcomes it may have.    *)
Excludes(f, checking) ==
  IF f.includeAll THEN {FALSE}
  ELSE IF f.excludeAll THEN {TRUE}
  ELSE LET known == checking \cap (f.include \cup f.exclude)
       IN IF known = {} THEN {FALSE} ELSE {tag \notin f.include : tag \in known}

-----------------------------------------------------------------------------
(* What the document says an endpoint takes and returns, at first level. *)
DocRefs(nodes) ==
  LET found == {doc[i].ref : i \in nodes \ {0}} \ {NoName}
  IN IF found = {} THEN {NoRefs} ELSE {RefWord(name) : name \in found}
DocLines == [e \in DOMAIN endpoints |->
  [path |-> PathWord(e),
   ins |-> DocRefs(ToSet(endpoints[e].inputs)),
   outs |-> DocRefs({endpoints[e].outputs[code] : code \in DOMAIN endpoints[e].outputs})]]

(* The endpoints tested are those whose document fits every filter of the  *)
(* command line, up to the first given with an "=": wherever the $refs are *)
(* in the table, and whatever the order of the filters (validator.go,      *)
(* lines 469-588, ir.go, lines 18-32).                                     *)
SelectsWhatFits ==
  phase = "done" =>
    LET all == Lines  said == DocLines IN
    \A options \in CommandLines :
      LET obeyed == ToSet(Obeyed(options)) IN
      FilterEndpoints(all, options) =
        IF \E o \in obeyed : o.word = BadWord THEN {}
        ELSE {e \in DOMAIN said : \A o \in obeyed :
                                    (o.name \in OnlyOptions) <=> Matches(o, said[e])}

(* Whether a check runs is decided by its tags alone, not by the order a   *)
(* map gives them in: it is excluded when all are (--tags=), or when one   *)
(* of its tags is in the list of --exclude-tags; the tags listed by --tags *)
(* exclude nothing (tags.go, lines 19-55, main.go, lines 322-338).  It     *)
(* depends on no variable: one state is enough to look at it.              *)
TagsDecide ==
  phase = "preseed" => \A tags, excludeTags \in TagLists, checking \in SUBSET TagNames :
    \A f \in NewFilter(tags, excludeTags) :
      Excludes(f, checking) =
        {tags = <<>> \/ (excludeTags # Unset /\ ToSet(excludeTags) \cap checking # {})}

-----------------------------------------------------------------------------
(* usage.go, lines 46 and 71, "[--only=REGEX]... [--except=REGEX]..." and  *)
(* "--except=REGEX  Do not test these calls".                              *)
ExceptedAreNotTested ==
  phase = "done" => \A options \in CommandLines : \A i \in DOMAIN options :
    options[i].name = "except" =>
      \A e \in FilterEndpoints(Lines, options) : ~Matches(options[i], Lines[e])
================================================================================
