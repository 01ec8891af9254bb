-------------------------- MODULE CallerHTTP_proofs --------------------------
(***************************************************************************)
(* Whatever the endpoint specifies and however many redirections are       *)
(* followed: the checks of a call only read what was received, and their   *)
(* verdict is the one its last response deserves.                          *)
(*                                                                         *)
(* The argument: the caller's fields are rewritten by every response, but  *)
(* for two that are never taken back (a decoding error, a matched code).   *)
(* As the checks run in order and stop at the first failure, each of them  *)
(* may count on what the ones before it found, which makes up for those.   *)
(***************************************************************************)
EXTENDS CallerHTTP, TLAPS

Recorded(r) == [code |-> r.code, body |-> r.body, decoded |-> r.body \in JSON]

(* What the fields of the caller tell of the last response.                *)
Remembers(r) ==
  /\ last = {r} /\ rep = {Recorded(r)}
  /\ r.body \notin JSON => decodeErr
  /\ \/ OutputIDs(r.code) = {} /\ matchedSID = 0
     \/ \E id \in OutputIDs(r.code) :
          matchedSID = outputs[id] /\ matchedOutputID = id /\ matchedHTTPCode

(* With no redirection, nothing is left of an earlier response.            *)
Only(r) ==
  /\ decodeErr => r.body \notin JSON
  /\ matchedHTTPCode => OutputIDs(r.code) # {}

ReceivedInv ==
  /\ hops = 0 => last = {} /\ rep = {} /\ ~decodeErr /\ ~matchedHTTPCode
  /\ hops # 0 /\ ~doErr => \E r \in Responses : Remembers(r) /\ (hops = 1 => Only(r))

(* Where the call is.                                                      *)
PhaseInv ==
  /\ pc # "over" => failure = "none"
  /\ pc \in {"new", "do"} => ~doErr /\ checks = callerChecks
  /\ pc = "new" => hops = 0
  /\ pc \in {"checks", "over"} /\ failure # "request" =>
       (doErr \/ hops # 0) /\ reported = matchedOutputID

(* The checks left are the last ones, those before them passed.            *)
Done == 5 - Len(checks)
ChecksInv ==
  /\ Len(checks) <= 5
  /\ \A i \in 1..Len(checks) : checks[i] = callerChecks[Done + i]
  /\ failure = "none" => \A i \in 1..Done : ~Failing(callerChecks[i])
  /\ failure \notin {"none", "request"} => Failing(failure)
  /\ pc = "over" /\ failure = "none" => checks = <<>>

IInv == TypeOK /\ ReceivedInv /\ PhaseInv /\ ChecksInv

-----------------------------------------------------------------------------
Names == {callerChecks[i] : i \in 1..5}

LEMMA CheckNames ==
  /\ callerChecks[1] = "connection_to_server"
  /\ callerChecks[2] = "code_below_500"
  /\ callerChecks[3] = "HTTP_code"
  /\ callerChecks[4] = "valid_JSON_response"
  /\ callerChecks[5] = "response_validates_schema"
  BY DEF callerChecks

LEMMA NamesAre ==
  Names = {"connection_to_server", "code_below_500", "HTTP_code", "valid_JSON_response",
           "response_validates_schema"}
<1>1. \A i \in 1..5 : i = 1 \/ i = 2 \/ i = 3 \/ i = 4 \/ i = 5 OBVIOUS
<1>2. 1 \in 1..5 /\ 2 \in 1..5 /\ 3 \in 1..5 /\ 4 \in 1..5 /\ 5 \in 1..5 OBVIOUS
<1>3. \A n \in Names : n \in {"connection_to_server", "code_below_500", "HTTP_code",
                             "valid_JSON_response", "response_validates_schema"}
  BY <1>1, CheckNames, Zenon DEF Names
<1>4. /\ callerChecks[1] \in Names /\ callerChecks[2] \in Names /\ callerChecks[3] \in Names
      /\ callerChecks[4] \in Names /\ callerChecks[5] \in Names
  BY <1>2, Zenon DEF Names
<1> QED BY <1>3, <1>4, CheckNames

LEMMA CheckList ==
  /\ callerChecks \in Seq(Names)
  /\ Len(callerChecks) \in Nat /\ Len(callerChecks) <= 5 /\ 5 <= Len(callerChecks)
<1>1. Len(callerChecks) \in Nat /\ Len(callerChecks) <= 5 /\ 5 <= Len(callerChecks)
  BY DEF callerChecks
<1>2. callerChecks \in Seq({"connection_to_server", "code_below_500", "HTTP_code",
                            "valid_JSON_response", "response_validates_schema"})
  BY DEF callerChecks
<1> QED BY <1>1, <1>2, NamesAre

(* With every check left, none is done.                                    *)
LEMMA AllLeft ==
  ASSUME NEW cs, cs = callerChecks
  PROVE  /\ Len(cs) <= 5
         /\ \A i \in 1..(5 - Len(cs)) : FALSE
         /\ \A i \in 1..Len(cs) : cs[i] = callerChecks[(5 - Len(cs)) + i]
<1> DEFINE n == Len(cs)
<1>1. n \in Nat /\ n <= 5 /\ 5 <= n BY CheckList
<1> HIDE DEF n
<1>2. n = 5 /\ 5 - n = 0 BY <1>1
<1>3. \A i \in 1..n : cs[i] = callerChecks[(5 - n) + i] BY <1>2
<1> QED BY <1>1, <1>2, <1>3 DEF n

LEMMA CodesAreNumbers == \A code \in Codes : code \in Nat
<1>1. Codes \subseteq 100..599 BY CodesAssumption, Zenon
<1>2. \A n \in 100..599 : n \in Nat OBVIOUS
<1> QED BY <1>1, <1>2, Zenon

(* At most one output is the most precise.                                 *)
LEMMA OneOutput ==
  ASSUME NEW code \in Codes
  PROVE  /\ OutputIDs(code) \subseteq DOMAIN outputs
         /\ \A a, b \in OutputIDs(code) : a = b
  BY DEF OutputIDs

(* The checks read nothing a check writes.                                 *)
LEMMA SameChecks ==
  ASSUME UNCHANGED <<rep, doErr, decodeErr, matchVars>>, NEW name
  PROVE  Failing(name)' <=> Failing(name)
  BY DEF Failing, matchVars

LEMMA InitEstablishes == Init => IInv
<1> SUFFICES ASSUME Init PROVE IInv OBVIOUS
<1> USE DEF Init
<1>1. TypeOK
  <2>1. checks \in Seq({callerChecks[i] : i \in 1..5}) BY CheckList DEF Names
  <2>2. DOMAIN outputs \subseteq Keys /\ \A k \in DOMAIN outputs : outputs[k] \in SIDs \cup {0}
    <3>1. PICK K \in SUBSET Keys : outputs \in [K -> SIDs \cup {0}] OBVIOUS
    <3> QED BY <3>1
  <2>3. {doErr, decodeErr, matchedHTTPCode} \subseteq BOOLEAN OBVIOUS
  <2> QED BY <2>1, <2>2, <2>3, MaxHopsAssumption DEF TypeOK
<1>2. ReceivedInv BY DEF ReceivedInv
<1>3. PhaseInv BY DEF PhaseInv
<1>4. ChecksInv BY AllLeft DEF ChecksInv, Done
<1> QED BY <1>1, <1>2, <1>3, <1>4 DEF IInv

(* What the fields tell depends on the fields only.                        *)
LEMMA SameFields ==
  ASSUME UNCHANGED <<outputs, hops, last, rep, doErr, decodeErr, matchVars>>, ReceivedInv
  PROVE  ReceivedInv'
<1> USE DEF matchVars
<1>1. \A c : OutputIDs(c)' = OutputIDs(c) BY DEF OutputIDs
<1>2. \A r : Remembers(r) => Remembers(r)' BY <1>1 DEF Remembers
<1>3. \A r : Only(r) => Only(r)' BY <1>1 DEF Only
<1> QED BY <1>2, <1>3 DEF ReceivedInv

LEMMA RequestPreserves == IInv /\ Request => IInv'
<1> SUFFICES ASSUME IInv, Request PROVE IInv' OBVIOUS
<1> USE DEF Request, IInv
<1>1. TypeOK' BY DEF TypeOK, matchVars
<1>2. ReceivedInv' BY DEF ReceivedInv, PhaseInv, matchVars
<1>3. PhaseInv' BY DEF PhaseInv, matchVars
<1>4. ChecksInv'
  <2>1. checks' = callerChecks BY DEF PhaseInv
  <2>2. CASE pc' = "do" BY <2>1, <2>2, AllLeft DEF ChecksInv, Done
  <2>3. CASE pc' = "over" BY <2>1, <2>3, AllLeft DEF ChecksInv, Done
  <2> QED BY <2>2, <2>3
<1> QED BY <1>1, <1>2, <1>3, <1>4

(* The three ways in which Do ends without a response.                     *)
LEMMA FailPreserves ==
  ASSUME IInv, DoFails \/ RoundTripFails \/ BodyFails
  PROVE  IInv'
<1> USE DEF DoFails, RoundTripFails, BodyFails, IInv, matchVars
<1>1. TypeOK'
  <2>1. hops' \in 0..MaxHops BY MaxHopsAssumption DEF TypeOK
  <2>2. last' \subseteq Responses BY DEF TypeOK
  <2>3. rep' \subseteq [code : Codes \cup {0}, body : Bodies, decoded : BOOLEAN]
    <3>1. CASE DoFails BY <3>1 DEF TypeOK
    <3>2. CASE RoundTripFails BY <3>2 DEF Bodies
    <3>3. CASE BodyFails BY <3>3 DEF Bodies
    <3> QED BY <3>1, <3>2, <3>3
  <2>4. {doErr, decodeErr, matchedHTTPCode}' \subseteq BOOLEAN BY DEF TypeOK
  <2> QED BY <2>1, <2>2, <2>3, <2>4 DEF TypeOK
<1>2. ReceivedInv'
  <2>1. CASE DoFails BY <2>1 DEF ReceivedInv
  <2>2. CASE RoundTripFails \/ BodyFails BY <2>2 DEF ReceivedInv, TypeOK
  <2> QED BY <2>1, <2>2
<1>3. PhaseInv' BY DEF PhaseInv
<1>4. ChecksInv'
  <2>1. checks' = callerChecks /\ pc' = "checks" /\ failure' = "none" BY DEF PhaseInv
  <2> QED BY <2>1, AllLeft DEF ChecksInv, Done
<1> QED BY <1>1, <1>2, <1>3, <1>4

LEMMA RoundTripPreserves == IInv /\ RoundTrip => IInv'
<1> SUFFICES ASSUME IInv, RoundTrip PROVE IInv' OBVIOUS
<1>1. PICK r \in Responses :
        /\ Records(r) /\ last' = {r}
        /\ \/ r.code \in Redirects /\ pc' = "do" /\ UNCHANGED reported
           \/ pc' = "checks" /\ reported' = matchedOutputID'
  BY DEF RoundTrip
<1>2. /\ pc = "do" /\ hops < MaxHops /\ hops' = hops + 1
      /\ UNCHANGED <<outputs, doErr, checks, failure>>
  BY DEF RoundTrip
<1>3. r.code \in Codes /\ r.body \in Bodies BY DEF Responses
<1>4. OutputIDs(r.code) \subseteq DOMAIN outputs /\ OutputIDs(r.code)' = OutputIDs(r.code)
  BY <1>2, <1>3, OneOutput DEF OutputIDs
<1> USE DEF IInv
<1>5. TypeOK'
  <2>1. hops' \in 0..MaxHops BY <1>2, MaxHopsAssumption DEF TypeOK
  <2>2. last' \subseteq Responses BY <1>1
  <2>3. rep' \subseteq [code : Codes \cup {0}, body : Bodies, decoded : BOOLEAN]
    BY <1>1, <1>3 DEF Records
  <2>4. decodeErr' \in BOOLEAN /\ matchedHTTPCode' \in BOOLEAN
    BY <1>1 DEF Records, TypeOK
  <2>5. matchedSID' \in SIDs \cup {0} /\ matchedOutputID' \in Keys \cup {0}
    BY <1>1, <1>4 DEF Records, TypeOK
  <2>6. reported' \in Keys \cup {0} /\ pc' \in {"new", "do", "checks", "over"}
    BY <1>1, <2>5 DEF TypeOK
  <2>7. /\ DOMAIN outputs' \subseteq Keys
        /\ \A k \in DOMAIN outputs' : outputs'[k] \in SIDs \cup {0}
        /\ doErr' \in BOOLEAN
        /\ checks' \in Seq({callerChecks[i] : i \in 1..5})
        /\ failure' \in {"none", "request"} \cup {callerChecks[i] : i \in 1..5}
    BY <1>2 DEF TypeOK
  <2>8. {doErr, decodeErr, matchedHTTPCode}' \subseteq BOOLEAN BY <2>4, <2>7
  <2> QED BY <2>1, <2>2, <2>3, <2>5, <2>6, <2>7, <2>8 DEF TypeOK
<1>6. ReceivedInv'
  <2>1. Remembers(r)'
    BY <1>1, <1>2, <1>4 DEF Remembers, Recorded, Records
  <2>2. hops' = 1 => Only(r)'
    BY <1>1, <1>2, <1>4 DEF Only, Records, ReceivedInv, TypeOK
  <2>3. hops' # 0 BY <1>2 DEF TypeOK
  <2> QED BY <2>1, <2>2, <2>3 DEF ReceivedInv
<1>7. PhaseInv'
  BY <1>1, <1>2 DEF PhaseInv, TypeOK
<1>8. ChecksInv'
  <2>1. checks' = callerChecks /\ pc' # "over" /\ failure' = "none" BY <1>1, <1>2 DEF PhaseInv
  <2> QED BY <2>1, AllLeft DEF ChecksInv, Done
<1> QED BY <1>5, <1>6, <1>7, <1>8

LEMMA CheckPreserves == IInv /\ Check => IInv'
<1> SUFFICES ASSUME IInv, Check PROVE IInv' OBVIOUS
<1> DEFINE name == Head(checks)
<1>1. /\ pc = "checks" /\ checks # <<>> /\ checks' = Tail(checks)
      /\ UNCHANGED <<outputs, hops, last, rep, doErr, decodeErr, matchVars, reported>>
  BY DEF Check
<1>2. \/ Failing(name) /\ failure' = name /\ pc' = "over"
      \/ ~Failing(name) /\ failure' = failure /\ pc' = pc
  BY DEF Check
<1>3. checks \in Seq(Names) /\ 1 <= Len(checks)
  BY <1>1 DEF IInv, TypeOK, Names
<1>4. /\ name = checks[1] /\ name \in Names /\ checks' \in Seq(Names)
      /\ Len(checks') = Len(checks) - 1
      /\ \A i \in 1..Len(checks') : checks'[i] = checks[i + 1]
  BY <1>1, <1>3
<1> HIDE DEF name
<1>5. TypeOK'
  BY <1>1, <1>2, <1>4 DEF IInv, TypeOK, Names, matchVars
<1>6. ReceivedInv' BY <1>1, SameFields DEF IInv
<1>7. name \notin {"none", "request"}
  BY <1>4, NamesAre
<1>8. PhaseInv'
  BY <1>1, <1>2, <1>7 DEF IInv, PhaseInv, matchVars
<1>9. ChecksInv'
  <2>1. Len(checks) <= 5 /\ Len(checks) \in Nat BY <1>3 DEF IInv, ChecksInv
  <2>2. Done' = Done + 1 /\ Done \in 0..4 BY <2>1, <1>3, <1>4 DEF Done
  <2>3. name = callerChecks[Done + 1] BY <1>3, <1>4 DEF IInv, ChecksInv
  <2>4. \A i \in 1..Len(checks') : checks'[i] = callerChecks[Done' + i]
    BY <1>3, <1>4, <2>2 DEF IInv, ChecksInv
  <2>5. \A n : Failing(n)' <=> Failing(n) BY <1>1, SameChecks
  <2>6. failure = "none" BY <1>1 DEF IInv, PhaseInv
  <2>7. failure' = "none" => \A i \in 1..Done' : ~Failing(callerChecks[i])
    BY <1>2, <1>7, <2>2, <2>3, <2>6 DEF IInv, ChecksInv
  <2>8. failure' \notin {"none", "request"} => Failing(failure')
    BY <1>2, <2>6
  <2>9. ~(pc' = "over" /\ failure' = "none") BY <1>1, <1>2, <1>7
  <2>10. failure' = "none" => \A i \in 1..Done' : ~Failing(callerChecks[i])'
    BY <2>5, <2>7
  <2>11. failure' \notin {"none", "request"} => Failing(failure)'
    BY <1>2, <2>6, <2>5
  <2> QED BY <2>1, <1>4, <2>4, <2>9, <2>10, <2>11 DEF ChecksInv
<1> QED BY <1>5, <1>6, <1>8, <1>9 DEF IInv

LEMMA PassesPreserves == IInv /\ Passes => IInv'
<1> SUFFICES ASSUME IInv, Passes PROVE IInv' OBVIOUS
<1> USE DEF Passes, IInv, matchVars
<1>1. TypeOK' BY DEF TypeOK
<1>2. ReceivedInv' BY SameFields
<1>3. PhaseInv' BY DEF PhaseInv
<1>4. ChecksInv'
  <2>1. \A n : Failing(n)' <=> Failing(n) BY SameChecks
  <2> QED BY <2>1 DEF ChecksInv, Done
<1> QED BY <1>1, <1>2, <1>3, <1>4

LEMMA StutterPreserves == IInv /\ UNCHANGED vars => IInv'
<1> SUFFICES ASSUME IInv, UNCHANGED vars PROVE IInv' OBVIOUS
<1> USE DEF vars, IInv, matchVars
<1>1. TypeOK' BY DEF TypeOK
<1>2. ReceivedInv' BY SameFields
<1>3. PhaseInv' BY DEF PhaseInv
<1>4. ChecksInv'
  <2>1. \A n : Failing(n)' <=> Failing(n) BY SameChecks
  <2> QED BY <2>1 DEF ChecksInv, Done
<1> QED BY <1>1, <1>2, <1>3, <1>4

(* The fields of the caller agree with the last response, and the checks   *)
(* that are gone with the fields.                                          *)
THEOREM Inductive == Spec => []IInv
<1>1. IInv /\ [Next]_vars => IInv'
  BY RequestPreserves, FailPreserves, RoundTripPreserves, CheckPreserves, PassesPreserves,
     StutterPreserves DEF Next, Do
<1> QED BY <1>1, InitEstablishes, PTL DEF Spec

-----------------------------------------------------------------------------
(* The second to the fifth check never meet a nil response, nor the schema *)
(* a body that was not decoded (caller_checks.go, lines 39-85).            *)
THEOREM ChecksAreFed == Spec => []ChecksHaveWhatTheyRead
<1>1. IInv => ChecksHaveWhatTheyRead
  <2> SUFFICES ASSUME IInv, pc = "checks", checks # <<>>, Head(checks) # "connection_to_server"
               PROVE  /\ ~doErr
                      /\ \E r \in last : \E p \in rep : p.code = r.code /\ p.body = r.body
                      /\ Head(checks) = "response_validates_schema" /\ matchedSID # 0 =>
                           \A p \in rep : p.body # "empty" => p.decoded
    BY DEF ChecksHaveWhatTheyRead
  <2>1. checks \in Seq(Names) /\ Len(checks) \in Nat BY DEF IInv, TypeOK, Names
  <2>2. 1 <= Len(checks) /\ Head(checks) = checks[1] BY <2>1
  <2>3. Done \in 0..4 /\ Head(checks) = callerChecks[Done + 1]
    <3>1. Len(checks) <= 5 /\ 1 \in 1..Len(checks) BY <2>1, <2>2 DEF IInv, ChecksInv
    <3>2. \A n \in Nat : 1 <= n /\ n <= 5 => 5 - n \in 0..4 OBVIOUS
    <3>3. Done \in 0..4 BY <2>1, <2>2, <3>1, <3>2 DEF Done
    <3> QED BY <2>2, <3>1, <3>3 DEF IInv, ChecksInv
  <2>4. failure = "none" /\ \A i \in 1..Done : ~Failing(callerChecks[i])
    BY DEF IInv, ChecksInv, PhaseInv
  <2>5. Done >= 1
    <3>1. Done # 0 BY <2>3, CheckNames
    <3> QED BY <3>1, <2>3
  <2>6. ~doErr
    <3>1. ~Failing("connection_to_server") BY <2>3, <2>4, <2>5, CheckNames
    <3> QED BY <3>1 DEF Failing
  <2>7. PICK r \in Responses : Remembers(r)
    BY <2>4, <2>6 DEF IInv, PhaseInv, ReceivedInv
  <2>8. \E q \in last : \E p \in rep : p.code = q.code /\ p.body = q.body
    BY <2>7 DEF Remembers, Recorded
  <2>9. ASSUME Head(checks) = "response_validates_schema", NEW p \in rep, p.body # "empty"
        PROVE  p.decoded
    <3>1. Done # 0 /\ Done # 1 /\ Done # 2 /\ Done # 3 BY <2>3, <2>9, CheckNames
    <3>2. Done = 4 BY <3>1, <2>3
    <3>3. ~Failing("valid_JSON_response") BY <3>2, <2>4, CheckNames
    <3>4. ~decodeErr BY <3>3, <2>9 DEF Failing
    <3>5. r.body \in JSON /\ p = Recorded(r) BY <3>4, <2>7, <2>9 DEF Remembers
    <3> QED BY <3>5 DEF Recorded
  <2> QED BY <2>6, <2>8, <2>9
<1> QED BY <1>1, Inductive, PTL

(* A call passes only on a response that deserves it, and fails on one     *)
(* that does not (caller_http.go, lines 214-358).                          *)
THEOREM VerdictIsRight == Spec => []VerdictFitsResponse
<1>1. IInv => VerdictFitsResponse
  <2> SUFFICES ASSUME IInv, pc = "over", failure # "request"
               PROVE  /\ failure = "none" => \E r \in last : Conforms(r)
                      /\ hops = 1 /\ ~doErr => \A r \in last :
                           /\ failure = "none" <=> Conforms(r) /\ OutputIDs(r.code) # {}
                           /\ OutputIDs(r.code) # {} => reported \in OutputIDs(r.code)
    BY DEF VerdictFitsResponse
  <2>1. reported = matchedOutputID /\ (doErr \/ hops # 0) BY DEF IInv, PhaseInv
  <2>2. ASSUME failure = "none" PROVE \A i \in 1..5 : ~Failing(callerChecks[i])
    <3>1. checks = <<>> BY <2>2 DEF IInv, ChecksInv
    <3>2. Done = 5 BY <3>1 DEF Done
    <3> QED BY <2>2, <3>2 DEF IInv, ChecksInv
  <2>3. ASSUME failure = "none" PROVE ~doErr
    <3>1. ~Failing("connection_to_server") BY <2>3, <2>2, CheckNames
    <3> QED BY <3>1 DEF Failing
  <2>4. ASSUME failure = "none", NEW r \in Responses, Remembers(r)
        PROVE  Conforms(r)
    <3>1. /\ ~Failing("code_below_500") /\ ~Failing("valid_JSON_response")
          /\ ~Failing("response_validates_schema")
      BY <2>4, <2>2, CheckNames
    <3>2. r.code \in Codes /\ r.body \in Bodies BY DEF Responses
    <3>3. Recorded(r) \in rep /\ Recorded(r).code = r.code /\ Recorded(r).body = r.body
      BY <2>4 DEF Remembers, Recorded
    <3>4. r.code < 500
      <4>1. ~(r.code >= 500) BY <3>1, <3>3 DEF Failing
      <4>2. r.code \in Nat BY <3>2, CodesAreNumbers
      <4> QED BY <4>1, <4>2
    <3>5. r.body # "html"
      <4>1. ~decodeErr \/ r.body = "empty" BY <3>1, <3>3 DEF Failing
      <4> QED BY <4>1, <2>4 DEF Remembers, JSON
    <3>6. SchemaOf(r.code) # {} => r.body # "bad"
      <4>1. matchedSID = 0 \/ r.body # "bad" BY <3>1, <3>3 DEF Failing
      <4>2. matchedSID = 0 => SchemaOf(r.code) = {}
        BY <2>4, <3>2, OneOutput DEF Remembers, SchemaOf
      <4> QED BY <4>1, <4>2
    <3> QED BY <3>4, <3>5, <3>6 DEF Conforms
  <2>5. ASSUME failure = "none", NEW r \in Responses, Remembers(r), Only(r)
        PROVE  OutputIDs(r.code) # {}
    <3>1. ~Failing("HTTP_code") BY <2>5, <2>2, CheckNames
    <3> QED BY <3>1, <2>5 DEF Failing, Only
  <2>6. ASSUME NEW r \in Responses, Remembers(r), Only(r), ~doErr,
               Conforms(r), OutputIDs(r.code) # {}
        PROVE  failure = "none"
    <3>1. r.code \in Codes /\ r.body \in Bodies BY DEF Responses
    <3>2. \A p \in rep : p.code = r.code /\ p.body = r.body BY <2>6 DEF Remembers, Recorded
    <3>3. ~Failing("connection_to_server") BY <2>6 DEF Failing
    <3>4. ~Failing("code_below_500")
      <4>1. r.code \in Nat /\ r.code < 500 BY <2>6, <3>1, CodesAreNumbers DEF Conforms
      <4>2. ~(r.code >= 500) BY <4>1
      <4> QED BY <4>2, <3>2 DEF Failing
    <3>5. ~Failing("HTTP_code") BY <2>6 DEF Failing, Remembers
    <3>6. ~Failing("valid_JSON_response")
      BY <2>6, <3>1, <3>2 DEF Failing, Only, Conforms, Bodies, JSON
    <3>7. ~Failing("response_validates_schema")
      <4>1. matchedSID # 0 => matchedSID \in SchemaOf(r.code) BY <2>6 DEF Remembers, SchemaOf
      <4> QED BY <4>1, <2>6, <3>2 DEF Failing, Conforms
    <3>8. failure \in {"none", "request"} \cup Names BY DEF IInv, TypeOK, Names
    <3> QED BY <3>3, <3>4, <3>5, <3>6, <3>7, <3>8, NamesAre DEF IInv, ChecksInv
  <2>7. ASSUME failure = "none" PROVE \E r \in last : Conforms(r)
    <3>1. PICK r \in Responses : Remembers(r)
      BY <2>1, <2>3, <2>7 DEF IInv, ReceivedInv
    <3>2. r \in last BY <3>1 DEF Remembers
    <3> QED BY <3>1, <3>2, <2>4, <2>7
  <2>8. ASSUME hops = 1, ~doErr, NEW q \in last
        PROVE  /\ failure = "none" <=> Conforms(q) /\ OutputIDs(q.code) # {}
               /\ OutputIDs(q.code) # {} => reported \in OutputIDs(q.code)
    <3>1. PICK r \in Responses : Remembers(r) /\ Only(r) BY <2>8 DEF IInv, ReceivedInv
    <3>2. q = r BY <3>1, <2>8 DEF Remembers
    <3>3. OutputIDs(r.code) # {} => reported \in OutputIDs(r.code) BY <2>1, <3>1 DEF Remembers
    <3> QED BY <3>1, <3>2, <3>3, <2>4, <2>5, <2>6, <2>8
  <2> QED BY <2>7, <2>8
<1> QED BY <1>1, Inductive, PTL

==============================================================================
