------------------------------ MODULE CallerHTTP ------------------------------
(***************************************************************************)
(* One call of the system under test (pkg/modeler/openapiv3): Do sends the *)
(* request through net/http, which follows redirections and hands every    *)
(* response to RoundTrip; then the caller's checks judge what RoundTrip    *)
(* recorded, in order, up to the first failure (pkg/runtime/call.go).      *)
(*                                                                         *)
(* A body is "empty", "html" (not JSON), or JSON that validates its schema *)
(* ("good") or does not ("bad").                                           *)
(***************************************************************************)
EXTENDS Naturals, Sequences

CONSTANTS
  Codes,    \* status codes of the responses
  Keys,     \* what an endpoint may specify: codes, classes of codes, 0 for default
  SIDs,     \* the schemas; 0 is for none
  MaxHops   \* the client gives up after that many requests

ASSUME CodesAssumption == Codes \subseteq 100..599 /\ Keys \subseteq Nat
ASSUME SIDsAssumption == SIDs \subseteq Nat \ {0}
ASSUME MaxHopsAssumption == MaxHops \in Nat \ {0}

VARIABLES
  outputs,  \* the endpoint's specified responses: from keys to schemas
  pc,       \* "new", "do", "checks" or "over"
  hops,     \* the requests sent, redirections included
  last,     \* the responses received last: at most one
  rep,      \* repProto, as a set: at most one record of a response or its error
  doErr, decodeErr,                           \* fields of the caller
  matchedSID, matchedOutputID, matchedHTTPCode,
  checks,   \* checks still to run
  reported, \* the OutputId sent to the server
  failure   \* the check that failed, or "none"

vars == <<outputs, pc, hops, last, rep, doErr, decodeErr, matchedSID, matchedOutputID,
          matchedHTTPCode, checks, reported, failure>>
matchVars == <<matchedSID, matchedOutputID, matchedHTTPCode>>

-----------------------------------------------------------------------------
Bodies == {"empty", "html", "bad", "good"}
Responses == [code : Codes, body : Bodies]
JSON == {"bad", "good"}
Redirects == 300..399

(* What the endpoint specifies for a code, most precise first. *)
OutputIDs(code) ==
  LET candidates == <<code, code \div 100, 0>>
      specified == {i \in 1..3 : candidates[i] \in DOMAIN outputs}
  IN {candidates[i] : i \in {j \in specified : \A k \in specified : j <= k}}

callerChecks == <<"connection_to_server", "code_below_500", "HTTP_code",
                  "valid_JSON_response", "response_validates_schema">>

(* NewCaller: every call starts from a new record. *)
Init ==
  /\ outputs \in UNION {[K -> SIDs \cup {0}] : K \in SUBSET Keys}
  /\ pc = "new" /\ hops = 0 /\ last = {} /\ rep = {}
  /\ doErr = FALSE /\ decodeErr = FALSE
  /\ matchedSID = 0 /\ matchedOutputID = 0 /\ matchedHTTPCode = FALSE
  /\ checks = callerChecks
  /\ reported = 0 /\ failure = "none"

-----------------------------------------------------------------------------
(* A request that cannot be built ends the call. *)
Request ==
  /\ pc = "new"
  /\ pc' \in {"do", "over"}
  /\ failure' = IF pc' = "over" THEN "request" ELSE "none"
  /\ UNCHANGED <<outputs, hops, last, rep, doErr, decodeErr, matchVars, checks, reported>>

(* The client refuses the request, or a redirection, without a RoundTrip. *)
DoFails ==
  /\ pc = "do"
  /\ doErr' = TRUE /\ pc' = "checks"
  /\ reported' = matchedOutputID
  /\ UNCHANGED <<outputs, hops, last, rep, decodeErr, matchVars, checks, failure>>

RoundTripFails ==
  /\ pc = "do" /\ hops < MaxHops
  /\ hops' = hops + 1
  /\ rep' = {[code |-> 0, body |-> "empty", decoded |-> FALSE]} /\ last' = {}
  /\ doErr' = TRUE /\ pc' = "checks"
  /\ reported' = matchedOutputID
  /\ UNCHANGED <<outputs, decodeErr, matchVars, checks, failure>>

(* The response's head arrived but not all of its body. *)
BodyFails ==
  /\ pc = "do" /\ hops < MaxHops
  /\ hops' = hops + 1
  /\ \E code \in Codes : rep' = {[code |-> code, body |-> "empty", decoded |-> FALSE]}
  /\ last' = {}
  /\ doErr' = TRUE /\ pc' = "checks"
  /\ reported' = matchedOutputID
  /\ UNCHANGED <<outputs, decodeErr, matchVars, checks, failure>>

Records_NoDecodeErr(r) ==
  /\ rep' = {[code |-> r.code, body |-> r.body, decoded |-> r.body \in JSON]}
  /\ \/ OutputIDs(r.code) = {} /\ matchedSID' = 0 /\ UNCHANGED <<matchedOutputID, matchedHTTPCode>>
     \/ \E id \in OutputIDs(r.code) :
          /\ matchedSID' = outputs[id] /\ matchedOutputID' = id
          /\ matchedHTTPCode' = TRUE
  /\ UNCHANGED decodeErr

Records_RawCode(r) ==
  /\ rep' = {[code |-> r.code, body |-> r.body, decoded |-> r.body \in JSON]}
  /\ decodeErr' = (decodeErr \/ r.body \notin JSON)
  /\ \/ OutputIDs(r.code) = {} /\ matchedSID' = 0 /\ UNCHANGED <<matchedOutputID, matchedHTTPCode>>
     \/ \E id \in OutputIDs(r.code) :
          /\ matchedSID' = outputs[id] /\ matchedOutputID' = r.code
          /\ matchedHTTPCode' = TRUE

(* responseToProto.  A body that is not JSON, the empty one included, is a *)
(* decoding error; neither it nor a match is ever taken back.              *)
Records(r) ==
  /\ rep' = {[code |-> r.code, body |-> r.body, decoded |-> r.body \in JSON]}
  /\ decodeErr' = (decodeErr \/ r.body \notin JSON)
  /\ \/ /\ OutputIDs(r.code) = {}
        /\ matchedSID' = 0 /\ UNCHANGED <<matchedOutputID, matchedHTTPCode>>
     \/ \E id \in OutputIDs(r.code) :
          /\ matchedSID' = outputs[id] /\ matchedOutputID' = id
          /\ matchedHTTPCode' = TRUE

(* RoundTrip.  The client follows a redirection that says where to. *)
RoundTrip ==
  /\ pc = "do" /\ hops < MaxHops
  /\ hops' = hops + 1
  /\ \E r \in Responses :
       /\ Records(r) /\ last' = {r}
       /\ \/ r.code \in Redirects /\ pc' = "do" /\ UNCHANGED reported
          \/ pc' = "checks" /\ reported' = matchedOutputID'
  /\ UNCHANGED <<outputs, doErr, checks, failure>>

-----------------------------------------------------------------------------
Failing_Above500(name) ==
  \/ name = "connection_to_server" /\ doErr
  \/ name = "code_below_500" /\ \E r \in rep : r.code > 500
  \/ name = "HTTP_code" /\ ~matchedHTTPCode
  \/ name = "valid_JSON_response" /\ decodeErr /\ \E r \in rep : r.body # "empty"
  \/ name = "response_validates_schema" /\ matchedSID # 0 /\ \E r \in rep : r.body = "bad"

Failing(name) ==
  \/ name = "connection_to_server" /\ doErr
  \/ name = "code_below_500" /\ \E r \in rep : r.code >= 500
  \/ name = "HTTP_code" /\ ~matchedHTTPCode
  \/ name = "valid_JSON_response" /\ decodeErr /\ \E r \in rep : r.body # "empty"
  \/ /\ name = "response_validates_schema" /\ matchedSID # 0
     /\ \E r \in rep : r.body = "bad"

Check_KeepsGoing ==
  /\ pc = "checks" /\ checks # <<>>
  /\ checks' = Tail(checks)
  /\ failure' = IF Failing(Head(checks)) THEN Head(checks) ELSE failure
  /\ pc' = "checks"
  /\ UNCHANGED <<outputs, hops, last, rep, doErr, decodeErr, matchVars, reported>>

(* NextCallerCheck and its lambda: it passes, is skipped or ends the call. *)
Check ==
  /\ pc = "checks" /\ checks # <<>>
  /\ checks' = Tail(checks)
  /\ IF Failing(Head(checks))
     THEN failure' = Head(checks) /\ pc' = "over"
     ELSE UNCHANGED <<failure, pc>>
  /\ UNCHANGED <<outputs, hops, last, rep, doErr, decodeErr, matchVars, reported>>

Passes ==
  /\ pc = "checks" /\ checks = <<>>
  /\ pc' = "over"
  /\ UNCHANGED <<outputs, hops, last, rep, doErr, decodeErr, matchVars, checks, reported,
                 failure>>

Do == DoFails \/ RoundTripFails \/ BodyFails \/ RoundTrip

Next == Request \/ Do \/ Check \/ Passes

Spec == Init /\ [][Next]_vars

-----------------------------------------------------------------------------
TypeOK ==
  /\ DOMAIN outputs \subseteq Keys /\ \A k \in DOMAIN outputs : outputs[k] \in SIDs \cup {0}
  /\ pc \in {"new", "do", "checks", "over"}
  /\ hops \in 0..MaxHops
  /\ last \subseteq Responses
  /\ rep \subseteq [code : Codes \cup {0}, body : Bodies, decoded : BOOLEAN]
  /\ {doErr, decodeErr, matchedHTTPCode} \subseteq BOOLEAN
  /\ matchedSID \in SIDs \cup {0} /\ matchedOutputID \in Keys \cup {0}
  /\ checks \in Seq({callerChecks[i] : i \in 1..5})
  /\ reported \in Keys \cup {0}
  /\ failure \in {"none", "request"} \cup {callerChecks[i] : i \in 1..5}

(* The checks that follow the first dereference repProto, which is nil if  *)
(* the client refused the request, and the last one hands the body to the  *)
(* schema without a look at the decoding error (caller_checks.go, lines    *)
(* 39-85): they only run on a response that was received whole, the last   *)
(* one on a body that is empty or was decoded, whichever redirections came *)
(* before.                                                                 *)
ChecksHaveWhatTheyRead ==
  pc = "checks" /\ checks # <<>> /\ Head(checks) # "connection_to_server" =>
    /\ ~doErr
    /\ \E r \in last : \E p \in rep : p.code = r.code /\ p.body = r.body
    /\ Head(checks) = "response_validates_schema" /\ matchedSID # 0 =>
         \A p \in rep : p.body # "empty" => p.decoded

(* What a check of the response should say of it. *)
SchemaOf(code) == {outputs[id] : id \in OutputIDs(code)} \ {0}
Conforms(r) ==
  /\ r.code < 500
  /\ r.body # "html"
  /\ SchemaOf(r.code) # {} => r.body # "bad"

(* A call passes only on a last response that is no server error and whose *)
(* body is what its code specifies, whatever redirections led there; and   *)
(* without redirection it passes just when its code is specified too, and  *)
(* the server is told the output it matched (caller_http.go, 214-358).     *)
VerdictFitsResponse ==
  pc = "over" /\ failure # "request" =>
    /\ failure = "none" => \E r \in last : Conforms(r)
    /\ hops = 1 /\ ~doErr => \A r \in last :
         /\ failure = "none" <=> Conforms(r) /\ OutputIDs(r.code) # {}
         /\ OutputIDs(r.code) # {} => reported \in OutputIDs(r.code)

=============================================================================
