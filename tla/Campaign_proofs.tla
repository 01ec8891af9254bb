--------------------------- MODULE Campaign_proofs ---------------------------
(***************************************************************************)
(* The conversation of the fuzzing loop with the server, for any number of *)
(* checks, of instructions and of campaigns.                               *)
(*                                                                         *)
(* The argument: at most one exchange is open at a time, so what is under  *)
(* way in each direction is known from where the two ends are in it; and   *)
(* the last progress under way, or else the standing, is the one the       *)
(* server last reported.                                                   *)
(***************************************************************************)
EXTENDS Campaign, SequenceTheorems, TLAPS

(* Where an instruction leaves the server. *)
Cue(msg) ==
  CASE msg = "Call" -> "request"
    [] msg = "Reset" -> "reset"
    [] msg = "nil" -> "ready"
    [] OTHER -> "over"

(* After its first k messages, down holds what a server that is ready may  *)
(* say: instructions, of which only the last one opens an exchange.        *)
Feed(k) ==
  /\ k <= Len(down)
  /\ \A i \in 1..Len(down) : i > k => down[i].msg \in Instructions
  /\ \A i \in 1..Len(down) : i > k /\ i < Len(down) => down[i].msg = "nil"
  /\ srv = IF Len(down) <= k THEN "ready" ELSE Cue(down[Len(down)].msg)

(* The client's messages the server has yet to read are the ones it expects. *)
UpFits ==
  \/ up = <<>> /\ srv # "confused"
  \/ srv = "hello" /\ up = <<"Fuzz">>
  \/ srv = "request" /\ up \in {<<"Request">>, <<"BadRequest">>, <<"Request", "Response">>}
  \/ srv = "response" /\ up = <<"Response">>
  \/ srv = "checks" /\ \E m \in {"CheckPassed", "CheckFailed", "UserCheck", "Done"} : up = <<m>>
  \/ srv = "reset" /\ up \in {<<"ResetStarted">>, <<"ResetStarted", "ResetEnded">>,
                              <<"ResetStarted", "ResetFailed">>}
  \/ srv = "resetting" /\ up \in {<<"ResetEnded">>, <<"ResetFailed">>}

(* What the client has sent last ends the exchange without an answer. *)
Unanswered ==
  \/ srv = "request" /\ up = <<"BadRequest">>
  \/ srv = "checks" /\ up = <<"Done">>
  \/ srv = "reset" /\ up \in {<<"ResetStarted", "ResetEnded">>, <<"ResetStarted", "ResetFailed">>}
  \/ srv = "resetting" /\ up \in {<<"ResetEnded">>, <<"ResetFailed">>}

(* The server has yet to read what it answers with its progress. *)
AwaitsAnswer ==
  /\ down = <<>>
  /\ \/ after = "callerCheck" /\ srv = "request" /\ up = <<"Request", "Response">>
     \/ after = "callerCheck" /\ srv = "response" /\ up = <<"Response">>
     \/ after = "callerCheck" /\ srv = "checks" /\ up \in {<<"CheckPassed">>, <<"UserCheck">>}
     \/ after = "loop" /\ srv = "checks" /\ up = <<"CheckFailed">>

(* Its answer is under way, and after a failed check whatever it says next. *)
HasAnswer ==
  /\ up = <<>> /\ Len(down) >= 1
  /\ down[1].msg = "nil" /\ down[1].fp # "none"
  /\ after = "callerCheck" => srv = "checks" /\ Len(down) <= 1
  /\ after = "loop" => Feed(1)

(* Both ends are at the same place of the same exchange. *)
AtHello == srv = "hello" /\ up = <<>> /\ down = <<>> /\ told = "none"
AtFirstMessage ==
  \/ srv = "hello" /\ up = <<"Fuzz">> /\ down = <<>>
  \/ up = <<>> /\ Len(down) >= 1 /\ down[1].fp = "none" /\ Feed(1)
AtLoop ==
  \/ up = <<>> /\ Feed(0)
  \/ down = <<>> /\ Unanswered
AtCall == srv = "request" /\ up = <<>> /\ down = <<>>
AtRespond ==
  /\ down = <<>>
  /\ \/ srv = "request" /\ up = <<"Request">>
     \/ srv = "response" /\ up = <<>>
AtProgress == AwaitsAnswer \/ HasAnswer
AtChecks == srv = "checks" /\ up = <<>> /\ down = <<>>
AtReset == srv = "reset" /\ up = <<>> /\ down = <<>>
AtResetting ==
  /\ down = <<>>
  /\ \/ srv = "reset" /\ up = <<"ResetStarted">>
     \/ srv = "resetting" /\ up = <<>>

InStep ==
  /\ pc = "hello" => AtHello
  /\ pc = "loop" /\ ~progress => AtFirstMessage
  /\ pc = "loop" /\ progress => AtLoop
  /\ pc = "call" => AtCall
  /\ pc = "respond" => AtRespond
  /\ pc = "progress" => AtProgress
  /\ pc = "callerCheck" => AtChecks
  /\ pc = "reset" => AtReset
  /\ pc = "resetting" => AtResetting

(* The last progress under way, or else the standing, is what the server   *)
(* last reported.                                                          *)
Reported ==
  \/ /\ \A i \in 1..Len(down) : down[i].fp = "none"
     /\ told \in {"none", standing}
  \/ \E i \in 1..Len(down) :
       /\ told # "none" /\ down[i].fp = told
       /\ \A j \in 1..Len(down) : j > i => down[j].fp = "none"

Running == {"hello"} \cup (InCampaign \ {"break"})
Stopped == {"return", "cleanup", "exited"}

ReportsReach == pc \in Running => Reported

(* A result comes after a progress; a bug's has a counterexample. *)
ResultTells ==
  /\ srv = "over" => told # "none"
  /\ \A i \in 1..Len(down) : down[i].ce => srv = "over" /\ told = "bug"

(* Without an error the loop ended by a result, with the standing it tells. *)
EndsByResult ==
  /\ err # "nil" => pc \in {"break"} \cup Stopped
  /\ err = "nil" /\ pc = "break" => result # "none" /\ (ce => standing = "bug")
  /\ err = "nil" /\ pc \in Stopped => result = "last"
  /\ err = "nil" /\ pc \in {"break"} \cup Stopped => srv = "over" /\ standing = told

CodeTellsBug ==
  /\ pc \in {"cleanup", "exited"} => code = ExitCode
  /\ depth >= 1
  /\ bugShown /\ depth = 1 => pc \in Stopped /\ err = "nil" /\ standing = "bug"

IInv ==
  /\ TypeOK
  /\ err # "unhandled"
  /\ UpFits
  /\ InStep
  /\ ReportsReach
  /\ ResultTells
  /\ EndsByResult
  /\ CodeTellsBug
  /\ ProgresserMatchesCampaign

-----------------------------------------------------------------------------
(* Sequences. *)

(* The few messages of the client that are under way at once. *)
LEMMA ShortSequences ==
  /\ \A a : /\ Append(<<>>, a) = <<a>> /\ <<a>> # <<>>
            /\ Head(<<a>>) = a /\ Tail(<<a>>) = <<>> /\ Len(<<a>>) = 1
  /\ \A a, b : /\ Append(<<a>>, b) = <<a, b>> /\ <<a, b>> # <<>>
               /\ Head(<<a, b>>) = a /\ Tail(<<a, b>>) = <<b>> /\ Len(<<a, b>>) = 2
  /\ \A a, b : <<a>> = <<b>> => a = b
  /\ \A a, b, c : <<a>> # <<b, c>>
  /\ \A a, b, c, d : <<a, b>> = <<c, d>> => a = c /\ b = d
<1>1. \A a : /\ Append(<<>>, a) = <<a>> /\ <<a>> # <<>>
             /\ Head(<<a>>) = a /\ Tail(<<a>>) = <<>> /\ Len(<<a>>) = 1
  OBVIOUS
<1>2. ASSUME NEW a, NEW b
      PROVE  /\ Append(<<a>>, b) = <<a, b>> /\ <<a, b>> # <<>>
             /\ Head(<<a, b>>) = a /\ Tail(<<a, b>>) = <<b>> /\ Len(<<a, b>>) = 2
  <2>1. <<a>> \in Seq({a, b}) /\ Len(<<a>>) = 1 /\ <<a>>[1] = a
    OBVIOUS
  <2>2. Append(<<a>>, b) = <<a, b>>
    <3>1. /\ Append(<<a>>, b) \in Seq({a, b}) /\ Len(Append(<<a>>, b)) = 2
          /\ Append(<<a>>, b)[1] = a /\ Append(<<a>>, b)[2] = b
      BY <2>1, AppendProperties
    <3>2. ASSUME NEW s \in Seq({a, b}), Len(s) = 2, s[1] = a, s[2] = b
          PROVE  s = <<a, b>>
      BY <3>2
    <3>3. QED BY <3>1, <3>2
  <2>3. <<a, b>> # <<>> /\ Head(<<a, b>>) = a /\ Len(<<a, b>>) = 2
    OBVIOUS
  <2>4. Tail(<<a, b>>) = <<b>>
    OBVIOUS
  <2>5. QED BY <2>2, <2>3, <2>4
<1>3. \A a, b : <<a>> = <<b>> => a = b OBVIOUS
<1>4. \A a, b, c : <<a>> # <<b, c>> OBVIOUS
<1>5. \A a, b, c, d : <<a, b>> = <<c, d>> => a = c /\ b = d OBVIOUS
<1>6. QED BY <1>1, <1>2, <1>3, <1>4, <1>5, Zenon

LEMMA AppendMessage ==
  ASSUME NEW s \in Seq(Message), NEW m \in Message
  PROVE  /\ Append(s, m) \in Seq(Message)
         /\ Len(s) \in Nat /\ Len(Append(s, m)) = Len(s) + 1
         /\ \A i \in 1..Len(s) : Append(s, m)[i] = s[i]
         /\ Append(s, m)[Len(s) + 1] = m
  OBVIOUS

LEMMA TailMessage ==
  ASSUME NEW s \in Seq(Message), s # <<>>
  PROVE  /\ Tail(s) \in Seq(Message)
         /\ Len(s) \in Nat /\ Len(s) >= 1 /\ Len(Tail(s)) = Len(s) - 1
         /\ \A i \in 1..(Len(s) - 1) : Tail(s)[i] = s[i + 1]
         /\ Head(s) = s[1] /\ s[1] \in Message
         /\ Len(s) <= 1 => Tail(s) = <<>>
<1>1. Len(s) \in Nat /\ Len(s) >= 1 /\ Head(s) = s[1] /\ s[1] \in Message
  OBVIOUS
<1>2. Tail(s) \in Seq(Message) /\ Len(Tail(s)) = Len(s) - 1
  OBVIOUS
<1>3. \A i \in 1..(Len(s) - 1) : Tail(s)[i] = s[i + 1]
  OBVIOUS
<1>4. Len(s) <= 1 => Tail(s) = <<>>
  OBVIOUS
<1>5. QED BY <1>1, <1>2, <1>3, <1>4

-----------------------------------------------------------------------------
(* What is under way to the client. *)

LEMMA FeedGrows ==
  ASSUME down \in Seq(Message), NEW k \in {0, 1}, Feed(k), srv = "ready",
         NEW m \in Message, m.msg \in Instructions,
         down' = Append(down, m), srv' = Cue(m.msg)
  PROVE  Feed(k)'
<1>1. \A i \in 1..Len(down) : i > k => down[i].msg = "nil"
  <2> SUFFICES ASSUME NEW i \in 1..Len(down), i > k, i = Len(down) PROVE down[i].msg = "nil"
    BY AppendMessage DEF Feed
  <2>1. down[i].msg \in Instructions /\ Cue(down[i].msg) = "ready"
    BY AppendMessage DEF Feed
  <2>2. QED BY <2>1 DEF Cue, Instructions
<1>2. QED BY <1>1, AppendMessage DEF Feed

LEMMA FeedMoves ==
  ASSUME down \in Seq(Message), Feed(1), down' = Tail(down), srv' = srv
  PROVE  Feed(0)'
<1>1. down # <<>> BY DEF Feed
<1>2. /\ down' \in Seq(Message) /\ Len(down) \in Nat /\ Len(down) >= 1
      /\ Len(down') = Len(down) - 1
      /\ \A i \in 1..Len(down') : i + 1 \in 1..Len(down) /\ down'[i] = down[i + 1]
  BY <1>1, TailMessage
<1>3. srv' = IF Len(down') <= 0 THEN "ready" ELSE Cue(down'[Len(down')].msg)
  BY <1>2 DEF Feed
<1>4. QED BY <1>2, <1>3 DEF Feed

LEMMA FeedShrinks ==
  ASSUME down \in Seq(Message), Feed(0), down # <<>>, down' = Tail(down), srv' = srv
  PROVE  /\ Head(down).msg \in Instructions
         /\ Head(down).msg = "nil" => Feed(0)'
         /\ Head(down).msg # "nil" => down' = <<>> /\ srv = Cue(Head(down).msg)
<1>1. Head(down).msg \in Instructions
  BY TailMessage DEF Feed
<1>2. CASE Len(down) <= 1
  BY <1>1, <1>2, TailMessage DEF Feed, Cue, Instructions
<1>3. CASE ~(Len(down) <= 1)
  BY <1>1, <1>3, TailMessage DEF Feed
<1>4. QED BY <1>2, <1>3

LEMMA ReportedGrows ==
  ASSUME down \in Seq(Message), Reported, NEW m \in Message,
         down' = Append(down, m), told' = (IF m.fp = "none" THEN told ELSE m.fp),
         standing' = standing
  PROVE  Reported'
<1>1. CASE m.fp = "none"
  BY <1>1, AppendMessage DEF Reported
<1>2. CASE m.fp # "none"
  BY <1>2, AppendMessage DEF Reported
<1>3. QED BY <1>1, <1>2

LEMMA ReportedShrinks ==
  ASSUME down \in Seq(Message), down # <<>>, Reported, told' = told, down' = Tail(down),
         standing' = (IF Head(down).fp = "none" THEN standing ELSE Head(down).fp)
  PROVE  Reported'
<1>1. CASE \A i \in 1..Len(down) : down[i].fp = "none"
  BY <1>1, TailMessage DEF Reported
<1>2. CASE \E i \in 1..Len(down) : down[i].fp # "none"
  <2>1. PICK i \in 1..Len(down) :
          /\ told # "none" /\ down[i].fp = told
          /\ \A j \in 1..Len(down) : j > i => down[j].fp = "none"
    BY <1>2 DEF Reported
  <2>2. CASE i = 1
    BY <2>1, <2>2, TailMessage DEF Reported
  <2>3. CASE i > 1
    <3>1. i - 1 \in 1..Len(down') /\ down'[i - 1] = down[i]
      BY <2>3, TailMessage
    <3>2. \A j \in 1..Len(down') : j > i - 1 => down'[j].fp = "none"
      BY <2>1, TailMessage
    <3>3. QED BY <2>1, <3>1, <3>2 DEF Reported
  <2>4. QED BY <2>2, <2>3
<1>3. QED BY <1>1, <1>2

-----------------------------------------------------------------------------
(* The beginning. *)

LEMMA Initial == Init => IInv
<1> SUFFICES ASSUME Init PROVE IInv
  OBVIOUS
<1> USE DEF Init
<1>1. TypeOK
  <2>1. up \in Seq(ClientMsgs) /\ down \in Seq(Message)
    BY EmptySeq
  <2>2. callerLeft \in 0..CallerChecks /\ userLeft \in 0..UserChecks
    BY CountsAssumption
  <2>3. {progress, ce, bugShown, cleaned} \subseteq BOOLEAN
    BY Zenon
  <2>4. QED BY <2>1, <2>2, <2>3 DEF TypeOK, Outcome, Standing, Progresses
<1>2. err # "unhandled"
  OBVIOUS
<1>3. UpFits /\ ResultTells
  BY DEF UpFits, ResultTells
<1>4. InStep /\ ReportsReach /\ ProgresserMatchesCampaign
  BY DEF InStep, ReportsReach, ProgresserMatchesCampaign, Running, InCampaign, Handling
<1>5. EndsByResult /\ CodeTellsBug
  BY DEF EndsByResult, CodeTellsBug, Stopped
<1>6. QED BY <1>1, <1>2, <1>3, <1>4, <1>5 DEF IInv

-----------------------------------------------------------------------------
(* The client speaks. *)

(* Errors of the channel are none of the two that matter here. *)
Failures == Outcome \ {"nil", "unhandled"}

LEMMA ErrorsAreFailures ==
  ASSUME TypeOK
  PROVE  SendErrors \subseteq Failures /\ ReceiveErrors \subseteq Failures
  BY DEF TypeOK, SendErrors, ReceiveErrors, EndOfCtx, Failures, Outcome

(* An error takes the program out of the loop, wherever it was in it. *)
LEMMA BreaksOff ==
  ASSUME IInv, pc \in Running \ {"hello"},
         pc' = "break", err' \in Failures,
         callerLeft' \in 0..CallerChecks, userLeft' \in 0..UserChecks,
         after' \in {"callerCheck", "loop"}, resetOk' \in BOOLEAN, progress' \in BOOLEAN,
         UNCHANGED <<ctx, depth, clients, standing, result, ce, bugShown, code, cleaned, up,
                     srv, told, instr>>,
         UNCHANGED down \/ (down # <<>> /\ down' = Tail(down))
  PROVE  IInv'
<1>1. down' \in Seq(Message) /\ \A i \in 1..Len(down') : \E j \in 1..Len(down) : down'[i] = down[j]
  <2>1. CASE down # <<>> /\ down' = Tail(down)
    <3>1. \A i \in 1..Len(down') : i + 1 \in 1..Len(down) /\ down'[i] = down[i + 1]
      BY <2>1, TailMessage DEF IInv, TypeOK
    <3>2. QED BY <2>1, <3>1, TailMessage DEF IInv, TypeOK
  <2>2. QED BY <2>1 DEF IInv, TypeOK
<1>3. TypeOK'
  <2>1. pc' \in InCampaign /\ err' \in Outcome
    BY DEF InCampaign, Failures
  <2>2. {progress', ce', bugShown', cleaned'} \subseteq BOOLEAN
    BY DEF IInv, TypeOK
  <2>3. QED BY <1>1, <2>1, <2>2 DEF IInv, TypeOK
<1>4. err' # "unhandled" /\ UpFits'
  BY DEF IInv, Failures, UpFits
<1>5. InStep' /\ ReportsReach' /\ ProgresserMatchesCampaign'
  BY DEF InStep, ReportsReach, ProgresserMatchesCampaign, Running, Handling, InCampaign
<1>6. ResultTells'
  BY <1>1 DEF IInv, ResultTells
<1>7. EndsByResult' /\ CodeTellsBug'
  BY DEF IInv, EndsByResult, CodeTellsBug, Failures, Stopped, Running, InCampaign
<1>8. QED BY <1>1, <1>3, <1>4, <1>5, <1>6, <1>7 DEF IInv

(* A message of the client: only the place in the exchange is to be seen to. *)
LEMMA Speaks ==
  ASSUME IInv, pc \in Running, pc' \in Running \ {"hello"},
         NEW m \in ClientMsgs, up' = Append(up, m),
         callerLeft' \in 0..CallerChecks, userLeft' \in 0..UserChecks,
         after' \in {"callerCheck", "loop"}, resetOk' \in BOOLEAN,
         UNCHANGED <<ctx, depth, clients, progress, standing, result, ce, bugShown, err,
                     code, cleaned, down, srv, told, instr>>,
         pc' \in Handling => progress,
         UpFits', InStep'
  PROVE  IInv'
<1>1. TypeOK'
  <2>1. up' \in Seq(ClientMsgs)
    BY DEF IInv, TypeOK
  <2>2. QED BY <2>1 DEF IInv, TypeOK, Running
<1>2. Reported' = Reported
  BY DEF Reported
<1>3. ReportsReach' /\ ResultTells' /\ ProgresserMatchesCampaign'
  BY <1>2 DEF IInv, ReportsReach, ResultTells, ProgresserMatchesCampaign, Running, InCampaign
<1>4. EndsByResult' /\ CodeTellsBug'
  BY DEF IInv, EndsByResult, CodeTellsBug, Stopped, Running, InCampaign
<1>5. QED BY <1>1, <1>3, <1>4 DEF IInv

USE DEF Running, Handling, InCampaign, loopVars, callVars, exitVars, srvVars

(* Sends either sends or leaves the loop. *)
LEMMA SendsOrBreaks ==
  ASSUME NEW m, NEW next, TypeOK, Sends(m, next)
  PROVE  \/ up' = Append(up, m) /\ pc' = next /\ err' = err
         \/ pc' = "break" /\ err' \in Failures /\ up' = up
  BY ErrorsAreFailures DEF Sends, Breaks

LEMMA RequestInd ==
  ASSUME IInv, Request
  PROVE  IInv'
<1> USE DEF Request
<1>1. TypeOK /\ AtCall /\ progress
  BY DEF IInv, InStep, ProgresserMatchesCampaign
<1>2. ASSUME NEW m \in {"Request", "BadRequest"}, NEW next \in {"respond", "loop"},
             m = "Request" <=> next = "respond", Sends(m, next)
      PROVE  IInv'
  <2>1. CASE up' = Append(up, m) /\ pc' = next /\ err' = err
    <3>1. srv' = "request" /\ up' = <<m>> /\ down' = <<>>
      BY <1>1, <2>1, ShortSequences DEF AtCall
    <3>2. UpFits' BY <3>1, <1>2 DEF UpFits
    <3>3. InStep' BY <1>1, <1>2, <2>1, <3>1 DEF InStep, AtRespond, AtLoop, Unanswered
    <3>4. m \in ClientMsgs BY DEF ClientMsgs
    <3>5. QED BY <1>1, <1>2, <2>1, <3>2, <3>3, <3>4, Speaks DEF TypeOK
  <2>2. CASE pc' = "break" /\ err' \in Failures /\ up' = up
    BY <1>1, <2>2, BreaksOff DEF TypeOK
  <2>3. QED BY <1>1, <1>2, <2>1, <2>2, SendsOrBreaks
<1>3. QED BY <1>2

LEMMA RespondInd ==
  ASSUME IInv, Respond
  PROVE  IInv'
<1> USE DEF Respond
<1>1. TypeOK /\ AtRespond /\ progress
  BY DEF IInv, InStep, ProgresserMatchesCampaign
<1>2. CASE up' = Append(up, "Response") /\ pc' = "progress" /\ err' = err
  <2>1. AwaitsAnswer'
    <3>1. CASE up = <<"Request">>
      <4>1. up' = <<"Request", "Response">> BY <1>2, <3>1, ShortSequences
      <4>2. QED BY <1>1, <3>1, <4>1, ShortSequences DEF AtRespond, AwaitsAnswer
    <3>2. CASE up = <<>>
      <4>1. up' = <<"Response">> BY <1>2, <3>2, ShortSequences
      <4>2. QED BY <1>1, <3>2, <4>1, ShortSequences DEF AtRespond, AwaitsAnswer
    <3>3. QED BY <1>1, <3>1, <3>2 DEF AtRespond
  <2>2. UpFits' BY <2>1, Zenon DEF UpFits, AwaitsAnswer
  <2>3. InStep' BY <1>2, <2>1 DEF InStep, AtProgress
  <2>4. QED BY <1>1, <1>2, <2>2, <2>3, Speaks DEF TypeOK, ClientMsgs
<1>3. CASE pc' = "break" /\ err' \in Failures /\ up' = up
  BY <1>1, <1>3, BreaksOff DEF TypeOK
<1>4. QED BY <1>1, <1>2, <1>3, SendsOrBreaks

LEMMA CallerCheckInd ==
  ASSUME IInv, CallerCheck
  PROVE  IInv'
<1> USE DEF CallerCheck
<1>1. TypeOK /\ AtChecks /\ progress
  BY DEF IInv, InStep, ProgresserMatchesCampaign
<1>2. callerLeft' \in 0..CallerChecks
  BY <1>1, CountsAssumption DEF TypeOK
<1>3. ASSUME NEW m \in {"CheckPassed", "CheckFailed"}, NEW a \in {"callerCheck", "loop"},
             m = "CheckPassed" <=> a = "callerCheck", Sends(m, "progress"), after' = a
      PROVE  IInv'
  <2>1. CASE up' = Append(up, m) /\ pc' = "progress" /\ err' = err
    <3>1. srv' = "checks" /\ up' = <<m>> /\ down' = <<>>
      BY <1>1, <2>1, ShortSequences DEF AtChecks
    <3>2. AwaitsAnswer'
      BY <1>3, <3>1 DEF AwaitsAnswer
    <3>3. UpFits' BY <3>1, Zenon DEF UpFits
    <3>4. InStep' BY <2>1, <3>2 DEF InStep, AtProgress
    <3>5. m \in ClientMsgs BY DEF ClientMsgs
    <3>6. QED BY <1>1, <1>2, <1>3, <2>1, <3>3, <3>4, <3>5, Speaks DEF TypeOK
  <2>2. CASE pc' = "break" /\ err' \in Failures /\ up' = up
    BY <1>1, <1>2, <1>3, <2>2, BreaksOff DEF TypeOK
  <2>3. QED BY <1>1, <1>3, <2>1, <2>2, SendsOrBreaks
<1>4. QED BY <1>3

LEMMA UserCheckInd ==
  ASSUME IInv, UserCheck
  PROVE  IInv'
<1> USE DEF UserCheck
<1>1. TypeOK /\ AtChecks /\ progress
  BY DEF IInv, InStep, ProgresserMatchesCampaign
<1>2. userLeft' \in 0..UserChecks
  BY <1>1, CountsAssumption DEF TypeOK
<1>3. CASE up' = Append(up, "UserCheck") /\ pc' = "progress" /\ err' = err
  <2>1. srv' = "checks" /\ up' = <<"UserCheck">> /\ down' = <<>>
    BY <1>1, <1>3, ShortSequences DEF AtChecks
  <2>2. AwaitsAnswer' BY <2>1 DEF AwaitsAnswer
  <2>3. UpFits' BY <2>1 DEF UpFits
  <2>4. InStep' BY <1>3, <2>2 DEF InStep, AtProgress
  <2>5. QED BY <1>1, <1>2, <1>3, <2>3, <2>4, Speaks DEF TypeOK, ClientMsgs
<1>4. CASE pc' = "break" /\ err' \in Failures /\ up' = up
  BY <1>1, <1>2, <1>4, BreaksOff DEF TypeOK
<1>5. QED BY <1>1, <1>3, <1>4, SendsOrBreaks

LEMMA ChecksDoneInd ==
  ASSUME IInv, ChecksDone
  PROVE  IInv'
<1> USE DEF ChecksDone
<1>1. TypeOK /\ AtChecks /\ progress
  BY DEF IInv, InStep, ProgresserMatchesCampaign
<1>2. CASE up' = Append(up, "Done") /\ pc' = "loop" /\ err' = err
  <2>1. srv' = "checks" /\ up' = <<"Done">> /\ down' = <<>>
    BY <1>1, <1>2, ShortSequences DEF AtChecks
  <2>2. UpFits' BY <2>1 DEF UpFits
  <2>3. InStep' BY <1>1, <1>2, <2>1 DEF InStep, AtLoop, Unanswered
  <2>4. QED BY <1>1, <1>2, <2>2, <2>3, Speaks DEF TypeOK, ClientMsgs
<1>3. CASE pc' = "break" /\ err' \in Failures /\ up' = up
  BY <1>1, <1>3, BreaksOff DEF TypeOK
<1>4. QED BY <1>1, <1>2, <1>3, SendsOrBreaks

LEMMA ResetStartsInd ==
  ASSUME IInv, ResetStarts
  PROVE  IInv'
<1> USE DEF ResetStarts
<1>1. TypeOK /\ AtReset /\ progress
  BY DEF IInv, InStep, ProgresserMatchesCampaign
<1>2. CASE up' = Append(up, "ResetStarted") /\ pc' = "resetting" /\ err' = err
  <2>1. srv' = "reset" /\ up' = <<"ResetStarted">> /\ down' = <<>>
    BY <1>1, <1>2, ShortSequences DEF AtReset
  <2>2. UpFits' BY <2>1 DEF UpFits
  <2>3. InStep' BY <1>1, <1>2, <2>1 DEF InStep, AtResetting
  <2>4. QED BY <1>1, <1>2, <2>2, <2>3, Speaks DEF TypeOK, ClientMsgs
<1>3. CASE pc' = "break" /\ err' \in Failures /\ up' = up
  BY <1>1, <1>3, BreaksOff DEF TypeOK
<1>4. QED BY <1>1, <1>2, <1>3, SendsOrBreaks

LEMMA ResetEndsInd ==
  ASSUME IInv, ResetEnds
  PROVE  IInv'
<1> USE DEF ResetEnds
<1>1. TypeOK /\ AtResetting /\ progress
  BY DEF IInv, InStep, ProgresserMatchesCampaign
<1>2. PICK m \in {"ResetEnded", "ResetFailed"} : Sends(m, "loop")
  BY Zenon
<1>3. CASE up' = Append(up, m) /\ pc' = "loop" /\ err' = err
  <2>1. Unanswered' /\ UpFits'
    <3>1. CASE up = <<"ResetStarted">>
      <4>1. up' = <<"ResetStarted", m>> BY <1>3, <3>1, ShortSequences
      <4>2. srv' = "reset" BY <1>1, <3>1, ShortSequences DEF AtResetting
      <4>3. QED BY <4>1, <4>2 DEF Unanswered, UpFits
    <3>2. CASE up = <<>>
      <4>1. up' = <<m>> BY <1>3, <3>2, ShortSequences
      <4>2. srv' = "resetting" BY <1>1, <3>2, ShortSequences DEF AtResetting
      <4>3. QED BY <4>1, <4>2 DEF Unanswered, UpFits
    <3>3. QED BY <1>1, <3>1, <3>2 DEF AtResetting
  <2>2. InStep' BY <1>1, <1>3, <2>1 DEF InStep, AtLoop, AtResetting
  <2>3. m \in ClientMsgs BY DEF ClientMsgs
  <2>4. QED BY <1>1, <1>3, <2>1, <2>2, <2>3, Speaks DEF TypeOK
<1>4. CASE pc' = "break" /\ err' \in Failures /\ up' = up
  BY <1>1, <1>4, BreaksOff DEF TypeOK
<1>5. QED BY <1>1, <1>2, <1>3, <1>4, SendsOrBreaks

-----------------------------------------------------------------------------
(* A stream is opened. *)

LEMMA GivesUp ==
  ASSUME IInv, pc \in {"dial", "hello"}, pc' = "return", err' \in Failures,
         UNCHANGED <<ctx, callVars, resetOk, loopVars, standing, exitVars, up, down, srvVars>>
  PROVE  IInv'
<1>1. TypeOK'
  BY DEF IInv, TypeOK, Failures
<1>2. err' # "unhandled" /\ UpFits' /\ ResultTells'
  BY DEF IInv, Failures, UpFits, ResultTells
<1>3. InStep' /\ ReportsReach' /\ ProgresserMatchesCampaign'
  BY DEF IInv, InStep, ReportsReach, ProgresserMatchesCampaign
<1>4. EndsByResult' /\ CodeTellsBug'
  BY DEF IInv, EndsByResult, CodeTellsBug, Failures, Stopped
<1>5. QED BY <1>1, <1>2, <1>3, <1>4 DEF IInv

LEMMA DialInd ==
  ASSUME IInv, Dial
  PROVE  IInv'
<1> USE DEF Dial
<1>1. CASE /\ pc' = "hello" /\ clients' = clients + 1
           /\ up' = <<>> /\ down' = <<>> /\ srv' = "hello" /\ told' = "none"
           /\ UNCHANGED err
  <2>1. TypeOK'
    <3>1. up' \in Seq(ClientMsgs) /\ down' \in Seq(Message)
      BY <1>1, EmptySeq
    <3>2. QED BY <1>1, <3>1 DEF IInv, TypeOK, Progresses
  <2>2. err' # "unhandled" /\ UpFits' /\ ResultTells'
    BY <1>1 DEF IInv, UpFits, ResultTells
  <2>3. InStep' /\ ReportsReach' /\ ProgresserMatchesCampaign'
    BY <1>1 DEF IInv, InStep, AtHello, ReportsReach, Reported, ProgresserMatchesCampaign
  <2>4. EndsByResult' /\ CodeTellsBug'
    BY <1>1 DEF IInv, EndsByResult, CodeTellsBug, Stopped
  <2>5. QED BY <2>1, <2>2, <2>3, <2>4 DEF IInv
<1>2. CASE /\ pc' = "return"
           /\ err' \in {"deadline", "transport"} \cup EndOfCtx
           /\ UNCHANGED <<clients, up, down, srv, told>>
  <2>1. err' \in Failures
    BY <1>2 DEF IInv, TypeOK, EndOfCtx, Failures, Outcome
  <2>2. QED BY <1>2, <2>1, GivesUp
<1>3. QED BY <1>1, <1>2

LEMMA HelloInd ==
  ASSUME IInv, Hello
  PROVE  IInv'
<1> USE DEF Hello
<1>1. TypeOK /\ AtHello /\ ~progress
  BY DEF IInv, InStep, ProgresserMatchesCampaign
<1>2. CASE up' = Append(up, "Fuzz") /\ pc' = "loop" /\ err' = err
  <2>1. srv' = "hello" /\ up' = <<"Fuzz">> /\ down' = <<>>
    BY <1>1, <1>2, ShortSequences DEF AtHello
  <2>2. UpFits' BY <2>1 DEF UpFits
  <2>3. InStep' BY <1>1, <1>2, <2>1 DEF InStep, AtFirstMessage
  <2>4. QED BY <1>1, <1>2, <2>2, <2>3, Speaks DEF TypeOK, ClientMsgs
<1>3. CASE pc' = "return" /\ err' \in SendErrors /\ up' = up
  BY <1>1, <1>3, GivesUp, ErrorsAreFailures
<1>4. QED BY <1>2, <1>3

-----------------------------------------------------------------------------
(* The client takes a message. *)

LEMMA Takes ==
  ASSUME IInv, pc \in {"loop", "progress"}, down # <<>>, down' = Tail(down),
         standing' = (IF Head(down).fp = "none" THEN standing ELSE Head(down).fp),
         UNCHANGED <<srv, told>>
  PROVE  /\ down' \in Seq(Message) /\ standing' \in Standing
         /\ Reported' /\ ResultTells'
<1>1. TypeOK /\ Reported /\ ResultTells
  BY DEF IInv, ReportsReach
<1>2. down' \in Seq(Message) /\ Head(down) \in Message
  BY <1>1, TailMessage DEF TypeOK
<1>3. standing' \in Standing
  BY <1>1, <1>2 DEF TypeOK, Message, Progresses
<1>4. Reported'
  BY <1>1, ReportedShrinks DEF TypeOK
<1>5. ResultTells'
  <2>1. \A i \in 1..Len(down') : i + 1 \in 1..Len(down) /\ down'[i] = down[i + 1]
    BY <1>1, TailMessage DEF TypeOK
  <2>2. QED BY <1>1, <2>1 DEF ResultTells
<1>6. QED BY <1>2, <1>3, <1>4, <1>5

(* The first message: no instruction, and no news of the campaign. *)
LEMMA FirstMessageInd ==
  ASSUME IInv, Loop, ctx = "live", down # <<>>, down' = Tail(down),
         ~progress, FirstMessage
  PROVE  IInv'
<1> USE DEF Loop, FirstMessage
<1>1. TypeOK /\ up = <<>> /\ down[1].fp = "none" /\ Feed(1)
  BY DEF IInv, InStep, AtFirstMessage
<1>2. CASE progress' = TRUE /\ pc' = "loop" /\ UNCHANGED err
  <2>1. Head(down).fp = "none"
    BY <1>1, TailMessage DEF TypeOK
  <2>2. down' \in Seq(Message) /\ Reported' /\ ResultTells'
    BY <2>1, Takes
  <2>3. TypeOK'
    BY <1>1, <1>2, <2>2 DEF TypeOK
  <2>4. Feed(0)'
    BY <1>1, FeedMoves DEF TypeOK
  <2>5. UpFits' /\ InStep'
    BY <1>1, <1>2, <2>4 DEF IInv, UpFits, InStep, AtLoop
  <2>6. ReportsReach' /\ ProgresserMatchesCampaign' /\ err' # "unhandled"
    BY <1>2, <2>2 DEF IInv, ReportsReach, ProgresserMatchesCampaign
  <2>7. EndsByResult' /\ CodeTellsBug'
    BY <1>2 DEF IInv, EndsByResult, CodeTellsBug, Stopped
  <2>8. QED BY <2>2, <2>3, <2>5, <2>6, <2>7 DEF IInv
<1>3. CASE Breaks("other") /\ UNCHANGED progress
  BY <1>1, <1>3, BreaksOff DEF Breaks, Failures, Outcome, TypeOK
<1>4. QED BY <1>2, <1>3

(* The messages that follow: a result leaves nothing under way behind it. *)
LEMMA HandlesInd ==
  ASSUME IInv, Loop, ctx = "live", down # <<>>, down' = Tail(down),
         progress, Handles(Head(down))
  PROVE  IInv'
<1> DEFINE m == Head(down)
<1> USE DEF Loop, Handles, Records
<1>1. TypeOK /\ up = <<>> /\ Feed(0) /\ m \in Message
  BY TailMessage DEF IInv, InStep, AtLoop, TypeOK
<1>2. /\ m.msg \in Instructions
      /\ m.msg = "nil" => Feed(0)'
      /\ m.msg # "nil" => down' = <<>> /\ srv = Cue(m.msg)
  BY <1>1, FeedShrinks DEF TypeOK
<1>3. down' \in Seq(Message) /\ standing' \in Standing /\ Reported' /\ ResultTells'
  BY Takes
<1>4. up' = <<>> /\ UpFits' /\ depth >= 1 /\ depth' = depth /\ bugShown' = bugShown
  BY <1>1 DEF IInv, UpFits, CodeTellsBug
<1>5. err = "nil" /\ (bugShown => depth # 1)
  BY DEF IInv, EndsByResult, CodeTellsBug, Stopped
<1> HIDE DEF m
<1>6. CASE m.msg \in {"nil", "Call", "Reset"}
  <2>1. /\ err' = err /\ result' = result /\ ce' = ce
        /\ pc' = (CASE m.msg = "nil" -> "loop" [] m.msg = "Call" -> "call" [] OTHER -> "reset")
    BY <1>6 DEF m
  <2>2. callerLeft' \in 0..CallerChecks /\ userLeft' \in 0..UserChecks /\ after' = after
    BY <1>1, <1>6, CountsAssumption DEF m, TypeOK
  <2>3. TypeOK'
    BY <1>1, <1>3, <1>6, <2>1, <2>2 DEF TypeOK
  <2>4. InStep'
    BY <1>2, <1>4, <1>6, <2>1 DEF InStep, AtLoop, AtCall, AtReset, Cue
  <2>5. ReportsReach' /\ ProgresserMatchesCampaign'
    BY <1>3, <1>6, <2>1 DEF ReportsReach, ProgresserMatchesCampaign
  <2>6. EndsByResult' /\ CodeTellsBug' /\ err' # "unhandled"
    BY <1>4, <1>5, <1>6, <2>1 DEF EndsByResult, CodeTellsBug, Stopped
  <2>7. QED BY <1>3, <1>4, <2>3, <2>4, <2>5, <2>6 DEF IInv
<1>7. CASE m.msg \in {"Result", "ResultNext"}
  <2>1. /\ pc' = "break" /\ err' = err /\ result' \in {"last", "next"} /\ ce' = m.ce
        /\ UNCHANGED callVars
    BY <1>7 DEF m
  <2>2. TypeOK'
    BY <1>1, <1>3, <2>1 DEF TypeOK, Message
  <2>3. srv = "over" /\ down' = <<>>
    BY <1>2, <1>7 DEF Cue
  <2>4. standing' = told' /\ told' # "none"
    <3>1. told' = told /\ told # "none"
      BY <2>3 DEF IInv, ResultTells
    <3>2. ASSUME NEW i \in 1..Len(down') PROVE FALSE
      <4>1. i \in 1..0 BY <2>3
      <4>2. QED BY <4>1
    <3>3. QED BY <1>3, <3>1, <3>2, Zenon DEF Reported
  <2>5. ce' => standing' = "bug"
    <3>1. 1 \in 1..Len(down) /\ m = down[1]
      BY <1>1, TailMessage DEF m, TypeOK
    <3>2. m.ce => told = "bug"
      BY <3>1 DEF IInv, ResultTells
    <3>3. QED BY <2>1, <2>4, <3>2
  <2>6. InStep' /\ ReportsReach' /\ ProgresserMatchesCampaign'
    BY <2>1 DEF InStep, ReportsReach, ProgresserMatchesCampaign
  <2>7. EndsByResult' /\ CodeTellsBug' /\ err' # "unhandled"
    BY <1>4, <1>5, <2>1, <2>3, <2>4, <2>5 DEF EndsByResult, CodeTellsBug, Stopped
  <2>8. QED BY <1>3, <1>4, <2>2, <2>6, <2>7 DEF IInv
<1>8. QED BY <1>2, <1>6, <1>7 DEF Instructions

LEMMA LoopInd ==
  ASSUME IInv, Loop
  PROVE  IInv'
<1>1. CASE /\ ctx = "live" /\ down # <<>> /\ down' = Tail(down)
           /\ IF progress THEN Handles(Head(down)) ELSE FirstMessage
  BY <1>1, FirstMessageInd, HandlesInd
<1>2. CASE /\ \E e \in ReceiveErrors : Breaks(e)
           /\ UNCHANGED <<down, callVars, progress, standing, result, ce>>
  BY <1>2, BreaksOff, ErrorsAreFailures DEF Loop, Breaks, IInv, TypeOK
<1>3. QED BY <1>1, <1>2 DEF Loop

LEMMA RecvFuzzingProgressInd ==
  ASSUME IInv, RecvFuzzingProgress
  PROVE  IInv'
<1> USE DEF RecvFuzzingProgress
<1>1. TypeOK /\ progress /\ AtProgress
  BY DEF IInv, InStep, ProgresserMatchesCampaign
<1>2. CASE /\ ctx = "live" /\ down # <<>> /\ down' = Tail(down)
           /\ Head(down).fp # "none" /\ pc' = after /\ Records(Head(down).fp) /\ UNCHANGED err
  <2>1. HasAnswer
    BY <1>1, <1>2 DEF AtProgress, AwaitsAnswer
  <2>2. down' \in Seq(Message) /\ standing' \in Standing /\ Reported' /\ ResultTells'
    BY <1>2, Takes DEF Records
  <2>3. pc' \in {"callerCheck", "loop"}
    BY <1>1, <1>2 DEF TypeOK
  <2>4. TypeOK'
    BY <1>1, <1>2, <2>2, <2>3 DEF TypeOK
  <2>5. UpFits'
    BY <2>1 DEF IInv, UpFits
  <2>6. InStep'
    <3>1. CASE after = "callerCheck"
      BY <1>1, <1>2, <2>1, <3>1, TailMessage DEF HasAnswer, InStep, AtChecks, TypeOK
    <3>2. CASE after = "loop"
      <4>1. Feed(0)' BY <1>1, <1>2, <2>1, <3>2, FeedMoves DEF HasAnswer, TypeOK
      <4>2. QED BY <1>1, <1>2, <2>1, <3>2, <4>1 DEF HasAnswer, InStep, AtLoop
    <3>3. QED BY <1>1, <3>1, <3>2 DEF TypeOK
  <2>7. ReportsReach' /\ ProgresserMatchesCampaign' /\ err' # "unhandled"
    BY <1>1, <1>2, <2>2, <2>3 DEF IInv, ReportsReach, ProgresserMatchesCampaign
  <2>8. EndsByResult' /\ CodeTellsBug'
    BY <1>2, <2>3 DEF IInv, EndsByResult, CodeTellsBug, Stopped
  <2>9. QED BY <2>2, <2>4, <2>5, <2>6, <2>7, <2>8 DEF IInv
<1>3. CASE /\ ctx = "live" /\ down # <<>> /\ down' = Tail(down)
           /\ Breaks("other") /\ UNCHANGED standing
  BY <1>1, <1>3, BreaksOff DEF Breaks, Failures, Outcome, TypeOK
<1>4. CASE (\E e \in ReceiveErrors : Breaks(e)) /\ UNCHANGED <<down, standing>>
  BY <1>1, <1>4, BreaksOff, ErrorsAreFailures DEF Breaks, TypeOK
<1>5. QED BY <1>2, <1>3, <1>4

-----------------------------------------------------------------------------
(* The end of a campaign, and of the program. *)

LEMMA BreakInd ==
  ASSUME IInv, Break
  PROVE  IInv'
<1> USE DEF Break
<1>1. TypeOK /\ EndsByResult /\ CodeTellsBug
  BY DEF IInv
<1>2. err' \in Outcome \ {"unhandled"} /\ progress' = FALSE /\ bugShown' \in BOOLEAN
  BY <1>1 DEF IInv, TypeOK, Outcome
<1>3. err' = "nil" => err = "nil"
  BY Zenon
<1>4. CASE err' = "nil" /\ result = "next"
  <2>1. pc' = "dial" /\ depth' = depth + 1 /\ result' = "none"
    BY <1>4
  <2>2. TypeOK'
    <3>1. {progress', ce', bugShown', cleaned'} \subseteq BOOLEAN
      BY <1>1, <1>2 DEF TypeOK
    <3>2. QED BY <1>1, <1>2, <2>1, <3>1 DEF TypeOK
  <2>3. UpFits' /\ ResultTells'
    BY DEF IInv, UpFits, ResultTells
  <2>4. InStep' /\ ReportsReach' /\ ProgresserMatchesCampaign'
    BY <1>2, <2>1 DEF InStep, ReportsReach, ProgresserMatchesCampaign
  <2>5. EndsByResult' /\ CodeTellsBug'
    BY <1>1, <1>4, <2>1 DEF EndsByResult, CodeTellsBug, Stopped, TypeOK
  <2>6. QED BY <1>2, <2>2, <2>3, <2>4, <2>5 DEF IInv
<1>5. CASE ~(err' = "nil" /\ result = "next")
  <2>1. pc' = "return" /\ depth' = depth /\ result' = result
    BY <1>5
  <2>2. TypeOK'
    <3>1. {progress', ce', bugShown', cleaned'} \subseteq BOOLEAN
      BY <1>1, <1>2 DEF TypeOK
    <3>2. QED BY <1>1, <1>2, <2>1, <3>1 DEF TypeOK
  <2>3. UpFits' /\ ResultTells'
    BY DEF IInv, UpFits, ResultTells
  <2>4. InStep' /\ ReportsReach' /\ ProgresserMatchesCampaign'
    BY <1>2, <2>1 DEF InStep, ReportsReach, ProgresserMatchesCampaign
  <2>5. EndsByResult'
    BY <1>1, <1>3, <1>5, <2>1 DEF EndsByResult, Stopped, TypeOK
  <2>6. CodeTellsBug'
    BY <1>1, <1>3, <2>1 DEF CodeTellsBug, EndsByResult, Stopped
  <2>7. QED BY <1>2, <2>2, <2>3, <2>4, <2>5, <2>6 DEF IInv
<1>6. QED BY <1>4, <1>5

LEMMA ReturnInd ==
  ASSUME IInv, Return
  PROVE  IInv'
<1> USE DEF Return
<1>1. TypeOK'
  BY DEF IInv, TypeOK, ExitCode, FuzzReturns
<1>2. err' # "unhandled" /\ UpFits' /\ ResultTells'
  BY DEF IInv, UpFits, ResultTells
<1>3. InStep' /\ ReportsReach' /\ ProgresserMatchesCampaign'
  BY DEF IInv, InStep, ReportsReach, ProgresserMatchesCampaign
<1>4. EndsByResult'
  BY DEF IInv, EndsByResult, Stopped
<1>5. CodeTellsBug'
  BY DEF IInv, CodeTellsBug, Stopped, ExitCode, FuzzReturns
<1>6. QED BY <1>1, <1>2, <1>3, <1>4, <1>5 DEF IInv

LEMMA CleanupInd ==
  ASSUME IInv, Cleanup
  PROVE  IInv'
<1> USE DEF Cleanup
<1>1. TypeOK'
  BY DEF IInv, TypeOK
<1>2. err' # "unhandled" /\ UpFits' /\ ResultTells'
  BY DEF IInv, UpFits, ResultTells
<1>3. InStep' /\ ReportsReach' /\ ProgresserMatchesCampaign'
  BY DEF IInv, InStep, ReportsReach, ProgresserMatchesCampaign
<1>4. EndsByResult'
  BY DEF IInv, EndsByResult, Stopped
<1>5. CodeTellsBug'
  BY DEF IInv, CodeTellsBug, Stopped, ExitCode, FuzzReturns
<1>6. QED BY <1>1, <1>2, <1>3, <1>4, <1>5 DEF IInv

LEMMA CtxEndsInd ==
  ASSUME IInv, NEW cause \in Causes, CtxEnds(cause)
  PROVE  IInv'
<1> USE DEF CtxEnds
<1>1. TypeOK'
  BY CausesAssumption DEF IInv, TypeOK
<1>2. err' # "unhandled" /\ UpFits' /\ ResultTells' /\ ProgresserMatchesCampaign'
  BY DEF IInv, UpFits, ResultTells, ProgresserMatchesCampaign
<1>3. InStep'
  BY DEF IInv, InStep, AtHello, AtFirstMessage, AtLoop, AtCall, AtRespond, AtProgress,
         AtChecks, AtReset, AtResetting, AwaitsAnswer, HasAnswer, Unanswered, Feed
<1>4. ReportsReach'
  BY DEF IInv, ReportsReach, Reported
<1>5. EndsByResult' /\ CodeTellsBug'
  BY DEF IInv, EndsByResult, CodeTellsBug, ExitCode, FuzzReturns
<1>6. QED BY <1>1, <1>2, <1>3, <1>4, <1>5 DEF IInv

-----------------------------------------------------------------------------
(* The server. *)

(* It reads what it expects, and follows. *)
LEMMA Reads ==
  ASSUME UpFits, ServerReads
  PROVE  \/ srv = "hello" /\ up = <<"Fuzz">> /\ srv' = "ready" /\ up' = <<>>
         \/ srv = "request" /\ up = <<"Request">> /\ srv' = "response" /\ up' = <<>>
         \/ srv = "request" /\ up = <<"BadRequest">> /\ srv' = "ready" /\ up' = <<>>
         \/ /\ srv = "request" /\ up = <<"Request", "Response">>
            /\ srv' = "response" /\ up' = <<"Response">>
         \/ srv = "response" /\ up = <<"Response">> /\ srv' = "checks" /\ up' = <<>>
         \/ /\ srv = "checks" /\ up \in {<<"CheckPassed">>, <<"UserCheck">>}
            /\ srv' = "checks" /\ up' = <<>>
         \/ /\ srv = "checks" /\ up \in {<<"CheckFailed">>, <<"Done">>}
            /\ srv' = "ready" /\ up' = <<>>
         \/ srv = "reset" /\ up = <<"ResetStarted">> /\ srv' = "resetting" /\ up' = <<>>
         \/ /\ srv = "reset" /\ srv' = "resetting"
            /\ \E m \in {"ResetEnded", "ResetFailed"} : up = <<"ResetStarted", m>> /\ up' = <<m>>
         \/ /\ srv = "resetting" /\ up \in {<<"ResetEnded">>, <<"ResetFailed">>}
            /\ srv' = "ready" /\ up' = <<>>
<1>1. srv' = Follows(Head(up)) /\ up' = Tail(up)
  BY DEF ServerReads
<1>2. CASE srv = "hello" /\ up = <<"Fuzz">>
  BY <1>1, <1>2, ShortSequences DEF Follows
<1>3. CASE srv = "request" /\ up = <<"Request">>
  BY <1>1, <1>3, ShortSequences DEF Follows
<1>4. CASE srv = "request" /\ up = <<"BadRequest">>
  BY <1>1, <1>4, ShortSequences DEF Follows
<1>5. CASE srv = "request" /\ up = <<"Request", "Response">>
  BY <1>1, <1>5, ShortSequences DEF Follows
<1>6. CASE srv = "response" /\ up = <<"Response">>
  BY <1>1, <1>6, ShortSequences DEF Follows
<1>7. ASSUME NEW m \in {"CheckPassed", "CheckFailed", "UserCheck", "Done"},
             srv = "checks", up = <<m>>
      PROVE  /\ srv' = IF m \in {"CheckPassed", "UserCheck"} THEN "checks" ELSE "ready"
             /\ up' = <<>>
  <2>1. Head(up) = m /\ up' = <<>> BY <1>1, <1>7, ShortSequences
  <2>2. QED BY <1>1, <1>7, <2>1 DEF Follows
<1>8. CASE srv = "reset" /\ up = <<"ResetStarted">>
  BY <1>1, <1>8, ShortSequences DEF Follows
<1>9. ASSUME NEW m \in {"ResetEnded", "ResetFailed"}, srv = "reset", up = <<"ResetStarted", m>>
      PROVE  srv' = "resetting" /\ up' = <<m>>
  <2>1. Head(up) = "ResetStarted" /\ up' = <<m>> BY <1>1, <1>9, ShortSequences
  <2>2. QED BY <1>1, <1>9, <2>1 DEF Follows
<1>10. ASSUME NEW m \in {"ResetEnded", "ResetFailed"}, srv = "resetting", up = <<m>>
       PROVE  srv' = "ready" /\ up' = <<>>
  <2>1. Head(up) = m /\ up' = <<>> BY <1>1, <1>10, ShortSequences
  <2>2. QED BY <1>1, <1>10, <2>1 DEF Follows
<1>11. up # <<>>
  BY DEF ServerReads
<1>12. QED
  BY <1>2, <1>3, <1>4, <1>5, <1>6, <1>7, <1>8, <1>9, <1>10, <1>11 DEF UpFits

(* Its answer, if the message asks for one. *)
LEMMA Answers ==
  ASSUME TypeOK, UpFits, ServerReads
  PROVE  \/ /\ up = <<"Fuzz">> /\ told' = told
            /\ down' = Append(down, Srv("none", "FuzzRep", FALSE))
         \/ /\ up \in {<<"Response">>, <<"CheckPassed">>, <<"CheckFailed">>, <<"UserCheck">>}
            /\ told' \in Standing /\ down' = Append(down, Srv(told', "nil", FALSE))
         \/ /\ up \notin {<<"Fuzz">>, <<"Response">>, <<"CheckPassed">>, <<"CheckFailed">>,
                          <<"UserCheck">>}
            /\ UNCHANGED <<down, told>>
<1>1. up # <<>> BY DEF ServerReads
<1>2. ASSUME NEW m, up = <<m>>
      PROVE  Head(up) = m
  BY <1>2, ShortSequences
<1>3. ASSUME NEW m \in {"ResetStarted", "Request"}, NEW n, up = <<m, n>>
      PROVE  /\ Head(up) = m
             /\ up \notin {<<"Fuzz">>, <<"Response">>, <<"CheckPassed">>, <<"CheckFailed">>,
                           <<"UserCheck">>}
  BY <1>3, ShortSequences
<1>4. ASSUME NEW m \in ClientMsgs, up = <<m>>
      PROVE  /\ up = <<"Fuzz">> <=> m = "Fuzz"
             /\ up \in {<<"Response">>, <<"CheckPassed">>, <<"CheckFailed">>, <<"UserCheck">>}
                <=> m \in {"Response", "CheckPassed", "CheckFailed", "UserCheck"}
  BY <1>4, ShortSequences
<1>5. \/ \E m \in ClientMsgs : up = <<m>>
      \/ \E m \in {"ResetStarted", "Request"}, n \in ClientMsgs : up = <<m, n>>
  BY <1>1 DEF UpFits, ClientMsgs
<1>6. CASE \E m \in ClientMsgs : up = <<m>>
  <2>1. PICK m \in ClientMsgs : up = <<m>> BY <1>6
  <2>2. Head(up) = m BY <1>2, <2>1
  <2>3. QED BY <1>4, <2>1, <2>2 DEF ServerReads
<1>7. CASE \E m \in {"ResetStarted", "Request"}, n \in ClientMsgs : up = <<m, n>>
  <2>1. PICK m \in {"ResetStarted", "Request"}, n \in ClientMsgs : up = <<m, n>> BY <1>7
  <2>2. QED BY <1>3, <2>1 DEF ServerReads
<1>8. QED BY <1>5, <1>6, <1>7

LEMMA FirstInDown ==
  ASSUME NEW m \in Message
  PROVE  /\ Append(<<>>, m) \in Seq(Message) /\ Append(<<>>, m)[1] = m
         /\ 1 <= Len(Append(<<>>, m)) /\ Len(Append(<<>>, m)) <= 1
  OBVIOUS

LEMMA ServerReadsInStep ==
  ASSUME IInv, ServerReads
  PROVE  InStep'
<1> USE DEF ServerReads
<1>1. TypeOK /\ UpFits /\ InStep /\ up # <<>>
  BY DEF IInv
<1>2. CASE /\ up = <<"Fuzz">> /\ down' = Append(down, Srv("none", "FuzzRep", FALSE))
  <2>1. srv = "hello" /\ srv' = "ready" /\ up' = <<>>
    BY <1>1, <1>2, Reads, ShortSequences
  <2>2. pc = "loop" /\ ~progress => AtFirstMessage'
    <3>1. SUFFICES ASSUME pc = "loop", ~progress PROVE AtFirstMessage'
      OBVIOUS
    <3>2. down = <<>>
      BY <1>1, <3>1 DEF InStep, AtFirstMessage
    <3>3. Srv("none", "FuzzRep", FALSE) \in Message
      BY DEF Srv, Message, Progresses
    <3>4. down' \in Seq(Message) /\ 1 <= Len(down') /\ Len(down') <= 1 /\ down'[1].fp = "none"
      BY <1>2, <3>2, <3>3, FirstInDown DEF Srv
    <3>5. Feed(1)'
      BY <2>1, <3>4 DEF Feed
    <3>6. QED BY <2>1, <3>4, <3>5 DEF AtFirstMessage
  <2>3. ~(pc = "loop" /\ progress) /\ pc \notin Handling \cup {"hello"}
    <3>1. ~Unanswered /\ ~AwaitsAnswer
      BY <2>1 DEF Unanswered, AwaitsAnswer
    <3>2. QED
      BY <1>1, <2>1, <3>1 DEF InStep, AtHello, AtLoop, AtCall, AtRespond, AtProgress, HasAnswer,
                              AtChecks, AtReset, AtResetting
  <2>4. QED BY <2>2, <2>3 DEF InStep
<1>3. CASE /\ up \in {<<"Response">>, <<"CheckPassed">>, <<"CheckFailed">>, <<"UserCheck">>}
           /\ told' \in Standing /\ down' = Append(down, Srv(told', "nil", FALSE))
  <2>1. /\ (srv = "response" /\ up = <<"Response">>) \/ srv = "checks"
        /\ srv' = IF up = <<"CheckFailed">> THEN "ready" ELSE "checks"
        /\ up' = <<>>
    <3>1. CASE up = <<"Response">>
      BY <1>1, <3>1, Reads, ShortSequences
    <3>2. CASE up = <<"CheckFailed">>
      BY <1>1, <3>2, Reads, ShortSequences
    <3>3. CASE up = <<"CheckPassed">>
      BY <1>1, <3>3, Reads, ShortSequences
    <3>4. CASE up = <<"UserCheck">>
      BY <1>1, <3>4, Reads, ShortSequences
    <3>5. QED BY <1>3, <3>1, <3>2, <3>3, <3>4
  <2>2. up \notin {<<"Fuzz">>, <<"Request">>, <<"Done">>}
    BY <1>3, ShortSequences
  <2>3. pc = "progress" => AtProgress'
    <3>1. SUFFICES ASSUME pc = "progress" PROVE HasAnswer'
      BY DEF AtProgress
    <3>2. AwaitsAnswer
      BY <1>1, <3>1 DEF InStep, AtProgress, HasAnswer
    <3>3. Srv(told', "nil", FALSE) \in Message
      BY <1>3 DEF Srv, Message, Progresses, Instructions
    <3>4. /\ down' \in Seq(Message) /\ 1 <= Len(down') /\ Len(down') <= 1
          /\ down'[1].fp \in Standing /\ down'[1].msg = "nil"
      BY <1>3, <3>2, <3>3, FirstInDown DEF Srv, AwaitsAnswer
    <3>5. after' = "callerCheck" => srv' = "checks"
      BY <2>1, <3>2, ShortSequences DEF AwaitsAnswer, TypeOK, callVars
    <3>6. after' = "loop" => Feed(1)'
      <4>1. after' = "loop" => srv' = "ready"
        BY <2>1, <3>2, ShortSequences DEF AwaitsAnswer, TypeOK, callVars
      <4>2. QED BY <3>4, <4>1 DEF Feed
    <3>7. QED BY <2>1, <3>4, <3>5, <3>6 DEF HasAnswer, Standing
  <2>4. pc \notin (Handling \ {"progress"}) \cup {"hello", "loop"}
    <3>1. ~Unanswered /\ ~AtFirstMessage
      BY <1>1, <2>1, <2>2 DEF Unanswered, AtFirstMessage
    <3>2. QED
      BY <1>1, <2>1, <2>2, <3>1 DEF InStep, AtHello, AtLoop, AtCall, AtRespond,
                               AtChecks, AtReset, AtResetting
  <2>5. QED BY <2>3, <2>4 DEF InStep
<1>4. CASE /\ up \notin {<<"Fuzz">>, <<"Response">>, <<"CheckPassed">>, <<"CheckFailed">>,
                         <<"UserCheck">>}
           /\ UNCHANGED <<down, told>>
  <2>1. pc = "loop" => progress /\ AtLoop'
    <3>1. SUFFICES ASSUME pc = "loop" PROVE progress /\ AtLoop'
      OBVIOUS
    <3>2. progress /\ down = <<>> /\ Unanswered
      BY <1>1, <1>4, <3>1 DEF InStep, AtFirstMessage, AtLoop
    <3>3. CASE srv \in {"request", "checks", "resetting"}
      <4>1. srv' = "ready" /\ up' = <<>>
        BY <1>1, <1>4, <3>2, <3>3, Reads, ShortSequences DEF Unanswered
      <4>2. Feed(0)'
        <5>1. down' \in Seq(Message) /\ 0 <= Len(down') /\ Len(down') <= 0
          BY <1>4, <3>2, EmptySeq
        <5>2. QED BY <4>1, <5>1 DEF Feed
      <4>3. QED BY <3>2, <4>1, <4>2 DEF AtLoop
    <3>4. CASE srv = "reset"
      <4>1. srv' = "resetting" /\ up' \in {<<"ResetEnded">>, <<"ResetFailed">>}
        <5>1. PICK m \in {"ResetEnded", "ResetFailed"} : up = <<"ResetStarted", m>>
          BY <3>2, <3>4, Zenon DEF Unanswered
        <5>2. up # <<"ResetStarted">>
          BY <5>1, ShortSequences
        <5>3. QED BY <1>1, <3>4, <5>2, Reads, Zenon
      <4>2. QED BY <1>4, <3>2, <4>1 DEF AtLoop, Unanswered
    <3>5. QED BY <3>2, <3>3, <3>4 DEF Unanswered
  <2>2. pc = "respond" => AtRespond'
    <3>1. SUFFICES ASSUME pc = "respond" PROVE AtRespond'
      OBVIOUS
    <3>2. down = <<>> /\ srv = "request" /\ up = <<"Request">>
      BY <1>1, <3>1 DEF InStep, AtRespond
    <3>3. srv' = "response" /\ up' = <<>>
      BY <1>1, <3>2, Reads, ShortSequences
    <3>4. QED BY <1>4, <3>2, <3>3 DEF AtRespond
  <2>3. pc = "resetting" => AtResetting'
    <3>1. SUFFICES ASSUME pc = "resetting" PROVE AtResetting'
      OBVIOUS
    <3>2. down = <<>> /\ srv = "reset" /\ up = <<"ResetStarted">>
      BY <1>1, <3>1 DEF InStep, AtResetting
    <3>3. srv' = "resetting" /\ up' = <<>>
      BY <1>1, <3>2, Reads, ShortSequences
    <3>4. QED BY <1>4, <3>2, <3>3 DEF AtResetting
  <2>4. pc = "progress" => AtProgress'
    <3>1. SUFFICES ASSUME pc = "progress" PROVE AwaitsAnswer'
      BY DEF AtProgress
    <3>2. /\ down = <<>> /\ after = "callerCheck"
          /\ srv = "request" /\ up = <<"Request", "Response">>
      BY <1>1, <1>4, <3>1 DEF InStep, AtProgress, HasAnswer, AwaitsAnswer
    <3>3. srv' = "response" /\ up' = <<"Response">>
      BY <1>1, <3>2, Reads, ShortSequences
    <3>4. QED BY <1>4, <3>2, <3>3 DEF AwaitsAnswer, callVars
  <2>5. pc \notin {"hello", "call", "callerCheck", "reset"}
    BY <1>1 DEF InStep, AtHello, AtCall, AtChecks, AtReset
  <2>6. QED BY <2>1, <2>2, <2>3, <2>4, <2>5 DEF InStep
<1>5. QED BY <1>1, <1>2, <1>3, <1>4, Answers

LEMMA ServerReadsInd ==
  ASSUME IInv, ServerReads
  PROVE  IInv'
<1> USE DEF ServerReads
<1>1. TypeOK /\ UpFits /\ up # <<>>
  BY DEF IInv
<1>2. UpFits' /\ srv' \notin {"over", "confused"} /\ srv # "over"
  <2>1. up' = <<>> \/ \E m : up' = <<m>>
    BY <1>1, Reads
  <2>2. QED BY <1>1, Reads DEF UpFits
<1>3. /\ down' \in Seq(Message) /\ told' \in Progresses
      /\ pc \in Running => Reported'
      /\ \A i \in 1..Len(down') : ~down'[i].ce
  <2>1. \A i \in 1..Len(down) : ~down[i].ce
    BY <1>2 DEF IInv, ResultTells
  <2>2. CASE UNCHANGED <<down, told>>
    BY <1>1, <2>1, <2>2 DEF IInv, TypeOK, ReportsReach, Reported
  <2>3. ASSUME NEW m \in Message, ~m.ce, down' = Append(down, m), told' \in Progresses,
               told' = IF m.fp = "none" THEN told ELSE m.fp
        PROVE  /\ down' \in Seq(Message) /\ told' \in Progresses
               /\ pc \in Running => Reported'
               /\ \A i \in 1..Len(down') : ~down'[i].ce
    <3>1. pc \in Running => Reported'
      BY <1>1, <2>3, ReportedGrows DEF IInv, ReportsReach, TypeOK
    <3>2. QED BY <1>1, <2>1, <2>3, <3>1, AppendMessage DEF TypeOK
  <2>4. CASE told' = told /\ down' = Append(down, Srv("none", "FuzzRep", FALSE))
    <3>1. Srv("none", "FuzzRep", FALSE) \in Message
      BY DEF Srv, Message, Progresses
    <3>2. QED BY <1>1, <2>3, <2>4, <3>1 DEF Srv, TypeOK
  <2>5. CASE told' \in Standing /\ down' = Append(down, Srv(told', "nil", FALSE))
    <3>1. Srv(told', "nil", FALSE) \in Message /\ told' \in Progresses /\ told' # "none"
      BY <2>5 DEF Srv, Message, Progresses, Instructions, Standing
    <3>2. QED BY <2>3, <2>5, <3>1 DEF Srv
  <2>6. QED BY <1>1, <2>2, <2>4, <2>5, Answers
<1>4. TypeOK'
  <2>1. up' \in Seq(ClientMsgs)
    BY <1>1 DEF TypeOK
  <2>2. srv' \in {"hello", "ready", "request", "response", "checks", "reset", "resetting",
                  "over", "confused"}
    BY DEF Follows
  <2>3. QED BY <1>1, <1>3, <2>1, <2>2 DEF TypeOK
<1>5. InStep'
  BY ServerReadsInStep
<1>6. ReportsReach' /\ ResultTells' /\ ProgresserMatchesCampaign' /\ err' # "unhandled"
  BY <1>2, <1>3 DEF IInv, ReportsReach, ResultTells, ProgresserMatchesCampaign
<1>7. EndsByResult' /\ CodeTellsBug'
  BY <1>2 DEF IInv, EndsByResult, CodeTellsBug, ExitCode, FuzzReturns
<1>8. QED BY <1>2, <1>4, <1>5, <1>6, <1>7 DEF IInv

LEMMA ServerInstructsInd ==
  ASSUME IInv, ServerInstructs
  PROVE  IInv'
<1> USE DEF ServerInstructs
<1>1. TypeOK /\ UpFits /\ InStep /\ ResultTells /\ srv = "ready"
  BY DEF IInv
<1>2. up = <<>> /\ up' = <<>>
  BY <1>1 DEF UpFits
<1>3. PICK fp \in Progresses, msg \in Instructions :
        /\ told' = IF fp = "none" THEN told ELSE fp
        /\ msg \in {"Result", "ResultNext"} => told' # "none"
        /\ down' = Append(down, Srv(fp, msg, msg \in {"Result", "ResultNext"} /\ told' = "bug"))
        /\ srv' = Cue(msg)
  BY Zenon DEF Cue, Instructions
<1> DEFINE m == Srv(fp, msg, msg \in {"Result", "ResultNext"} /\ told' = "bug")
<1>4. /\ m \in Message /\ m.fp = fp /\ m.msg = msg
      /\ m.ce => msg \in {"Result", "ResultNext"} /\ told' = "bug"
  <2>1. (msg \in {"Result", "ResultNext"} /\ told' = "bug") \in BOOLEAN
    OBVIOUS
  <2>2. QED BY <2>1 DEF Srv, Message
<1> HIDE DEF m
<1>5. down' = Append(down, m)
  BY <1>3 DEF m
<1>6. down' \in Seq(Message) /\ 1 <= Len(down') /\ (Len(down) >= 1 => down'[1] = down[1])
  BY <1>1, <1>4, <1>5, AppendMessage DEF TypeOK
<1>7. \A k \in {0, 1} : Feed(k) => Feed(k)'
  BY <1>1, <1>3, <1>4, <1>5, FeedGrows DEF TypeOK
<1>8. srv' # "confused" /\ (srv' = "over" <=> msg \in {"Result", "ResultNext"})
  BY <1>3 DEF Cue, Instructions
<1>9. TypeOK'
  <2>1. srv' \in {"ready", "request", "reset", "over"} /\ told' \in Progresses
    BY <1>1, <1>3 DEF Cue, TypeOK
  <2>2. QED BY <1>1, <1>6, <2>1 DEF TypeOK
<1>10. UpFits' /\ err' # "unhandled" /\ ProgresserMatchesCampaign'
  BY <1>2, <1>8 DEF IInv, UpFits, ProgresserMatchesCampaign
<1>11. InStep'
  <2>1. ~Unanswered /\ ~AwaitsAnswer
    BY <1>1 DEF Unanswered, AwaitsAnswer
  <2>2. pc \notin {"hello", "call", "respond", "callerCheck", "reset", "resetting"}
    BY <1>1 DEF InStep, AtHello, AtCall, AtRespond, AtChecks, AtReset, AtResetting
  <2>3. pc = "loop" /\ ~progress => AtFirstMessage'
    BY <1>1, <1>2, <1>6, <1>7 DEF InStep, AtFirstMessage
  <2>4. pc = "loop" /\ progress => AtLoop'
    BY <1>1, <1>2, <1>7, <2>1 DEF InStep, AtLoop
  <2>5. pc = "progress" => AtProgress'
    BY <1>1, <1>2, <1>6, <1>7, <2>1 DEF InStep, AtProgress, HasAnswer
  <2>6. QED BY <2>2, <2>3, <2>4, <2>5 DEF InStep
<1>12. ReportsReach'
  BY <1>1, <1>3, <1>4, <1>5, ReportedGrows DEF IInv, ReportsReach, TypeOK
<1>13. ResultTells'
  <2>1. \A i \in 1..Len(down) : ~down[i].ce
    BY <1>1 DEF ResultTells
  <2>2. \A i \in 1..Len(down') : down'[i].ce => down'[i] = m
    BY <1>1, <1>4, <1>5, <2>1, AppendMessage DEF TypeOK
  <2>3. QED BY <1>3, <1>4, <1>8, <2>2 DEF ResultTells
<1>14. EndsByResult' /\ CodeTellsBug'
  BY <1>1 DEF IInv, EndsByResult, CodeTellsBug, ExitCode, FuzzReturns
<1>15. QED BY <1>9, <1>10, <1>11, <1>12, <1>13, <1>14 DEF IInv

LEMMA StutterInd ==
  ASSUME IInv, UNCHANGED vars
  PROVE  IInv'
<1> USE DEF vars
<1>1. TypeOK'
  BY DEF IInv, TypeOK
<1>2. err' # "unhandled" /\ UpFits' /\ ResultTells' /\ ProgresserMatchesCampaign'
  BY DEF IInv, UpFits, ResultTells, ProgresserMatchesCampaign
<1>3. InStep'
  BY DEF IInv, InStep, AtHello, AtFirstMessage, AtLoop, AtCall, AtRespond, AtProgress,
         AtChecks, AtReset, AtResetting, AwaitsAnswer, HasAnswer, Unanswered, Feed
<1>4. ReportsReach'
  BY DEF IInv, ReportsReach, Reported
<1>5. EndsByResult' /\ CodeTellsBug'
  BY DEF IInv, EndsByResult, CodeTellsBug, ExitCode, FuzzReturns
<1>6. QED BY <1>1, <1>2, <1>3, <1>4, <1>5 DEF IInv

-----------------------------------------------------------------------------
(* The conversation keeps to this invariant, whoever steps.                *)
THEOREM Inductive == Spec => []IInv
<1>1. Init => IInv
  BY Initial
<1>2. IInv /\ [Next]_vars => IInv'
  <2> SUFFICES ASSUME IInv, [Next]_vars PROVE IInv'
    OBVIOUS
  <2>1. CASE Dial \/ Hello \/ Loop \/ Break
    BY <2>1, DialInd, HelloInd, LoopInd, BreakInd
  <2>2. CASE Request \/ Respond \/ RecvFuzzingProgress
    BY <2>2, RequestInd, RespondInd, RecvFuzzingProgressInd
  <2>3. CASE CallerCheck \/ UserCheck \/ ChecksDone
    BY <2>3, CallerCheckInd, UserCheckInd, ChecksDoneInd
  <2>4. CASE ResetStarts \/ ResetEnds
    BY <2>4, ResetStartsInd, ResetEndsInd
  <2>5. CASE Main
    BY <2>5, ReturnInd, CleanupInd DEF Main
  <2>6. CASE ServerReads \/ ServerInstructs
    BY <2>6, ServerReadsInd, ServerInstructsInd
  <2>7. CASE \E cause \in Causes : CtxEnds(cause)
    BY <2>7, CtxEndsInd
  <2>8. CASE UNCHANGED vars
    BY <2>8, StutterInd
  <2>9. QED
    BY <2>1, <2>2, <2>3, <2>4, <2>5, <2>6, <2>7, <2>8 DEF Next, Fuzz
<1>3. QED BY <1>1, <1>2, PTL DEF Spec

(* Neither end ever reads a message it does not expect, and Fuzz never     *)
(* meets the message it calls unreachable (fuzz.go, line 126), however     *)
(* long the campaign and however many the checks.                          *)
THEOREM NeverConfused == Spec => []ExchangeIsFollowed
<1>1. IInv => ExchangeIsFollowed
  BY DEF IInv, UpFits, ExchangeIsFollowed
<1>2. QED BY <1>1, Inductive, PTL

(* What recvFuzzingProgress takes is the answer it waits for, never an     *)
(* instruction it would drop (progress.go, lines 43-58).                   *)
THEOREM NoInstructionLost == Spec => []InstructionIsNotSwallowed
<1>1. IInv => InstructionIsNotSwallowed
  <2> SUFFICES ASSUME IInv, pc = "progress", down # <<>>
               PROVE  Head(down).msg = "nil" /\ Head(down).fp # "none"
    BY DEF InstructionIsNotSwallowed
  <2>1. HasAnswer /\ TypeOK
    BY DEF IInv, InStep, AtProgress, AwaitsAnswer
  <2>2. QED BY <2>1, TailMessage DEF HasAnswer, TypeOK
<1>2. QED BY <1>1, Inductive, PTL

(* rt.progress is set whenever a message is handled, and nil when the next *)
(* campaign's first message arrives (fuzz.go, lines 84-147).               *)
THEOREM ProgresserIsThere == Spec => []ProgresserMatchesCampaign
<1>1. IInv => ProgresserMatchesCampaign
  BY DEF IInv
<1>2. QED BY <1>1, Inductive, PTL

(* Without an error the exit code tells what the server last reported, and *)
(* a printed counterexample is only forgotten when another campaign        *)
(* followed (fuzz.go, lines 132-199; main.go, lines 223-243).              *)
THEOREM ExitCodeIsTold == Spec => []ExitCodeTellsLastStanding
<1>1. IInv => ExitCodeTellsLastStanding
  <2> SUFFICES ASSUME IInv, pc = "exited"
               PROVE  /\ err = "nil" => /\ result = "last" /\ standing = told
                                        /\ code = 0 <=> told = "success"
                      /\ bugShown /\ code = 0 => depth > 1
    BY DEF ExitCodeTellsLastStanding
  <2>1. /\ err = "nil" => result = "last" /\ standing = told
        /\ code = ExitCode /\ depth >= 1 /\ depth \in Nat /\ standing \in Standing
        /\ bugShown /\ depth = 1 => err = "nil" /\ standing = "bug"
    BY DEF IInv, TypeOK, EndsByResult, CodeTellsBug, Stopped
  <2>2. err = "nil" => (code = 0 <=> standing = "success")
    BY <2>1 DEF ExitCode, FuzzReturns, Standing
  <2>3. QED BY <2>1, <2>2
<1>2. QED BY <1>1, Inductive, PTL

(* After an error nothing more is sent and no channel is opened: the loop  *)
(* is left at once, and neither its end nor main's says anything (call.go, *)
(* fuzz.go, reset.go: every errT is returned).                             *)
THEOREM ErrorsSilence == Spec => SilentAfterError
<1>1. IInv /\ [Next]_vars => [err # "nil" => Len(up') <= Len(up) /\ clients' <= clients]_vars
  <2> SUFFICES ASSUME IInv, Next, err # "nil"
               PROVE  Len(up') <= Len(up) /\ clients' <= clients
    BY DEF vars
  <2>1. pc \in {"break"} \cup Stopped /\ up \in Seq(ClientMsgs) /\ clients \in Nat
    BY DEF IInv, TypeOK, EndsByResult
  <2>2. CASE up' = up /\ clients' \in {0, clients}
    BY <2>1, <2>2
  <2>3. CASE up # <<>> /\ up' = Tail(up) /\ clients' = clients
    BY <2>1, <2>3
  <2>4. QED
    BY <2>1, <2>2, <2>3
    DEF Next, Fuzz, Main, Stopped, Dial, Hello, Loop, Break, Request, Respond,
        RecvFuzzingProgress, CallerCheck, UserCheck, ChecksDone, ResetStarts, ResetEnds,
        Return, Cleanup, ServerReads, ServerInstructs, CtxEnds
<1>2. QED BY <1>1, Inductive, PTL DEF Spec, SilentAfterError

-----------------------------------------------------------------------------
(* How many steps the program takes at most until it is done, or back at   *)
(* the head of Fuzz's loop with a message of the server.                   *)
ChecksLeft == callerLeft + userLeft

StepsAlone ==
  CASE pc = "exited"      -> 0
    [] pc = "cleanup"     -> 1
    [] pc = "return"      -> 2
    [] pc = "break"       -> IF err = "nil" THEN 7 ELSE 3
    [] pc = "loop"        -> 4
    [] pc = "hello"       -> 5
    [] pc = "dial"        -> 6
    [] pc = "resetting"   -> 5
    [] pc = "reset"       -> 6
    [] pc = "callerCheck" -> 5 + 2 * ChecksLeft
    [] pc = "progress"    -> 6 + 2 * ChecksLeft
    [] pc = "respond"     -> 7 + 2 * ChecksLeft
    [] pc = "call"        -> 8 + 2 * ChecksLeft

TakesMessage == pc = "loop" /\ down # <<>> /\ down' = Tail(down)

(* Every step but the one that takes a message there is one less.  A       *)
(* campaign that follows another had its result, a message, in between.    *)
LEMMA AloneDecreases ==
  ASSUME IInv, Fuzz \/ Main, ~TakesMessage
  PROVE  StepsAlone' < StepsAlone
<1> DEFINE Places == InCampaign \cup {"dial", "hello", "return", "cleanup", "exited"}
<1>1. pc \in Places /\ callerLeft \in Nat /\ userLeft \in Nat /\ after \in {"callerCheck", "loop"}
  BY CountsAssumption DEF IInv, TypeOK
<1>2. err # "nil" => pc \in {"break"} \cup Stopped
  BY DEF IInv, EndsByResult
<1>3. \A e \in SendErrors \cup ReceiveErrors : e # "nil"
  BY DEF SendErrors, ReceiveErrors, EndOfCtx, IInv, TypeOK
<1> USE DEF StepsAlone, ChecksLeft, callVars, loopVars, Breaks
<1>4. CASE Dial
  BY <1>4 DEF Dial
<1>5. CASE Hello
  BY <1>5 DEF Hello
<1>6. CASE Loop
  <2>1. down' = down /\ \E e \in ReceiveErrors : Breaks(e)
    BY <1>6 DEF Loop, TakesMessage
  <2> QED
    BY <1>3, <1>6, <2>1 DEF Loop
<1>7. CASE Break
  BY <1>7 DEF Break
<1>8. CASE Request
  BY <1>1, <1>3, <1>8 DEF Request, Sends
<1>9. CASE Respond
  BY <1>1, <1>3, <1>9 DEF Respond, Sends
<1>10. CASE RecvFuzzingProgress
  BY <1>1, <1>3, <1>10 DEF RecvFuzzingProgress
<1>11. CASE CallerCheck
  BY <1>1, <1>3, <1>11 DEF CallerCheck, Sends
<1>12. CASE UserCheck
  BY <1>1, <1>3, <1>12 DEF UserCheck, Sends
<1>13. CASE ChecksDone
  BY <1>1, <1>3, <1>13 DEF ChecksDone, Sends
<1>14. CASE ResetStarts
  BY <1>3, <1>14 DEF ResetStarts, Sends
<1>15. CASE ResetEnds
  BY <1>3, <1>15 DEF ResetEnds, Sends
<1>16. CASE Main
  BY <1>16 DEF Main, Return, Cleanup
<1> QED
  BY <1>4, <1>5, <1>6, <1>7, <1>8, <1>9, <1>10, <1>11, <1>12, <1>13, <1>14, <1>15, <1>16 DEF Fuzz

(* Each check takes two steps, a message and its progress. *)
LEMMA AloneIsBounded == IInv => StepsAlone \in 0..(8 + 2 * (CallerChecks + UserChecks))
<1> SUFFICES ASSUME IInv PROVE StepsAlone \in 0..(8 + 2 * (CallerChecks + UserChecks))
  OBVIOUS
<1>1. /\ callerLeft \in Nat /\ userLeft \in Nat /\ callerLeft <= CallerChecks /\ userLeft <= UserChecks
      /\ CallerChecks \in Nat /\ UserChecks \in Nat
  BY CountsAssumption DEF IInv, TypeOK
<1>2. pc \in InCampaign \cup {"dial", "hello", "return", "cleanup", "exited"}
  BY DEF IInv, TypeOK
<1>3. ChecksLeft \in Nat /\ ChecksLeft <= CallerChecks + UserChecks
  BY <1>1 DEF ChecksLeft
<1>4. StepsAlone \in Nat /\ StepsAlone <= 8 + 2 * ChecksLeft
  BY <1>2, <1>3 DEF StepsAlone, InCampaign
<1> QED
  BY <1>1, <1>3, <1>4

(* The program never spins: no failure, timeout, reset or next campaign    *)
(* keeps it busy, each message that Fuzz takes is done with in a number of *)
(* steps that the checks bound (fuzz.go, lines 76-199; call.go).           *)
THEOREM NeverSpins ==
  Spec => /\ [](StepsAlone \in 0..(8 + 2 * (CallerChecks + UserChecks)))
          /\ [][Fuzz \/ Main => TakesMessage \/ StepsAlone' < StepsAlone]_vars
<1>1. IInv /\ [Next]_vars => [Fuzz \/ Main => TakesMessage \/ StepsAlone' < StepsAlone]_vars
  BY AloneDecreases
<1> QED
  BY Inductive, AloneIsBounded, <1>1, PTL DEF Spec

(* Where the program is on its way out. *)
StepsToExit ==
  CASE pc = "exited" -> 0
    [] pc = "cleanup" -> 1
    [] pc = "return" -> 2
    [] pc \in {"dial", "hello"} -> 3
    [] pc = "break" -> 4
    [] OTHER -> 5

(* Once the context has ended, wherever the program is, every step of it   *)
(* is one towards its exit and five are enough: the next call on the       *)
(* channel fails and no caller goes on after that (fuzz.go, lines 76-135). *)
THEOREM ExitsInFiveSteps ==
  Spec => [][ctx # "live" => /\ ctx' = ctx
                             /\ Fuzz \/ Main => StepsToExit' < StepsToExit]_vars
<1>1. ASSUME IInv, Next, ctx # "live"
      PROVE  ctx' = ctx /\ (Fuzz \/ Main => StepsToExit' < StepsToExit)
  <2> USE DEF StepsToExit, Breaks
  <2>1. ctx' = ctx
    BY <1>1 DEF Next, Fuzz, Main, Dial, Hello, Loop, Break, Request, Respond, RecvFuzzingProgress,
                CallerCheck, UserCheck, ChecksDone, ResetStarts, ResetEnds, Return, Cleanup,
                ServerReads, ServerInstructs, CtxEnds
  <2>2. ASSUME Fuzz \/ Main PROVE StepsToExit' < StepsToExit
    BY <1>1, <2>2 DEF Fuzz, Main, Dial, Hello, Loop, Break, Request, Respond, RecvFuzzingProgress,
                CallerCheck, UserCheck, ChecksDone, ResetStarts, ResetEnds, Return, Cleanup, Sends
  <2> QED
    BY <2>1, <2>2
<1> QED
  BY Inductive, <1>1, PTL DEF Spec

(* What is there for the program when it receives. *)
NotBothWait ==
  /\ pc = "loop" => down # <<>> \/ up # <<>> \/ srv = "ready"
  /\ pc = "progress" => down # <<>> \/ up # <<>>

(* The program and the server never wait for each other: when the program  *)
(* receives there is a message under way to it or one of its own to the    *)
(* server, or it is at the head of the loop and the server's turn to       *)
(* instruct.  None of the timeouts of Receive is for the program's own     *)
(* doing (call.go, reset.go, progress.go).                                 *)
THEOREM NeverBothWait == Spec => []NotBothWait
<1>1. IInv => NotBothWait
  <2> SUFFICES ASSUME IInv PROVE NotBothWait
    OBVIOUS
  <2>1. down \in Seq(Message)
    BY DEF IInv, TypeOK
  <2>2. /\ pc = "loop" /\ ~progress => AtFirstMessage
        /\ pc = "loop" /\ progress => AtLoop
        /\ pc = "progress" => AtProgress
    BY DEF IInv, InStep
  <2>3. AtFirstMessage => up # <<>> \/ down # <<>>
    BY <2>1, ShortSequences DEF AtFirstMessage
  <2>4. AtLoop => down # <<>> \/ up # <<>> \/ srv = "ready"
    BY <2>1, ShortSequences DEF AtLoop, Feed, Unanswered
  <2>5. AtProgress => down # <<>> \/ up # <<>>
    BY <2>1, ShortSequences DEF AtProgress, AwaitsAnswer, HasAnswer
  <2> QED
    BY <2>2, <2>3, <2>4, <2>5 DEF NotBothWait
<1> QED
  BY Inductive, <1>1, PTL
=============================================================================
