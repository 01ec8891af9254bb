---------------------------- MODULE ChBiDi_proofs ----------------------------
(***************************************************************************)
(* The safety of the client's channel for every number of messages and     *)
(* every way its context may end, and that it implements module Channel.   *)
(***************************************************************************)
EXTENDS ChBiDi, TLAPS

(* Who holds the current message.  The sender is at its select, or done    *)
(* with its context, whenever the runtime is between two calls; it never   *)
(* ends, nobody being there to take its farewell.                          *)
SenderInv ==
  /\ sndr.pc # "done"
  /\ main.pc \in {"idle", "handoff", "rcvWait"} =>
       sndr.pc = "select" \/ (sndr.pc = "giveErr" /\ sndr.msg = 0)
  /\ main.pc \in {"handoff", "sndWait"} => sent > 0
  /\ main.pc = "sndWait" => sndr.pc \in {"send", "giveErr"} /\ sndr.msg = sent

(* How far the stream is behind the calls to Send. *)
WireInv ==
  /\ \A i \in 1..Len(wire) : wire[i] = i
  /\ main.pc \in {"idle", "rcvWait"} => Len(wire) = sent
  /\ main.pc = "handoff" => Len(wire) = sent - 1
  /\ sndr.pc = "send" => sndr.msg = sent /\ Len(wire) = sent - 1
  /\ main.pc = "sndWait" /\ sndr.pc = "giveErr" /\ sndr.err = "nil" => Len(wire) = sent

(* The receiver never offers an empty error. *)
ReceiverInv == rcvr.pc = "giveErr" => rcvr.err # "nil"

IInv == TypeOK /\ SenderInv /\ WireInv /\ ReceivedInOrder /\ ReceiverInv

(* The invariant holds when NewChBiDi returns. *)
LEMMA InitInv == Init => IInv
  BY CausesAssumption DEF Init, At, IInv, TypeOK, SenderInv, WireInv, ReceivedInOrder, ReceiverInv,
                                Result, Error, Ended

(* Every variable keeps its type. *)
LEMMA NextType == TypeOK /\ [Next]_vars => TypeOK'
<1> SUFFICES ASSUME TypeOK, [Next]_vars PROVE TypeOK'
  OBVIOUS
<1> USE DEF At, TypeOK, Result, Error, Ended
<1>1. CASE \E cause \in Causes : CtxEnds(cause)
  BY <1>1, CausesAssumption DEF CtxEnds
<1>2. CASE StreamBreaks \/ ServerEmits
  BY <1>2 DEF StreamBreaks, ServerEmits
<1>3. CASE SendBegins \/ SendTimesOut
  BY <1>3 DEF SendBegins, SendTimesOut, Returned
<1>4. CASE SendHandsOff
  BY <1>4 DEF SendHandsOff
<1>5. CASE SendReturns
  <2>1. sndr.err \in Result
    OBVIOUS
  <2>2. main' \in [pc : {"idle", "failed"}, err : Result]
    BY <1>5, <2>1 DEF SendReturns, Returned
  <2>3. sndr' \in [pc : {"done", "select"}, msg : Nat, err : Result]
    BY <1>5 DEF SendReturns
  <2> QED
    BY <1>5, <2>2, <2>3 DEF SendReturns
<1>6. CASE ReceiveBegins \/ ReceiveTimesOut
  BY <1>6 DEF ReceiveBegins, ReceiveTimesOut, Returned
<1>7. CASE ReceiveReturnsMsg
  <2>1. got' \in Seq(Nat)
    BY <1>7 DEF ReceiveReturnsMsg
  <2> QED
    BY <1>7, <2>1 DEF ReceiveReturnsMsg, Returned
<1>8. CASE ReceiveReturnsErr
  <2>1. rcvr.err \in Result
    OBVIOUS
  <2>2. main' \in [pc : {"idle", "failed"}, err : Result]
    BY <1>8, <2>1 DEF ReceiveReturnsErr, Returned
  <2> QED
    BY <1>8, <2>2 DEF ReceiveReturnsErr
<1>9. CASE CallRefused \/ Close
  BY <1>9 DEF CallRefused, Close, Returned
<1>10. CASE SenderSeesDone
  BY <1>10 DEF SenderSeesDone
<1>11. CASE SenderSent
  <2>1. wire' \in Seq(Nat)
    BY <1>11 DEF SenderSent
  <2> QED
    BY <1>11, <2>1 DEF SenderSent
<1>12. CASE SenderFailed
  <2>1. PICK e \in {"eof", "transport"} :
          sndr' = At("giveErr", sndr.msg, SendError(e))
    BY <1>12 DEF SenderFailed
  <2>2. SendError(e) \in Result
    BY DEF SendError
  <2> QED
    BY <1>12, <2>1, <2>2 DEF SenderFailed
<1>13. CASE ReceiverSelects
  <2>1. CASE child = "live"
    BY <1>13, <2>1 DEF ReceiverSelects
  <2>2. CASE child # "live"
    BY <1>13, <2>2 DEF ReceiverSelects
  <2> QED
    BY <2>1, <2>2
<1>14. CASE ReceiverReceived
  BY <1>14 DEF ReceiverReceived
<1>15. CASE ReceiverFailed
  <2>1. CASE rcvr' = At("giveErr", 0, "transport")
    BY <1>15, <2>1 DEF ReceiverFailed
  <2>2. CASE rcvr' = At("giveErr", 0, child) /\ child # "live"
    BY <1>15, <2>2 DEF ReceiverFailed
  <2> QED
    BY <1>15, <2>1, <2>2 DEF ReceiverFailed
<1>16. CASE UNCHANGED vars
  BY <1>16 DEF vars
<1> QED
  BY <1>1, <1>2, <1>3, <1>4, <1>5, <1>6, <1>7, <1>8, <1>9, <1>10, <1>11,
     <1>12, <1>13, <1>14, <1>15, <1>16
  DEF Next, Runtime, Environment, Sender, Receiver

(* The hand-over between the runtime and the sender. *)
LEMMA NextSender == IInv /\ [Next]_vars => SenderInv'
<1> SUFFICES ASSUME IInv, [Next]_vars PROVE SenderInv'
  OBVIOUS
<1> USE DEF At, IInv, TypeOK, SenderInv
<1>1. CASE Environment
  BY <1>1 DEF Environment, CtxEnds, StreamBreaks, ServerEmits
<1>2. CASE SendBegins
  BY <1>2 DEF SendBegins
<1>3. CASE SendHandsOff
  BY <1>3 DEF SendHandsOff
<1>4. CASE SendReturns
  BY <1>4 DEF SendReturns, Returned
<1>5. CASE SendTimesOut \/ ReceiveTimesOut \/ CallRefused
  <2>1. ctx # "live" \/ main'.pc = "failed"
    BY <1>5 DEF SendTimesOut, ReceiveTimesOut, CallRefused, Returned
  <2> QED
    BY <1>5, <2>1 DEF SendTimesOut, ReceiveTimesOut, CallRefused, Returned, Ended
<1>6. CASE ReceiveBegins \/ Close
  BY <1>6 DEF ReceiveBegins, Close
<1>7. CASE ReceiveReturnsMsg \/ ReceiveReturnsErr
  BY <1>7 DEF ReceiveReturnsMsg, ReceiveReturnsErr, Returned
<1>8. CASE Sender
  BY <1>8 DEF Sender, SenderSeesDone, SenderSent, SenderFailed
<1>9. CASE Receiver
  BY <1>9 DEF Receiver, ReceiverSelects, ReceiverReceived, ReceiverFailed
<1>10. CASE UNCHANGED vars
  BY <1>10 DEF vars
<1> QED
  BY <1>1, <1>2, <1>3, <1>4, <1>5, <1>6, <1>7, <1>8, <1>9, <1>10 DEF Next, Runtime

(* The stream and the calls to Send. *)
LEMMA NextWire == IInv /\ [Next]_vars => WireInv'
<1> SUFFICES ASSUME IInv, [Next]_vars PROVE WireInv'
  OBVIOUS
<1> USE DEF At, IInv, TypeOK, SenderInv, WireInv
<1>1. CASE Environment
  BY <1>1 DEF Environment, CtxEnds, StreamBreaks, ServerEmits
<1>2. CASE SendBegins
  BY <1>2 DEF SendBegins
<1>3. CASE SendHandsOff
  BY <1>3 DEF SendHandsOff
<1>4. CASE SendReturns
  BY <1>4 DEF SendReturns, Returned
<1>5. CASE SendTimesOut \/ ReceiveTimesOut \/ CallRefused
  BY <1>5 DEF SendTimesOut, ReceiveTimesOut, CallRefused, Returned, Ended
<1>6. CASE ReceiveBegins \/ Close
  BY <1>6 DEF ReceiveBegins, Close
<1>7. CASE ReceiveReturnsMsg \/ ReceiveReturnsErr
  BY <1>7 DEF ReceiveReturnsMsg, ReceiveReturnsErr, Returned
<1>8. CASE SenderSeesDone \/ SenderFailed
  BY <1>8 DEF SenderSeesDone, SenderFailed, SendError
<1>9. CASE SenderSent
  BY <1>9 DEF SenderSent
<1>10. CASE Receiver
  BY <1>10 DEF Receiver, ReceiverSelects, ReceiverReceived, ReceiverFailed
<1>11. CASE UNCHANGED vars
  BY <1>11 DEF vars
<1> QED
  BY <1>1, <1>2, <1>3, <1>4, <1>5, <1>6, <1>7, <1>8, <1>9, <1>10, <1>11
  DEF Next, Runtime, Sender

(* The server's messages and the receiver. *)
LEMMA NextReceived == IInv /\ [Next]_vars => ReceivedInOrder'
<1> SUFFICES ASSUME IInv, [Next]_vars PROVE ReceivedInOrder'
  OBVIOUS
<1> USE DEF At, IInv, TypeOK, ReceivedInOrder
<1>1. CASE Environment
  BY <1>1 DEF Environment, CtxEnds, StreamBreaks, ServerEmits
<1>2. CASE ReceiveReturnsMsg
  BY <1>2 DEF ReceiveReturnsMsg
<1>3. CASE ReceiveReturnsErr
  BY <1>3 DEF ReceiveReturnsErr
<1>4. CASE SendBegins \/ SendHandsOff \/ SendReturns \/ SendTimesOut
  BY <1>4 DEF SendBegins, SendHandsOff, SendReturns, SendTimesOut
<1>5. CASE ReceiveBegins \/ ReceiveTimesOut \/ CallRefused \/ Close
  BY <1>5 DEF ReceiveBegins, ReceiveTimesOut, CallRefused, Close
<1>6. CASE Sender
  BY <1>6 DEF Sender, SenderSeesDone, SenderSent, SenderFailed
<1>7. CASE Receiver
  BY <1>7 DEF Receiver, ReceiverSelects, ReceiverReceived, ReceiverFailed
<1>8. CASE UNCHANGED vars
  BY <1>8 DEF vars
<1> QED
  BY <1>1, <1>2, <1>3, <1>4, <1>5, <1>6, <1>7, <1>8 DEF Next, Runtime

(* The receiver's errors. *)
LEMMA NextReceiver == IInv /\ [Next]_vars => ReceiverInv'
<1> SUFFICES ASSUME IInv, [Next]_vars PROVE ReceiverInv'
  OBVIOUS
<1> USE DEF At, IInv, TypeOK, ReceiverInv
<1>1. CASE ReceiveReturnsMsg \/ ReceiveReturnsErr
  BY <1>1 DEF ReceiveReturnsMsg, ReceiveReturnsErr
<1>2. CASE Receiver
  BY <1>2 DEF Receiver, ReceiverSelects, ReceiverReceived, ReceiverFailed, Ended
<1>3. CASE UNCHANGED rcvr
  BY <1>3
<1>4. UNCHANGED rcvr \/ ReceiveReturnsMsg \/ ReceiveReturnsErr \/ Receiver
  BY DEF Next, Runtime, Environment, Sender, SendBegins, SendHandsOff, SendReturns,
         SendTimesOut, ReceiveBegins, ReceiveTimesOut, CallRefused, Close, CtxEnds,
         StreamBreaks, ServerEmits, SenderSeesDone, SenderSent, SenderFailed, vars
<1> QED
  BY <1>1, <1>2, <1>3, <1>4

(* The inductive invariant holds in every state. *)
THEOREM Invariance == Spec => []IInv
<1>1. IInv /\ [Next]_vars => IInv'
  BY NextType, NextSender, NextWire, NextReceived, NextReceiver DEF IInv
<1> QED
  BY InitInv, <1>1, PTL DEF Spec

(* Every variable keeps its type. *)
THEOREM TypeCorrect == Spec => []TypeOK
  BY Invariance, PTL DEF IInv

(* The answer Send waits for is always that of the message it handed off. *)
THEOREM AnswerCorrect == Spec => []AnswerIsForThisMessage
<1>1. IInv => AnswerIsForThisMessage
  BY DEF IInv, SenderInv, AnswerIsForThisMessage
<1> QED
  BY Invariance, <1>1, PTL

(* Messages reach the stream once and in the order of the calls to Send. *)
THEOREM SendCorrect == Spec => []SentIsOnTheWire
<1>1. IInv => SentIsOnTheWire
  BY DEF IInv, WireInv, SentIsOnTheWire
<1> QED
  BY Invariance, <1>1, PTL

(* Receive neither loses, repeats nor reorders the server's messages. *)
THEOREM ReceiveCorrect == Spec => []ReceivedInOrder
  BY Invariance, PTL DEF IInv

(* Until Close the goroutines' context is the caller's, so an error that   *)
(* one of them holds, or the runtime was given, tells how that one ended.  *)
CancelInv ==
  main.pc # "closed" =>
    /\ child = ctx
    /\ sndr.pc = "giveErr" /\ sndr.err = "canceled" => ctx = "canceled"
    /\ rcvr.pc = "giveErr" /\ rcvr.err = "canceled" => ctx = "canceled"
    /\ main.pc = "failed" /\ main.err = "canceled" => ctx = "canceled"

LEMMA NextCancel == TypeOK /\ CancelInv /\ [Next]_vars => CancelInv'
<1> SUFFICES ASSUME TypeOK, CancelInv, [Next]_vars PROVE CancelInv'
  OBVIOUS
<1> USE DEF At, TypeOK, CancelInv
<1>1. CASE Environment
  BY <1>1 DEF Environment, CtxEnds, StreamBreaks, ServerEmits
<1>2. CASE SendBegins \/ ReceiveBegins
  BY <1>2 DEF SendBegins, ReceiveBegins
<1>3. CASE SendHandsOff
  BY <1>3 DEF SendHandsOff
<1>4. CASE SendReturns
  BY <1>4 DEF SendReturns, Returned
<1>5. CASE ReceiveReturnsMsg
  BY <1>5 DEF ReceiveReturnsMsg, Returned
<1>6. CASE ReceiveReturnsErr
  BY <1>6 DEF ReceiveReturnsErr, Returned
<1>7. CASE SendTimesOut \/ ReceiveTimesOut \/ CallRefused
  BY <1>7 DEF SendTimesOut, ReceiveTimesOut, CallRefused, Returned
<1>8. CASE Close
  BY <1>8 DEF Close
<1>9. CASE SenderSeesDone \/ SenderSent
  BY <1>9 DEF SenderSeesDone, SenderSent
<1>10. CASE SenderFailed
  <2>1. sndr'.err # "canceled"
    BY <1>10 DEF SenderFailed, SendError
  <2> QED
    BY <1>10, <2>1 DEF SenderFailed
<1>11. CASE Receiver
  BY <1>11 DEF Receiver, ReceiverSelects, ReceiverReceived, ReceiverFailed
<1>12. CASE UNCHANGED vars
  BY <1>12 DEF vars
<1> QED
  BY <1>1, <1>2, <1>3, <1>4, <1>5, <1>6, <1>7, <1>8, <1>9, <1>10, <1>11, <1>12
  DEF Next, Runtime, Sender

(* A campaign told that its context was canceled had it canceled by its    *)
(* caller: neither Close nor a finished stream is reported so.             *)
THEOREM CancelCorrect == Spec => []CanceledMeansCanceled
<1>1. Init => CancelInv
  BY DEF Init, At, CancelInv
<1>2. CancelInv => CanceledMeansCanceled
  BY DEF CancelInv, CanceledMeansCanceled
<1> QED
  BY <1>1, <1>2, NextCancel, TypeCorrect, PTL DEF Spec

-----------------------------------------------------------------------------
(* Every step of the goroutines is a step of the abstract channel or none. *)
LEMMA StepSimulation == IInv /\ [Next]_vars => [Abstract!Next]_(Abstract!vars)
<1> SUFFICES ASSUME IInv, [Next]_vars PROVE [Abstract!Next]_(Abstract!vars)
  OBVIOUS
<1> USE DEF At, Abstract!vars, Op
<1>1. CASE (\E cause \in Causes : CtxEnds(cause)) \/ StreamBreaks
  BY <1>1 DEF CtxEnds, StreamBreaks
<1>2. CASE ServerEmits
  <2>1. Abstract!Emit
    BY <1>2 DEF ServerEmits, Abstract!Emit
  <2> QED
    BY <2>1 DEF Abstract!Next
<1>3. CASE SendBegins
  <2>1. Abstract!Send
    BY <1>3 DEF SendBegins, Abstract!Send, IInv, TypeOK
  <2> QED
    BY <2>1 DEF Abstract!Next
<1>4. CASE SendHandsOff
  BY <1>4 DEF SendHandsOff, IInv, TypeOK
<1>5. CASE SendReturns
  <2>1. CASE sndr.err = "nil"
    <3>1. Abstract!Sent
      BY <1>5, <2>1 DEF SendReturns, Returned, Abstract!Sent, IInv, TypeOK, WireInv
    <3> QED
      BY <3>1 DEF Abstract!Next
  <2>2. CASE sndr.err # "nil"
    <3>1. Abstract!Fail
      BY <1>5, <2>2 DEF SendReturns, Returned, Abstract!Fail
    <3> QED
      BY <3>1 DEF Abstract!Next
  <2> QED
    BY <2>1, <2>2
<1>6. CASE SendTimesOut \/ ReceiveTimesOut \/ CallRefused
  <2>1. Abstract!Fail
    BY <1>6 DEF SendTimesOut, ReceiveTimesOut, CallRefused, Returned, Abstract!Fail,
                IInv, TypeOK, Ended
  <2> QED
    BY <2>1 DEF Abstract!Next
<1>7. CASE ReceiveBegins
  <2>1. Abstract!Receive
    BY <1>7 DEF ReceiveBegins, Abstract!Receive, IInv, TypeOK
  <2> QED
    BY <2>1 DEF Abstract!Next
<1>8. CASE ReceiveReturnsMsg
  <2>1. Abstract!Received
    BY <1>8 DEF ReceiveReturnsMsg, Returned, Abstract!Received, IInv, TypeOK, ReceivedInOrder
  <2> QED
    BY <2>1 DEF Abstract!Next
<1>9. CASE ReceiveReturnsErr
  <2>1. Abstract!Fail
    BY <1>9 DEF ReceiveReturnsErr, Returned, Abstract!Fail, IInv, ReceiverInv
  <2> QED
    BY <2>1 DEF Abstract!Next
<1>10. CASE Close
  <2>1. Abstract!Close
    BY <1>10 DEF Close, Abstract!Close, IInv, TypeOK
  <2> QED
    BY <2>1 DEF Abstract!Next
<1>11. CASE SenderSent
  <2>1. Abstract!Put
    BY <1>11 DEF SenderSent, Abstract!Put, IInv, TypeOK, SenderInv, WireInv
  <2> QED
    BY <2>1 DEF Abstract!Next
<1>12. CASE SenderSeesDone \/ SenderFailed
  BY <1>12 DEF SenderSeesDone, SenderFailed
<1>13. CASE Receiver
  BY <1>13 DEF Receiver, ReceiverSelects, ReceiverReceived, ReceiverFailed
<1>14. CASE UNCHANGED vars
  BY <1>14 DEF vars
<1> QED
  BY <1>1, <1>2, <1>3, <1>4, <1>5, <1>6, <1>7, <1>8, <1>9, <1>10, <1>11,
     <1>12, <1>13, <1>14
  DEF Next, Runtime, Sender, Environment

(* The goroutines, channels and timeouts implement the channel promised to *)
(* the fuzzing loop.                                                       *)
THEOREM Implementation == Spec => ImplementsChannel
<1>1. Init => Abstract!Init
  BY DEF Init, Abstract!Init, Op
<1> QED
  BY Invariance, StepSimulation, <1>1, PTL DEF Spec, ImplementsChannel, Abstract!Spec

-----------------------------------------------------------------------------
(* Close ends the goroutines' context, and the sender's farewell, the only *)
(* error it holds for no message, tells that it has ended.                 *)
EndInv ==
  /\ main.pc = "closed" => child # "live"
  /\ sndr.pc = "giveErr" /\ sndr.msg = 0 => child # "live"

LEMMA NextEnd == IInv /\ EndInv /\ [Next]_vars => EndInv'
<1> SUFFICES ASSUME IInv, EndInv, [Next]_vars PROVE EndInv'
  OBVIOUS
<1> USE DEF At, IInv, TypeOK, EndInv
<1>1. CASE Environment
  BY <1>1, CausesAssumption DEF Environment, CtxEnds, StreamBreaks, ServerEmits
<1>2. CASE SendBegins \/ ReceiveBegins
  BY <1>2 DEF SendBegins, ReceiveBegins
<1>3. CASE SendHandsOff
  BY <1>3 DEF SendHandsOff
<1>4. CASE SendReturns
  BY <1>4 DEF SendReturns, Returned
<1>5. CASE ReceiveReturnsMsg
  BY <1>5 DEF ReceiveReturnsMsg, Returned
<1>6. CASE ReceiveReturnsErr
  BY <1>6 DEF ReceiveReturnsErr, Returned
<1>7. CASE SendTimesOut \/ ReceiveTimesOut \/ CallRefused
  BY <1>7 DEF SendTimesOut, ReceiveTimesOut, CallRefused, Returned
<1>8. CASE Close
  BY <1>8 DEF Close
<1>9. CASE SenderSeesDone
  BY <1>9 DEF SenderSeesDone
<1>10. CASE SenderSent \/ SenderFailed
  <2>1. sndr.msg # 0
    BY <1>10 DEF SenderSent, SenderFailed, WireInv
  <2> QED
    BY <1>10, <2>1 DEF SenderSent, SenderFailed
<1>11. CASE Receiver
  BY <1>11 DEF Receiver, ReceiverSelects, ReceiverReceived, ReceiverFailed
<1>12. CASE UNCHANGED vars
  BY <1>12 DEF vars
<1> QED
  BY <1>1, <1>2, <1>3, <1>4, <1>5, <1>6, <1>7, <1>8, <1>9, <1>10, <1>11, <1>12
  DEF Next, Runtime, Sender

LEMMA End == Spec => []EndInv
<1>1. Init => EndInv
  BY DEF Init, At, EndInv
<1> QED
  BY Invariance, NextEnd, <1>1, PTL DEF Spec

(* Nothing is begun on the stream once it is closed. *)
THEOREM CloseIsLast == Spec => NothingBeginsAfterClose
<1>1. ASSUME IInv, EndInv, Next, main.pc = "closed"
      PROVE  /\ sndr'.pc = "send" => sndr.pc = "send"
             /\ rcvr'.pc = "recv" => rcvr.pc = "recv"
  BY <1>1 DEF At, EndInv, Next, Runtime, Environment, Sender, Receiver, SendBegins,
         SendHandsOff, SendReturns, SendTimesOut, ReceiveBegins, ReceiveReturnsMsg,
         ReceiveReturnsErr, ReceiveTimesOut, CallRefused, Close, CtxEnds, StreamBreaks,
         ServerEmits, SenderSeesDone, SenderSent, SenderFailed, ReceiverSelects,
         ReceiverReceived, ReceiverFailed
<1> QED
  BY Invariance, End, <1>1, PTL DEF Spec, NothingBeginsAfterClose

(* Where the runtime can hang: the transfer on sndMsg, which nothing       *)
(* guards, waits for a sender that has left its select.                    *)
Hangs == main.pc = "handoff" /\ sndr.pc # "select"

(* Send only hangs when the context has ended since it looked at it (lines *)
(* 95-100, 147-150): neither a slow stream nor an earlier message that     *)
(* timed out leaves the sender elsewhere.                                  *)
THEOREM SendHangsOnlyAtTheEnd == Spec => [](Hangs => ctx # "live")
<1>1. Init => CancelInv
  BY DEF Init, At, CancelInv
<1>2. IInv /\ EndInv /\ CancelInv => (Hangs => ctx # "live")
  BY DEF IInv, SenderInv, EndInv, CancelInv, Hangs
<1> QED
  BY Invariance, TypeCorrect, End, NextCancel, <1>1, <1>2, PTL DEF Spec

(* How many steps the runtime and its two goroutines take at most until    *)
(* the call in progress returns.                                           *)
InCall == main.pc \in {"handoff", "sndWait", "rcvWait"}

StepsOfCall ==
  (IF main.pc = "handoff" THEN 2 ELSE IF main.pc \in {"sndWait", "rcvWait"} THEN 1 ELSE 0)
    + (IF sndr.pc \in {"select", "send"} THEN 1 ELSE 0)
    + (IF rcvr.pc = "select" THEN 2 ELSE IF rcvr.pc = "recv" THEN 1 ELSE 0)

(* A call is short, whatever the server has sent and however many messages *)
(* there were before: between its beginning and its return the goroutines  *)
(* take at most five steps, since each of them soon waits for the runtime, *)
(* and after Close at most three before they are blocked or end (lines     *)
(* 67-115, 129-157).                                                       *)
THEOREM CallsAreShort ==
  Spec => /\ [](StepsOfCall \in 0..5)
          /\ [][InCall \/ main.pc = "closed" =>
                   \/ InCall /\ ~InCall'
                   \/ Environment /\ StepsOfCall' = StepsOfCall
                   \/ StepsOfCall' < StepsOfCall]_vars
<1>1. TypeOK => StepsOfCall \in 0..5
  BY DEF TypeOK, StepsOfCall
<1>2. ASSUME IInv, EndInv, Next, InCall \/ main.pc = "closed"
      PROVE  \/ InCall /\ ~InCall'
             \/ Environment /\ StepsOfCall' = StepsOfCall
             \/ StepsOfCall' < StepsOfCall
  <2> USE DEF At, IInv, TypeOK, EndInv, InCall, StepsOfCall
  <2>1. CASE Environment
    BY <2>1 DEF Environment, CtxEnds, StreamBreaks, ServerEmits
  <2>2. CASE SendBegins \/ ReceiveBegins \/ CallRefused \/ Close
    BY <1>2, <2>2 DEF SendBegins, ReceiveBegins, CallRefused, Close
  <2>3. CASE SendHandsOff
    BY <2>3 DEF SendHandsOff
  <2>4. CASE SendReturns \/ ReceiveReturnsMsg \/ ReceiveReturnsErr
    BY <2>4 DEF SendReturns, ReceiveReturnsMsg, ReceiveReturnsErr, Returned
  <2>5. CASE SendTimesOut \/ ReceiveTimesOut
    BY <2>5 DEF SendTimesOut, ReceiveTimesOut, Returned
  <2>6. CASE SenderSeesDone \/ SenderSent \/ SenderFailed
    BY <2>6 DEF SenderSeesDone, SenderSent, SenderFailed
  <2>7. CASE ReceiverSelects
    BY <2>7 DEF ReceiverSelects
  <2>8. CASE ReceiverReceived \/ ReceiverFailed
    BY <2>8 DEF ReceiverReceived, ReceiverFailed
  <2> QED
    BY <1>2, <2>1, <2>2, <2>3, <2>4, <2>5, <2>6, <2>7, <2>8 DEF Next, Runtime, Sender, Receiver
<1> QED
  BY Invariance, TypeCorrect, End, <1>1, <1>2, PTL DEF Spec
=============================================================================
