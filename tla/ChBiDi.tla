------------------------------- MODULE ChBiDi --------------------------------
(***************************************************************************)
(* pkg/internal/fm/chans_bidi.go: the client's end of the bidirectional    *)
(* gRPC stream.  Three goroutines share four unbuffered channels: the      *)
(* runtime, which calls Send, Receive and Close one at a time; the sender, *)
(* which takes a message from sndMsg and answers on sndErr; the receiver,  *)
(* which offers what the stream delivers on rcvMsg and rcvErr.  A transfer *)
(* on an unbuffered channel is one step of both its ends.                  *)
(*                                                                         *)
(* Messages are numbered in the order Send is called and in the order the  *)
(* server emits them: gRPC keeps the order of a stream.                    *)
(***************************************************************************)
EXTENDS Naturals, Sequences

CONSTANTS
  MaxSend,  \* bound on the calls to Send
  MaxEmit,  \* bound on the messages of the server
  Causes    \* the ways the caller's context may end

ASSUME MaxAssumption == MaxSend \in Nat /\ MaxEmit \in Nat
ASSUME CausesAssumption == Causes \subseteq {"canceled", "deadline"}

VARIABLES
  ctx,      \* the context the stream was dialed with: "live" or why it ended
  child,    \* the context NewChBiDi derives from it for the two goroutines
  stream,   \* "open", or "broken" by the server or the network
  emitted,  \* number of messages the server emitted
  read,     \* number of those clt.Recv returned
  sent,     \* number of messages Send was asked to send
  main,     \* the runtime: where it is in a call, the error of the last one
  sndr,     \* the sender: where it is, the message and the error it holds
  rcvr,     \* the receiver, likewise
  wire,     \* the client's messages clt.Send put on the stream
  got       \* the server's messages Receive returned

vars == <<ctx, child, stream, emitted, read, sent, main, sndr, rcvr, wire, got>>

-----------------------------------------------------------------------------
Ended == {"canceled", "deadline"}
Error == Ended \cup {"timeout", "transport"}
Result == Error \cup {"nil"}

(* Send reports the io.EOF of a finished stream as the end of the context. *)
SendError_Raw(e) == e
SendError_Canceled(e) == IF e = "eof" THEN "canceled" ELSE e
SendError(e) == IF e = "eof" THEN "deadline" ELSE e

(* The runtime's next control point after a call that returned err. *)
Returned_Retries(err) ==
  [pc |-> IF err \in {"nil", "timeout"} THEN "idle" ELSE "failed", err |-> err]
Returned(err) == [pc |-> IF err = "nil" THEN "idle" ELSE "failed", err |-> err]

(* Where the sender or the receiver is, with what it holds. *)
At(pc, msg, err) == [pc |-> pc, msg |-> msg, err |-> err]

(* NewChBiDi returned: both goroutines are at the top of their loop. *)
Init ==
  /\ ctx = "live" /\ child = "live" /\ stream = "open"
  /\ emitted = 0 /\ read = 0 /\ sent = 0
  /\ main = [pc |-> "idle", err |-> "nil"]
  /\ sndr = At("select", 0, "nil")
  /\ rcvr = At("select", 0, "nil")
  /\ wire = <<>> /\ got = <<>>

-----------------------------------------------------------------------------
(* The environment: ^C or the time budget, the network, the server. *)

CtxEnds(cause) ==
  /\ ctx = "live"
  /\ ctx' = cause
  /\ child' = IF child = "live" THEN cause ELSE child
  /\ UNCHANGED <<stream, emitted, read, sent, main, sndr, rcvr, wire, got>>

StreamBreaks ==
  /\ stream = "open"
  /\ stream' = "broken"
  /\ UNCHANGED <<ctx, child, emitted, read, sent, main, sndr, rcvr, wire, got>>

ServerEmits ==
  /\ stream = "open" /\ emitted < MaxEmit
  /\ emitted' = emitted + 1
  /\ UNCHANGED <<ctx, child, stream, read, sent, main, sndr, rcvr, wire, got>>

-----------------------------------------------------------------------------
(* The runtime's goroutine: Send. *)

SendBegins ==
  /\ main.pc = "idle" /\ ctx = "live" /\ sent < MaxSend
  /\ main' = [main EXCEPT !.pc = "handoff"]
  /\ sent' = sent + 1
  /\ UNCHANGED <<ctx, child, stream, emitted, read, sndr, rcvr, wire, got>>

SendHandsOff_Buffered ==
  /\ main.pc = "handoff"
  /\ main' = [main EXCEPT !.pc = "sndWait"]
  /\ sndr' = IF sndr.pc = "select" THEN At("send", sent, "nil") ELSE sndr
  /\ UNCHANGED <<ctx, child, stream, emitted, read, sent, rcvr, wire, got>>

(* cbd.sndMsg <- msg: no other case guards this transfer. *)
SendHandsOff ==
  /\ main.pc = "handoff" /\ sndr.pc = "select"
  /\ main' = [main EXCEPT !.pc = "sndWait"]
  /\ sndr' = At("send", sent, "nil")
  /\ UNCHANGED <<ctx, child, stream, emitted, read, sent, rcvr, wire, got>>

(* The answer of clt.Send sends the sender back to the top of its loop, *)
(* the end of its context ends it.                                      *)
SendReturns ==
  /\ main.pc = "sndWait" /\ sndr.pc = "giveErr"
  /\ main' = Returned(sndr.err)
  /\ sndr' = At(IF sndr.msg = 0 THEN "done" ELSE "select", 0, "nil")
  /\ UNCHANGED <<ctx, child, stream, emitted, read, sent, rcvr, wire, got>>

SendTimesOut_Never == FALSE
SendTimesOut ==
  /\ main.pc = "sndWait"
  /\ main' = Returned("timeout")
  /\ UNCHANGED <<ctx, child, stream, emitted, read, sent, sndr, rcvr, wire, got>>

(* The runtime's goroutine: Receive. *)

ReceiveBegins ==
  /\ main.pc = "idle" /\ ctx = "live"
  /\ main' = [main EXCEPT !.pc = "rcvWait"]
  /\ UNCHANGED <<ctx, child, stream, emitted, read, sent, sndr, rcvr, wire, got>>

ReceiveReturnsMsg ==
  /\ main.pc = "rcvWait" /\ rcvr.pc = "giveMsg"
  /\ main' = Returned("nil")
  /\ got' = Append(got, rcvr.msg)
  /\ rcvr' = At("select", 0, "nil")
  /\ UNCHANGED <<ctx, child, stream, emitted, read, sent, sndr, wire>>

ReceiveReturnsErr ==
  /\ main.pc = "rcvWait" /\ rcvr.pc = "giveErr"
  /\ main' = Returned(rcvr.err)
  /\ rcvr' = At("done", 0, "nil")
  /\ UNCHANGED <<ctx, child, stream, emitted, read, sent, sndr, wire, got>>

ReceiveTimesOut_Never == FALSE
ReceiveTimesOut ==
  /\ main.pc = "rcvWait"
  /\ main' = Returned("timeout")
  /\ UNCHANGED <<ctx, child, stream, emitted, read, sent, sndr, rcvr, wire, got>>

(* Both calls look at the caller's context first and only once. *)
CallRefused ==
  /\ main.pc = "idle" /\ ctx # "live"
  /\ main' = Returned(ctx)
  /\ UNCHANGED <<ctx, child, stream, emitted, read, sent, sndr, rcvr, wire, got>>

Close_KeepsContext ==
  /\ main.pc \in {"idle", "failed"}
  /\ main' = [main EXCEPT !.pc = "closed"]
  /\ UNCHANGED <<ctx, child, stream, emitted, read, sent, sndr, rcvr, wire, got>>

(* Fuzz returns: after the first error, or when its campaign is over. *)
Close ==
  /\ main.pc \in {"idle", "failed"}
  /\ main' = [main EXCEPT !.pc = "closed"]
  /\ child' = IF child = "live" THEN "canceled" ELSE child
  /\ UNCHANGED <<ctx, stream, emitted, read, sent, sndr, rcvr, wire, got>>

-----------------------------------------------------------------------------
(* The sender's goroutine. *)

SenderSeesDone ==
  /\ sndr.pc = "select" /\ child # "live"
  /\ sndr' = At("giveErr", 0, child)
  /\ UNCHANGED <<ctx, child, stream, emitted, read, sent, main, rcvr, wire, got>>

SenderSent ==
  /\ sndr.pc = "send" /\ stream = "open" /\ main.pc # "closed"
  /\ wire' = Append(wire, sndr.msg)
  /\ sndr' = At("giveErr", sndr.msg, "nil")
  /\ UNCHANGED <<ctx, child, stream, emitted, read, sent, main, rcvr, got>>

(* clt.Send fails with io.EOF when the stream is finished; any other error *)
(* is the client's own and finishes the stream.                            *)
SenderFailed ==
  /\ sndr.pc = "send"
  /\ \E e \in {"eof", "transport"} :
       /\ e = "eof" => stream = "broken" \/ child # "live"
       /\ sndr' = At("giveErr", sndr.msg, SendError(e))
  /\ stream' = "broken"
  /\ UNCHANGED <<ctx, child, emitted, read, sent, main, rcvr, wire, got>>

(* The receiver's goroutine. *)

ReceiverSelects ==
  /\ rcvr.pc = "select"
  /\ rcvr' = IF child # "live"
             THEN At("giveErr", 0, child)
             ELSE At("recv", 0, "nil")
  /\ UNCHANGED <<ctx, child, stream, emitted, read, sent, main, sndr, wire, got>>

ReceiverReceived_DropsUnawaited ==
  /\ rcvr.pc = "recv" /\ read < emitted
  /\ read' = read + 1
  /\ rcvr' = IF main.pc = "rcvWait" THEN At("giveMsg", read + 1, "nil")
                                   ELSE At("select", 0, "nil")
  /\ UNCHANGED <<ctx, child, stream, emitted, sent, main, sndr, wire, got>>

ReceiverReceived ==
  /\ rcvr.pc = "recv" /\ read < emitted
  /\ read' = read + 1
  /\ rcvr' = At("giveMsg", read + 1, "nil")
  /\ UNCHANGED <<ctx, child, stream, emitted, sent, main, sndr, wire, got>>

ReceiverFailed ==
  /\ rcvr.pc = "recv"
  /\ \/ stream = "broken" /\ rcvr' = At("giveErr", 0, "transport")
     \/ child # "live" /\ rcvr' = At("giveErr", 0, child)
  /\ UNCHANGED <<ctx, child, stream, emitted, read, sent, main, sndr, wire, got>>

-----------------------------------------------------------------------------
Runtime ==
  \/ SendBegins \/ SendHandsOff \/ SendReturns \/ SendTimesOut
  \/ ReceiveBegins \/ ReceiveReturnsMsg \/ ReceiveReturnsErr \/ ReceiveTimesOut
  \/ CallRefused \/ Close

Sender == SenderSeesDone \/ SenderSent \/ SenderFailed

Receiver == ReceiverSelects \/ ReceiverReceived \/ ReceiverFailed

Environment == (\E cause \in Causes : CtxEnds(cause)) \/ StreamBreaks \/ ServerEmits

Next == Runtime \/ Sender \/ Receiver \/ Environment

Spec == Init /\ [][Next]_vars

(* The Go scheduler runs a goroutine that can run, and timers fire.  The  *)
(* stream owes nothing: clt.Send and clt.Recv may block for ever.         *)
FairSpec ==
  /\ Spec
  /\ WF_vars(Runtime)
  /\ WF_vars(SenderSeesDone)
  /\ WF_vars(ReceiverSelects)

-----------------------------------------------------------------------------
TypeOK ==
  /\ ctx \in {"live"} \cup Ended
  /\ child \in {"live"} \cup Ended
  /\ stream \in {"open", "broken"}
  /\ emitted \in Nat /\ read \in Nat /\ sent \in Nat
  /\ main \in [pc : {"idle", "handoff", "sndWait", "rcvWait", "failed", "closed"},
               err : Result]
  /\ sndr \in [pc : {"select", "send", "giveErr", "done"}, msg : Nat, err : Result]
  /\ rcvr \in [pc : {"select", "recv", "giveMsg", "giveErr", "done"}, msg : Nat, err : Result]
  /\ wire \in Seq(Nat) /\ got \in Seq(Nat)

(* The only value Send can take from sndErr answers the message it handed  *)
(* off: neither the error of an earlier message whose Send timed out nor   *)
(* the sender's own farewell (line 98) is ever mistaken for it.            *)
AnswerIsForThisMessage ==
  main.pc = "sndWait" => /\ sndr.pc \in {"send", "giveErr"}
                         /\ sndr.msg = sent

(* As long as no call failed, every message whose Send returned is on the  *)
(* stream, once and in the order of the calls (lines 145-157).             *)
SentIsOnTheWire ==
  /\ \A i \in 1..Len(wire) : wire[i] = i
  /\ main.pc \in {"idle", "rcvWait"} => Len(wire) = sent
  /\ main.pc = "handoff" => Len(wire) = sent - 1

(* Receive returns the server's messages in order, none lost or repeated:  *)
(* what clt.Recv returned is what Receive returned, and the one message    *)
(* the receiver still offers on rcvMsg (lines 77-84).                      *)
ReceivedInOrder ==
  /\ \A i \in 1..Len(got) : got[i] = i
  /\ read = Len(got) + (IF rcvr.pc = "giveMsg" THEN 1 ELSE 0)
  /\ rcvr.pc = "giveMsg" => rcvr.msg = read
  /\ read <= emitted

(* An error of a live campaign has its cause: "canceled" is only reported  *)
(* of a context that was canceled (lines 70-75, 95-99, 129-135).           *)
CanceledMeansCanceled ==
  main.pc = "failed" /\ main.err = "canceled" => ctx = "canceled"

(* What outlives Close begins nothing more: the two goroutines may finish  *)
(* the clt.Send or the clt.Recv they are in, then stay blocked or end, but *)
(* never call another, whatever ctx.Done finds them at (lines 67-123).     *)
NothingBeginsAfterClose ==
  [][main.pc = "closed" => /\ sndr'.pc = "send" => sndr.pc = "send"
                           /\ rcvr'.pc = "recv" => rcvr.pc = "recv"]_vars

-----------------------------------------------------------------------------
(* A call of Receive returns whatever the server, the network and the      *)
(* context do: its ten seconds bound it (lines 136-141).  And if nothing   *)
(* ends the context, every call of Send does too (lines 146-157).          *)
CallsReturn ==
  /\ (main.pc = "rcvWait") ~> (main.pc # "rcvWait")
  /\ [](ctx = "live") =>
       ((main.pc \in {"handoff", "sndWait", "rcvWait"}) ~> (main.pc \in {"idle", "failed"}))

(* Once the context has ended the runtime closes the channel, unless it is *)
(* at the unguarded transfer of line 150 and the sender, gone to line 98   *)
(* with the context's error, is not there to take the message.             *)
StopsOrHangsAtHandoff ==
  (ctx # "live") ~>
    \/ main.pc = "closed"
    \/ main.pc = "handoff" /\ sndr.pc = "giveErr" /\ sndr.msg = 0

(* usage.go, line 65: "--time-budget-overall=DURATION  Stop testing after  *)
(* DURATION": once the context has ended the campaign closes its channel.  *)
EndOfContextStopsTesting == (ctx # "live") ~> (main.pc = "closed")

-----------------------------------------------------------------------------
(* The channel promised to the fuzzing loop. *)
Op ==
  CASE main.pc \in {"handoff", "sndWait"} -> "sending"
    [] main.pc = "rcvWait" -> "receiving"
    [] OTHER -> main.pc

Abstract == INSTANCE Channel WITH op <- Op

(* The goroutines, their four channels and their timeouts implement the    *)
(* call-by-call channel of module Channel.                                 *)
ImplementsChannel == Abstract!Spec
=============================================================================
