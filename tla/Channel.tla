------------------------------- MODULE Channel -------------------------------
(***************************************************************************)
(* What pkg/internal/fm promises to the fuzzing loop: a call-by-call       *)
(* channel to the server.  One call is in progress at a time.  A Send that *)
(* succeeds has put its message, and it alone, on the stream; a Receive    *)
(* that succeeds returns the next message the server emitted; a call that  *)
(* fails is the last one before Close.  The goroutines, the timeouts and   *)
(* the cancellation of the context belong to ChBiDi, which implements      *)
(* this.                                                                   *)
(***************************************************************************)
EXTENDS Naturals, Sequences

VARIABLES
  op,       \* the call in progress: "idle", "sending", "receiving", "failed" or "closed"
  sent,     \* number of messages Send was asked to send
  wire,     \* the client's messages (by number) the stream accepted
  emitted,  \* number of messages the server emitted
  got       \* the server's messages (by number) Receive returned

vars == <<op, sent, wire, emitted, got>>

Init ==
  /\ op = "idle"
  /\ sent = 0 /\ emitted = 0
  /\ wire = <<>> /\ got = <<>>

Send ==
  /\ op = "idle"
  /\ op' = "sending" /\ sent' = sent + 1
  /\ UNCHANGED <<wire, emitted, got>>

(* A message may reach the stream after its Send gave up waiting. *)
Put ==
  /\ op \in {"sending", "failed", "closed"}
  /\ Len(wire) < sent
  /\ wire' = Append(wire, sent)
  /\ UNCHANGED <<op, sent, emitted, got>>

Sent ==
  /\ op = "sending" /\ Len(wire) = sent
  /\ op' = "idle"
  /\ UNCHANGED <<sent, wire, emitted, got>>

Receive ==
  /\ op = "idle"
  /\ op' = "receiving"
  /\ UNCHANGED <<sent, wire, emitted, got>>

Received ==
  /\ op = "receiving" /\ Len(got) < emitted
  /\ op' = "idle" /\ got' = Append(got, Len(got) + 1)
  /\ UNCHANGED <<sent, wire, emitted>>

Fail ==
  /\ op \in {"idle", "sending", "receiving"}
  /\ op' = "failed"
  /\ UNCHANGED <<sent, wire, emitted, got>>

Close ==
  /\ op \in {"idle", "failed"}
  /\ op' = "closed"
  /\ UNCHANGED <<sent, wire, emitted, got>>

Emit ==
  /\ emitted' = emitted + 1
  /\ UNCHANGED <<op, sent, wire, got>>

Next == Send \/ Put \/ Sent \/ Receive \/ Received \/ Fail \/ Close \/ Emit

Spec == Init /\ [][Next]_vars
=============================================================================
