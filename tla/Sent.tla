---------------------------------- MODULE Sent ----------------------------------
(* The table of SpecIR and what it selects, with the messages that carry   *)
(* them and everything else to the server and back.                        *)
EXTENDS Selection, Wire, Messages

(* Messages depend on no variable: one state is enough to look at them. *)
Once == phase = "preseed" /\ at = 1

(* Whatever message is sent, the buffer Marshal makes for it is exactly    *)
(* what MarshalTo fills, nested messages included, and the message that    *)
(* Unmarshal reads from it is the same, with empty strings, lists and      *)
(* messages where there is a difference between them and nothing: no two   *)
(* fields share a number, none is read as another or under another wire    *)
(* type.  What another version of the protocol added to a message does no  *)
(* harm, at its beginning or at its end, and is sent again with it         *)
(* (fuzzymonkey.pb.go, lines 6123-16409).                                  *)
EveryMessageSurvives == Once => \A type \in DOMAIN Protocol : AllSurvive(type)
================================================================================
