------------------------------- MODULE MCSpecIR -------------------------------
(* Instance of SpecIR, Selection and Sent for TLC. *)
EXTENDS Sent

(* A schema with nothing nested, one that loses keywords, one that nests   *)
(* one schema and one that nests two.                                      *)
MCShapes ==
  {{"type:string", "format:email"},
   {"format:time", "minimum", "exclusiveMinimum", "exclusiveMaximum", "multipleOf:1",
    "minProperties", "maxProperties", "nullable"},
   {"items"},
   {"properties:a", "not", "additionalProperties"}}

MCProtocol == Table

(* One filter of any kind, or two of a few kinds in any order and form. *)
MCPairs == {o \in [name : {"only", "except", "calls-with-input", "calls-without-output"},
                   word : {PathWord(1), RefWord(1)}, joined : BOOLEAN] :
              o.name \in {"only", "except"} \/ o.word = RefWord(1)}
MCCommandLines == {<<>>} \cup {<<o>> : o \in {p \in Options : ~p.joined}}
                    \cup (MCPairs \X MCPairs)
===============================================================================
