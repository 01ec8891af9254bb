-------------------------------- MODULE SpecIR ---------------------------------
(***************************************************************************)
(* How an OpenAPIv3 document becomes the table of schemas and endpoints    *)
(* that is sent to the server and that responses are validated against     *)
(* (pkg/modeler/openapiv3: ir_openapi3.go and validator.go).               *)
(*                                                                         *)
(* Named schemas are numbered in the order sort.Strings gives their names. *)
(* They are first pre-seeded, each with a pointer to nothing, then mapped  *)
(* one by one, then the endpoints are.  ensureMapped numbers the schemas   *)
(* nested in a schema before the schema itself and gives equal schemas one *)
(* number.  Its recursion is the stack of what it has returned and nobody  *)
(* has consumed.  The document is whatever its next schema turns out to    *)
(* be; doc and sidOf remember it.                                          *)
(*                                                                         *)
(* A schema is the set of its keywords (with their value, when one value   *)
(* is told from others) and the sequence of the schemas nested in it, in   *)
(* the order fromGo visits them.                                           *)
(***************************************************************************)
EXTENDS Naturals, Sequences, FiniteSets

CONSTANTS
  NumNames,     \* the schemas of the document's components
  Shapes,       \* what its schemas look like: sets of keywords
  Codes,        \* keys of its responses: a code, a class of codes, 0 for default
  MaxNodes,     \* bound on the schemas and $refs it holds, nested ones included
  MaxEndpoints  \* bound on its endpoints

(* The keywords that hold a schema, one token for each schema held. *)
Holders == {"items", "properties:a", "properties:b", "allOf:0", "allOf:1", "not"}
Keywords == Holders \cup
  {"type:string", "type:object", "type:array", "type:null", "nullable",
   "format:email", "format:time", "minimum", "exclusiveMinimum", "exclusiveMaximum",
   "multipleOf:1", "minProperties", "maxProperties", "additionalProperties"}

ASSUME BoundsAssumption == {NumNames, MaxNodes, MaxEndpoints} \subseteq Nat
ASSUME ShapesAssumption == Shapes \subseteq SUBSET Keywords
ASSUME CodesAssumption == Codes \subseteq Nat

Names == 1..NumNames
NoName == 0

VARIABLES
  json,       \* Spec.Schemas.Json: from numbers (SIDs) to pointers and schemas
  refs,       \* Refs: from names to SIDs
  refd,       \* Refd: from names to the schemas as the document has them (indices of doc)
  stack,      \* what ensureMapped returned to callers that have not returned: indices of doc
  phase,      \* "preseed", "seed", "inputs", "outputs", "done", "refused" or "panicked"
  at,         \* the name being seeded
  current,    \* the endpoint being built; a schema in it stands for its SID by its index in doc
  endpoints,  \* Spec.Endpoints
  doc,        \* the calls to ensureMapped, in the order they returned
  sidOf       \* what they returned

tableVars == <<json, refs, refd, stack, doc, sidOf>>
vars == <<tableVars, phase, at, current, endpoints>>

-----------------------------------------------------------------------------
Ptr(name, sid) == [ref |-> name, sid |-> sid, kw |-> {}, kids |-> <<>>]
Schema(kw, kids) == [ref |-> NoName, sid |-> 0, kw |-> kw, kids |-> kids]
IsPtr(entry) == entry.ref # NoName

RefNode(name) == [ref |-> name, kw |-> {}, kids |-> <<>>]
SchemaNode(kw, kids) == [ref |-> NoName, kw |-> kw, kids |-> kids]

Arity(kw) == Cardinality(kw \cap Holders)

(* schemaFromOA3, with ensureSchemaType: items and properties bring their  *)
(* type, and items, one schema for all elements in OpenAPI, becomes a list *)
(* of one schema: that of the first element.                               *)
FromOA3(kw) ==
  (kw \ {"items", "nullable"})
  \cup (IF "items" \in kw THEN {"items:0", "type:array"} ELSE {})
  \cup (IF kw \cap {"properties:a", "properties:b"} # {} THEN {"type:object"} ELSE {})
  \cup (IF "nullable" \in kw THEN {"type:null"} ELSE {})

FromGo_LosesNull(kw) ==
  kw \ {"additionalProperties", "multipleOf:1", "format:time", "type:null"}

(* fromGo leaves additionalProperties out, stores multipleOf minus one,    *)
(* and formatFromGo knows some formats only.                               *)
FromGo(kw) == kw \ {"additionalProperties", "multipleOf:1", "format:time"}

(* toGo writes three keywords under names no validator knows. *)
Written == [exclusiveMinimum |-> "exclusiveMin", exclusiveMaximum |-> "exclusiveMax",
            minProperties |-> "minProps"]
ToGo(kw) == {IF k \in DOMAIN Written THEN Written[k] ELSE k : k \in kw}

(* The assignment of an entry of a map. *)
Assign(map, key, value) ==
  [k \in DOMAIN map \cup {key} |-> IF k = key THEN value ELSE map[k]]

newSID == 1 + Cardinality(DOMAIN json)
empty == [inputs |-> <<>>, outputs |-> << >>]

Init ==
  /\ json = << >> /\ refs = << >> /\ refd = << >>
  /\ stack = <<>> /\ doc = <<>> /\ sidOf = <<>>
  /\ phase = IF NumNames = 0 THEN "inputs" ELSE "preseed"
  /\ at = 1 /\ current = empty /\ endpoints = <<>>

-----------------------------------------------------------------------------
(* seed, its first loop. *)
PreSeed ==
  /\ phase = "preseed"
  /\ json' = Assign(json, newSID, Ptr(at, 0))
  /\ refs' = Assign(refs, at, newSID)
  /\ IF at = NumNames THEN phase' = "seed" /\ at' = 1
                      ELSE at' = at + 1 /\ UNCHANGED phase
  /\ UNCHANGED <<refd, stack, doc, sidOf, current, endpoints>>

Mapping == phase \in {"seed", "inputs", "outputs"} /\ Len(doc) < MaxNodes

(* The call returns sid for that node: its caller consumes the n last.     *)
Returns(node, n, sid) ==
  /\ doc' = Append(doc, node)
  /\ sidOf' = Append(sidOf, sid)
  /\ stack' = Append(SubSeq(stack, 1, Len(stack) - n), Len(doc) + 1)
  /\ UNCHANGED <<refs, refd, phase, at, current, endpoints>>

MapRef_Finds(name) ==
  /\ Mapping
  /\ \E sid \in DOMAIN json :
       /\ json[sid].ref = name
       /\ json' = [json EXCEPT ![refs[name]] = Ptr(name, refs[name])]
       /\ Returns(RefNode(name), 0, refs[name])

(* ensureMapped of a $ref: the pointer of that name is written again, with *)
(* the number the name has by now.                                         *)
MapRef(name) ==
  /\ Mapping
  /\ \E sid \in DOMAIN json :
       /\ json[sid].ref = name
       /\ json' = [json EXCEPT ![sid] = Ptr(name, refs[name])]
       /\ Returns(RefNode(name), 0, sid)

MapSchema_AnyShape(kw) ==
  LET n == Arity(kw)
      kids == SubSeq(stack, Len(stack) - n + 1, Len(stack))
      schema == Schema(FromGo(FromOA3(kw)), [i \in 1..n |-> sidOf[kids[i]]])
      same == {sid \in DOMAIN json : ~IsPtr(json[sid]) /\ json[sid].kw = schema.kw}
  IN
  /\ Mapping /\ n <= Len(stack)
  /\ \/ /\ same = {}
        /\ json' = Assign(json, newSID, schema)
        /\ Returns(SchemaNode(kw, kids), n, newSID)
     \/ \E sid \in same : json' = json /\ Returns(SchemaNode(kw, kids), n, sid)

(* ensureMapped of a schema whose nested schemas have been mapped. *)
MapSchema(kw) ==
  LET n == Arity(kw)
      kids == SubSeq(stack, Len(stack) - n + 1, Len(stack))
      schema == Schema(FromGo(FromOA3(kw)), [i \in 1..n |-> sidOf[kids[i]]])
      same == {sid \in DOMAIN json : json[sid] = schema}
  IN
  /\ Mapping /\ n <= Len(stack)
  /\ \/ /\ same = {}
        /\ json' = Assign(json, newSID, schema)
        /\ Returns(SchemaNode(kw, kids), n, newSID)
     \/ \E sid \in same : json' = json /\ Returns(SchemaNode(kw, kids), n, sid)

-----------------------------------------------------------------------------
(* gojsonschema takes the name's own schema, before it is mapped, or not.  *)
Refused ==
  /\ phase = "seed" /\ stack = <<>>
  /\ phase' = "refused"
  /\ UNCHANGED <<tableVars, at, current, endpoints>>

Seeded_KeepsPointer ==
  /\ phase = "seed" /\ Len(stack) = 1
  /\ doc[stack[1]].ref = NoName
  /\ refs' = [refs EXCEPT ![at] = sidOf[stack[1]]]
  /\ refd' = Assign(refd, at, stack[1])
  /\ stack' = <<>>
  /\ IF at = NumNames THEN phase' = "inputs" /\ UNCHANGED at
                      ELSE at' = at + 1 /\ UNCHANGED phase
  /\ UNCHANGED <<json, doc, sidOf, current, endpoints>>

(* seed, the rest of its second loop.  schemasFromOA3 looks through a $ref *)
(* at the top of a named schema, so there is none.                         *)
Seeded ==
  /\ phase = "seed" /\ Len(stack) = 1
  /\ doc[stack[1]].ref = NoName
  /\ json' = [json EXCEPT ![refs[at]] = Ptr(at, sidOf[stack[1]])]
  /\ refs' = [refs EXCEPT ![at] = sidOf[stack[1]]]
  /\ refd' = Assign(refd, at, stack[1])
  /\ stack' = <<>>
  /\ IF at = NumNames THEN phase' = "inputs" /\ UNCHANGED at
                      ELSE at' = at + 1 /\ UNCHANGED phase
  /\ UNCHANGED <<doc, sidOf, current, endpoints>>

-----------------------------------------------------------------------------
(* inputsFromOA3 and inputBodyFromOA3: a parameter, or the body. *)
Input ==
  /\ phase = "inputs" /\ Len(endpoints) < MaxEndpoints /\ Len(stack) = 1
  /\ current' = [current EXCEPT !.inputs = Append(@, stack[1])]
  /\ stack' = <<>>
  /\ UNCHANGED <<json, refs, refd, doc, sidOf, phase, at, endpoints>>

(* A parameter whose schema is in its content, or a JSON body without one: *)
(* schemaOrRefFromOA3 is given nil and looks into it.                      *)
InputWithoutSchema ==
  /\ phase = "inputs" /\ Len(endpoints) < MaxEndpoints /\ stack = <<>>
  /\ phase' = "panicked"
  /\ UNCHANGED <<tableVars, at, current, endpoints>>

(* outputsFromOA3: of a response's contents only JSON counts, with its     *)
(* schema if it has one.                                                   *)
Output ==
  /\ phase \in {"inputs", "outputs"} /\ Len(endpoints) < MaxEndpoints
  /\ Len(stack) <= 1
  /\ \E code \in Codes \ DOMAIN current.outputs :
       current' = [current EXCEPT !.outputs =
                     Assign(@, code, IF stack = <<>> THEN 0 ELSE stack[1])]
  /\ phase' = "outputs" /\ stack' = <<>>
  /\ UNCHANGED <<json, refs, refd, doc, sidOf, at, endpoints>>

(* endpointsFromOA3: the endpoint's number is its rank. *)
EndpointBuilt ==
  /\ phase \in {"inputs", "outputs"} /\ Len(endpoints) < MaxEndpoints /\ stack = <<>>
  /\ endpoints' = Append(endpoints, current)
  /\ current' = empty
  /\ phase' = IF Len(endpoints') = MaxEndpoints THEN "done" ELSE "inputs"
  /\ UNCHANGED <<tableVars, at>>

(* The document has no more endpoints. *)
Built ==
  /\ phase = "inputs" /\ current = empty /\ stack = <<>>
  /\ phase' = "done"
  /\ UNCHANGED <<tableVars, at, current, endpoints>>

Next ==
  \/ PreSeed \/ Refused \/ Seeded \/ Input \/ InputWithoutSchema \/ Output \/ EndpointBuilt \/ Built
  \/ \E name \in Names : MapRef(name)
  \/ \E kw \in Shapes : MapSchema(kw)

Spec == Init /\ [][Next]_vars

-----------------------------------------------------------------------------
Entries == [ref : Names \cup {NoName}, sid : Nat, kw : SUBSET (Keywords \cup {"items:0"}), kids : Seq(Nat)]
Endpoints == [inputs : Seq(Nat), outputs : UNION {[C -> 0..MaxNodes] : C \in SUBSET Codes}]

TypeOK ==
  /\ json \in Seq(Entries)
  /\ DOMAIN refs \subseteq Names /\ \A name \in DOMAIN refs : refs[name] \in DOMAIN json
  /\ DOMAIN refd \subseteq Names /\ \A name \in DOMAIN refd : refd[name] \in DOMAIN doc
  /\ stack \in Seq(DOMAIN doc)
  /\ phase \in {"preseed", "seed", "inputs", "outputs", "done", "refused", "panicked"}
  /\ at \in Nat \ {0}
  /\ current \in Endpoints /\ endpoints \in Seq(Endpoints)
  /\ DOMAIN doc = DOMAIN sidOf /\ sidOf \in Seq(DOMAIN json)

(* What the table must hold for the i-th schema of the document. *)
Represents(i) ==
  LET entry == json[sidOf[i]]  node == doc[i]  IN
  IF node.ref # NoName THEN entry.ref = node.ref
  ELSE entry = Schema(FromGo(FromOA3(node.kw)), [k \in DOMAIN node.kids |-> sidOf[node.kids[k]]])

(* The numbers handed out stay right: whatever is mapped after a schema or *)
(* a $ref, named schemas that are recursive, repeated or equal included,   *)
(* its number keeps leading to it and to what is nested in it, and no two  *)
(* numbers hold the same schema (ensureMapped, newSID).                    *)
TableDenotesDocument ==
  /\ \A i \in DOMAIN doc : sidOf[i] \in DOMAIN json /\ Represents(i)
  /\ \A s1, s2 \in DOMAIN json : json[s1] = json[s2] => s1 = s2

(* Once the named schemas are mapped, every pointer of the table leads in  *)
(* one step to the schema its name has in the document, so that Validate   *)
(* neither loops on a pointer nor dies on an unknown SID, even for schemas *)
(* that refer to themselves or to a name mapped after them.                *)
EveryRefLeadsToItsSchema ==
  phase \in {"inputs", "outputs", "done"} =>
    \A sid \in DOMAIN json : IsPtr(json[sid]) =>
      /\ json[sid].sid = sidOf[refd[json[sid].ref]]
      /\ json[sid].sid \in DOMAIN json /\ ~IsPtr(json[json[sid].sid])

(* The keywords gojsonschema knows, of those written for a schema. *)
Enforced(kw) == kw \ {"exclusiveMin", "exclusiveMax", "minProps"}
(* What holds a response to the i-th schema (Validate) and what holds to   *)
(* it the input of monkey schema --validate-against (ValidateAgainstSchema *)
(* compiles the schemas of refd, which went through neither fromGo nor     *)
(* toGo).                                                                  *)
ByValidate(i) == Enforced(ToGo(json[sidOf[i]].kw))
ByValidateAgainstSchema(i) == Enforced(FromOA3(doc[i].kw))

(* The two ways the program validates with a schema of the document differ *)
(* by six keywords, of those modelled here, that the way through the table *)
(* loses, and by no other (validator.go, lines 121-467 and 611-693).       *)
ValidatorsAgreeButForSix ==
  phase = "done" =>
    \A i \in DOMAIN doc : doc[i].ref = NoName =>
      ByValidate(i) = ByValidateAgainstSchema(i) \
        {"exclusiveMinimum", "exclusiveMaximum", "minProperties", "multipleOf:1",
         "format:time", "additionalProperties"}
===============================================================================
