-------------------------------- MODULE Messages -------------------------------
(***************************************************************************)
(* The messages of the protocol, as the generated code has them            *)
(* (pkg/internal/fm/fuzzymonkey.pb.go).  For each message:                 *)
(*   _Fields     what its struct holds, in the order MarshalTo visits it;  *)
(*   _MarshalTo  the key written before each field, its two bytes if it is *)
(*               above 127 being those of a varint;                        *)
(*   _Size       what each field adds beside its value and length;         *)
(*   _Unmarshal  the number of the case that sets each field and the wire  *)
(*               type this case accepts (a packed field's: 2, and 0 too).  *)
(* Module Wire says what the code around these numbers does.               *)
(***************************************************************************)

(* The kinds of fields.  Text stands for strings and bytes, Num for every  *)
(* integer and enumeration.                                                *)
Num(f) == <<f, <<"varint">>>>
Flag(f) == <<f, <<"bool">>>>
Real(f) == <<f, <<"double">>>>
Text(f) == <<f, <<"string">>>>
Packed(f) == <<f, <<"packed">>>>
Sub(f, type) == <<f, <<"message", type>>>>
Texts(f) == <<f, <<"list", "string">>>>
Subs(f, type) == <<f, <<"list", "message", type>>>>
Map(f, key, value) == <<f, <<"map", key, value>>>>
(* One case of a field that holds one of several. *)
One(f, case, value) == <<f, <<"oneof", case, value>>>>

(* types.Value of gogo/protobuf, with the string as its only case. *)
Value_Fields == <<One("Kind", "StringValue", <<"string">>)>>
Value_MarshalTo == <<26>>
Value_Size == <<1>>
Value_Unmarshal == <<<<3, 2>>>>

Clt_Fields == <<One("Msg", "Fuzz", <<"message", "Clt_Fuzz">>),
  One("Msg", "ResetProgress", <<"message", "Clt_ResetProgress">>),
  One("Msg", "CallRequestRaw", <<"message", "Clt_CallRequestRaw">>),
  One("Msg", "CallResponseRaw", <<"message", "Clt_CallResponseRaw">>),
  One("Msg", "CallVerifProgress", <<"message", "Clt_CallVerifProgress">>)>>
Clt_MarshalTo == <<10, 18, 26, 34, 42>>
Clt_Size == <<1, 1, 1, 1, 1>>
Clt_Unmarshal == <<<<1, 2>>, <<2, 2>>, <<3, 2>>, <<4, 2>>, <<5, 2>>>>

Clt_Fuzz_Fields == <<Sub("Resetter", "Clt_Fuzz_Resetter"), Sub("Model", "Clt_Fuzz_Model"),
  Texts("Usage"), Text("Seed"), Num("Ntensity"), Packed("EIDs"),
  Map("Labels", "string", <<"string">>), Map("EnvRead", "string", <<"string">>), Texts("UUIDs"),
  Map("Files", "string", <<"string">>)>>
Clt_Fuzz_MarshalTo == <<10, 18, 26, 34, 40, 50, 58, 66, 74, 82>>
Clt_Fuzz_Size == <<1, 1, 1, 1, 1, 1, 1, 1, 1, 1>>
Clt_Fuzz_Unmarshal == <<<<1, 2>>, <<2, 2>>, <<3, 2>>, <<4, 2>>, <<5, 0>>, <<6, 2>>, <<7, 2>>,
  <<8, 2>>, <<9, 2>>, <<10, 2>>>>

Clt_Fuzz_Resetter_Fields == <<One("Resetter", "Shell", <<"message", "Clt_Fuzz_Resetter_Shell">>)>>
Clt_Fuzz_Resetter_MarshalTo == <<10>>
Clt_Fuzz_Resetter_Size == <<1>>
Clt_Fuzz_Resetter_Unmarshal == <<<<1, 2>>>>

Clt_Fuzz_Resetter_Shell_Fields == <<Text("Start"), Text("Rst"), Text("Stop")>>
Clt_Fuzz_Resetter_Shell_MarshalTo == <<10, 18, 26>>
Clt_Fuzz_Resetter_Shell_Size == <<1, 1, 1>>
Clt_Fuzz_Resetter_Shell_Unmarshal == <<<<1, 2>>, <<2, 2>>, <<3, 2>>>>

Clt_Fuzz_Model_Fields == <<One("Model", "Openapiv3", <<"message", "Clt_Fuzz_Model_OpenAPIv3">>)>>
Clt_Fuzz_Model_MarshalTo == <<10>>
Clt_Fuzz_Model_Size == <<1>>
Clt_Fuzz_Model_Unmarshal == <<<<1, 2>>>>

Clt_Fuzz_Model_OpenAPIv3_Fields == <<Text("File"), Text("Host"), Text("HeaderAuthorization"),
  Sub("Spec", "SpecIR")>>
Clt_Fuzz_Model_OpenAPIv3_MarshalTo == <<10, 18, 26, 34>>
Clt_Fuzz_Model_OpenAPIv3_Size == <<1, 1, 1, 1>>
Clt_Fuzz_Model_OpenAPIv3_Unmarshal == <<<<1, 2>>, <<2, 2>>, <<3, 2>>, <<4, 2>>>>

Clt_ResetProgress_Fields == <<Num("Status"), Num("ElapsedNs"), Texts("Reason")>>
Clt_ResetProgress_MarshalTo == <<8, 16, 26>>
Clt_ResetProgress_Size == <<1, 1, 1>>
Clt_ResetProgress_Unmarshal == <<<<1, 0>>, <<2, 0>>, <<3, 2>>>>

Clt_CallRequestRaw_Fields == <<Sub("Input", "Clt_CallRequestRaw_Input"), Texts("Reason")>>
Clt_CallRequestRaw_MarshalTo == <<10, 18>>
Clt_CallRequestRaw_Size == <<1, 1>>
Clt_CallRequestRaw_Unmarshal == <<<<1, 2>>, <<2, 2>>>>

Clt_CallRequestRaw_Input_Fields == <<
  One("Input", "HttpRequest", <<"message", "Clt_CallRequestRaw_Input_HttpRequest">>)>>
Clt_CallRequestRaw_Input_MarshalTo == <<10>>
Clt_CallRequestRaw_Input_Size == <<1>>
Clt_CallRequestRaw_Input_Unmarshal == <<<<1, 2>>>>

Clt_CallRequestRaw_Input_HttpRequest_Fields == <<Text("Method"), Text("Url"),
  Map("Headers", "string", <<"message", "Clt_CallRequestRaw_Input_HttpRequest_HeaderValues">>),
  Text("Body"), Sub("BodyDecoded", "Value")>>
Clt_CallRequestRaw_Input_HttpRequest_MarshalTo == <<10, 18, 26, 34, 42>>
Clt_CallRequestRaw_Input_HttpRequest_Size == <<1, 1, 1, 1, 1>>
Clt_CallRequestRaw_Input_HttpRequest_Unmarshal == <<<<1, 2>>, <<2, 2>>, <<3, 2>>, <<4, 2>>,
  <<5, 2>>>>

Clt_CallRequestRaw_Input_HttpRequest_HeaderValues_Fields == <<Texts("Values")>>
Clt_CallRequestRaw_Input_HttpRequest_HeaderValues_MarshalTo == <<10>>
Clt_CallRequestRaw_Input_HttpRequest_HeaderValues_Size == <<1>>
Clt_CallRequestRaw_Input_HttpRequest_HeaderValues_Unmarshal == <<<<1, 2>>>>

Clt_CallResponseRaw_Fields == <<Sub("Output", "Clt_CallResponseRaw_Output"), Num("OutputId")>>
Clt_CallResponseRaw_MarshalTo == <<10, 16>>
Clt_CallResponseRaw_Size == <<1, 1>>
Clt_CallResponseRaw_Unmarshal == <<<<1, 2>>, <<2, 0>>>>

Clt_CallResponseRaw_Output_Fields == <<
  One("Output", "HttpResponse", <<"message", "Clt_CallResponseRaw_Output_HttpResponse">>)>>
Clt_CallResponseRaw_Output_MarshalTo == <<10>>
Clt_CallResponseRaw_Output_Size == <<1>>
Clt_CallResponseRaw_Output_Unmarshal == <<<<1, 2>>>>

Clt_CallResponseRaw_Output_HttpResponse_Fields == <<Text("Error"), Num("StatusCode"),
  Text("Reason"),
  Map("Headers", "string", <<"message", "Clt_CallResponseRaw_Output_HttpResponse_HeaderValues">>),
  Text("Body"), Sub("BodyDecoded", "Value"), Num("ElapsedNs")>>
Clt_CallResponseRaw_Output_HttpResponse_MarshalTo == <<10, 16, 26, 34, 42, 50, 56>>
Clt_CallResponseRaw_Output_HttpResponse_Size == <<1, 1, 1, 1, 1, 1, 1>>
Clt_CallResponseRaw_Output_HttpResponse_Unmarshal == <<<<1, 2>>, <<2, 0>>, <<3, 2>>, <<4, 2>>,
  <<5, 2>>, <<6, 2>>, <<7, 0>>>>

Clt_CallResponseRaw_Output_HttpResponse_HeaderValues_Fields == <<Texts("Values")>>
Clt_CallResponseRaw_Output_HttpResponse_HeaderValues_MarshalTo == <<10>>
Clt_CallResponseRaw_Output_HttpResponse_HeaderValues_Size == <<1>>
Clt_CallResponseRaw_Output_HttpResponse_HeaderValues_Unmarshal == <<<<1, 2>>>>

Clt_CallVerifProgress_Fields == <<Text("Name"), Num("Status"), Num("Origin"), Texts("Reason"),
  Num("ElapsedNs"), Num("ExecutionSteps")>>
Clt_CallVerifProgress_MarshalTo == <<10, 16, 24, 34, 40, 48>>
Clt_CallVerifProgress_Size == <<1, 1, 1, 1, 1, 1>>
Clt_CallVerifProgress_Unmarshal == <<<<1, 2>>, <<2, 0>>, <<3, 0>>, <<4, 2>>, <<5, 0>>, <<6, 0>>>>

Srv_Fields == <<Sub("FuzzingProgress", "Srv_FuzzingProgress"),
  One("Msg", "FuzzRep", <<"message", "Srv_FuzzRep">>),
  One("Msg", "Call", <<"message", "Srv_Call">>), One("Msg", "Reset_", <<"message", "Srv_Reset">>),
  One("Msg", "FuzzingResult", <<"message", "Srv_FuzzingResult">>)>>
Srv_MarshalTo == <<10, 18, 26, 34, 42>>
Srv_Size == <<1, 1, 1, 1, 1>>
Srv_Unmarshal == <<<<1, 2>>, <<2, 2>>, <<3, 2>>, <<4, 2>>, <<5, 2>>>>

Srv_FuzzingProgress_Fields == <<Flag("Failure"), Flag("Success"), Flag("LastCallSuccess"),
  Flag("LastCheckFailure"), Flag("LastCheckSuccess"), Num("TotalTestsCount"),
  Num("TotalCallsCount"), Num("TotalChecksCount"), Num("TestCallsCount"), Num("CallChecksCount"),
  Num("CallChecksSkipped")>>
Srv_FuzzingProgress_MarshalTo == <<8, 16, 24, 32, 40, 48, 56, 64, 72, 80, 88>>
Srv_FuzzingProgress_Size == <<2, 2, 2, 2, 2, 1, 1, 1, 1, 1, 1>>
Srv_FuzzingProgress_Unmarshal == <<<<1, 0>>, <<2, 0>>, <<3, 0>>, <<4, 0>>, <<5, 0>>, <<6, 0>>,
  <<7, 0>>, <<8, 0>>, <<9, 0>>, <<10, 0>>, <<11, 0>>>>

Srv_FuzzRep_Fields == <<Num("MaxTestsCount"), Text("Seed"), Text("Token"),
  Num("MaxExecutionStepsPerCheck")>>
Srv_FuzzRep_MarshalTo == <<8, 18, 26, 32>>
Srv_FuzzRep_Size == <<1, 1, 1, 1>>
Srv_FuzzRep_Unmarshal == <<<<1, 0>>, <<2, 2>>, <<3, 2>>, <<4, 0>>>>

Srv_Call_Fields == <<Sub("Input", "Srv_Call_Input"), Num("EID")>>
Srv_Call_MarshalTo == <<10, 16>>
Srv_Call_Size == <<1, 1>>
Srv_Call_Unmarshal == <<<<1, 2>>, <<2, 0>>>>

Srv_Call_Input_Fields == <<
  One("Input", "HttpRequest", <<"message", "Srv_Call_Input_HttpRequest">>)>>
Srv_Call_Input_MarshalTo == <<10>>
Srv_Call_Input_Size == <<1>>
Srv_Call_Input_Unmarshal == <<<<1, 2>>>>

Srv_Call_Input_HttpRequest_Fields == <<Text("Method"), Text("Url"),
  Map("Headers", "string", <<"message", "Srv_Call_Input_HttpRequest_HeaderValues">>),
  Sub("Body", "Value")>>
Srv_Call_Input_HttpRequest_MarshalTo == <<10, 18, 26, 34>>
Srv_Call_Input_HttpRequest_Size == <<1, 1, 1, 1>>
Srv_Call_Input_HttpRequest_Unmarshal == <<<<1, 2>>, <<2, 2>>, <<3, 2>>, <<4, 2>>>>

Srv_Call_Input_HttpRequest_HeaderValues_Fields == <<Texts("Values")>>
Srv_Call_Input_HttpRequest_HeaderValues_MarshalTo == <<10>>
Srv_Call_Input_HttpRequest_HeaderValues_Size == <<1>>
Srv_Call_Input_HttpRequest_HeaderValues_Unmarshal == <<<<1, 2>>>>

Srv_Reset_Fields == <<>>
Srv_Reset_MarshalTo == <<>>
Srv_Reset_Size == <<>>
Srv_Reset_Unmarshal == <<>>

Srv_FuzzingResult_Fields == <<Text("SeedUsed"), Flag("WasShrinking"), Text("NextSeed"),
  Flag("WillNowShrink"), Text("SuggestedSeed"),
  Subs("Counterexample", "Srv_FuzzingResult_CounterexampleItem")>>
Srv_FuzzingResult_MarshalTo == <<10, 16, 26, 32, 42, 50>>
Srv_FuzzingResult_Size == <<1, 2, 1, 2, 1, 1>>
Srv_FuzzingResult_Unmarshal == <<<<1, 2>>, <<2, 0>>, <<3, 2>>, <<4, 0>>, <<5, 2>>, <<6, 2>>>>

Srv_FuzzingResult_CounterexampleItem_Fields == <<Sub("CallRequest", "Clt_CallRequestRaw_Input"),
  Sub("CallResponse", "Clt_CallResponseRaw_Output")>>
Srv_FuzzingResult_CounterexampleItem_MarshalTo == <<10, 18>>
Srv_FuzzingResult_CounterexampleItem_Size == <<1, 1>>
Srv_FuzzingResult_CounterexampleItem_Unmarshal == <<<<1, 2>>, <<2, 2>>>>

SpecIR_Fields == <<Sub("Schemas", "Schemas"),
  Map("Endpoints", "varint", <<"message", "Endpoint">>)>>
SpecIR_MarshalTo == <<10, 18>>
SpecIR_Size == <<1, 1>>
SpecIR_Unmarshal == <<<<1, 2>>, <<2, 2>>>>

Schemas_Fields == <<Map("Json", "varint", <<"message", "RefOrSchemaJSON">>)>>
Schemas_MarshalTo == <<10>>
Schemas_Size == <<1>>
Schemas_Unmarshal == <<<<1, 2>>>>

RefOrSchemaJSON_Fields == <<One("PtrOrSchema", "Ptr", <<"message", "SchemaPtr">>),
  One("PtrOrSchema", "Schema", <<"message", "Schema_JSON">>)>>
RefOrSchemaJSON_MarshalTo == <<10, 18>>
RefOrSchemaJSON_Size == <<1, 1>>
RefOrSchemaJSON_Unmarshal == <<<<1, 2>>, <<2, 2>>>>

SchemaPtr_Fields == <<Num("SID"), Text("Ref")>>
SchemaPtr_MarshalTo == <<8, 18>>
SchemaPtr_Size == <<1, 1>>
SchemaPtr_Unmarshal == <<<<1, 0>>, <<2, 2>>>>

Endpoint_Fields == <<One("Endpoint", "Json", <<"message", "EndpointJSON">>)>>
Endpoint_MarshalTo == <<10>>
Endpoint_Size == <<1>>
Endpoint_Unmarshal == <<<<1, 2>>>>

EndpointJSON_Fields == <<Num("Method"), Subs("PathPartials", "PathPartial"),
  Subs("Inputs", "ParamJSON"), Map("Outputs", "varint", <<"varint">>)>>
EndpointJSON_MarshalTo == <<8, 18, 26, 34>>
EndpointJSON_Size == <<1, 1, 1, 1>>
EndpointJSON_Unmarshal == <<<<1, 0>>, <<2, 2>>, <<3, 2>>, <<4, 2>>>>

ParamJSON_Fields == <<Flag("IsRequired"), Num("SID"), Text("Name"), Num("Kind")>>
ParamJSON_MarshalTo == <<8, 16, 26, 32>>
ParamJSON_Size == <<2, 1, 1, 1>>
ParamJSON_Unmarshal == <<<<1, 0>>, <<2, 0>>, <<3, 2>>, <<4, 0>>>>

PathPartial_Fields == <<One("Pp", "Part", <<"string">>), One("Pp", "Ptr", <<"string">>)>>
PathPartial_MarshalTo == <<10, 18>>
PathPartial_Size == <<1, 1>>
PathPartial_Unmarshal == <<<<1, 2>>, <<2, 2>>>>

Schema_Fields == <<>>
Schema_MarshalTo == <<>>
Schema_Size == <<>>
Schema_Unmarshal == <<>>

Schema_JSON_Fields == <<Packed("Types"), Subs("Enum", "Value"), Num("Format"), Num("MinLength"),
  Num("MaxLength"), Flag("HasMaxLength"), Text("Pattern"), Real("Minimum"), Real("Maximum"),
  Flag("HasMinimum"), Flag("HasMaximum"), Real("TranslatedMultipleOf"), Flag("ExclusiveMinimum"),
  Flag("ExclusiveMaximum"), Packed("Items"), Flag("UniqueItems"), Num("MinItems"),
  Num("MaxItems"), Flag("HasMaxItems"), Map("Properties", "string", <<"varint">>),
  Texts("Required"), Num("MinProperties"), Num("MaxProperties"), Flag("HasMaxProperties"),
  Sub("AdditionalProperties", "Schema_JSON_AdditionalProperties"),
  Flag("HasAdditionalProperties"), Packed("AllOf"), Packed("AnyOf"), Packed("OneOf"), Num("Not")>>
Schema_JSON_MarshalTo == <<10, 18, 24, 32, 40, 48, 58, 65, 73, 80, 88, 97, 104, 112, 122, 128,
  136, 144, 152, 162, 170, 176, 184, 192, 202, 208, 218, 226, 234, 240>>
Schema_JSON_Size == <<1, 1, 1, 1, 1, 2, 1, 9, 9, 2, 2, 9, 2, 2, 1, 3, 2, 2, 3, 2, 2, 2, 2, 3, 2,
  3, 2, 2, 2, 2>>
Schema_JSON_Unmarshal == <<<<1, 2>>, <<2, 2>>, <<3, 0>>, <<4, 0>>, <<5, 0>>, <<6, 0>>, <<7, 2>>,
  <<8, 1>>, <<9, 1>>, <<10, 0>>, <<11, 0>>, <<12, 1>>, <<13, 0>>, <<14, 0>>, <<15, 2>>, <<16, 0>>,
  <<17, 0>>, <<18, 0>>, <<19, 0>>, <<20, 2>>, <<21, 2>>, <<22, 0>>, <<23, 0>>, <<24, 0>>,
  <<25, 2>>, <<26, 0>>, <<27, 2>>, <<28, 2>>, <<29, 2>>, <<30, 0>>>>

Schema_JSON_AdditionalProperties_Fields == <<One("AddProps", "AlwaysSucceed", <<"bool">>),
  One("AddProps", "SID", <<"varint">>)>>
Schema_JSON_AdditionalProperties_MarshalTo == <<8, 16>>
Schema_JSON_AdditionalProperties_Size == <<2, 1>>
Schema_JSON_AdditionalProperties_Unmarshal == <<<<1, 0>>, <<2, 0>>>>

Row(fields, keys, sizes, cases) ==
  [fields |-> fields, keys |-> keys, sizes |-> sizes, cases |-> cases]
Table == [
  Value |-> Row(Value_Fields, Value_MarshalTo, Value_Size, Value_Unmarshal),
  Clt |-> Row(Clt_Fields, Clt_MarshalTo, Clt_Size, Clt_Unmarshal),
  Clt_Fuzz |-> Row(Clt_Fuzz_Fields, Clt_Fuzz_MarshalTo, Clt_Fuzz_Size, Clt_Fuzz_Unmarshal),
  Clt_Fuzz_Resetter |-> Row(Clt_Fuzz_Resetter_Fields, Clt_Fuzz_Resetter_MarshalTo,
    Clt_Fuzz_Resetter_Size, Clt_Fuzz_Resetter_Unmarshal),
  Clt_Fuzz_Resetter_Shell |-> Row(Clt_Fuzz_Resetter_Shell_Fields, Clt_Fuzz_Resetter_Shell_MarshalTo,
    Clt_Fuzz_Resetter_Shell_Size, Clt_Fuzz_Resetter_Shell_Unmarshal),
  Clt_Fuzz_Model |-> Row(Clt_Fuzz_Model_Fields, Clt_Fuzz_Model_MarshalTo,
    Clt_Fuzz_Model_Size, Clt_Fuzz_Model_Unmarshal),
  Clt_Fuzz_Model_OpenAPIv3 |-> Row(Clt_Fuzz_Model_OpenAPIv3_Fields, Clt_Fuzz_Model_OpenAPIv3_MarshalTo,
    Clt_Fuzz_Model_OpenAPIv3_Size, Clt_Fuzz_Model_OpenAPIv3_Unmarshal),
  Clt_ResetProgress |-> Row(Clt_ResetProgress_Fields, Clt_ResetProgress_MarshalTo,
    Clt_ResetProgress_Size, Clt_ResetProgress_Unmarshal),
  Clt_CallRequestRaw |-> Row(Clt_CallRequestRaw_Fields, Clt_CallRequestRaw_MarshalTo,
    Clt_CallRequestRaw_Size, Clt_CallRequestRaw_Unmarshal),
  Clt_CallRequestRaw_Input |-> Row(Clt_CallRequestRaw_Input_Fields, Clt_CallRequestRaw_Input_MarshalTo,
    Clt_CallRequestRaw_Input_Size, Clt_CallRequestRaw_Input_Unmarshal),
  Clt_CallRequestRaw_Input_HttpRequest |-> Row(Clt_CallRequestRaw_Input_HttpRequest_Fields, Clt_CallRequestRaw_Input_HttpRequest_MarshalTo,
    Clt_CallRequestRaw_Input_HttpRequest_Size, Clt_CallRequestRaw_Input_HttpRequest_Unmarshal),
  Clt_CallRequestRaw_Input_HttpRequest_HeaderValues |-> Row(Clt_CallRequestRaw_Input_HttpRequest_HeaderValues_Fields, Clt_CallRequestRaw_Input_HttpRequest_HeaderValues_MarshalTo,
    Clt_CallRequestRaw_Input_HttpRequest_HeaderValues_Size, Clt_CallRequestRaw_Input_HttpRequest_HeaderValues_Unmarshal),
  Clt_CallResponseRaw |-> Row(Clt_CallResponseRaw_Fields, Clt_CallResponseRaw_MarshalTo,
    Clt_CallResponseRaw_Size, Clt_CallResponseRaw_Unmarshal),
  Clt_CallResponseRaw_Output |-> Row(Clt_CallResponseRaw_Output_Fields, Clt_CallResponseRaw_Output_MarshalTo,
    Clt_CallResponseRaw_Output_Size, Clt_CallResponseRaw_Output_Unmarshal),
  Clt_CallResponseRaw_Output_HttpResponse |-> Row(Clt_CallResponseRaw_Output_HttpResponse_Fields, Clt_CallResponseRaw_Output_HttpResponse_MarshalTo,
    Clt_CallResponseRaw_Output_HttpResponse_Size, Clt_CallResponseRaw_Output_HttpResponse_Unmarshal),
  Clt_CallResponseRaw_Output_HttpResponse_HeaderValues |-> Row(Clt_CallResponseRaw_Output_HttpResponse_HeaderValues_Fields, Clt_CallResponseRaw_Output_HttpResponse_HeaderValues_MarshalTo,
    Clt_CallResponseRaw_Output_HttpResponse_HeaderValues_Size, Clt_CallResponseRaw_Output_HttpResponse_HeaderValues_Unmarshal),
  Clt_CallVerifProgress |-> Row(Clt_CallVerifProgress_Fields, Clt_CallVerifProgress_MarshalTo,
    Clt_CallVerifProgress_Size, Clt_CallVerifProgress_Unmarshal),
  Srv |-> Row(Srv_Fields, Srv_MarshalTo, Srv_Size, Srv_Unmarshal),
  Srv_FuzzingProgress |-> Row(Srv_FuzzingProgress_Fields, Srv_FuzzingProgress_MarshalTo,
    Srv_FuzzingProgress_Size, Srv_FuzzingProgress_Unmarshal),
  Srv_FuzzRep |-> Row(Srv_FuzzRep_Fields, Srv_FuzzRep_MarshalTo,
    Srv_FuzzRep_Size, Srv_FuzzRep_Unmarshal),
  Srv_Call |-> Row(Srv_Call_Fields, Srv_Call_MarshalTo, Srv_Call_Size, Srv_Call_Unmarshal),
  Srv_Call_Input |-> Row(Srv_Call_Input_Fields, Srv_Call_Input_MarshalTo,
    Srv_Call_Input_Size, Srv_Call_Input_Unmarshal),
  Srv_Call_Input_HttpRequest |-> Row(Srv_Call_Input_HttpRequest_Fields, Srv_Call_Input_HttpRequest_MarshalTo,
    Srv_Call_Input_HttpRequest_Size, Srv_Call_Input_HttpRequest_Unmarshal),
  Srv_Call_Input_HttpRequest_HeaderValues |-> Row(Srv_Call_Input_HttpRequest_HeaderValues_Fields, Srv_Call_Input_HttpRequest_HeaderValues_MarshalTo,
    Srv_Call_Input_HttpRequest_HeaderValues_Size, Srv_Call_Input_HttpRequest_HeaderValues_Unmarshal),
  Srv_Reset |-> Row(Srv_Reset_Fields, Srv_Reset_MarshalTo, Srv_Reset_Size, Srv_Reset_Unmarshal),
  Srv_FuzzingResult |-> Row(Srv_FuzzingResult_Fields, Srv_FuzzingResult_MarshalTo,
    Srv_FuzzingResult_Size, Srv_FuzzingResult_Unmarshal),
  Srv_FuzzingResult_CounterexampleItem |-> Row(Srv_FuzzingResult_CounterexampleItem_Fields, Srv_FuzzingResult_CounterexampleItem_MarshalTo,
    Srv_FuzzingResult_CounterexampleItem_Size, Srv_FuzzingResult_CounterexampleItem_Unmarshal),
  SpecIR |-> Row(SpecIR_Fields, SpecIR_MarshalTo, SpecIR_Size, SpecIR_Unmarshal),
  Schemas |-> Row(Schemas_Fields, Schemas_MarshalTo, Schemas_Size, Schemas_Unmarshal),
  RefOrSchemaJSON |-> Row(RefOrSchemaJSON_Fields, RefOrSchemaJSON_MarshalTo,
    RefOrSchemaJSON_Size, RefOrSchemaJSON_Unmarshal),
  SchemaPtr |-> Row(SchemaPtr_Fields, SchemaPtr_MarshalTo, SchemaPtr_Size, SchemaPtr_Unmarshal),
  Endpoint |-> Row(Endpoint_Fields, Endpoint_MarshalTo, Endpoint_Size, Endpoint_Unmarshal),
  EndpointJSON |-> Row(EndpointJSON_Fields, EndpointJSON_MarshalTo,
    EndpointJSON_Size, EndpointJSON_Unmarshal),
  ParamJSON |-> Row(ParamJSON_Fields, ParamJSON_MarshalTo, ParamJSON_Size, ParamJSON_Unmarshal),
  PathPartial |-> Row(PathPartial_Fields, PathPartial_MarshalTo,
    PathPartial_Size, PathPartial_Unmarshal),
  Schema |-> Row(Schema_Fields, Schema_MarshalTo, Schema_Size, Schema_Unmarshal),
  Schema_JSON |-> Row(Schema_JSON_Fields, Schema_JSON_MarshalTo,
    Schema_JSON_Size, Schema_JSON_Unmarshal),
  Schema_JSON_AdditionalProperties |-> Row(Schema_JSON_AdditionalProperties_Fields, Schema_JSON_AdditionalProperties_MarshalTo,
    Schema_JSON_AdditionalProperties_Size, Schema_JSON_AdditionalProperties_Unmarshal)]
================================================================================
