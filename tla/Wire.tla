---------------------------------- MODULE Wire ----------------------------------
(***************************************************************************)
(* How the messages of the protocol become bytes and are read again: the   *)
(* code that fuzzymonkey.pb.go repeats for each message, around the        *)
(* numbers of module Messages.                                             *)
(*                                                                         *)
(* A message is a function from its fields that are not nil, empty or zero *)
(* to their values.  A string is the sequence of its bytes, a double is    *)
(* its eight bytes, and a field that holds one of several is the pair of a *)
(* case and a value.  Unmarshal gives the set of the message it has read,  *)
(* empty when it returns an error.                                         *)
(***************************************************************************)
EXTENDS WireTypes, Integers, FiniteSets, SequencesExt, Bitwise, TLC

CONSTANT Protocol  \* from each message's name to its row of numbers (Table of Messages)

Fields(type) == Protocol[type].fields

-----------------------------------------------------------------------------
RECURSIVE MarshalTo(_, _), Size(_, _)

(* What is written after a key. *)
Payload(kind, v) ==
  CASE kind[1] = "varint"  -> encodeVarint(v)
    [] kind[1] = "bool"    -> <<IF v THEN 1 ELSE 0>>
    [] kind[1] = "double"  -> v
    [] kind[1] = "string"  -> Delimited(v)
    [] kind[1] = "message" -> encodeVarint(Size(kind[2], v)) \o MarshalTo(kind[2], v)

(* What Size adds to its constant for a value. *)
ValueSize(kind, v) ==
  CASE kind[1] = "varint"  -> sov(v)
    [] kind[1] \in {"bool", "double"} -> 0
    [] kind[1] = "string"  -> Len(v) + sov(Len(v))
    [] kind[1] = "message" -> Size(kind[2], v) + sov(Size(kind[2], v))

EntrySize_WithoutKeys(kind, k, v) == ValueSize(<<kind[2]>>, k) + ValueSize(kind[3], v)

(* An entry of a map is written as a message of two fields. *)
EntrySize(kind, k, v) == 1 + ValueSize(<<kind[2]>>, k) + 1 + ValueSize(kind[3], v)
Entry(kind, k, v) ==
  encodeVarint(EntrySize(kind, k, v))
    \o <<IF kind[2] = "varint" THEN 8 ELSE 10>> \o Payload(<<kind[2]>>, k)
    \o <<IF kind[3] = <<"varint">> THEN 16 ELSE 18>> \o Payload(kind[3], v)

Varints(list) == FlattenSeq([i \in DOMAIN list |-> encodeVarint(list[i])])

(* One field of MarshalTo.  The entries of a map come in any order, here   *)
(* in one that is the same each time.                                      *)
MarshalField(field, key, m) ==
  LET kind == field[2]  v == m[field[1]]  Keyed(bytes) == encodeVarint(key) \o bytes IN
  IF field[1] \notin DOMAIN m THEN <<>>
  ELSE CASE kind[1] = "oneof"  -> IF v[1] = kind[2] THEN Keyed(Payload(kind[3], v[2])) ELSE <<>>
         [] kind[1] = "list"   -> FlattenSeq([i \in DOMAIN v |-> Keyed(Payload(Tail(kind), v[i]))])
         [] kind[1] = "packed" -> Keyed(Delimited(Varints(v)))
         [] kind[1] = "map"    -> LET ks == SetToSeq(DOMAIN v) IN
                                  FlattenSeq([i \in DOMAIN ks |-> Keyed(Entry(kind, ks[i], v[ks[i]]))])
         [] OTHER              -> Keyed(Payload(kind, v))

Unrecognized(m) == IF "XXX_unrecognized" \in DOMAIN m THEN m["XXX_unrecognized"] ELSE <<>>

MarshalTo(type, m) ==
  FlattenSeq([i \in DOMAIN Fields(type) |-> MarshalField(Fields(type)[i], Protocol[type].keys[i], m)])
    \o Unrecognized(m)

(* One field of Size. *)
FieldSize(field, constant, m) ==
  LET kind == field[2]  v == m[field[1]] IN
  IF field[1] \notin DOMAIN m THEN 0
  ELSE CASE kind[1] = "oneof"  -> IF v[1] = kind[2] THEN constant + ValueSize(kind[3], v[2]) ELSE 0
         [] kind[1] = "list"   -> SumFunction([i \in DOMAIN v |-> constant + ValueSize(Tail(kind), v[i])])
         [] kind[1] = "packed" -> LET l == SumFunction([i \in DOMAIN v |-> sov(v[i])]) IN constant + sov(l) + l
         [] kind[1] = "map"    -> SumFunction([k \in DOMAIN v |->
                                   LET size == EntrySize(kind, k, v[k])
                                   IN size + constant + sov(size)])
         [] OTHER              -> constant + ValueSize(kind, v)

Size(type, m) ==
  SumFunction([i \in DOMAIN Fields(type) |-> FieldSize(Fields(type)[i], Protocol[type].sizes[i], m)])
    + Len(Unrecognized(m))

-----------------------------------------------------------------------------
RECURSIVE skip(_), SkipGroup(_)
(* skipFuzzymonkey: what follows the field at the beginning of b. *)
skip(b) ==
  UNION {LET wireType == k[1] % 8 IN
         IF wireType = 3 THEN SkipGroup(k[2])
         ELSE IF wireType = 4 THEN {k[2]}
         ELSE {taken[2] : taken \in Take(wireType, k[2])}
         : k \in TakeVarint(b)}
SkipGroup(b) ==
  UNION {IF k[1] % 8 = 4 THEN {k[2]} ELSE UNION {SkipGroup(rest) : rest \in skip(b)}
         : k \in TakeVarint(b)}

Put(m, name, v) == [x \in DOMAIN m \cup {name} |-> IF x = name THEN v ELSE m[x]]
Without(m, name) == [x \in DOMAIN m \ {name} |-> m[x]]
Old(m, name) == IF name \in DOMAIN m THEN m[name] ELSE <<>>

RECURSIVE Unmarshal(_, _, _)
Read(kind, raw) ==
  CASE kind[1] = "bool"    -> {raw # 0}
    [] kind[1] = "message" -> Unmarshal(kind[2], <<>>, raw)
    [] OTHER               -> {raw}

IsZero(kind, v) ==
  CASE kind[1] = "varint" -> v = 0
    [] kind[1] = "bool"   -> ~v
    [] kind[1] = "double" -> ToSet(v) = {0}
    [] kind[1] = "string" -> v = <<>>

(* The loops below end at postIndex, left bytes from here, but the values  *)
(* in them may go on to the end of the whole message, b.                   *)
Past(b, rest, left) == left - (Len(b) - Len(rest))

RECURSIVE ReadVarints(_, _, _), ReadEntry(_, _, _, _, _)
(* The list, and where its last number ends. *)
ReadVarints(list, b, left) ==
  IF left <= 0 THEN {<<list, b>>}
  ELSE UNION {ReadVarints(Append(list, n[1]), n[2], Past(b, n[2], left)) : n \in TakeVarint(b)}

(* The wire types in an entry are not looked at.  An entry without its     *)
(* message, a nil in the code, is the empty message here.  A number that   *)
(* is given twice as a key is or-ed with itself.                           *)
WireTypeOf(kind) == IF kind[1] = "varint" THEN 0 ELSE 2
Default(kind) == IF kind[1] = "varint" THEN 0 ELSE <<>>
ReadEntry(kind, k, v, b, left) ==
  IF left <= 0 THEN {<<k, v>>}
  ELSE UNION {
    CASE key[1] \div 8 = 1 ->
           UNION {ReadEntry(kind, IF kind[2] = "varint" THEN k | t[1] ELSE t[1], v,
                            t[2], Past(b, t[2], left))
                  : t \in Take(WireTypeOf(<<kind[2]>>), key[2])}
      [] key[1] \div 8 = 2 ->
           UNION {UNION {ReadEntry(kind, k, read, t[2], Past(b, t[2], left))
                         : read \in Read(kind[3], t[1])}
                  : t \in Take(WireTypeOf(kind[3]), key[2])}
      [] OTHER -> UNION {ReadEntry(kind, k, v, rest, Past(b, rest, left))
                         : rest \in {r \in skip(b) : Past(b, r, left) >= 0}}
    : key \in TakeVarint(b)}

(* One case of Unmarshal: the message with the field, and what is still to *)
(* be read.  A message that was there is read over, but in a field that    *)
(* holds one of several, where it is replaced.                             *)
UnmarshalField(field, wireType, raw, rest, m) ==
  LET name == field[1]  kind == field[2]
      IsNow(values) == {<<Put(m, name, v), rest>> : v \in values}
  IN
  CASE kind[1] = "oneof"   -> IsNow({<<kind[2], v>> : v \in Read(kind[3], raw)})
    [] kind[1] = "message" -> IsNow(Unmarshal(kind[2], Old(m, name), raw))
    [] kind[1] = "list"    -> IsNow({Append(Old(m, name), v) : v \in Read(Tail(kind), raw)})
    [] kind[1] = "packed"  -> IF wireType = 0 THEN IsNow({Append(Old(m, name), raw)})
                              ELSE {<<IF l[1] = <<>> THEN m ELSE Put(m, name, l[1]), l[2]>> :
                                      l \in ReadVarints(Old(m, name), raw \o rest, Len(raw))}
    [] kind[1] = "map"     -> IsNow({(e[1] :> e[2]) @@ Old(m, name) :
                                       e \in ReadEntry(kind, Default(<<kind[2]>>), Default(kind[3]),
                                                       raw \o rest, Len(raw))})
    [] OTHER               -> {<<IF IsZero(kind, v) THEN Without(m, name) ELSE Put(m, name, v), rest>> :
                                 v \in Read(kind, raw)}

(* Unmarshal of b into m.  What no case is for is kept. *)
Unmarshal(type, m, b) ==
  IF b = <<>> THEN {m}
  ELSE UNION {
    LET fieldNum == key[1] \div 8
        wireType == key[1] % 8
        at == SelectInSeq(Protocol[type].cases, LAMBDA c : c[1] = fieldNum)
    IN
    IF wireType = 4 \/ fieldNum = 0 THEN {}
    ELSE IF at = 0
    THEN UNION {Unmarshal(type,
                  Put(m, "XXX_unrecognized", Unrecognized(m) \o SubSeq(b, 1, Len(b) - Len(rest))), rest)
                : rest \in skip(b)}
    ELSE IF /\ wireType # Protocol[type].cases[at][2]
            /\ ~(wireType = 0 /\ Fields(type)[at][2] = <<"packed">>)
    THEN {}
    ELSE UNION {UNION {Unmarshal(type, read[1], read[2])
                       : read \in UnmarshalField(Fields(type)[at], wireType, taken[1], taken[2], m)}
                : taken \in Take(wireType, key[2])}
    : key \in TakeVarint(b)}

-----------------------------------------------------------------------------
(* Messages to try: values of each kind, the first one with all it can     *)
(* have in it, then messages of one field and of two.                      *)
RECURSIVE Full(_)
Samples(kind) ==
  CASE kind[1] = "varint"  -> <<1, 300>>
    [] kind[1] = "bool"    -> <<TRUE>>
    [] kind[1] = "double"  -> <<<<0, 0, 0, 0, 0, 0, 240, 63>>>>
    [] kind[1] = "string"  -> <<<<97>>, [i \in 1..128 |-> 98]>>
    [] kind[1] = "message" -> <<Full(kind[2]), <<>>>>
Zero(kind) == CASE kind[1] = "varint" -> 0
                [] kind[1] = "bool"   -> FALSE
                [] OTHER              -> <<>>
FieldSamples(kind) ==
  CASE kind[1] = "oneof"  -> <<<<kind[2], Samples(kind[3])[1]>>, <<kind[2], Zero(kind[3])>>>>
    [] kind[1] = "list"   -> LET s == Samples(Tail(kind)) IN <<<<s[1]>>, <<Last(s), s[1], s[1]>>>>
    [] kind[1] = "packed" -> <<<<1>>, <<0, 300>>>>
    [] kind[1] = "map"    -> LET k == Samples(<<kind[2]>>) v == Samples(kind[3]) IN
                             <<k[1] :> v[1], (k[1] :> Last(v)) @@ (Zero(<<kind[2]>>) :> Zero(kind[3]))>>
    [] OTHER              -> Samples(kind)

Full(type) ==
  LET names == {field[1] : field \in ToSet(Fields(type))}
      First(name) == SelectInSeq(Fields(type), LAMBDA field : field[1] = name)
  IN [name \in names |-> FieldSamples(Fields(type)[First(name)][2])[1]]

OneField(type) ==
  FlattenSeq([i \in DOMAIN Fields(type) |->
    LET name == Fields(type)[i][1]  samples == FieldSamples(Fields(type)[i][2])
    IN [j \in DOMAIN samples |-> name :> samples[j]]])

(* Fields that only the other side's version knows: a number, a string and *)
(* a group, with a number no message has.                                  *)
UnknownFields == {<<192, 62, 5>>, <<194, 62, 2, 7, 8>>, <<195, 62, 8, 9, 196, 62>>}

(* A message is written, and read with what it has of unknown fields at    *)
(* its beginning or at its end.                                            *)
Survives(type, known, unknown, first) ==
  LET m == IF unknown = <<>> THEN known ELSE Put(known, "XXX_unrecognized", unknown)
      b == MarshalTo(type, m)
      read == IF first THEN unknown \o SubSeq(b, 1, Len(b) - Len(unknown)) ELSE b
  IN Len(b) = Size(type, m) /\ Unmarshal(type, <<>>, read) = {m}

(* Messages of one type with nothing in them, everything, and what two     *)
(* samples say; unknown fields are added to all but the last of these.     *)
AllSurvive(type) ==
  LET ms == <<<<>>, Full(type)>> \o OneField(type) IN
  \A i \in DOMAIN ms : \A j \in i..Len(ms) :
    \A unknown \in {<<>>} \cup (IF i = j THEN UnknownFields ELSE {}) :
      \A first \in {FALSE, unknown # <<>>} :
        Survives(type, ms[i] @@ ms[j], unknown, first)
================================================================================
