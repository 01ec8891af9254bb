---------------------------- MODULE SpecIR_proofs -----------------------------
(***************************************************************************)
(* Whatever the document, its named schemas and what they look like: the   *)
(* table of schemas denotes it, its pointers lead where they should, the   *)
(* two validators tell the same, but for six keywords, and the command     *)
(* line selects the endpoints whose document fits its filters.             *)
(*                                                                         *)
(* The argument: an entry of the table never changes, except a pointer,    *)
(* and a pointer keeps its name.  So the number a schema got keeps leading *)
(* to it, and to what is nested in it, which was numbered before it.  A    *)
(* name has one pointer from the beginning; until it is seeded the name's  *)
(* number is that of its pointer, afterwards that of its schema, and the   *)
(* pointer was rewritten when it changed.                                  *)
(*                                                                         *)
(* The table goes to the server as bytes: whatever a field of a message    *)
(* holds and whatever follows it, it is read as it was written.            *)
(***************************************************************************)
EXTENDS Selection, WireTypes, FiniteSetTheorems, SequenceTheorems, WellFoundedInduction, TLAPS

Nodes == [ref : Names \cup {NoName}, kw : SUBSET Keywords, kids : Seq(Nat)]

(* What is nested in a schema was mapped before it.                        *)
DocInv ==
  /\ doc \in Seq(Nodes) /\ Len(doc) = Len(sidOf) /\ Len(doc) <= MaxNodes
  /\ \A i \in DOMAIN doc :
       /\ doc[i].ref = NoName => doc[i].kw \in Shapes
       /\ \A k \in DOMAIN doc[i].kids : doc[i].kids[k] \in 1..(i - 1)

(* How far the names are.                                                  *)
PhaseInv ==
  /\ phase = "preseed" =>
       /\ at \in Names /\ DOMAIN refs = 1..(at - 1) /\ DOMAIN refd = {}
       /\ doc = <<>> /\ sidOf = <<>> /\ stack = <<>>
  /\ phase # "preseed" => DOMAIN refs = Names
  /\ phase = "seed" => at \in Names /\ DOMAIN refd = 1..(at - 1)
  /\ phase \in {"inputs", "outputs", "done"} => DOMAIN refd = Names

(* A name's number is its pointer's, then its schema's.                    *)
RefsInv == \A name \in DOMAIN refs :
  IF name \in DOMAIN refd
  THEN refs[name] = sidOf[refd[name]] /\ doc[refd[name]].ref = NoName
  ELSE json[refs[name]].ref = name

(* A name has one pointer, that leads to its number once it is seeded.     *)
PtrInv ==
  /\ \A sid \in DOMAIN json : IsPtr(json[sid]) =>
       /\ json[sid] = Ptr(json[sid].ref, json[sid].sid)
       /\ json[sid].ref \in DOMAIN refs
       /\ json[sid].ref \in DOMAIN refd => json[sid].sid = refs[json[sid].ref]
  /\ \A s1, s2 \in DOMAIN json : IsPtr(json[s1]) /\ json[s1].ref = json[s2].ref => s1 = s2

TableInv == TypeOK /\ DocInv /\ PhaseInv /\ RefsInv /\ PtrInv /\ TableDenotesDocument

-----------------------------------------------------------------------------
(* The numbers given out are 1, 2, 3...: the next one is free.             *)
LEMMA NewSID == ASSUME TypeOK PROVE Len(json) \in Nat /\ newSID = Len(json) + 1
<1>1. Len(json) \in Nat /\ DOMAIN json = 1..Len(json)
  BY DEF TypeOK
<1>2. Cardinality(1..Len(json)) = IF 1 > Len(json) THEN 0 ELSE Len(json) - 1 + 1
  <2>1. 1 \in Int /\ Len(json) \in Int
    BY <1>1
  <2> HIDE <1>1
  <2> QED BY ONLY <2>1, FS_Interval, Zenon
<1> QED BY <1>1, <1>2 DEF newSID

(* So an assignment at that number makes the table longer.                 *)
LEMMA AssignNext ==
  ASSUME TypeOK, NEW entry \in Entries, json' = Assign(json, newSID, entry)
  PROVE  /\ json' \in Seq(Entries) /\ DOMAIN json' = 1..(Len(json) + 1)
         /\ json'[Len(json) + 1] = entry
         /\ \A sid \in DOMAIN json : json'[sid] = json[sid]
<1>1. Len(json) \in Nat /\ DOMAIN json = 1..Len(json) /\ newSID = Len(json) + 1
      /\ \A sid \in DOMAIN json : json[sid] \in Entries
  BY NewSID DEF TypeOK
<1>2. DOMAIN json \cup {newSID} = 1..(Len(json) + 1)
  BY <1>1
<1>3. json' = [sid \in 1..(Len(json) + 1) |-> IF sid = Len(json) + 1 THEN entry ELSE json[sid]]
  BY <1>1, <1>2 DEF Assign
<1>4. \A sid \in 1..(Len(json) + 1) : sid # Len(json) + 1 => json[sid] \in Entries
  BY <1>1
<1>5. json' \in [1..(Len(json) + 1) -> Entries]
  BY <1>3, <1>4
<1> QED BY <1>1, <1>3, <1>5

(* A schema has as many schemas in it as it has keywords that hold one.    *)
LEMMA ArityType == ASSUME NEW kw PROVE Arity(kw) \in Nat
<1>1. IsFiniteSet({}) /\ IsFiniteSet({"items"})
  BY FS_EmptySet, FS_Singleton
<1>2. IsFiniteSet({"items"} \cup {"properties:a"})
  BY <1>1, FS_AddElement
<1>3. IsFiniteSet({"items"} \cup {"properties:a"} \cup {"properties:b"})
  BY <1>2, FS_AddElement
<1>4. IsFiniteSet({"items"} \cup {"properties:a"} \cup {"properties:b"} \cup {"allOf:0"})
  BY <1>3, FS_AddElement
<1>5. IsFiniteSet({"items"} \cup {"properties:a"} \cup {"properties:b"} \cup {"allOf:0"}
                  \cup {"allOf:1"})
  BY <1>4, FS_AddElement
<1>6. IsFiniteSet({"items"} \cup {"properties:a"} \cup {"properties:b"} \cup {"allOf:0"}
                  \cup {"allOf:1"} \cup {"not"})
  BY <1>5, FS_AddElement
<1>7. Holders = {"items"} \cup {"properties:a"} \cup {"properties:b"} \cup {"allOf:0"}
                  \cup {"allOf:1"} \cup {"not"}
  BY DEF Holders
<1>8. IsFiniteSet(kw \cap Holders)
  BY <1>6, <1>7, FS_Subset
<1> QED BY <1>8, FS_CardinalityType DEF Arity

(* What no step does: take an entry away, rename a pointer, change a       *)
(* schema.                                                                 *)
EntriesKept == \A sid \in DOMAIN json :
  /\ sid \in DOMAIN json' /\ json'[sid].ref = json[sid].ref
  /\ ~IsPtr(json[sid]) => json'[sid] = json[sid]

(* A schema that was mapped, and what is nested in it, stays what it is    *)
(* when pointers change but keep their name, and more is mapped.           *)
LEMMA Stable ==
  ASSUME DocInv, sidOf \in Seq(DOMAIN json), NEW i \in DOMAIN doc, Represents(i),
         EntriesKept,
         \A k \in DOMAIN doc : doc'[k] = doc[k] /\ sidOf'[k] = sidOf[k]
  PROVE  Represents(i)'
<1>1. DOMAIN doc = 1..Len(doc) /\ Len(doc) \in Nat /\ Len(sidOf) = Len(doc)
  BY DEF DocInv
<1>2. sidOf[i] \in DOMAIN json /\ sidOf'[i] = sidOf[i] /\ doc'[i] = doc[i]
  BY <1>1
<1>3. CASE doc[i].ref # NoName
  BY <1>2, <1>3 DEF Represents, EntriesKept
<1>4. CASE doc[i].ref = NoName
  <2>1. json[sidOf[i]].ref = NoName
    BY <1>4 DEF Represents, Schema
  <2>2. json'[sidOf'[i]] = json[sidOf[i]]
    BY <1>2, <2>1 DEF IsPtr, EntriesKept
  <2>3. \A k \in DOMAIN doc[i].kids : doc[i].kids[k] \in DOMAIN doc
    BY <1>1 DEF DocInv
  <2>4. [k \in DOMAIN doc[i].kids |-> sidOf[doc[i].kids[k]]]
        = [k \in DOMAIN doc'[i].kids |-> sidOf'[doc'[i].kids[k]]]
    BY <1>2, <2>3
  <2> QED BY <1>2, <1>4, <2>2, <2>4 DEF Represents
<1> QED BY <1>3, <1>4
(* The facts about a state that satisfies the invariant which the steps    *)
(* below need again and again.                                             *)
LEMMA Facts ==
  ASSUME TableInv
  PROVE  /\ DOMAIN doc = 1..Len(doc) /\ Len(doc) \in Nat /\ Len(sidOf) = Len(doc)
         /\ DOMAIN sidOf = DOMAIN doc
         /\ DOMAIN json = 1..Len(json) /\ Len(json) \in Nat
         /\ sidOf \in Seq(DOMAIN json) /\ \A i \in DOMAIN doc : sidOf[i] \in DOMAIN json
         /\ DOMAIN stack = 1..Len(stack) /\ Len(stack) \in Nat
         /\ \A i \in DOMAIN stack : stack[i] \in DOMAIN doc
         /\ NumNames \in Nat /\ MaxNodes \in Nat
         /\ \A sid \in DOMAIN json : json[sid] \in Entries
<1>1. doc \in Seq(Nodes) /\ Len(doc) = Len(sidOf) /\ sidOf \in Seq(DOMAIN json)
      /\ stack \in Seq(DOMAIN doc) /\ json \in Seq(Entries)
  BY DEF TableInv, TypeOK, DocInv
<1>2. NumNames \in Nat /\ MaxNodes \in Nat
  BY BoundsAssumption
<1> QED BY <1>1, <1>2

LEMMA TableInit == Init => TableInv
<1> SUFFICES ASSUME Init PROVE TableInv
  OBVIOUS
<1>1. NumNames \in Nat
  BY BoundsAssumption
<1>2. json = <<>> /\ refs = <<>> /\ refd = <<>> /\ stack = <<>> /\ doc = <<>> /\ sidOf = <<>>
      /\ at = 1 /\ current = empty /\ endpoints = <<>>
      /\ phase = IF NumNames = 0 THEN "inputs" ELSE "preseed"
  BY DEF Init
<1>3. empty \in Endpoints
  <2>1. empty.outputs \in [{} -> 0..MaxNodes]
    BY DEF empty
  <2>2. empty.inputs \in Seq(Nat)
    BY DEF empty
  <2> QED BY <2>1, <2>2 DEF Endpoints, empty
<1>4. TypeOK
  BY <1>1, <1>2, <1>3 DEF TypeOK
<1>5. DocInv
  BY <1>1, <1>2, BoundsAssumption DEF DocInv
<1>6. PhaseInv
  BY <1>1, <1>2 DEF PhaseInv, Names
<1>7. RefsInv /\ PtrInv /\ TableDenotesDocument
  BY <1>2 DEF RefsInv, PtrInv, TableDenotesDocument
<1> QED BY <1>4, <1>5, <1>6, <1>7 DEF TableInv

(* The steps that leave the table and the document alone.                  *)
LEMMA Untouched ==
  ASSUME TableInv, UNCHANGED <<json, refs, refd, doc, sidOf>>, TypeOK', PhaseInv'
  PROVE  TableInv'
<1>1. DocInv'
  BY DEF DocInv, TableInv
<1>2. RefsInv'
  BY DEF RefsInv, TableInv
<1>3. PtrInv'
  BY DEF PtrInv, TableInv
<1>4. TableDenotesDocument'
  BY DEF TableDenotesDocument, Represents, TableInv
<1> QED BY <1>1, <1>2, <1>3, <1>4 DEF TableInv

LEMMA PreSeedSafe == ASSUME TableInv, PreSeed PROVE TableInv'
<1> USE Facts
<1>1. phase = "preseed" /\ at \in Names /\ DOMAIN refs = 1..(at - 1) /\ DOMAIN refd = {}
      /\ doc = <<>> /\ sidOf = <<>> /\ stack = <<>>
  BY DEF PreSeed, TableInv, PhaseInv
<1>2. json \in Seq(Entries) /\ newSID = Len(json) + 1
  BY NewSID DEF TableInv, TypeOK
<1>3. Ptr(at, 0) \in Entries
  BY <1>1 DEF Ptr, Entries
<1>4. json' \in Seq(Entries) /\ DOMAIN json' = 1..(Len(json) + 1)
      /\ json'[Len(json) + 1] = Ptr(at, 0) /\ \A sid \in DOMAIN json : json'[sid] = json[sid]
  <2>1. TypeOK /\ json' = Assign(json, newSID, Ptr(at, 0))
    BY DEF PreSeed, TableInv
  <2> QED BY ONLY <1>3, <2>1, AssignNext
<1>5. DOMAIN refs' = 1..at /\ refs'[at] = Len(json) + 1
      /\ \A name \in DOMAIN refs : refs'[name] = refs[name]
  BY <1>1, <1>2 DEF PreSeed, Assign, Names
<1>6. UNCHANGED <<refd, stack, doc, sidOf, current, endpoints>>
  BY DEF PreSeed
<1>7. \/ at = NumNames /\ phase' = "seed" /\ at' = 1
      \/ at # NumNames /\ phase' = "preseed" /\ at' = at + 1
  BY <1>1 DEF PreSeed
<1>8. TypeOK'
  <2>1. \A name \in DOMAIN refs : refs[name] \in DOMAIN json
    BY DEF TableInv, TypeOK
  <2>2. \A name \in DOMAIN refs' : refs'[name] \in DOMAIN json'
    BY <1>1, <1>4, <1>5, <2>1 DEF Names
  <2>3. DOMAIN refs' \subseteq Names
    BY <1>1, <1>5 DEF Names
  <2>4. sidOf' \in Seq(DOMAIN json') /\ stack' \in Seq(DOMAIN doc') /\ DOMAIN doc' = DOMAIN sidOf'
    BY <1>1, <1>6
  <2>5. DOMAIN refd' = {} /\ current' \in Endpoints /\ endpoints' \in Seq(Endpoints)
    BY <1>1, <1>6 DEF TableInv, TypeOK
  <2>6. at' \in Nat \ {0} /\ phase' \in {"seed", "preseed"}
    BY <1>1, <1>7 DEF Names
  <2> QED BY <1>4, <2>2, <2>3, <2>4, <2>5, <2>6 DEF TypeOK
<1>9. DocInv'
  BY <1>1, <1>6 DEF TableInv, DocInv
<1>10. PhaseInv'
  <2>1. CASE at = NumNames
    BY <1>1, <1>5, <1>6, <1>7, <2>1 DEF PhaseInv, Names
  <2>2. CASE at # NumNames
    BY <1>1, <1>5, <1>6, <1>7, <2>2 DEF PhaseInv, Names
  <2> QED BY <2>1, <2>2
<1>11. RefsInv'
  <2>1. \A name \in DOMAIN refs : refs[name] \in DOMAIN json /\ json[refs[name]].ref = name
    BY <1>1 DEF TableInv, TypeOK, RefsInv
  <2>2. json'[Len(json) + 1].ref = at
    BY <1>4 DEF Ptr
  <2>3. \A name \in DOMAIN refs' : json'[refs'[name]].ref = name
    BY <1>1, <1>4, <1>5, <2>1, <2>2 DEF Names
  <2> QED BY <1>1, <1>6, <2>3 DEF RefsInv
<1>12. \A sid \in DOMAIN json : IsPtr(json[sid]) => json[sid].ref \in 1..(at - 1)
  BY <1>1 DEF TableInv, PtrInv
<1>13. \A sid \in DOMAIN json' : sid # Len(json) + 1 => sid \in DOMAIN json /\ json'[sid] = json[sid]
  BY <1>4
<1>14. \A sid \in DOMAIN json : json[sid].ref # at
  BY <1>1, <1>12 DEF IsPtr, Names, NoName
<1>15. PtrInv'
  <2>1. \A sid \in DOMAIN json' : IsPtr(json'[sid]) =>
          /\ json'[sid] = Ptr(json'[sid].ref, json'[sid].sid) /\ json'[sid].ref \in DOMAIN refs'
    <3>1. \A sid \in DOMAIN json : IsPtr(json[sid]) => json[sid] = Ptr(json[sid].ref, json[sid].sid)
      BY DEF TableInv, PtrInv
    <3>2. Ptr(at, 0) = Ptr(Ptr(at, 0).ref, Ptr(at, 0).sid) /\ Ptr(at, 0).ref = at
      BY DEF Ptr
    <3> QED BY <1>1, <1>4, <1>5, <1>12, <1>13, <3>1, <3>2 DEF Names
  <2>2. \A s1, s2 \in DOMAIN json' : IsPtr(json'[s1]) /\ json'[s1].ref = json'[s2].ref => s1 = s2
    BY <1>4, <1>13, <1>14 DEF TableInv, PtrInv, Ptr
  <2> QED BY <1>1, <1>6, <2>1, <2>2 DEF PtrInv
<1>16. TableDenotesDocument'
  <2>1. \A s1, s2 \in DOMAIN json : json[s1] = json[s2] => s1 = s2
    BY DEF TableInv, TableDenotesDocument
  <2>2. json'[Len(json) + 1].ref = at
    BY <1>4 DEF Ptr
  <2>3. \A s1, s2 \in DOMAIN json' : json'[s1] = json'[s2] => s1 = s2
    BY <1>13, <1>14, <2>1, <2>2
  <2> QED BY <1>1, <1>6, <2>3 DEF TableDenotesDocument
<1> QED BY <1>8, <1>9, <1>10, <1>11, <1>15, <1>16 DEF TableInv
(* A call of ensureMapped returns: the document is one schema longer, and  *)
(* the table still denotes it if it denotes that schema.                   *)
LEMMA Returned ==
  ASSUME TableInv, Mapping, EntriesKept,
         NEW node \in Nodes, NEW n \in 0..Len(stack), NEW sid \in DOMAIN json',
         Returns(node, n, sid),
         node.ref = NoName => node.kw \in Shapes,
         \A k \in DOMAIN node.kids : node.kids[k] \in DOMAIN doc,
         NEW last \in Nat, last = Len(doc) + 1, Represents(last)'
  PROVE  /\ DocInv' /\ PhaseInv' /\ RefsInv'
         /\ stack' \in Seq(DOMAIN doc') /\ sidOf' \in Seq(DOMAIN json')
         /\ DOMAIN doc' = DOMAIN sidOf' /\ \A name \in DOMAIN refd' : refd'[name] \in DOMAIN doc'
         /\ \A i \in DOMAIN doc' : sidOf'[i] \in DOMAIN json' /\ Represents(i)'
<1> USE Facts
<1>1. doc \in Seq(Nodes) /\ sidOf \in Seq(DOMAIN json) /\ stack \in Seq(DOMAIN doc)
  BY DEF TableInv, TypeOK, DocInv
<1>2. /\ doc' \in Seq(Nodes) /\ DOMAIN doc' = 1..(Len(doc) + 1) /\ Len(doc') = Len(doc) + 1
      /\ doc'[Len(doc) + 1] = node /\ \A i \in DOMAIN doc : doc'[i] = doc[i]
  BY <1>1 DEF Returns
<1>3. sidOf \in Seq(DOMAIN json')
  <2>1. \A i \in 1..Len(sidOf) : sidOf[i] \in DOMAIN json'
    BY <1>1 DEF EntriesKept
  <2>2. sidOf \in [1..Len(sidOf) -> DOMAIN json'] /\ Len(sidOf) \in Nat
    BY <1>1, <2>1
  <2> QED BY ONLY <2>2
<1>4. /\ sidOf' \in Seq(DOMAIN json') /\ DOMAIN sidOf' = DOMAIN doc' /\ Len(sidOf') = Len(doc')
      /\ sidOf'[Len(doc) + 1] = sid /\ \A i \in DOMAIN doc : sidOf'[i] = sidOf[i]
  BY <1>1, <1>2, <1>3 DEF Returns
<1>5. stack' \in Seq(DOMAIN doc')
  <2>1. SubSeq(stack, 1, Len(stack) - n) \in Seq(DOMAIN doc)
    <3>1. stack \in Seq(DOMAIN doc) /\ 1 \in 1..(Len(stack) + 1) /\ Len(stack) - n \in 0..Len(stack)
      BY <1>1
    <3> QED BY ONLY <3>1, SubSeqProperties
  <2>2. DOMAIN doc \subseteq DOMAIN doc' /\ Len(doc) + 1 \in DOMAIN doc'
    BY <1>2
  <2>3. SubSeq(stack, 1, Len(stack) - n) \in Seq(DOMAIN doc')
    BY <2>1, <2>2
  <2> QED BY <2>2, <2>3 DEF Returns
<1>6. UNCHANGED <<refs, refd, phase, at>>
  BY DEF Returns
<1>7. DocInv'
  <2>1. Len(doc') <= MaxNodes
    BY <1>2 DEF Mapping
  <2>2. ASSUME NEW i \in DOMAIN doc'
        PROVE  /\ doc'[i].ref = NoName => doc'[i].kw \in Shapes
               /\ \A k \in DOMAIN doc'[i].kids : doc'[i].kids[k] \in 1..(i - 1)
    <3>1. CASE i \in DOMAIN doc
      BY <1>2, <3>1 DEF TableInv, DocInv
    <3>2. CASE i = Len(doc) + 1
      BY <1>2, <3>2
    <3> QED BY <1>2, <3>1, <3>2
  <2> QED BY <1>2, <1>4, <2>1, <2>2 DEF DocInv
<1>8. PhaseInv'
  BY <1>6 DEF TableInv, PhaseInv, Mapping
<1>9. \A name \in DOMAIN refd : refd[name] \in DOMAIN doc /\ refd[name] \in DOMAIN doc'
  BY <1>2 DEF TableInv, TypeOK
<1>10. RefsInv'
  BY <1>2, <1>4, <1>6, <1>9 DEF TableInv, TypeOK, RefsInv, EntriesKept
<1>11. ASSUME NEW i \in DOMAIN doc' PROVE sidOf'[i] \in DOMAIN json' /\ Represents(i)'
  <2>1. CASE i \in DOMAIN doc
    <3>1. DocInv /\ Represents(i) /\ sidOf \in Seq(DOMAIN json)
      BY <1>1, <2>1 DEF TableInv, TableDenotesDocument
    <3>2. \A k \in DOMAIN doc : doc'[k] = doc[k] /\ sidOf'[k] = sidOf[k]
      BY <1>2, <1>4
    <3>3. Represents(i)'
      BY ONLY <2>1, <3>1, <3>2, EntriesKept, Stable
    <3> QED BY <1>4, <3>3
  <2>2. CASE i = last
    BY <1>4, <2>2
  <2> QED BY <1>2, <2>1, <2>2
<1> QED BY <1>4, <1>5, <1>6, <1>7, <1>8, <1>9, <1>10, <1>11

LEMMA MapRefSafe == ASSUME TableInv, NEW name \in Names, MapRef(name) PROVE TableInv'
<1> USE Facts
<1>1. PICK sid \in DOMAIN json :
        /\ json[sid].ref = name
        /\ json' = [json EXCEPT ![sid] = Ptr(name, refs[name])]
        /\ Returns(RefNode(name), 0, sid)
  BY DEF MapRef
<1>2. Mapping /\ name # NoName
  BY DEF MapRef, Names, NoName
<1>3. json[sid] = Ptr(name, json[sid].sid) /\ name \in DOMAIN refs
      /\ \A s \in DOMAIN json : json[s].ref = name => s = sid
  BY <1>1, <1>2 DEF TableInv, PtrInv, IsPtr
<1>4. refs[name] \in Nat
  BY <1>3 DEF TableInv, TypeOK
<1>5. Ptr(name, refs[name]) \in Entries
  BY <1>4 DEF Ptr, Entries
<1>6. json' \in Seq(Entries) /\ DOMAIN json' = DOMAIN json /\ json'[sid] = Ptr(name, refs[name])
      /\ \A s \in DOMAIN json : s # sid => json'[s] = json[s]
  BY <1>1, <1>5 DEF TableInv, TypeOK
<1>7. json'[sid].ref = name /\ json'[sid].sid = refs[name]
  BY <1>6 DEF Ptr
<1>8. EntriesKept
  BY <1>1, <1>2, <1>6, <1>7 DEF EntriesKept, IsPtr
<1>9. RefNode(name) \in Nodes /\ RefNode(name).ref = name /\ RefNode(name).kids = <<>>
  BY DEF RefNode, Nodes
<1>10. PICK last \in Nat : last = Len(doc) + 1 /\ Represents(last)'
  <2>1. PICK i \in Nat : i = Len(doc) + 1
    OBVIOUS
  <2>2. doc'[i] = RefNode(name) /\ sidOf'[i] = sid
    BY <1>1, <2>1 DEF TableInv, TypeOK, DocInv, Returns
  <2>3. Represents(i)'
    BY <1>2, <1>7, <1>9, <2>2 DEF Represents
  <2> QED BY <2>1, <2>3
<1>11. /\ DocInv' /\ PhaseInv' /\ RefsInv'
       /\ stack' \in Seq(DOMAIN doc') /\ sidOf' \in Seq(DOMAIN json')
       /\ DOMAIN doc' = DOMAIN sidOf' /\ \A m \in DOMAIN refd' : refd'[m] \in DOMAIN doc'
       /\ \A i \in DOMAIN doc' : sidOf'[i] \in DOMAIN json' /\ Represents(i)'
  <2>1. 0 \in 0..Len(stack) /\ sid \in DOMAIN json' /\ RefNode(name) \in Nodes
    BY <1>6, <1>9
  <2>2. RefNode(name).ref = NoName => RefNode(name).kw \in Shapes
    BY <1>2, <1>9
  <2>3. \A k \in DOMAIN RefNode(name).kids : RefNode(name).kids[k] \in DOMAIN doc
    BY <1>9
  <2> QED BY ONLY <1>1, <1>2, <1>8, <1>10, <2>1, <2>2, <2>3, TableInv, Returned, Zenon
<1>12. UNCHANGED <<refs, refd, phase, at, current, endpoints>>
  BY <1>1 DEF Returns
<1>13. TypeOK'
  BY <1>6, <1>11, <1>12 DEF TableInv, TypeOK
<1>14. PtrInv'
  <2>1. ASSUME NEW s \in DOMAIN json', IsPtr(json'[s])
        PROVE  /\ json'[s] = Ptr(json'[s].ref, json'[s].sid) /\ json'[s].ref \in DOMAIN refs
               /\ json'[s].ref \in DOMAIN refd => json'[s].sid = refs[json'[s].ref]
    <3>1. CASE s = sid
      BY <1>3, <1>6, <1>7, <3>1
    <3>2. CASE s # sid
      BY <1>6, <2>1, <3>2 DEF TableInv, PtrInv
    <3> QED BY <3>1, <3>2
  <2>2. \A s1, s2 \in DOMAIN json' : IsPtr(json'[s1]) /\ json'[s1].ref = json'[s2].ref => s1 = s2
    BY <1>1, <1>6, <1>7 DEF TableInv, PtrInv, IsPtr
  <2> QED BY <1>12, <2>1, <2>2 DEF PtrInv
<1>15. TableDenotesDocument'
  <2>1. \A s1, s2 \in DOMAIN json' : json'[s1] = json'[s2] => s1 = s2
    BY <1>3, <1>6, <1>7 DEF TableInv, TableDenotesDocument
  <2> QED BY <1>11, <2>1 DEF TableDenotesDocument
<1> QED BY <1>11, <1>13, <1>14, <1>15 DEF TableInv
(* The schemas nested in one about to be mapped, and its entry.            *)
Kids(kw) == SubSeq(stack, Len(stack) - Arity(kw) + 1, Len(stack))
Entry(kw) == Schema(FromGo(FromOA3(kw)), [i \in 1..Arity(kw) |-> sidOf[Kids(kw)[i]]])

LEMMA KidsMapped ==
  ASSUME TableInv, NEW kw \in Shapes, Arity(kw) <= Len(stack)
  PROVE  /\ Kids(kw) \in Seq(DOMAIN doc) /\ DOMAIN Kids(kw) = 1..Arity(kw)
         /\ \A k \in DOMAIN Kids(kw) : Kids(kw)[k] \in DOMAIN doc
         /\ Entry(kw) \in Entries /\ ~IsPtr(Entry(kw))
         /\ SchemaNode(kw, Kids(kw)) \in Nodes
<1> USE Facts
<1> DEFINE n == Arity(kw)
<1>1. n \in Nat /\ kw \subseteq Keywords
  BY ArityType, ShapesAssumption
<1>2. Kids(kw) \in Seq(DOMAIN doc) /\ Len(Kids(kw)) = IF Len(stack) - n + 1 <= Len(stack) THEN n ELSE 0
  <2> HIDE DEF n
  <2>1. Len(stack) - n + 1 \in Int /\ Len(stack) \in Int
        /\ \A i \in (Len(stack) - n + 1)..Len(stack) : stack[i] \in DOMAIN doc
    BY <1>1 DEF n
  <2>2. SubSeq(stack, Len(stack) - n + 1, Len(stack)) \in Seq(DOMAIN doc)
        /\ Len(SubSeq(stack, Len(stack) - n + 1, Len(stack))) =
             IF Len(stack) - n + 1 <= Len(stack) THEN Len(stack) - (Len(stack) - n + 1) + 1 ELSE 0
    BY ONLY <2>1, SubSeqProperties
  <2>3. Len(stack) - (Len(stack) - n + 1) + 1 = n
    BY <1>1
  <2> QED BY <2>2, <2>3 DEF Kids, n
<1>3. Len(Kids(kw)) = n
  BY <1>1, <1>2
<1>4. DOMAIN Kids(kw) = 1..n
  BY <1>1, <1>2, <1>3
<1>5. \A i \in 1..n : Kids(kw)[i] \in DOMAIN doc
  <2>1. Kids(kw) \in [1..n -> DOMAIN doc]
    BY <1>2, <1>3, <1>4
  <2> QED BY <2>1
<1>6. [i \in 1..n |-> sidOf[Kids(kw)[i]]] \in Seq(Nat)
  <2>1. \A i \in 1..n : sidOf[Kids(kw)[i]] \in Nat
    BY <1>5
  <2>2. [i \in 1..n |-> sidOf[Kids(kw)[i]]] \in [1..n -> Nat]
    BY <2>1
  <2> QED BY <1>1, <2>2
<1>7. FromGo(FromOA3(kw)) \subseteq Keywords \cup {"items:0"}
  BY <1>1 DEF FromGo, FromOA3, Keywords
<1>8. Entry(kw) \in Entries /\ ~IsPtr(Entry(kw))
  BY <1>6, <1>7 DEF Entry, Entries, Schema, IsPtr
<1>9. SchemaNode(kw, Kids(kw)) \in Nodes
  <2>1. Kids(kw) \in Seq(Nat)
    BY <1>2
  <2> QED BY <1>1, <2>1 DEF SchemaNode, Nodes
<1> QED BY <1>2, <1>4, <1>5, <1>8, <1>9

LEMMA MapSchemaSafe == ASSUME TableInv, NEW kw \in Shapes, MapSchema(kw) PROVE TableInv'
<1> USE Facts
<1> DEFINE node == SchemaNode(kw, Kids(kw))
           n == Arity(kw)
           same == {s \in DOMAIN json : json[s] = Entry(kw)}
<1>1. Mapping /\ n <= Len(stack) /\ n \in Nat
  BY ArityType DEF MapSchema
<1>2. \/ same = {} /\ json' = Assign(json, newSID, Entry(kw)) /\ Returns(node, n, newSID)
      \/ \E s \in same : json' = json /\ Returns(node, n, s)
  BY DEF MapSchema, Entry, Kids
<1>3. Kids(kw) \in Seq(DOMAIN doc) /\ DOMAIN Kids(kw) = 1..n
      /\ Entry(kw) \in Entries /\ ~IsPtr(Entry(kw)) /\ node \in Nodes
      /\ \A k \in DOMAIN Kids(kw) : Kids(kw)[k] \in DOMAIN doc
  BY <1>1, KidsMapped
<1>4. newSID = Len(json) + 1 /\ TypeOK
  BY NewSID DEF TableInv
<1>5. PICK sid : /\ Returns(node, n, sid) /\ sid \in DOMAIN json' /\ json'[sid] = Entry(kw)
                 /\ json' \in Seq(Entries)
                 /\ \A s \in DOMAIN json : s \in DOMAIN json' /\ json'[s] = json[s]
                 /\ \A s \in DOMAIN json' \ DOMAIN json : s = sid
                 /\ \A s \in DOMAIN json' : s # sid => s \in DOMAIN json /\ json[s] # Entry(kw)
  <2>1. CASE same = {} /\ json' = Assign(json, newSID, Entry(kw)) /\ Returns(node, n, newSID)
    <3>1. /\ json' \in Seq(Entries) /\ DOMAIN json' = 1..(Len(json) + 1)
          /\ json'[Len(json) + 1] = Entry(kw) /\ \A s \in DOMAIN json : json'[s] = json[s]
      BY ONLY <1>3, <1>4, <2>1, AssignNext
    <3>2. \A s \in DOMAIN json : json[s] # Entry(kw)
      BY <2>1
    <3> HIDE DEF node, n, same
    <3>3. /\ Len(json) + 1 \in DOMAIN json'
          /\ \A s \in DOMAIN json : s \in DOMAIN json'
          /\ \A s \in DOMAIN json' : s # Len(json) + 1 => s \in DOMAIN json
      BY <3>1
    <3> QED BY <1>4, <2>1, <3>1, <3>2, <3>3
  <2>2. ASSUME NEW s \in same, json' = json, Returns(node, n, s)
        PROVE  /\ s \in DOMAIN json' /\ json'[s] = Entry(kw) /\ json' \in Seq(Entries)
               /\ \A r \in DOMAIN json' : r # s => r \in DOMAIN json /\ json[r] # Entry(kw)
    BY <2>2 DEF TableInv, TableDenotesDocument, TypeOK
  <2> QED BY <1>2, <2>1, <2>2
<1> HIDE DEF node, n, same
<1>6. EntriesKept
  BY <1>5 DEF EntriesKept
<1>7. \A k \in DOMAIN Kids(kw) : Kids(kw)[k] \in DOMAIN doc
  BY <1>3
<1>8. node.ref = NoName /\ node.kw = kw /\ node.kids = Kids(kw)
  BY DEF node, SchemaNode
<1>9. PICK last \in Nat : last = Len(doc) + 1 /\ Represents(last)'
  <2>1. PICK i \in Nat : i = Len(doc) + 1
    OBVIOUS
  <2>2. doc'[i] = node /\ sidOf'[i] = sid /\ \A k \in DOMAIN doc : sidOf'[k] = sidOf[k]
    BY <1>5, <2>1 DEF TableInv, TypeOK, DocInv, Returns
  <2>3. \A k \in 1..n : sidOf'[Kids(kw)[k]] = sidOf[Kids(kw)[k]]
    BY <1>3, <1>7, <2>2
  <2>4. Entry(kw) = Schema(FromGo(FromOA3(node.kw)), [k \in DOMAIN node.kids |-> sidOf'[node.kids[k]]])
    BY <1>3, <1>8, <2>3 DEF Entry, n
  <2>5. Represents(i)'
    BY <1>5, <1>8, <2>2, <2>4 DEF Represents
  <2> QED BY <2>1, <2>5
<1>10. /\ DocInv' /\ PhaseInv' /\ RefsInv'
       /\ stack' \in Seq(DOMAIN doc') /\ sidOf' \in Seq(DOMAIN json')
       /\ DOMAIN doc' = DOMAIN sidOf' /\ \A m \in DOMAIN refd' : refd'[m] \in DOMAIN doc'
       /\ \A i \in DOMAIN doc' : sidOf'[i] \in DOMAIN json' /\ Represents(i)'
  <2>1. n \in 0..Len(stack)
    BY <1>1 DEF n
  <2>2. node \in Nodes /\ node.ref = NoName => node.kw \in Shapes
    BY <1>3, <1>8 DEF node
  <2>3. node \in Nodes /\ \A k \in DOMAIN node.kids : node.kids[k] \in DOMAIN doc
    BY <1>3, <1>7, <1>8 DEF node
  <2>4. Mapping
    BY <1>1
  <2> QED BY ONLY <1>5, <1>6, <1>8, <1>9, <2>1, <2>2, <2>3, <2>4, TableInv, Returned, Zenon
<1>11. UNCHANGED <<refs, refd, phase, at, current, endpoints>>
  BY <1>5 DEF Returns
<1>12. TypeOK'
  BY <1>5, <1>10, <1>11 DEF TableInv, TypeOK
<1>13. PtrInv'
  <2>1. \A s \in DOMAIN json' : IsPtr(json'[s]) => s \in DOMAIN json /\ json'[s] = json[s]
    BY <1>3, <1>5
  <2>2. ASSUME NEW s \in DOMAIN json', IsPtr(json'[s])
        PROVE  /\ json'[s] = Ptr(json'[s].ref, json'[s].sid) /\ json'[s].ref \in DOMAIN refs
               /\ json'[s].ref \in DOMAIN refd => json'[s].sid = refs[json'[s].ref]
    BY <2>1, <2>2 DEF TableInv, PtrInv
  <2>3. \A s1, s2 \in DOMAIN json' : IsPtr(json'[s1]) /\ json'[s1].ref = json'[s2].ref => s1 = s2
    BY <2>1 DEF TableInv, PtrInv, IsPtr
  <2> QED BY <1>11, <2>2, <2>3 DEF PtrInv
<1>14. TableDenotesDocument'
  <2>1. \A s1, s2 \in DOMAIN json' : json'[s1] = json'[s2] => s1 = s2
    BY <1>5 DEF TableInv, TableDenotesDocument
  <2> QED BY <1>10, <2>1 DEF TableDenotesDocument
<1> QED BY <1>10, <1>12, <1>13, <1>14 DEF TableInv
LEMMA SeededSafe == ASSUME TableInv, Seeded PROVE TableInv'
<1> USE Facts
<1> DEFINE top == stack[1]
           sid == refs[at]
<1>1. phase = "seed" /\ at \in Names /\ DOMAIN refs = Names /\ DOMAIN refd = 1..(at - 1)
  BY DEF Seeded, TableInv, PhaseInv
<1>2. top \in DOMAIN doc /\ doc[top].ref = NoName /\ sidOf[top] \in DOMAIN json
  BY DEF Seeded
<1>3. at \in Nat /\ at # NoName /\ at \notin DOMAIN refd
  BY <1>1 DEF Names, NoName
<1>4. sid \in DOMAIN json /\ json[sid].ref = at
  BY <1>1, <1>3 DEF TableInv, TypeOK, RefsInv
<1>5. \A s \in DOMAIN json : json[s].ref = at => s = sid
  BY <1>3, <1>4 DEF TableInv, PtrInv, IsPtr
<1> HIDE DEF top, sid
<1>6. UNCHANGED <<doc, sidOf, current, endpoints>> /\ stack' = <<>>
      /\ json' = [json EXCEPT ![sid] = Ptr(at, sidOf[top])]
      /\ refs' = [refs EXCEPT ![at] = sidOf[top]] /\ refd' = Assign(refd, at, top)
  BY DEF Seeded, top, sid
<1>7. \/ at = NumNames /\ phase' = "inputs" /\ at' = at
      \/ at # NumNames /\ phase' = "seed" /\ at' = at + 1
  BY <1>1 DEF Seeded
<1>8. Ptr(at, sidOf[top]) \in Entries
  BY <1>1, <1>2 DEF Ptr, Entries
<1>9. json' \in Seq(Entries) /\ DOMAIN json' = DOMAIN json /\ json'[sid] = Ptr(at, sidOf[top])
      /\ \A s \in DOMAIN json : s # sid => json'[s] = json[s]
  BY <1>4, <1>6, <1>8 DEF TableInv, TypeOK
<1>10. json'[sid].ref = at /\ json'[sid].sid = sidOf[top]
  BY <1>9 DEF Ptr
<1>11. DOMAIN refs' = Names /\ refs'[at] = sidOf[top]
       /\ \A name \in Names : name # at => refs'[name] = refs[name]
  BY <1>1, <1>6
<1>12. DOMAIN refd' = 1..at /\ refd'[at] = top /\ \A name \in DOMAIN refd : refd'[name] = refd[name]
  <2>1. DOMAIN refd \cup {at} = 1..at
    BY <1>1 DEF Names
  <2>2. refd' = [name \in 1..at |-> IF name = at THEN top ELSE refd[name]]
    BY <1>6, <2>1 DEF Assign
  <2> QED BY <1>1, <1>3, <2>1, <2>2 DEF Names
<1>13. EntriesKept
  BY <1>3, <1>4, <1>9, <1>10 DEF EntriesKept, IsPtr
<1>14. TypeOK'
  <2>1. \A name \in DOMAIN refs' : refs'[name] \in DOMAIN json'
    BY <1>1, <1>2, <1>9, <1>11 DEF TableInv, TypeOK
  <2>2. \A name \in DOMAIN refd' : refd'[name] \in DOMAIN doc'
    <3>1. \A name \in DOMAIN refd : refd[name] \in DOMAIN doc
      BY DEF TableInv, TypeOK
    <3>2. \A name \in 1..at : name = at \/ name \in DOMAIN refd
      BY <1>1 DEF Names
    <3> QED BY <1>2, <1>6, <1>12, <3>1, <3>2
  <2>3. DOMAIN refd' \subseteq Names /\ at' \in Nat \ {0}
    BY <1>1, <1>7, <1>12 DEF Names
  <2>4. sidOf' \in Seq(DOMAIN json') /\ DOMAIN doc' = DOMAIN sidOf' /\ stack' \in Seq(DOMAIN doc')
    BY <1>6, <1>9
  <2>5. current' \in Endpoints /\ endpoints' \in Seq(Endpoints)
    BY <1>6 DEF TableInv, TypeOK
  <2>6. phase' \in {"inputs", "seed"}
    BY <1>7
  <2> QED BY <1>9, <1>11, <2>1, <2>2, <2>3, <2>4, <2>5, <2>6 DEF TypeOK
<1>15. DocInv'
  BY <1>6 DEF TableInv, DocInv
<1>16. PhaseInv'
  <2>1. CASE at = NumNames
    BY <1>1, <1>7, <1>11, <1>12, <2>1 DEF PhaseInv, Names
  <2>2. CASE at # NumNames
    BY <1>1, <1>7, <1>11, <1>12, <2>2 DEF PhaseInv, Names
  <2> QED BY <2>1, <2>2
<1>17. RefsInv'
  <2>1. ASSUME NEW name \in Names
        PROVE  IF name \in DOMAIN refd'
               THEN refs'[name] = sidOf[refd'[name]] /\ doc[refd'[name]].ref = NoName
               ELSE json'[refs'[name]].ref = name
    <3>1. CASE name = at
      BY <1>1, <1>2, <1>11, <1>12, <3>1 DEF Names
    <3>2. CASE name # at /\ name \in DOMAIN refd
      BY <1>1, <1>3, <1>11, <1>12, <3>2 DEF TableInv, RefsInv
    <3>3. CASE name # at /\ name \notin DOMAIN refd
      <4>1. name \notin DOMAIN refd'
        BY <1>1, <1>3, <1>12, <3>3 DEF Names
      <4>2. refs[name] \in DOMAIN json /\ json[refs[name]].ref = name
        BY <1>1, <3>3 DEF TableInv, TypeOK, RefsInv
      <4> QED BY <1>11, <1>13, <3>3, <4>1, <4>2 DEF EntriesKept
    <3> QED BY <3>1, <3>2, <3>3
  <2> QED BY <1>6, <1>11, <2>1 DEF RefsInv
<1>18. PtrInv'
  <2>1. ASSUME NEW s \in DOMAIN json', IsPtr(json'[s])
        PROVE  /\ json'[s] = Ptr(json'[s].ref, json'[s].sid) /\ json'[s].ref \in DOMAIN refs'
               /\ json'[s].ref \in DOMAIN refd' => json'[s].sid = refs'[json'[s].ref]
    <3>1. CASE s = sid
      BY <1>1, <1>9, <1>10, <1>11, <3>1
    <3>2. CASE s # sid
      <4>1. json'[s] = json[s] /\ json[s].ref # at
        BY <1>5, <1>9, <3>2
      <4>2. /\ json[s] = Ptr(json[s].ref, json[s].sid) /\ json[s].ref \in Names
            /\ json[s].ref \in DOMAIN refd => json[s].sid = refs[json[s].ref]
        BY <1>1, <1>9, <2>1, <4>1 DEF TableInv, PtrInv
      <4>3. json[s].ref \in DOMAIN refd' => json[s].ref \in DOMAIN refd
        BY <1>1, <1>3, <1>12, <4>1, <4>2 DEF Names
      <4> QED BY <1>11, <4>1, <4>2, <4>3
    <3> QED BY <3>1, <3>2
  <2>2. \A s1, s2 \in DOMAIN json' : IsPtr(json'[s1]) /\ json'[s1].ref = json'[s2].ref => s1 = s2
    BY <1>5, <1>9, <1>10 DEF TableInv, PtrInv, IsPtr
  <2> QED BY <2>1, <2>2 DEF PtrInv
<1>19. TableDenotesDocument'
  <2>1. ASSUME NEW i \in DOMAIN doc' PROVE sidOf'[i] \in DOMAIN json' /\ Represents(i)'
    <3>1. DocInv /\ Represents(i) /\ sidOf \in Seq(DOMAIN json) /\ i \in DOMAIN doc
      BY <1>6 DEF TableInv, TableDenotesDocument
    <3>2. \A k \in DOMAIN doc : doc'[k] = doc[k] /\ sidOf'[k] = sidOf[k]
      BY <1>6
    <3>3. Represents(i)'
      BY ONLY <3>1, <3>2, <1>13, Stable
    <3> QED BY <1>6, <1>9, <3>1, <3>3
  <2>2. \A s1, s2 \in DOMAIN json' : json'[s1] = json'[s2] => s1 = s2
    BY <1>5, <1>9, <1>10 DEF TableInv, TableDenotesDocument
  <2> QED BY <2>1, <2>2 DEF TableDenotesDocument
<1> QED BY <1>14, <1>15, <1>16, <1>17, <1>18, <1>19 DEF TableInv

(* The endpoints are made of schemas that were mapped.                     *)
LEMMA BuiltSafe ==
  ASSUME TableInv, Refused \/ InputWithoutSchema \/ Input \/ Output \/ EndpointBuilt \/ Built
  PROVE  TableInv'
<1> USE Facts
<1>1. UNCHANGED <<json, refs, refd, doc, sidOf, at>>
  BY DEF Refused, InputWithoutSchema, Input, Output, EndpointBuilt, Built, tableVars
<1>2. current \in Endpoints /\ endpoints \in Seq(Endpoints) /\ stack \in Seq(DOMAIN doc)
  BY DEF TableInv, TypeOK
<1>3. current.inputs \in Seq(Nat) /\ current \in [inputs : Seq(Nat), outputs : UNION {[C -> 0..MaxNodes] : C \in SUBSET Codes}]
  BY <1>2 DEF Endpoints
<1>4. PICK C \in SUBSET Codes : current.outputs \in [C -> 0..MaxNodes]
  BY <1>3
<1>5. \A i \in DOMAIN stack : stack[i] \in 0..MaxNodes
  BY DEF TableInv, DocInv
<1>6. empty \in Endpoints
  <2>1. empty.outputs \in [{} -> 0..MaxNodes]
    BY DEF empty
  <2>2. empty.inputs \in Seq(Nat)
    BY DEF empty
  <2> QED BY <2>1, <2>2 DEF Endpoints, empty
<1>7. current' \in Endpoints
  <2>1. CASE Input
    <3>1. Append(current.inputs, stack[1]) \in Seq(Nat)
      BY <1>3, <1>5, <2>1 DEF Input
    <3> QED BY <1>3, <2>1, <3>1 DEF Input, Endpoints
  <2>2. CASE Output
    <3>1. PICK code \in Codes \ DOMAIN current.outputs :
            current' = [current EXCEPT !.outputs =
                          Assign(@, code, IF stack = <<>> THEN 0 ELSE stack[1])]
      BY <2>2 DEF Output
    <3> DEFINE node == IF stack = <<>> THEN 0 ELSE stack[1]
               outputs == Assign(current.outputs, code, node)
    <3>2. node \in 0..MaxNodes
      BY <1>5
    <3> HIDE DEF node
    <3>3. outputs \in [C \cup {code} -> 0..MaxNodes]
      BY <1>4, <3>2 DEF Assign
    <3> HIDE DEF outputs
    <3>4. C \cup {code} \in SUBSET Codes
      BY <1>4, <3>1
    <3>5. current' = [current EXCEPT !.outputs = outputs]
      BY <3>1 DEF outputs, node
    <3> QED BY <1>3, <3>3, <3>4, <3>5 DEF Endpoints
  <2>3. CASE Refused \/ InputWithoutSchema \/ EndpointBuilt \/ Built
    BY <1>2, <1>6, <2>3 DEF Refused, InputWithoutSchema, EndpointBuilt, Built
  <2> QED BY <2>1, <2>2, <2>3
<1>8. endpoints' \in Seq(Endpoints)
  <2>1. endpoints' = endpoints \/ endpoints' = Append(endpoints, current)
    BY DEF Refused, InputWithoutSchema, Input, Output, EndpointBuilt, Built
  <2>2. Append(endpoints, current) \in Seq(Endpoints)
    BY ONLY <1>2
  <2> QED BY ONLY <1>2, <2>1, <2>2
<1>9. stack' = <<>> \/ stack' = stack
  BY DEF Refused, InputWithoutSchema, Input, Output, EndpointBuilt, Built, tableVars
<1>10. phase' \in {"refused", "panicked", "inputs", "outputs", "done"}
       /\ (phase' \notin {"refused", "panicked"} => phase \in {"inputs", "outputs"}) /\ phase # "preseed"
  BY DEF Refused, InputWithoutSchema, Input, Output, EndpointBuilt, Built
<1>11. TypeOK'
  <2>1. stack' \in Seq(DOMAIN doc')
    <3>1. doc' = doc /\ <<>> \in Seq(DOMAIN doc)
      BY <1>1
    <3> QED BY <1>2, <1>9, <3>1
  <2>2. phase' \in {"preseed", "seed", "inputs", "outputs", "done", "refused", "panicked"}
    BY <1>10
  <2>3. TypeOK
    BY DEF TableInv
  <2> QED BY ONLY <1>1, <1>7, <1>8, <2>1, <2>2, <2>3 DEF TypeOK
<1>12. PhaseInv'
  BY <1>1, <1>10 DEF TableInv, PhaseInv
<1> QED BY <1>1, <1>11, <1>12, Untouched

LEMMA TableInductive == TableInv /\ [Next]_vars => TableInv'
<1> SUFFICES ASSUME TableInv, [Next]_vars PROVE TableInv'
  OBVIOUS
<1>1. CASE PreSeed
  BY <1>1, PreSeedSafe
<1>2. CASE Seeded
  BY <1>2, SeededSafe
<1>3. CASE Refused \/ InputWithoutSchema \/ Input \/ Output \/ EndpointBuilt \/ Built
  BY <1>3, BuiltSafe
<1>4. ASSUME NEW name \in Names, MapRef(name) PROVE TableInv'
  BY <1>4, MapRefSafe
<1>5. ASSUME NEW kw \in Shapes, MapSchema(kw) PROVE TableInv'
  BY <1>5, MapSchemaSafe
<1>6. CASE UNCHANGED vars
  <2>1. TypeOK' /\ PhaseInv'
    BY <1>6 DEF TableInv, TypeOK, PhaseInv, vars, tableVars
  <2> QED BY <1>6, <2>1, Untouched DEF vars, tableVars
<1> QED BY <1>1, <1>2, <1>3, <1>4, <1>5, <1>6 DEF Next

-----------------------------------------------------------------------------
(* The invariant holds whatever the document: seed and endpointsFromOA3    *)
(* keep the table, the names and the pointers consistent at every step.    *)
THEOREM TableConsistent == Spec => []TableInv
<1>1. Init => TableInv
  BY TableInit
<1>2. TableInv /\ [Next]_vars => TableInv'
  BY TableInductive
<1> QED BY <1>1, <1>2, PTL DEF Spec

(* The number that ensureMapped returned for a schema keeps leading to it, *)
(* and no two numbers hold the same entry.                                 *)
THEOREM TableDenotes == Spec => []TableDenotesDocument
<1>1. TableInv => TableDenotesDocument
  BY DEF TableInv
<1> QED BY <1>1, TableConsistent, PTL

(* After seed, every pointer leads in one step to its name's schema.       *)
THEOREM RefsLead == Spec => []EveryRefLeadsToItsSchema
<1>1. TableInv => EveryRefLeadsToItsSchema
  <2> SUFFICES ASSUME TableInv, phase \in {"inputs", "outputs", "done"},
                      NEW sid \in DOMAIN json, IsPtr(json[sid])
               PROVE  /\ json[sid].sid = sidOf[refd[json[sid].ref]]
                      /\ json[sid].sid \in DOMAIN json /\ ~IsPtr(json[json[sid].sid])
    BY DEF EveryRefLeadsToItsSchema
  <2> DEFINE name == json[sid].ref
             i == refd[name]
  <2>1. DOMAIN refd = Names /\ DOMAIN refs = Names
    BY DEF TableInv, PhaseInv
  <2>2. name \in Names /\ json[sid].sid = refs[name]
    BY <2>1 DEF TableInv, PtrInv
  <2>3. refs[name] = sidOf[i] /\ doc[i].ref = NoName /\ i \in DOMAIN doc
    BY <2>1, <2>2 DEF TableInv, RefsInv, TypeOK
  <2>4. sidOf[i] \in DOMAIN json /\ Represents(i)
    BY <2>3 DEF TableInv, TableDenotesDocument
  <2>5. json[sidOf[i]].ref = NoName
    BY <2>3, <2>4 DEF Represents, Schema
  <2> QED BY <2>2, <2>3, <2>4, <2>5 DEF IsPtr
<1> QED BY <1>1, TableConsistent, PTL

(* fromGo, then toGo as gojsonschema reads it, lose six keywords of those  *)
(* that schemaFromOA3 writes, and no other.                                *)
LEMMA SixKeywords ==
  ASSUME NEW kw \in SUBSET Keywords
  PROVE  Enforced(ToGo(FromGo(FromOA3(kw)))) =
           Enforced(FromOA3(kw)) \
             {"exclusiveMinimum", "exclusiveMaximum", "minProperties", "multipleOf:1",
              "format:time", "additionalProperties"}
<1> DEFINE all == FromOA3(kw)
           kept == FromGo(all)
           renamed == {"exclusiveMinimum", "exclusiveMaximum", "minProperties"}
           lost == {"exclusiveMin", "exclusiveMax", "minProps"}
<1>1. all \cap lost = {}
  BY DEF FromOA3, Keywords, Holders
<1>2. DOMAIN Written = renamed /\ \A k \in renamed : Written[k] \in lost
  BY DEF Written
<1> HIDE DEF all
<1>3. kept = all \ {"additionalProperties", "multipleOf:1", "format:time"}
  BY DEF FromGo
<1> HIDE DEF kept
<1>4. ToGo(kept) \ lost = (kept \ renamed) \ lost
  BY <1>2 DEF ToGo
<1> QED BY <1>1, <1>3, <1>4 DEF Enforced, all, kept

(* Validate and ValidateAgainstSchema hold an input to the same keywords   *)
(* of a schema, but for six.                                               *)
THEOREM ValidatorsAgree == Spec => []ValidatorsAgreeButForSix
<1>1. TableInv => ValidatorsAgreeButForSix
  <2> SUFFICES ASSUME TableInv, NEW i \in DOMAIN doc, doc[i].ref = NoName
               PROVE  ByValidate(i) = ByValidateAgainstSchema(i) \
                        {"exclusiveMinimum", "exclusiveMaximum", "minProperties", "multipleOf:1",
                         "format:time", "additionalProperties"}
    BY DEF ValidatorsAgreeButForSix
  <2>1. json[sidOf[i]].kw = FromGo(FromOA3(doc[i].kw))
    <3>1. json[sidOf[i]] = Schema(FromGo(FromOA3(doc[i].kw)),
                                  [k \in DOMAIN doc[i].kids |-> sidOf[doc[i].kids[k]]])
      BY DEF TableInv, TableDenotesDocument, Represents
    <3> QED BY <3>1 DEF Schema
  <2>2. doc[i].kw \in SUBSET Keywords
    BY ShapesAssumption DEF TableInv, DocInv
  <2> QED BY <2>1, <2>2, SixKeywords DEF ByValidate, ByValidateAgainstSchema
<1> QED BY <1>1, TableConsistent, PTL
-----------------------------------------------------------------------------
(* Whatever the tags of a check and the lists of the command line,         *)
(* newTagsFilter and Excludes come to one outcome, in whatever order a map *)
(* gives the tags: it depends on no variable.                              *)
THEOREM TagsAlwaysDecide == Spec => []TagsDecide
<1>1. TagsDecide
  <2> SUFFICES ASSUME NEW tags \in TagLists, NEW excludeTags \in TagLists,
                      NEW checking \in SUBSET TagNames, NEW f \in NewFilter(tags, excludeTags)
               PROVE  Excludes(f, checking) =
                        {tags = <<>> \/ (excludeTags # Unset /\ ToSet(excludeTags) \cap checking # {})}
    BY DEF TagsDecide
  <2>1. tags = Unset \/ excludeTags = Unset
    BY DEF NewFilter
  <2>2. f = [excludeAll |-> tags = <<>>, includeAll |-> excludeTags = <<>>,
             include |-> IF tags = Unset THEN {} ELSE ToSet(tags),
             exclude |-> IF excludeTags = Unset THEN {} ELSE ToSet(excludeTags)]
    BY DEF NewFilter
  <2>3. Unset # <<>> /\ ToSet(<<>>) = {}
    BY DEF Unset, ToSet
  <2> DEFINE excluded == excludeTags # Unset /\ ToSet(excludeTags) \cap checking # {}
             known == checking \cap (f.include \cup f.exclude)
  <2>4. CASE excludeTags = <<>>
    <3>1. Excludes(f, checking) = {FALSE}
      BY <2>2, <2>4 DEF Excludes
    <3>2. tags # <<>> /\ ~excluded
      BY <2>1, <2>3, <2>4
    <3> QED BY <3>1, <3>2
  <2>5. CASE excludeTags # <<>> /\ tags = <<>>
    BY <2>2, <2>5 DEF Excludes
  <2>6. CASE excludeTags # <<>> /\ tags # <<>>
    <3>1. Excludes(f, checking) = IF known = {} THEN {FALSE} ELSE {tag \notin f.include : tag \in known}
      BY <2>2, <2>6 DEF Excludes
    <3>2. CASE excludeTags = Unset
      <4>1. ~excluded /\ \A tag \in known : tag \in f.include
        BY <2>2, <3>2
      <4>2. Excludes(f, checking) = {FALSE}
        BY <3>1, <4>1
      <4> QED BY <2>6, <4>1, <4>2
    <3>3. CASE excludeTags # Unset
      <4>1. (excluded <=> known # {}) /\ \A tag \in known : tag \notin f.include
        BY <2>1, <2>2, <3>3
      <4>2. Excludes(f, checking) = {excluded}
        BY <3>1, <4>1
      <4> QED BY <2>6, <4>2
    <3> QED BY <3>2, <3>3
  <2> QED BY <2>4, <2>5, <2>6
<1> QED BY <1>1, PTL
-----------------------------------------------------------------------------
(* The least-number principle, by which what follows goes through the      *)
(* filters of a command line one by one.                                   *)
LEMMA Least ==
  ASSUME NEW T \in SUBSET Nat, T # {}
  PROVE  \E x \in T : \A y \in T : x <= y
<1> DEFINE R == OpToRel(<, Nat)
<1>1. IsWellFoundedOn(R, Nat)
  BY NatLessThanWellFounded
<1>2. \A x, y \in Nat : y < x => <<y, x>> \in R
  BY DEF OpToRel
<1> HIDE DEF R
<1>3. PICK x \in T : \A y \in T : ~(<<y, x>> \in R)
  BY <1>1, WFMin
<1>4. \A y \in T : ~(y < x)
  BY <1>2, <1>3
<1> QED BY <1>4

(* What the filters leave, after each of them.                             *)
Leaves(all, filters, after) == after =
  [n \in 0..Len(filters) |->
     IF n = 0 THEN [left |-> DOMAIN all, err |-> FALSE]
              ELSE FilterStep(all, after[n - 1], filters[n])]

(* There is such a function, and FilterEndpoints looks at its last value.  *)
LEMMA FiltersLeave ==
  ASSUME NEW all, NEW filters, Len(filters) \in Nat
  PROVE  \E after : Leaves(all, filters, after)
<1> DEFINE Upto(n, after) == after =
             [k \in 0..n |-> IF k = 0 THEN [left |-> DOMAIN all, err |-> FALSE]
                                      ELSE FilterStep(all, after[k - 1], filters[k])]
           None == {n \in Nat : ~\E after : Upto(n, after)}
<1>1. ASSUME NEW n \in Nat, NEW after, Upto(n, after) PROVE \E longer : Upto(n + 1, longer)
  <2> DEFINE longer == [k \in 0..(n + 1) |-> IF k <= n THEN after[k]
                                              ELSE FilterStep(all, after[n], filters[n + 1])]
             again == [k \in 0..(n + 1) |-> IF k = 0 THEN [left |-> DOMAIN all, err |-> FALSE]
                                             ELSE FilterStep(all, longer[k - 1], filters[k])]
  <2>1. \A k \in 0..n : after[k] = IF k = 0 THEN [left |-> DOMAIN all, err |-> FALSE]
                                    ELSE FilterStep(all, after[k - 1], filters[k])
    BY <1>1
  <2>2. ASSUME NEW k \in 0..(n + 1) PROVE longer[k] = again[k]
    <3>1. CASE k = 0
      <4>1. 0 \in 0..n /\ 0 \in 0..(n + 1) /\ 0 <= n
        OBVIOUS
      <4>2. longer[0] = after[0] /\ again[0] = [left |-> DOMAIN all, err |-> FALSE]
        BY <4>1
      <4> QED BY <2>1, <3>1, <4>1, <4>2
    <3>2. CASE k \in 1..n
      BY <2>1, <3>2
    <3>3. CASE k = n + 1
      BY <3>3
    <3> QED BY <3>1, <3>2, <3>3
  <2>3. longer = again
    BY <2>2
  <2> QED BY <2>3
<1>2. \E after : Upto(0, after)
  <2> DEFINE after == [k \in 0..0 |-> [left |-> DOMAIN all, err |-> FALSE]]
  <2>1. Upto(0, after)
    BY \A k \in 0..0 : k = 0
  <2> QED BY <2>1
<1> HIDE DEF Upto
<1>3. None = {}
  <2>1. SUFFICES ASSUME None # {} PROVE FALSE
    OBVIOUS
  <2>2. PICK n \in None : \A m \in None : n <= m
    BY <2>1, Least
  <2>3. n # 0
    BY <1>2, <2>2
  <2>4. n - 1 \in Nat /\ n - 1 \notin None
    BY <2>2, <2>3
  <2>5. PICK after : Upto(n - 1, after)
    BY <2>4
  <2>6. \E longer : Upto((n - 1) + 1, longer)
    BY <1>1, <2>4, <2>5
  <2> QED BY <2>2, <2>6
<1> QED BY <1>3 DEF Upto, Leaves

(* FilterEndpoints selects the endpoints that fit all the filters, if all  *)
(* filters are regular expressions: once one "only" matches nothing that   *)
(* is left, nothing fits them all.                                         *)
LEMMA FiltersSelect ==
  ASSUME NEW all, NEW options, NEW filters, filters = Obeyed(options),
         filters \in Seq(Options)
  PROVE  FilterEndpoints(all, options) =
           IF \E o \in ToSet(filters) : o.word = BadWord THEN {}
           ELSE {e \in DOMAIN all : \A o \in ToSet(filters) :
                                      (o.name \in OnlyOptions) <=> Matches(o, all[e])}
<1>1. Len(filters) \in Nat /\ \A i \in 1..Len(filters) : filters[i] \in Options
  OBVIOUS
<1> DEFINE after == CHOOSE f : Leaves(all, filters, f)
           len == Len(filters)
<1>2. Leaves(all, filters, after)
  BY <1>1, FiltersLeave
<1>3. FilterEndpoints(all, options) = IF after[len].err THEN {} ELSE after[len].left
  BY DEF FilterEndpoints, Leaves
<1> HIDE DEF after
<1>4. after[0] = [left |-> DOMAIN all, err |-> FALSE]
      /\ \A n \in 1..len : after[n] = FilterStep(all, after[n - 1], filters[n])
  <2>1. after = [n \in 0..len |-> IF n = 0 THEN [left |-> DOMAIN all, err |-> FALSE]
                                 ELSE FilterStep(all, after[n - 1], filters[n])]
    BY <1>2 DEF Leaves
  <2>2. 0 \in 0..len /\ \A n \in 1..len : n \in 0..len /\ n # 0
    BY <1>1
  <2> HIDE DEF len
  <2>3. after[0] = [left |-> DOMAIN all, err |-> FALSE]
    BY <2>1, <2>2
  <2>4. ASSUME NEW n \in 1..len PROVE after[n] = FilterStep(all, after[n - 1], filters[n])
    <3>1. n \in 0..len /\ n # 0
      BY <2>2
    <3> QED BY <2>1, <3>1
  <2> QED BY <2>3, <2>4
<1> DEFINE fits(n) == {e \in DOMAIN all : \A i \in 1..n :
                         (filters[i].name \in OnlyOptions) <=> Matches(filters[i], all[e])}
           bad(n) == \E i \in 1..n : filters[i].word = BadWord
           right(n) == /\ after[n] = [left |-> after[n].left, err |-> after[n].err]
                       /\ after[n].err \in BOOLEAN
                       /\ bad(n) => after[n].err
                       /\ after[n].err /\ ~bad(n) => fits(n) = {}
                       /\ ~after[n].err => after[n].left = fits(n)
           wrong == {n \in 0..len : ~right(n)}
<1>5. right(0)
  <2>1. 1..0 = {}
    OBVIOUS
  <2>2. fits(0) = DOMAIN all /\ ~bad(0)
    BY <2>1
  <2> QED BY <1>4, <2>2
<1>6. ASSUME NEW n \in 1..len, right(n - 1) PROVE right(n)
  <2> DEFINE s == after[n - 1]
             o == filters[n]
             matched == {e \in s.left : Matches(o, all[e])}
  <2>1. after[n] = IF s.err \/ o.word = BadWord THEN [s EXCEPT !.err = TRUE]
                   ELSE IF o.name \in OnlyOptions THEN [left |-> matched, err |-> matched = {}]
                   ELSE [s EXCEPT !.left = @ \ matched]
    BY <1>4 DEF FilterStep
  <2>2. 1..n = (1..(n - 1)) \cup {n}
    BY <1>1
  <2>3. fits(n) = {e \in fits(n - 1) : (o.name \in OnlyOptions) <=> Matches(o, all[e])}
    BY <2>2
  <2>4. bad(n) <=> bad(n - 1) \/ o.word = BadWord
    BY <2>2
  <2>5. s = [left |-> s.left, err |-> s.err] /\ s.err \in BOOLEAN
        /\ (bad(n - 1) => s.err) /\ (s.err /\ ~bad(n - 1) => fits(n - 1) = {})
        /\ (~s.err => s.left = fits(n - 1))
    BY <1>6
  <2> HIDE DEF fits, bad, s, o
  <2>6. CASE s.err \/ o.word = BadWord
    <3>1. after[n] = [left |-> s.left, err |-> TRUE]
      BY <2>1, <2>5, <2>6
    <3>2. ~bad(n) => fits(n) = {}
      BY <2>3, <2>4, <2>5, <2>6
    <3> QED BY <3>1, <3>2
  <2>7. CASE ~s.err /\ o.word # BadWord /\ o.name \in OnlyOptions
    <3>1. after[n] = [left |-> matched, err |-> matched = {}]
      BY <2>1, <2>7
    <3>2. matched = fits(n) /\ ~bad(n)
      BY <2>3, <2>4, <2>5, <2>7
    <3>3. after[n].left = matched /\ after[n].err = (matched = {})
      BY <3>1
    <3> HIDE DEF matched
    <3> QED BY <3>1, <3>2, <3>3
  <2>8. CASE ~s.err /\ o.word # BadWord /\ o.name \notin OnlyOptions
    <3>1. after[n] = [left |-> s.left \ matched, err |-> s.err]
      BY <2>1, <2>5, <2>8
    <3>2. s.left \ matched = fits(n) /\ ~bad(n)
      BY <2>3, <2>4, <2>5, <2>8
    <3>3. after[n].left = s.left \ matched /\ after[n].err = s.err
      BY <3>1
    <3> HIDE DEF matched
    <3> QED BY <2>5, <2>8, <3>1, <3>2, <3>3
  <2> QED BY <2>5, <2>6, <2>7, <2>8
<1>7. wrong = {}
  <2> HIDE DEF right
  <2>1. SUFFICES ASSUME wrong # {} PROVE FALSE
    OBVIOUS
  <2>2. wrong \in SUBSET Nat
    BY <1>1
  <2>3. PICK n \in wrong : \A m \in wrong : n <= m
    BY <2>1, <2>2, Least
  <2>4. n # 0 /\ n \in 1..len /\ n - 1 \in 0..len /\ n - 1 \notin wrong
    BY <1>1, <1>5, <2>3
  <2> QED BY <1>6, <2>3, <2>4
<1>8. right(len)
  BY <1>1, <1>7
<1>9. bad(len) <=> \E o \in ToSet(filters) : o.word = BadWord
  BY <1>1 DEF ToSet
<1>10. fits(len) = {e \in DOMAIN all : \A o \in ToSet(filters) :
                                        (o.name \in OnlyOptions) <=> Matches(o, all[e])}
  BY <1>1 DEF ToSet
<1> QED BY <1>3, <1>8, <1>9, <1>10
(* FilterEndpoints looks at a prefix of the filters.                       *)
LEMMA ObeyedType == ASSUME NEW options \in Seq(Options) PROVE Obeyed(options) \in Seq(Options)
<1> DEFINE I == {i \in 1..Len(options) : options[i].joined}
           first == IF I # {} THEN Min(I) ELSE 0
<1>1. Len(options) \in Nat /\ \A i \in 1..Len(options) : options[i] \in Options
  OBVIOUS
<1>2. I # {} => Min(I) \in I
  <2>1. SUFFICES ASSUME I # {} PROVE Min(I) \in I
    OBVIOUS
  <2>2. I \in SUBSET Nat
    BY <1>1
  <2>3. \E x \in I : \A y \in I : x <= y
    BY <2>1, <2>2, Least
  <2> HIDE DEF I
  <2> QED BY <2>3 DEF Min
<1>3. Obeyed(options) = IF first = 0 THEN options ELSE SubSeq(options, 1, first)
  BY DEF Obeyed, SelectInSeq
<1>4. first = 0 \/ first \in 1..Len(options)
  BY <1>2
<1> HIDE DEF first
<1>5. CASE first = 0
  BY <1>3, <1>5
<1>6. CASE first \in 1..Len(options)
  <2>1. 1 \in Int /\ first \in Int /\ \A i \in 1..first : options[i] \in Options
    BY <1>1, <1>6
  <2>2. SubSeq(options, 1, first) \in Seq(Options)
    BY ONLY <2>1, SubSeqProperties
  <2> QED BY <1>3, <1>5, <2>2
<1> QED BY <1>4, <1>5, <1>6

(* The schemas of an endpoint were mapped; 0 stands for a response with no *)
(* schema.                                                                 *)
NodesOf(endpoint) ==
  ToSet(endpoint.inputs) \cup {endpoint.outputs[code] : code \in DOMAIN endpoint.outputs}
NodesInv ==
  /\ NodesOf(current) \subseteq {0} \cup DOMAIN doc
  /\ \A e \in DOMAIN endpoints : NodesOf(endpoints[e]) \subseteq {0} \cup DOMAIN doc

LEMMA NodesInit == Init => NodesInv
  BY DEF Init, NodesInv, NodesOf, empty, ToSet

LEMMA NodesInductive == TableInv /\ NodesInv /\ [Next]_vars => NodesInv'
<1> SUFFICES ASSUME TableInv, NodesInv, [Next]_vars PROVE NodesInv'
  OBVIOUS
<1> USE Facts
<1>1. current \in Endpoints /\ endpoints \in Seq(Endpoints) /\ doc \in Seq(Nodes)
  BY DEF TableInv, TypeOK, DocInv
<1>2. ASSUME UNCHANGED <<current, endpoints>>, DOMAIN doc \subseteq DOMAIN doc'
      PROVE  NodesInv'
  BY <1>2 DEF NodesInv
<1>3. ASSUME NEW node, NEW n, NEW sid, Returns(node, n, sid) PROVE NodesInv'
  <2>1. DOMAIN doc \subseteq DOMAIN doc'
    BY <1>1, <1>3 DEF Returns
  <2> QED BY <1>2, <1>3, <2>1 DEF Returns
<1>4. CASE PreSeed \/ Seeded \/ Refused \/ InputWithoutSchema \/ Built \/ UNCHANGED vars
  <2>1. UNCHANGED <<current, endpoints, doc>>
    BY <1>4 DEF PreSeed, Seeded, Refused, InputWithoutSchema, Built, vars, tableVars
  <2> QED BY <1>2, <2>1
<1>5. ASSUME NEW name \in Names, MapRef(name) PROVE NodesInv'
  BY <1>3, <1>5 DEF MapRef
<1>6. ASSUME NEW kw \in Shapes, MapSchema(kw) PROVE NodesInv'
  BY <1>3, <1>6 DEF MapSchema
<1>7. \A i \in DOMAIN stack : stack[i] \in DOMAIN doc
  OBVIOUS
<1>8. CASE Input
  <2>1. current.inputs \in Seq(Nat) /\ current.inputs = current.inputs
        /\ current \in [inputs : Seq(Nat), outputs : UNION {[C -> 0..MaxNodes] : C \in SUBSET Codes}]
    BY <1>1 DEF Endpoints
  <2>2. current' = [current EXCEPT !.inputs = Append(current.inputs, stack[1])]
        /\ UNCHANGED <<endpoints, doc>> /\ stack[1] \in DOMAIN doc
    BY <1>8 DEF Input
  <2>3. current'.inputs = Append(current.inputs, stack[1]) /\ current'.outputs = current.outputs
    BY <2>1, <2>2
  <2>4. ToSet(Append(current.inputs, stack[1])) \subseteq ToSet(current.inputs) \cup {stack[1]}
    BY <2>1 DEF ToSet
  <2> QED BY <2>2, <2>3, <2>4 DEF NodesInv, NodesOf
<1>9. CASE Output
  <2>1. current \in [inputs : Seq(Nat), outputs : UNION {[C -> 0..MaxNodes] : C \in SUBSET Codes}]
    BY <1>1 DEF Endpoints
  <2>2. PICK code \in Codes \ DOMAIN current.outputs :
          current' = [current EXCEPT !.outputs =
                        Assign(@, code, IF stack = <<>> THEN 0 ELSE stack[1])]
    BY <1>9 DEF Output
  <2> DEFINE node == IF stack = <<>> THEN 0 ELSE stack[1]
  <2>3. node \in {0} \cup DOMAIN doc
    BY <1>7
  <2>4. UNCHANGED <<endpoints, doc>>
    BY <1>9 DEF Output
  <2> HIDE DEF node
  <2>5. current'.inputs = current.inputs /\ current'.outputs = Assign(current.outputs, code, node)
    BY <2>1, <2>2 DEF node
  <2>6. \A c \in DOMAIN current'.outputs :
          current'.outputs[c] = node
          \/ (c \in DOMAIN current.outputs /\ current'.outputs[c] = current.outputs[c])
    BY <2>5 DEF Assign
  <2>7. NodesOf(current') \subseteq NodesOf(current) \cup {node}
    BY <2>5, <2>6 DEF NodesOf
  <2> QED BY <2>3, <2>4, <2>7 DEF NodesInv
<1>10. CASE EndpointBuilt
  <2>1. endpoints' = Append(endpoints, current) /\ current' = empty /\ doc' = doc
    BY <1>10 DEF EndpointBuilt, tableVars
  <2>2. NodesOf(empty) = {}
    BY DEF NodesOf, empty, ToSet
  <2>3. \A e \in DOMAIN endpoints' :
          endpoints'[e] = current \/ (e \in DOMAIN endpoints /\ endpoints'[e] = endpoints[e])
    BY <1>1, <2>1
  <2>4. ASSUME NEW e \in DOMAIN endpoints' PROVE NodesOf(endpoints'[e]) \subseteq {0} \cup DOMAIN doc
    BY <2>3 DEF NodesInv
  <2> QED BY <2>1, <2>2, <2>4 DEF NodesInv
<1> QED BY <1>4, <1>5, <1>6, <1>8, <1>9, <1>10 DEF Next

(* The lines that are matched say what the document says.                  *)
LEMMA LinesSay == ASSUME TableInv, NodesInv PROVE Lines = DocLines
<1>1. ASSUME NEW nodes, nodes \subseteq {0} \cup DOMAIN doc
      PROVE  RefsFromSIDs(nodes) = DocRefs(nodes)
  <2>1. \A i \in nodes \ {0} : json[sidOf[i]].ref = doc[i].ref
    <3>1. ASSUME NEW i \in nodes \ {0} PROVE json[sidOf[i]].ref = doc[i].ref
      <4>1. i \in DOMAIN doc /\ Represents(i)
        BY <1>1 DEF TableInv, TableDenotesDocument
      <4> QED BY <4>1 DEF Represents, Schema
    <3> QED BY <3>1
  <2>2. {json[sidOf[i]].ref : i \in nodes \ {0}} = {doc[i].ref : i \in nodes \ {0}}
    BY <2>1
  <2> QED BY <2>2 DEF RefsFromSIDs, DocRefs
<1>2. ASSUME NEW e \in DOMAIN endpoints
      PROVE  /\ ToSet(endpoints[e].inputs) \subseteq {0} \cup DOMAIN doc
             /\ {endpoints[e].outputs[code] : code \in DOMAIN endpoints[e].outputs}
                   \subseteq {0} \cup DOMAIN doc
  BY DEF NodesInv, NodesOf
<1>3. ASSUME NEW e \in DOMAIN endpoints
      PROVE  /\ RefsFromSIDs(ToSet(endpoints[e].inputs)) = DocRefs(ToSet(endpoints[e].inputs))
             /\ RefsFromSIDs({endpoints[e].outputs[code] : code \in DOMAIN endpoints[e].outputs})
                = DocRefs({endpoints[e].outputs[code] : code \in DOMAIN endpoints[e].outputs})
  BY <1>1, <1>2
<1> QED BY <1>3 DEF Lines, DocLines

(* The endpoints that FilterEndpoints selects are those whose document     *)
(* fits every filter it obeys, for every command line.                     *)
THEOREM FiltersFit == Spec => []SelectsWhatFits
<1>1. TableInv /\ NodesInv => SelectsWhatFits
  <2> SUFFICES ASSUME TableInv, NodesInv, NEW options \in CommandLines
               PROVE  FilterEndpoints(Lines, options) =
                        IF \E o \in ToSet(Obeyed(options)) : o.word = BadWord THEN {}
                        ELSE {e \in DOMAIN DocLines :
                                \A o \in ToSet(Obeyed(options)) :
                                  (o.name \in OnlyOptions) <=> Matches(o, DocLines[e])}
    BY DEF SelectsWhatFits
  <2>1. Lines = DocLines
    BY LinesSay
  <2>2. Obeyed(options) \in Seq(Options)
    BY SelectionAssumption, ObeyedType
  <2>3. FilterEndpoints(Lines, options) =
          IF \E o \in ToSet(Obeyed(options)) : o.word = BadWord THEN {}
          ELSE {e \in DOMAIN Lines : \A o \in ToSet(Obeyed(options)) :
                                       (o.name \in OnlyOptions) <=> Matches(o, Lines[e])}
    BY ONLY <2>2, FiltersSelect
  <2> QED BY ONLY <2>1, <2>3
<1>2. Init => TableInv /\ NodesInv
  BY TableInit, NodesInit
<1>3. TableInv /\ NodesInv /\ [Next]_vars => TableInv' /\ NodesInv'
  BY TableInductive, NodesInductive
<1> QED BY <1>1, <1>2, <1>3, PTL DEF Spec

-----------------------------------------------------------------------------
(* What is on the wire (module WireTypes, fuzzymonkey.pb.go): any number of *)
(* five bytes or less, and bytes.                                          *)
Numbers == {n \in Nat : n \div Weight[5] < 128}
Bytes == Seq(0..255)

LEMMA Weights ==
  /\ Weight[1] = 1 /\ Weight[2] = 128 /\ Weight[3] = 128 * 128
  /\ Weight[4] = 128 * 128 * 128 /\ Weight[5] = 128 * 128 * 128 * 128
BY DEF Weight

(* sov is the number of bytes of a number. *)
LEMMA SovTells ==
  ASSUME NEW n \in Numbers
  PROVE  /\ sov(n) \in 1..5
         /\ sov(n) = 5 \/ n < Weight[sov(n) + 1]
         /\ sov(n) = 1 \/ n >= Weight[sov(n)]
<1>1. \E k \in 1..5 : (k = 5 \/ n < Weight[k + 1]) /\ (k = 1 \/ n >= Weight[k])
  <2>1. CASE n < 128 BY <2>1, Weights DEF Numbers
  <2>2. CASE n >= 128 /\ n < 128 * 128 BY <2>2, Weights DEF Numbers
  <2>3. CASE n >= 128 * 128 /\ n < 128 * 128 * 128 BY <2>3, Weights DEF Numbers
  <2>4. CASE n >= 128 * 128 * 128 /\ n < 128 * 128 * 128 * 128 BY <2>4, Weights DEF Numbers
  <2>5. CASE n >= 128 * 128 * 128 * 128 BY <2>5, Weights DEF Numbers
  <2> QED BY <2>1, <2>2, <2>3, <2>4, <2>5 DEF Numbers
<1> QED
  BY <1>1 DEF sov

(* A number and the bytes that carry it. *)
LEMMA Encoded ==
  ASSUME NEW n \in Numbers
  PROVE  /\ encodeVarint(n) \in Bytes
         /\ Len(encodeVarint(n)) = sov(n)
         /\ \A k \in 1..5 : EndsAt(encodeVarint(n), k) <=> k = sov(n)
         /\ Number(encodeVarint(n), sov(n)) = n
<1> DEFINE k == sov(n)  e == encodeVarint(n)
<1>1. /\ k \in 1..5
      /\ k = 5 \/ n < Weight[k + 1]
      /\ k = 1 \/ n >= Weight[k]
  BY SovTells
<1>2. e = [i \in 1..k |-> IF i < k THEN 128 + ((n \div Weight[i]) % 128) ELSE n \div Weight[i]]
  BY DEF encodeVarint
<1> HIDE DEF k, e
<1>3. \A i \in 1..5 : Weight[i] \in Nat \ {0} 
  BY Weights
<1>4. \A i \in 1..k : i < k => e[i] \in 128..255 /\ e[i] % 128 = (n \div Weight[i]) % 128
  <2> SUFFICES ASSUME NEW i \in 1..k, i < k 
      PROVE e[i] \in 128..255 /\ e[i] % 128 = (n \div Weight[i]) % 128
    OBVIOUS
  <2>1. n \div Weight[i] \in Nat
    BY <1>1, <1>3 DEF Numbers
  <2>2. \A x \in Nat : 128 + (x % 128) \in 128..255 /\ (128 + (x % 128)) % 128 = x % 128
    OBVIOUS
  <2>3. e[i] = 128 + ((n \div Weight[i]) % 128)
    BY <1>1, <1>2
  <2> QED
    BY <2>1, <2>2, <2>3
<1>5. e[k] = n \div Weight[k]
  BY <1>1, <1>2
<1>6. e[k] \in 0..127
  <2>1. CASE k = 1 BY <1>1, <1>5, <2>1, Weights DEF Numbers
  <2>2. CASE k = 2 BY <1>1, <1>5, <2>2, Weights DEF Numbers
  <2>3. CASE k = 3 BY <1>1, <1>5, <2>3, Weights DEF Numbers
  <2>4. CASE k = 4 BY <1>1, <1>5, <2>4, Weights DEF Numbers
  <2>5. CASE k = 5 BY <1>1, <1>5, <2>5, Weights DEF Numbers
  <2> QED BY <1>1, <2>1, <2>2, <2>3, <2>4, <2>5
<1>7. e \in Bytes /\ Len(e) = k
  <2>1. \A i \in 1..k : e[i] \in 0..255
    BY <1>1, <1>4, <1>6
  <2> QED
    BY <1>1, <1>2, <2>1 DEF Bytes
<1>8. \A j \in 1..5 : EndsAt(e, j) <=> j = k
  <2> SUFFICES ASSUME NEW j \in 1..5 PROVE EndsAt(e, j) <=> j = k
    OBVIOUS
  <2>1. CASE j = k
    <3>1. \A l \in 1..(k - 1) : e[l] >= 128
      <4> SUFFICES ASSUME NEW l \in 1..(k - 1) PROVE e[l] >= 128
        OBVIOUS
      <4>1. l \in 1..k /\ l < k
        BY <1>1
      <4>2. e[l] \in 128..255
        BY <1>4, <4>1
      <4> QED
        BY <4>2
    <3>2. k <= Len(e)
      BY <1>1, <1>7
    <3>3. e[k] < 128
      BY <1>6
    <3> QED
      BY <2>1, <3>1, <3>2, <3>3 DEF EndsAt
  <2>2. CASE j < k
    <3>1. j \in 1..k
      BY <1>1, <2>2
    <3>2. e[j] \in 128..255
      BY <1>4, <2>2, <3>1
    <3>3. ~(e[j] < 128)
      BY <3>2
    <3> QED
      BY <1>1, <2>2, <3>3 DEF EndsAt
  <2>3. CASE j > k
    BY <1>1, <1>7, <2>3 DEF EndsAt
  <2> QED
    BY <1>1, <2>1, <2>2, <2>3
<1>9. Number(e, k) = n
  <2> DEFINE Rest(i) == n \div Weight[i]
  <2>1. Rest(1) = n
    BY Weights DEF Numbers
  <2>2. \A i \in 1..4 : Rest(i) \in Nat /\ Rest(i) = (Rest(i) % 128) + 128 * Rest(i + 1)
    <3>1. \A x \in Nat : \A w \in Nat \ {0} : x \div w \in Nat
      OBVIOUS
    <3>2. \A x \in Nat : x = (x % 128) + 128 * (x \div 128)
      OBVIOUS
    <3>3. /\ n \div 128 = n \div 128
          /\ n \div (128 * 128) = (n \div 128) \div 128
          /\ n \div (128 * 128 * 128) = (n \div (128 * 128)) \div 128
          /\ n \div (128 * 128 * 128 * 128) = (n \div (128 * 128 * 128)) \div 128
      BY DEF Numbers
    <3>4. \A i \in 1..4 : Rest(i + 1) = Rest(i) \div 128
      BY <2>1, <3>3, Weights
    <3>5. \A i \in 1..4 : Rest(i) \in Nat
      BY <1>3, <3>1 DEF Numbers
    <3> QED
      BY <3>2, <3>4, <3>5
  <2>3. \A i \in 1..5 : Rest(i) \in Nat
    BY <1>3 DEF Numbers
  <2>4. \A i \in 1..k : i < k => e[i] % 128 = Rest(i) % 128
    BY <1>4
  <2>5. e[k] % 128 = Rest(k)
    BY <1>5, <1>6
  <2> HIDE DEF Rest
  <2>6. CASE k = 1
    BY <2>1, <2>3, <2>5, <2>6, Weights DEF Number
  <2>7. CASE k = 2
    BY <2>1, <2>2, <2>3, <2>4, <2>5, <2>7, Weights DEF Number
  <2>8. CASE k = 3
    BY <2>1, <2>2, <2>3, <2>4, <2>5, <2>8, Weights DEF Number
  <2>9. CASE k = 4
    BY <2>1, <2>2, <2>3, <2>4, <2>5, <2>9, Weights DEF Number
  <2>10. CASE k = 5
    BY <2>1, <2>2, <2>3, <2>4, <2>5, <2>10, Weights DEF Number
  <2> QED BY <1>1, <2>6, <2>7, <2>8, <2>9, <2>10
<1> QED
  BY <1>7, <1>8, <1>9 DEF e, k

(* What is in front of something is read as if nothing came behind. *)
LEMMA InFront ==
  ASSUME NEW s \in Bytes, NEW rest \in Bytes
  PROVE  /\ s \o rest \in Bytes
         /\ Len(s \o rest) = Len(s) + Len(rest)
         /\ \A i \in 1..Len(s) : (s \o rest)[i] = s[i]
         /\ SubSeq(s \o rest, 1, Len(s)) = s
         /\ From(s \o rest, Len(s) + 1) = rest
<1>1. /\ s \o rest \in Bytes
      /\ Len(s \o rest) = Len(s) + Len(rest)
      /\ \A i \in 1..Len(s) : (s \o rest)[i] = s[i]
      /\ \A i \in 1..Len(rest) : (s \o rest)[Len(s) + i] = rest[i]
  BY DEF Bytes
<1>2. Len(s) \in Nat /\ Len(rest) \in Nat
  BY DEF Bytes
<1>3. SubSeq(s \o rest, 1, Len(s)) = s
  BY SubSeqProperties, <1>1, <1>2 DEF Bytes
<1>4. From(s \o rest, Len(s) + 1) = rest
  BY SubSeqProperties, <1>1, <1>2 DEF Bytes, From
<1> QED
  BY <1>1, <1>3, <1>4

(* A number is read back whatever its size and whatever comes behind it. *)
LEMMA NumbersSurvive ==
  ASSUME NEW n \in Numbers, NEW rest \in Bytes
  PROVE  TakeVarint(encodeVarint(n) \o rest) = {<<n, rest>>}
<1> DEFINE e == encodeVarint(n)  k == sov(n)  b == e \o rest
<1>1. /\ e \in Bytes /\ Len(e) = k /\ k \in 1..5
      /\ \A l \in 1..5 : EndsAt(e, l) <=> l = k
      /\ Number(e, k) = n
  BY Encoded, SovTells
<1>2. /\ b \in Bytes /\ Len(b) = k + Len(rest)
      /\ \A i \in 1..k : b[i] = e[i]
      /\ From(b, k + 1) = rest
  BY InFront, <1>1
<1> HIDE DEF e, k, b
<1>3. ASSUME NEW l \in 1..5 PROVE EndsAt(b, l) <=> l = k
  <2>1. Len(rest) \in Nat
    BY DEF Bytes
  <2>2. CASE l <= k
    <3>1. l <= Len(b) /\ l <= Len(e)
      BY <1>1, <1>2, <2>1, <2>2
    <3>2. \A i \in 1..l : b[i] = e[i]
      BY <1>1, <1>2, <2>2
    <3> QED
      BY <1>1, <3>1, <3>2 DEF EndsAt
  <2>3. CASE l > k
    <3>1. EndsAt(e, k)
      BY <1>1
    <3>2. e[k] < 128 /\ b[k] = e[k] /\ k \in 1..(l - 1)
      BY <1>1, <1>2, <2>3, <3>1 DEF EndsAt
    <3>3. e[k] \in 0..255
      BY <1>1 DEF Bytes
    <3>4. ~(b[k] >= 128)
      BY <3>2, <3>3
    <3> QED
      BY <1>1, <2>3, <3>2, <3>4 DEF EndsAt
  <2> QED
    BY <1>1, <2>2, <2>3
<1>4. Number(b, k) = Number(e, k)
  BY <1>1, <1>2 DEF Number
<1>5. {l \in 1..5 : EndsAt(b, l)} = {k}
  BY <1>1, <1>3
<1> QED
  BY <1>1, <1>2, <1>4, <1>5 DEF TakeVarint, e, b

(* Whatever is read with its length, or has a length of its own. *)
LEMMA BytesSurvive ==
  ASSUME NEW v \in Bytes, NEW rest \in Bytes
  PROVE  TakeBytes(Len(v), v \o rest) = {<<v, rest>>}
<1>1. Len(v) \in Nat /\ Len(rest) \in Nat
  BY DEF Bytes
<1>2. ~(Len(v) > Len(v \o rest))
  BY InFront, <1>1
<1> QED
  BY InFront, <1>2 DEF TakeBytes

LEMMA Taken ==
  ASSUME NEW b
  PROVE  /\ Take(0, b) = TakeVarint(b)
         /\ Take(1, b) = TakeBytes(8, b)
         /\ Take(5, b) = TakeBytes(4, b)
         /\ Take(2, b) = UNION {TakeBytes(l[1], l[2]) : l \in TakeVarint(b)}
BY DEF Take

LEMMA TakenWithLength ==
  ASSUME NEW b, NEW n, NEW after, TakeVarint(b) = {<<n, after>>}
  PROVE  Take(2, b) = TakeBytes(n, after)
<1>1. {TakeBytes(l[1], l[2]) : l \in {<<n, after>>}} = {TakeBytes(n, after)}
  OBVIOUS
<1>2. UNION {TakeBytes(n, after)} = TakeBytes(n, after)
  BY Zenon
<1> QED
  BY <1>1, <1>2, Taken

(* A value is read back whatever it is and whatever comes behind it, and   *)
(* takes the bytes that Size counts: no value is taken for the next one's  *)
(* key, nor the other way around (fuzzymonkey.pb.go, lines 8412-8420,      *)
(* 9671-9680 and the loops of Unmarshal).                                  *)
THEOREM ValuesSurvive ==
  ASSUME NEW rest \in Bytes
  PROVE  /\ \A n \in Numbers : /\ Take(0, encodeVarint(n) \o rest) = {<<n, rest>>}
                               /\ Len(encodeVarint(n)) = sov(n)
         /\ \A v \in Bytes : /\ Len(v) = 8 => Take(1, v \o rest) = {<<v, rest>>}
                             /\ Len(v) = 4 => Take(5, v \o rest) = {<<v, rest>>}
                             /\ Len(v) \in Numbers =>
                                  /\ Take(2, Delimited(v) \o rest) = {<<v, rest>>}
                                  /\ Len(Delimited(v)) = Len(v) + sov(Len(v))
<1>1. ASSUME NEW n \in Numbers
      PROVE  Take(0, encodeVarint(n) \o rest) = {<<n, rest>>} /\ Len(encodeVarint(n)) = sov(n)
  BY NumbersSurvive, Encoded, Taken
<1>2. ASSUME NEW v \in Bytes
      PROVE  /\ Len(v) = 8 => Take(1, v \o rest) = {<<v, rest>>}
             /\ Len(v) = 4 => Take(5, v \o rest) = {<<v, rest>>}
  <2>1. TakeBytes(Len(v), v \o rest) = {<<v, rest>>}
    BY BytesSurvive
  <2> QED
    BY <2>1, Taken
<1>3. ASSUME NEW v \in Bytes, Len(v) \in Numbers
      PROVE  /\ Take(2, Delimited(v) \o rest) = {<<v, rest>>}
             /\ Len(Delimited(v)) = Len(v) + sov(Len(v))
  <2> DEFINE e == encodeVarint(Len(v))
  <2>1. e \in Bytes /\ Len(e) = sov(Len(v)) /\ sov(Len(v)) \in 1..5
    BY <1>3, Encoded, SovTells
  <2>2. v \o rest \in Bytes /\ Len(v) \in Nat
    BY InFront DEF Bytes
  <2>3. Delimited(v) \o rest = e \o (v \o rest)
    BY <2>1, ConcatAssociative DEF Bytes, Delimited
  <2>4. TakeVarint(e \o (v \o rest)) = {<<Len(v), v \o rest>>}
    BY <1>3, <2>2, NumbersSurvive
  <2>5. TakeBytes(Len(v), v \o rest) = {<<v, rest>>}
    BY BytesSurvive
  <2>6. Len(Delimited(v)) = Len(v) + sov(Len(v))
    BY <2>1, <2>2, InFront DEF Delimited
  <2> HIDE DEF e
  <2>7. Take(2, e \o (v \o rest)) = {<<v, rest>>}
    BY <2>4, <2>5, TakenWithLength
  <2> QED
    BY <2>3, <2>6, <2>7
<1> QED
  BY <1>1, <1>2, <1>3

(* What follows a key, by its wire type, and a field: its key, with its    *)
(* number and that type in it, then what follows.                          *)
WireTypes == {0, 1, 2, 5}
Fits(wireType, v) ==
  CASE wireType = 0 -> v \in Numbers
    [] wireType = 1 -> v \in Bytes /\ Len(v) = 8
    [] wireType = 2 -> v \in Bytes /\ Len(v) \in Numbers
    [] wireType = 5 -> v \in Bytes /\ Len(v) = 4
ValueBytes(wireType, v) ==
  CASE wireType = 0 -> encodeVarint(v)
    [] wireType = 2 -> Delimited(v)
    [] OTHER        -> v
FieldBytes(fieldNum, wireType, v) ==
  encodeVarint(8 * fieldNum + wireType) \o ValueBytes(wireType, v)

(* In front of anything, a field is read as just what was written: its     *)
(* number, its wire type, its value, and what comes behind it is what the  *)
(* loop of Unmarshal, or skipFuzzymonkey, looks at next.  So any number of *)
(* fields one behind the other, as MarshalTo writes them, are read one     *)
(* after the other.                                                        *)
THEOREM FieldsSurvive ==
  ASSUME NEW fieldNum \in Nat, NEW wireType \in WireTypes, 8 * fieldNum + wireType \in Numbers,
         NEW v, Fits(wireType, v), NEW rest \in Bytes
  PROVE  /\ FieldBytes(fieldNum, wireType, v) \o rest \in Bytes
         /\ \E key : /\ TakeVarint(FieldBytes(fieldNum, wireType, v) \o rest) = {key}
                     /\ key[1] \div 8 = fieldNum
                     /\ key[1] % 8 = wireType
                     /\ Take(wireType, key[2]) = {<<v, rest>>}
<1> DEFINE n == 8 * fieldNum + wireType
           w == ValueBytes(wireType, v)
<1>1. w \in Bytes /\ Take(wireType, w \o rest) = {<<v, rest>>}
  <2>1. CASE wireType = 0
    <3>1. v \in Numbers /\ w = encodeVarint(v)
      BY <2>1 DEF Fits, ValueBytes
    <3>2. encodeVarint(v) \in Bytes
      BY <3>1, Encoded
    <3> QED
      BY <2>1, <3>1, <3>2, ValuesSurvive
  <2>2. CASE wireType = 1
    <3>1. v \in Bytes /\ Len(v) = 8 /\ w = v
      BY <2>2 DEF Fits, ValueBytes
    <3> QED
      BY <2>2, <3>1, ValuesSurvive
  <2>3. CASE wireType = 2
    <3>1. v \in Bytes /\ Len(v) \in Numbers /\ w = Delimited(v)
      BY <2>3 DEF Fits, ValueBytes
    <3>2. encodeVarint(Len(v)) \in Bytes
      BY <3>1, Encoded
    <3>3. Delimited(v) \in Bytes
      BY <3>1, <3>2, InFront DEF Delimited
    <3> QED
      BY <2>3, <3>1, <3>3, ValuesSurvive
  <2>4. CASE wireType = 5
    <3>1. v \in Bytes /\ Len(v) = 4 /\ w = v
      BY <2>4 DEF Fits, ValueBytes
    <3> QED
      BY <2>4, <3>1, ValuesSurvive
  <2> QED
    BY <2>1, <2>2, <2>3, <2>4 DEF WireTypes
<1>2. encodeVarint(n) \in Bytes
  BY Encoded
<1>3. w \o rest \in Bytes /\ encodeVarint(n) \o (w \o rest) \in Bytes
  BY <1>1, <1>2, InFront
<1>4. FieldBytes(fieldNum, wireType, v) \o rest = encodeVarint(n) \o (w \o rest)
  BY <1>1, <1>2, ConcatAssociative DEF Bytes, FieldBytes
<1>5. TakeVarint(encodeVarint(n) \o (w \o rest)) = {<<n, w \o rest>>}
  BY <1>3, NumbersSurvive
<1>6. n \div 8 = fieldNum /\ n % 8 = wireType
  BY DEF WireTypes
<1> DEFINE key == <<n, w \o rest>>
<1>7. /\ TakeVarint(FieldBytes(fieldNum, wireType, v) \o rest) = {key}
      /\ key[1] = n
      /\ key[2] = w \o rest
  BY <1>4, <1>5
<1> HIDE DEF n, w, key
<1> QED
  BY <1>1, <1>3, <1>4, <1>6, <1>7

(* The beginning of a sequence of bytes. *)
LEMMA Beginning ==
  ASSUME NEW s \in Bytes, NEW j \in Nat, j < Len(s)
  PROVE  /\ SubSeq(s, 1, j) \in Bytes
         /\ Len(SubSeq(s, 1, j)) <= j /\ j <= Len(SubSeq(s, 1, j))
         /\ \A i \in 1..j : SubSeq(s, 1, j)[i] = s[i]
<1>1. Len(s) \in Nat
  BY DEF Bytes
<1> QED
  <2> DEFINE p == SubSeq(s, 1, j)
  <2>1. \A i \in 1..j : s[i] \in 0..255
    <3>1. \A i \in 1..j : i \in 1..Len(s)
      BY <1>1
    <3> QED
      BY <3>1, ElementOfSeq DEF Bytes
  <2>2. /\ p \in Bytes
        /\ Len(p) = IF 1 <= j THEN j - 1 + 1 ELSE 0
        /\ \A i \in 1..(j - 1 + 1) : p[i] = s[1 + i - 1]
    BY SubSeqProperties, <2>1 DEF Bytes
  <2> HIDE DEF p
  <2> QED
    BY <2>2 DEF p

LEMMA JoinProperties ==
  ASSUME NEW s \in Bytes, NEW t \in Bytes
  PROVE  /\ s \o t \in Bytes
         /\ Len(s \o t) = Len(s) + Len(t)
         /\ \A i \in 1..Len(s) : (s \o t)[i] = s[i]
         /\ \A i \in 1..Len(t) : (s \o t)[Len(s) + i] = t[i]
BY DEF Bytes

LEMMA BeginningOfTwo ==
  ASSUME NEW s \in Bytes, NEW t \in Bytes, NEW k \in Nat, Len(s) = k,
         NEW j \in Nat, k <= j, j < k + Len(t)
  PROVE  SubSeq(s \o t, 1, j) = s \o SubSeq(t, 1, j - k)
<1> DEFINE p == SubSeq(s \o t, 1, j)  r == SubSeq(t, 1, j - k)
<1>1. Len(s) \in Nat /\ Len(t) \in Nat
  BY DEF Bytes
<1>2. /\ s \o t \in Bytes
      /\ Len(s \o t) = Len(s) + Len(t)
      /\ \A i \in 1..Len(s) : (s \o t)[i] = s[i]
      /\ \A i \in 1..Len(t) : (s \o t)[Len(s) + i] = t[i]
  BY JoinProperties
<1>3. /\ p \in Bytes
      /\ Len(p) <= j /\ j <= Len(p)
      /\ \A i \in 1..j : p[i] = (s \o t)[i]
  BY <1>1, <1>2, Beginning
<1>4. /\ r \in Bytes
      /\ Len(r) <= j - k /\ j - k <= Len(r)
      /\ \A i \in 1..(j - k) : r[i] = t[i]
  BY <1>1, Beginning
<1>5. /\ s \o r \in Bytes
      /\ Len(s \o r) = Len(s) + Len(r)
      /\ \A i \in 1..Len(s) : (s \o r)[i] = s[i]
      /\ \A i \in 1..Len(r) : (s \o r)[Len(s) + i] = r[i]
  BY <1>4, JoinProperties
<1>6. Len(p) \in Nat /\ Len(r) \in Nat
  BY <1>3, <1>4 DEF Bytes
<1> HIDE DEF p, r
<1>7. Len(p) = Len(s \o r)
  BY <1>1, <1>3, <1>4, <1>5, <1>6
<1>8. ASSUME NEW i \in 1..Len(p) PROVE p[i] = (s \o r)[i]
  <2>1. i \in 1..j
    BY <1>3, <1>6
  <2>2. CASE i <= k
    BY <1>1, <1>2, <1>3, <1>5, <2>1, <2>2
  <2>3. CASE i > k
    <3>1. i - k \in 1..(j - k) /\ k + (i - k) = i
      BY <2>1, <2>3
    <3>2. i - k \in 1..Len(t) /\ i - k \in 1..Len(r)
      BY <1>1, <1>4, <1>6, <3>1
    <3> QED
      BY <1>2, <1>3, <1>4, <1>5, <2>1, <3>1, <3>2
  <2> QED
    <3>1. i <= k \/ i > k
      BY <2>1
    <3> QED
      BY <2>2, <2>3, <3>1, Zenon
<1> QED
  BY <1>3, <1>5, <1>7, <1>8, SeqEqual DEF Bytes, p, r

(* A value that is cut short is never taken for another: it is refused     *)
(* (io.ErrUnexpectedEOF).                                                  *)
THEOREM TruncatedIsRefused ==
  /\ \A n \in Numbers : \A j \in 0..(Len(encodeVarint(n)) - 1) :
       Take(0, SubSeq(encodeVarint(n), 1, j)) = {}
  /\ \A v \in Bytes : Len(v) \in Numbers =>
       \A j \in 0..(Len(Delimited(v)) - 1) : Take(2, SubSeq(Delimited(v), 1, j)) = {}
<1>1. ASSUME NEW n \in Numbers, NEW rest \in Bytes, NEW j \in Nat, j < sov(n)
      PROVE  TakeVarint(SubSeq(encodeVarint(n) \o rest, 1, j)) = {}
  <2> DEFINE e == encodeVarint(n)  k == sov(n)  b == e \o rest  p == SubSeq(b, 1, j)
  <2>1. /\ e \in Bytes /\ Len(e) = k /\ k \in 1..5
        /\ \A l \in 1..5 : EndsAt(e, l) <=> l = k
    BY Encoded, SovTells
  <2>2. /\ b \in Bytes /\ Len(b) = k + Len(rest)
        /\ \A i \in 1..k : b[i] = e[i]
    BY InFront, <2>1
  <2>3. Len(rest) \in Nat
    BY DEF Bytes
  <2>4. Len(p) <= j /\ \A i \in 1..j : p[i] = b[i]
    <3>1. j < Len(b)
      BY <1>1, <2>1, <2>2, <2>3
    <3> QED
      BY <2>2, <3>1, Beginning
  <2>5. Len(p) \in Nat
    <3>1. j < Len(b)
      BY <1>1, <2>1, <2>2, <2>3
    <3>2. p \in Bytes
      BY <2>2, <3>1, Beginning
    <3> QED
      BY <3>2 DEF Bytes
  <2> HIDE DEF e, k, b, p
  <2>6. ASSUME NEW l \in 1..5, EndsAt(p, l) PROVE FALSE
    <3>1. l <= j
      BY <2>4, <2>5, <2>6 DEF EndsAt
    <3>2. j < k
      BY <1>1 DEF k
    <3>3. \A i \in 1..l : p[i] = e[i]
      BY <2>1, <2>2, <2>4, <3>1, <3>2
    <3>4. l <= Len(e)
      BY <2>1, <3>1, <3>2
    <3>5. EndsAt(e, l)
      BY <2>6, <3>3, <3>4 DEF EndsAt
    <3> QED
      BY <2>1, <3>1, <3>2, <3>5
  <2>7. TakeVarint(p) = {}
    BY <2>6 DEF TakeVarint
  <2> QED
    BY <2>7 DEF p, b, e
<1>2. ASSUME NEW n \in Numbers, NEW j \in 0..(Len(encodeVarint(n)) - 1)
      PROVE  Take(0, SubSeq(encodeVarint(n), 1, j)) = {}
  <2>1. encodeVarint(n) \in Bytes /\ Len(encodeVarint(n)) = sov(n) /\ sov(n) \in 1..5
    BY Encoded, SovTells
  <2>2. <<>> \in Bytes /\ encodeVarint(n) \o <<>> = encodeVarint(n)
    BY <2>1, ConcatEmptySeq DEF Bytes
  <2>3. j \in Nat /\ j < sov(n)
    BY <2>1
  <2>4. TakeVarint(SubSeq(encodeVarint(n) \o <<>>, 1, j)) = {}
    BY <1>1, <2>2, <2>3
  <2> QED
    BY <2>2, <2>4 DEF Take
<1>3. ASSUME NEW v \in Bytes, Len(v) \in Numbers, NEW j \in 0..(Len(Delimited(v)) - 1)
      PROVE  Take(2, SubSeq(Delimited(v), 1, j)) = {}
  <2> DEFINE e == encodeVarint(Len(v))  k == sov(Len(v))  p == SubSeq(Delimited(v), 1, j)
  <2>1. e \in Bytes /\ Len(e) = k /\ k \in 1..5 /\ Len(v) \in Nat
    BY <1>3, Encoded, SovTells DEF Bytes
  <2>2. /\ Delimited(v) = e \o v
        /\ Delimited(v) \in Bytes
        /\ Len(Delimited(v)) = k + Len(v)
        /\ \A i \in 1..k : Delimited(v)[i] = e[i]
    BY InFront, <2>1 DEF Delimited
  <2>3. j \in Nat /\ j < k + Len(v)
    BY <2>1, <2>2
  <2>4. Take(2, p) = UNION {TakeBytes(l[1], l[2]) : l \in TakeVarint(p)}
    BY DEF Take
  <2>5. CASE j < k
    <3>1. TakeVarint(p) = {}
      BY <1>1, <1>3, <2>2, <2>3, <2>5
    <3> QED
      BY <2>4, <3>1
  <2>6. CASE j >= k
    <3> DEFINE r == SubSeq(v, 1, j - k)
    <3>1. r \in Bytes /\ Len(r) <= j - k
      BY <2>1, <2>3, <2>6, Beginning
    <3>2. p = e \o r
      <4>1. k \in Nat /\ k <= j /\ j < k + Len(v)
        BY <2>1, <2>3, <2>6
      <4> HIDE DEF e, k
      <4>2. SubSeq(e \o v, 1, j) = e \o SubSeq(v, 1, j - k)
        BY <2>1, <2>3, <4>1, BeginningOfTwo
      <4> QED
        BY <2>2, <4>2
    <3>3. TakeVarint(p) = {<<Len(v), r>>}
      BY <1>3, <3>1, <3>2, NumbersSurvive
    <3>4. TakeBytes(Len(v), r) = {}
      <4>1. Len(r) \in Nat
        BY <3>1 DEF Bytes
      <4>2. Len(v) > Len(r)
        BY <2>1, <2>3, <2>6, <3>1, <4>1
      <4> QED
        BY <4>2 DEF TakeBytes
    <3>5. Take(2, p) = TakeBytes(Len(v), r)
      BY <3>3, TakenWithLength
    <3> QED
      BY <3>4, <3>5
  <2> QED
    BY <2>1, <2>3, <2>5, <2>6
<1> QED
  BY <1>2, <1>3
===============================================================================
