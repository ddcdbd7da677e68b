---------------------------- MODULE MCJsonPath ----------------------------
(***************************************************************************)
(* Instance of JsonPath for TLC: documents of up to two levels, paths of   *)
(* up to three segments, an int of three bits, so that 8 is an index that  *)
(* does not fit and 40 an unsigned integer that does not fit in twice the  *)
(* bits.                                                                   *)
(***************************************************************************)
EXTENDS JsonPath, TLC

CONSTANTS
  nA, nB,                                               \* names
  tEmpty, tNull, tTrue, tUS, tArray, tObject, tWrapped  \* texts

MCSegments == {nA, nB, 0, 1, 8}
MCPath     == UNION {[1 .. n -> MCSegments] : n \in 1 .. 3}
MCText     == {tEmpty, tNull, tTrue, tUS, tArray, tObject, tWrapped}
MCTypeText == ("null" :> tNull) @@ ("true" :> tTrue)
              @@ ("array" :> tArray) @@ ("object" :> tObject)
MCDecimal  == (-24 :> tWrapped)

Leaf == {[type |-> "null"], [type |-> "string", text |-> tUS], [type |-> "integer", n |-> 40]}

Object(Member, Names) == [type : {"object"}, members : [Names -> Member]]
Array(Item, size)     == [type : {"array"}, items : [1 .. size -> Item]]

Shallow == Leaf \cup {[type |-> "true"]}
           \cup Object(Leaf, {nA}) \cup Object(Leaf, {nA, nB}) \cup Object(Leaf, {1})
           \cup UNION {Array(Leaf, size) : size \in 0 .. 2}

MCDocuments == Shallow \cup Object(Shallow, {nA}) \cup Object(Shallow, {1})
               \cup Array(Shallow, 1)
               \cup {[type |-> "array", items |-> <<[type |-> "null"], v>>] : v \in Shallow}
MCValues    == MCDocuments \cup Shallow
=============================================================================
