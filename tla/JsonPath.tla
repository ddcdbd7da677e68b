------------------------------ MODULE JsonPath ------------------------------
(***************************************************************************)
(* GetValueFromPath (NA_Plugin_IPFiltering.cpp, lines 402-428): the walk   *)
(* through a parsed response along the segments of a filter's path, and    *)
(* GetValueString (377-400), the text of the value it stops at.            *)
(*                                                                         *)
(* A JSON value is a record with a type; an object maps the names it has   *)
(* to values, an array is a sequence of values.  A segment that consists   *)
(* of digits is the number it denotes, as a segment and as a name.         *)
(***************************************************************************)
EXTENDS Integers, Sequences, FilterEval

CONSTANTS
  Documents, \* parsed responses
  Values,    \* the documents and all values in them
  Segments,  \* segments of a path: numbers, and names
  EmptyText, \* the empty text
  TypeText,  \* type -> the text of values of a type that has one text
  Decimal,   \* integer -> its decimal text
  Width      \* bits of an int; a 64-bit integer has twice as many

ASSUME JsonAssumption ==
  /\ Path \subseteq Seq(Segments) \ {<<>>}
  /\ EmptyText \in Text \ {NullText}
  /\ TypeText["null"] = NullText
  /\ Width \in Nat \ {0}
  /\ Documents \subseteq Values

VARIABLES
  InDoc,  \* the document
  Parts,  \* the path, split into its segments
  next,   \* index of the next segment
  CurVal, \* the value the walk has come to
  value   \* "none" until the walk ends; then a text, or "down" with the process

vars == <<InDoc, Parts, next, CurVal, value>>

Containers == {"object", "array"}
Types      == Containers \cup {"null", "true", "false", "string", "integer", "double"}

\* GetInt64 reads an unsigned 64-bit integer as a signed one.
AsInt64(n) == IF n >= 2 ^ (2 * Width - 1) THEN n - 2 ^ (2 * Width) ELSE n

GetValueString(v) ==
  IF v.type \in {"string", "double"} THEN v.text
  ELSE IF v.type = "integer" THEN Decimal[AsInt64(v.n)]
  ELSE TypeText[v.type]

\* What rapidjson makes of a text: every member and every element is a value.
ASSUME ValuesAssumption ==
  \A v \in Values :
    /\ v.type \in Types
    /\ v.type = "object" => \A name \in DOMAIN v.members : v.members[name] \in Values
    /\ v.type = "array" => v.items \in Seq(Values)
    /\ GetValueString(v) \in Text

Init ==
  /\ InDoc \in Documents
  /\ Parts \in Path
  /\ next = 1
  /\ CurVal = InDoc
  /\ value = "none"

\* Mutant of PathUsedUp: the last segment is not looked at.
OneSegmentLeft == next >= Len(Parts)

PathUsedUp == next > Len(Parts)

\* The walk goes on: there is a segment, and a value that may have members.
Walking ==
  /\ value = "none"
  /\ ~PathUsedUp
  /\ CurVal.type \in Containers

Segment == Parts[next]

\* The path is used up, or a value without members ends it early.
Arrive ==
  /\ value = "none"
  /\ (PathUsedUp \/ CurVal.type \notin Containers)
  /\ value' = GetValueString(CurVal)
  /\ UNCHANGED <<InDoc, Parts, next, CurVal>>

\* The low bits of a number, as an int.
Wrapped(m) == IF m < 2 ^ (Width - 1) THEN m ELSE m - 2 ^ Width

\* sscanf of digits into an int is undefined beyond its range: the C library may
\* drop the upper bits or take the largest int.
Indexes(n) ==
  IF n < 2 ^ (Width - 1) THEN {n}
  ELSE {2 ^ (Width - 1) - 1, Wrapped(n % (2 ^ Width))}

\* Mutant of InRange: one element too many.
InRangeOrNext(i, size) == i \in 0 .. size

\* The comparison is unsigned, so that a negative index is out of range.
InRange(i, size) == i \in 0 .. size - 1

\* Beyond the elements lies memory of something else.
ItemAt(items, i) == IF i < Len(items) THEN items[i + 1] ELSE [type |-> "garbage"]

IntoElement ==
  /\ Walking
  /\ CurVal.type = "array"
  /\ Segment \in Nat
  /\ \E i \in Indexes(Segment) :
       /\ InRange(i, Len(CurVal.items))
       /\ CurVal' = ItemAt(CurVal.items, i)
  /\ next' = next + 1
  /\ UNCHANGED <<InDoc, Parts, value>>

NoElement ==
  /\ Walking
  /\ CurVal.type = "array"
  /\ Segment \in Nat
  /\ \E i \in Indexes(Segment) : ~InRange(i, Len(CurVal.items))
  /\ value' = EmptyText
  /\ UNCHANGED <<InDoc, Parts, next, CurVal>>

IntoMember ==
  /\ Walking
  /\ CurVal.type = "object"
  /\ Segment \notin Nat
  /\ Segment \in DOMAIN CurVal.members
  /\ CurVal' = CurVal.members[Segment]
  /\ next' = next + 1
  /\ UNCHANGED <<InDoc, Parts, value>>

\* Mutant of Absent: the walk ends with the value it has come to.
AbsentIsHere == GetValueString(CurVal)

Absent == EmptyText

NoMember ==
  /\ Walking
  /\ CurVal.type = "object"
  /\ Segment \notin Nat
  /\ Segment \notin DOMAIN CurVal.members
  /\ value' = Absent
  /\ UNCHANGED <<InDoc, Parts, next, CurVal>>

\* Digits are taken for an index whatever the value is, and anything else for a name:
\* an object is read as an array, or an array as an object, which the JSON library
\* forbids.  The walk ends with any text, or the process does.
Misread ==
  /\ Walking
  /\ (CurVal.type = "array") # (Segment \in Nat)
  /\ value' \in Text \cup {"down"}
  /\ UNCHANGED <<InDoc, Parts, next, CurVal>>

Next ==
  \/ Arrive \/ IntoElement \/ NoElement \/ IntoMember \/ NoMember \/ Misread
  \/ value # "none" /\ UNCHANGED vars

Spec == Init /\ [][Next]_vars

-----------------------------------------------------------------------------
(* Reference definition.                                                   *)

\* The member or element of v that a segment denotes: at most one.
Children(v, segment) ==
  IF v.type = "object" /\ segment \in DOMAIN v.members THEN {v.members[segment]}
  ELSE IF v.type = "array" /\ segment \in Nat /\ segment < Len(v.items)
       THEN {v.items[segment + 1]} ELSE {}

\* What the first n segments of a path denote in a document.
Denotation(doc, path) ==
  LET d[n \in 0 .. Len(path)] ==
        IF n = 0 THEN {doc} ELSE UNION {Children(v, path[n]) : v \in d[n - 1]}
  IN  d

Denoted == Denotation(InDoc, Parts)

Present(n) == Denoted[n] # {}
Here(n)    == CHOOSE v \in Denoted[n] : TRUE

\* The n-th segment addresses an array by a number that fits, or an object by a name.
Addressed(n) ==
  Present(n - 1) /\ Here(n - 1).type \in Containers =>
    IF Here(n - 1).type = "array" THEN Parts[n] \in Nat /\ Parts[n] < 2 ^ (Width - 1)
    ELSE Parts[n] \notin Nat

WellAddressed == \A n \in DOMAIN Parts : Addressed(n)

-----------------------------------------------------------------------------
(* Properties.                                                             *)

\* The variables have their types; CurVal, found by pointer arithmetic, is a JSON value.
TypeOK ==
  /\ InDoc \in Documents
  /\ CurVal \in Values
  /\ Parts \in Path
  /\ next \in 1 .. Len(Parts) + 1
  /\ value \in Text \cup {"none", "down"}

\* A value the path denotes is the one whose text the filter gets, however deep it
\* lies and whatever objects and arrays are on the way.
PresentIsFound ==
  value # "none" /\ WellAddressed /\ Present(Len(Parts))
    => value = GetValueString(Here(Len(Parts)))

\* The path leads through objects and arrays only, to a member or element that is not there.
Missing ==
  /\ WellAddressed
  /\ ~Present(Len(Parts))
  /\ \A n \in 0 .. Len(Parts) : Present(n) => Here(n).type \in Containers

\* A filter that allows certain values, the empty text not among them, denies an answer in
\* which its path leads to a missing member or element.
AbsentIsDenied ==
  value # "none" /\ Missing =>
    \A allowed \in (SUBSET (Text \ {EmptyText})) \ {{}} :
      ~Permits([Path |-> Parts, AllowOnly |-> allowed, AllowNone |-> {}], value)
=============================================================================
