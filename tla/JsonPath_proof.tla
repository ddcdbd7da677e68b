--------------------------- MODULE JsonPath_proof ---------------------------
(***************************************************************************)
(* Proofs about JsonPath: the walk stays among JSON values, and it finds   *)
(* what the path denotes, for documents and paths of any depth.            *)
(***************************************************************************)
EXTENDS JsonPath, TLAPS, WellFoundedInduction

-----------------------------------------------------------------------------
(* Induction over a set of natural numbers.                                *)

Below == {ss \in Nat \X Nat : ss[1] < ss[2]}

LEMMA BelowIsWellFounded == IsWellFoundedOn(Below, Nat)
<1>1. Below = OpToRel(<, Nat)
  BY Zenon DEF Below, OpToRel
<1> QED
  BY <1>1, NatLessThanWellFounded, Zenon

LEMMA EveryNumber ==
  ASSUME NEW S, 0 \in S, \A n \in Nat : n \in S => n + 1 \in S
  PROVE  Nat \subseteq S
<1> DEFINE T == Nat \ S
<1> SUFFICES ASSUME T # {} PROVE FALSE
  OBVIOUS
<1>1. PICK x \in T : \A y \in T : ~(<<y, x>> \in Below)
  <2>1. T \subseteq Nat
    OBVIOUS
  <2> HIDE DEF T
  <2> QED
    BY <2>1, BelowIsWellFounded, WFMin
<1>2. x \in Nat /\ x # 0
  OBVIOUS
<1>3. x - 1 \in Nat /\ x - 1 < x /\ (x - 1) + 1 = x
  BY <1>2
<1>4. <<x - 1, x>> \in Below
  BY <1>2, <1>3 DEF Below
<1>5. x - 1 \in S
  BY <1>1, <1>3, <1>4
<1> QED
  BY <1>1, <1>3, <1>5

-----------------------------------------------------------------------------
(* What the reference definition computes.                                 *)

\* g is the table of Denoted up to m.
Step(g, n) == UNION {Children(v, Parts[n]) : v \in g[n - 1]}
Table(g, m) == g = [n \in 0 .. m |-> IF n = 0 THEN {InDoc} ELSE Step(g, n)]

\* A table can be made as long as one likes.
LEMMA TablesExist == \A m \in Nat : \E g : Table(g, m)
<1> DEFINE S == {m \in Nat : \E g : Table(g, m)}
<1>1. 0 \in S
  <2>1. Table([n \in 0 .. 0 |-> {InDoc}], 0)
    BY DEF Table
  <2> QED
    BY <2>1
<1>2. ASSUME NEW m \in Nat, m \in S PROVE m + 1 \in S
  <2>1. PICK g : Table(g, m)
    BY <1>2
  <2> DEFINE h == [n \in 0 .. m + 1 |-> IF n <= m THEN g[n] ELSE Step(g, m + 1)]
  <2>2. \A n \in 0 .. m : h[n] = g[n]
    OBVIOUS
  <2>3. h[0] = {InDoc}
    BY <2>1, <2>2 DEF Table
  <2>4. ASSUME NEW n \in 1 .. m PROVE h[n] = Step(h, n)
    <3>1. n \in 0 .. m /\ n - 1 \in 0 .. m /\ n # 0
      OBVIOUS
    <3>2. g[n] = Step(g, n)
      BY <2>1, <3>1 DEF Table
    <3>3. h[n] = g[n] /\ h[n - 1] = g[n - 1]
      BY <2>2, <3>1
    <3> HIDE DEF h
    <3> QED
      BY <3>2, <3>3 DEF Step
  <2>5. h[m + 1] = Step(h, m + 1)
    <3>1. h[m + 1] = Step(g, m + 1) /\ h[(m + 1) - 1] = g[(m + 1) - 1]
      BY <2>2
    <3> HIDE DEF h
    <3> QED
      BY <3>1 DEF Step
  <2>6. Table(h, m + 1)
    <3>1. \A n \in 0 .. m + 1 : h[n] = IF n = 0 THEN {InDoc} ELSE Step(h, n)
      <4>1. \A n \in 0 .. m + 1 : n = 0 \/ n \in 1 .. m \/ n = m + 1
        OBVIOUS
      <4>2. m + 1 # 0 /\ \A n \in 1 .. m : n # 0
        OBVIOUS
      <4> HIDE DEF h
      <4> QED
        BY <2>3, <2>4, <2>5, <4>1, <4>2
    <3>2. h = [n \in 0 .. m + 1 |-> h[n]]
      OBVIOUS
    <3> HIDE DEF h
    <3> QED
      BY <3>1, <3>2 DEF Table
  <2> QED
    BY <2>6
<1>3. Nat \subseteq S
  <2> HIDE DEF S
  <2> QED
    BY <1>1, <1>2, EveryNumber
<1> QED
  BY <1>3

LEMMA DenotedIs ==
  ASSUME Parts \in Path
  PROVE  /\ Denoted[0] = {InDoc}
         /\ \A n \in 1 .. Len(Parts) : Denoted[n] = Step(Denoted, n)
<1>1. Len(Parts) \in Nat
  BY JsonAssumption
<1>2. PICK g : Table(g, Len(Parts))
  BY <1>1, TablesExist
<1>3. Table(Denoted, Len(Parts))
  BY <1>2 DEF Denoted, Denotation, Table, Step
<1>4. \A n \in 0 .. Len(Parts) : Denoted[n] = IF n = 0 THEN {InDoc} ELSE Step(Denoted, n)
  <2> SUFFICES ASSUME NEW d, Table(d, Len(Parts)), NEW n \in 0 .. Len(Parts)
               PROVE  d[n] = IF n = 0 THEN {InDoc} ELSE Step(d, n)
    BY <1>3, Zenon
  <2> QED
    BY DEF Table
<1>5. 0 \in 0 .. Len(Parts) /\ \A n \in 1 .. Len(Parts) : n \in 0 .. Len(Parts) /\ n # 0
  BY <1>1
<1> QED
  BY <1>4, <1>5, Zenon

\* Where nothing is denoted, nothing is denoted further on.
LEMMA EmptyStays ==
  ASSUME Parts \in Path, NEW m \in 0 .. Len(Parts), Denoted[m] = {}
  PROVE  \A n \in m .. Len(Parts) : Denoted[n] = {}
<1>1. Len(Parts) \in Nat
  BY JsonAssumption
<1>2. \A n \in 1 .. Len(Parts) : Denoted[n] = Step(Denoted, n)
  BY DenotedIs
<1> SUFFICES ASSUME NEW d, \A n \in 1 .. Len(Parts) : d[n] = Step(d, n), d[m] = {}
             PROVE  \A n \in m .. Len(Parts) : d[n] = {}
  BY <1>2, Zenon
<1> DEFINE S == {k \in Nat : m + k <= Len(Parts) => d[m + k] = {}}
<1>3. 0 \in S
  BY <1>1
<1>4. ASSUME NEW k \in Nat, k \in S PROVE k + 1 \in S
  <2>1. SUFFICES ASSUME m + (k + 1) <= Len(Parts) PROVE d[m + (k + 1)] = {}
    OBVIOUS
  <2>2. d[m + k] = {} /\ m + (k + 1) \in 1 .. Len(Parts) /\ (m + (k + 1)) - 1 = m + k
    BY <1>1, <1>4, <2>1
  <2> QED
    BY <2>2 DEF Step
<1>5. Nat \subseteq S
  <2> HIDE DEF S
  <2> QED
    BY <1>3, <1>4, EveryNumber
<1>6. ASSUME NEW n \in m .. Len(Parts) PROVE d[n] = {}
  <2>1. n - m \in Nat /\ m + (n - m) = n /\ n <= Len(Parts)
    BY <1>1
  <2>2. n - m \in S
    BY <1>5, <2>1
  <2> QED
    BY <2>1, <2>2
<1> QED
  BY <1>6

\* The reference definitions depend on the document and the path only, which never change.
LEMMA DenotedStays ==
  ASSUME UNCHANGED <<InDoc, Parts>>
  PROVE  Denoted' = Denoted /\ WellAddressed' = WellAddressed
<1>1. Denoted' = Denoted
  BY Zenon DEF Denoted
<1>2. \A n : Present(n)' = Present(n) /\ Here(n)' = Here(n)
  BY <1>1, Zenon DEF Present, Here
<1> QED
  BY <1>1, <1>2 DEF WellAddressed, Addressed

-----------------------------------------------------------------------------
(* The inductive invariant.                                                *)

\* The walk has come to what the segments before the next one denote.
Walked == WellAddressed => Denoted[next - 1] = {CurVal}

\* It has ended at the value whose text it gives, or where the next segment denotes nothing.
Ended ==
  value # "none" /\ WellAddressed =>
    \/ (PathUsedUp \/ CurVal.type \notin Containers) /\ value = GetValueString(CurVal)
    \/ ~PathUsedUp /\ CurVal.type \in Containers /\ value = EmptyText /\ Denoted[next] = {}

IInv == TypeOK /\ Walked /\ Ended

\* On a path that addresses every value as its type demands, the reference definition follows
\* the walk: it denotes the current value, and then the child of that value, if it has one.
LEMMA Following ==
  ASSUME TypeOK, Walked, WellAddressed
  PROVE  /\ next - 1 \in 0 .. Len(Parts)
         /\ Denoted[next - 1] = {CurVal}
         /\ Present(next - 1) /\ Here(next - 1) = CurVal
<1>1. next - 1 \in 0 .. Len(Parts)
  BY JsonAssumption DEF TypeOK
<1>2. Denoted[next - 1] = {CurVal}
  BY DEF Walked
<1> QED
  BY <1>1, <1>2 DEF Present, Here

LEMMA Onward ==
  ASSUME TypeOK, Walked, WellAddressed, Walking
  PROVE  /\ next \in DOMAIN Parts
         /\ Denoted[next] = Children(CurVal, Segment)
         /\ IF CurVal.type = "array" THEN Segment \in Nat /\ Indexes(Segment) = {Segment}
            ELSE Segment \notin Nat
<1>1. next \in 1 .. Len(Parts) /\ next \in DOMAIN Parts
  BY JsonAssumption DEF TypeOK, Walking, PathUsedUp
<1>2. Denoted[next] = Step(Denoted, next)
  BY <1>1, DenotedIs DEF TypeOK
<1>3. Denoted[next] = Children(CurVal, Segment)
  BY <1>2, Following DEF Step, Segment
<1>4. Addressed(next)
  BY <1>1 DEF WellAddressed
<1>5. IF CurVal.type = "array" THEN Segment \in Nat /\ Segment < 2 ^ (Width - 1)
      ELSE Segment \notin Nat
  BY <1>4, Following DEF Addressed, Segment, Walking
<1> QED
  BY <1>1, <1>3, <1>5 DEF Indexes

\* A walk keeps its document and path; what it comes to may be looked at by itself.
LEMMA WalkTyped ==
  ASSUME TypeOK, Next
  PROVE  TypeOK'
<1> USE DEF TypeOK
<1>1. CASE Arrive
  BY <1>1, ValuesAssumption DEF Arrive
<1>2. CASE IntoElement
  <2>1. PICK i \in Indexes(Segment) :
          InRange(i, Len(CurVal.items)) /\ CurVal' = ItemAt(CurVal.items, i)
    BY <1>2 DEF IntoElement
  <2>2. CurVal.items \in Seq(Values)
    BY <1>2, ValuesAssumption DEF IntoElement
  <2>3. CurVal' \in Values
    BY <2>1, <2>2 DEF InRange, ItemAt
  <2>4. next' \in 1 .. Len(Parts) + 1
    BY <1>2, JsonAssumption DEF IntoElement, Walking, PathUsedUp
  <2> QED
    BY <1>2, <2>3, <2>4 DEF IntoElement
<1>3. CASE NoElement
  BY <1>3, JsonAssumption DEF NoElement
<1>4. CASE IntoMember
  <2>1. CurVal' \in Values
    BY <1>4, ValuesAssumption DEF IntoMember
  <2>2. next' \in 1 .. Len(Parts) + 1
    BY <1>4, JsonAssumption DEF IntoMember, Walking, PathUsedUp
  <2> QED
    BY <1>4, <2>1, <2>2 DEF IntoMember
<1>5. CASE NoMember
  BY <1>5, JsonAssumption DEF NoMember, Absent
<1>6. CASE Misread
  BY <1>6 DEF Misread
<1>7. CASE UNCHANGED vars
  BY <1>7 DEF vars
<1> QED
  BY <1>1, <1>2, <1>3, <1>4, <1>5, <1>6, <1>7 DEF Next

LEMMA WalkFollowed ==
  ASSUME TypeOK, Walked, Next
  PROVE  Walked'
<1>1. UNCHANGED <<InDoc, Parts>>
  BY DEF Next, Arrive, IntoElement, NoElement, IntoMember, NoMember, Misread, vars
<1>2. Denoted' = Denoted /\ WellAddressed' = WellAddressed
  BY <1>1, DenotedStays
<1> SUFFICES ASSUME WellAddressed PROVE Denoted[next' - 1] = {CurVal'}
  BY <1>2 DEF Walked
<1>3. CASE UNCHANGED <<next, CurVal>>
  BY <1>3 DEF Walked
<1>4. CASE IntoElement
  <2>1. PICK i \in Indexes(Segment) :
          InRange(i, Len(CurVal.items)) /\ CurVal' = ItemAt(CurVal.items, i)
    BY <1>4 DEF IntoElement
  <2>2. i = Segment /\ Segment \in Nat /\ Denoted[next] = Children(CurVal, Segment)
    BY <1>4, <2>1, Onward DEF IntoElement
  <2>3. CurVal.items \in Seq(Values) /\ CurVal.type = "array"
    BY <1>4, ValuesAssumption DEF IntoElement, TypeOK
  <2>4. Children(CurVal, Segment) = {CurVal'}
    BY <2>1, <2>2, <2>3 DEF Children, InRange, ItemAt
  <2>5. next' - 1 = next
    BY <1>4, JsonAssumption DEF IntoElement, TypeOK
  <2> QED
    BY <2>2, <2>4, <2>5
<1>5. CASE IntoMember
  <2>1. Denoted[next] = Children(CurVal, Segment)
    BY <1>5, Onward DEF IntoMember
  <2>2. Children(CurVal, Segment) = {CurVal'}
    BY <1>5 DEF Children, IntoMember
  <2>3. next' - 1 = next
    BY <1>5, JsonAssumption DEF IntoMember, TypeOK
  <2> QED
    BY <2>1, <2>2, <2>3
<1> QED
  BY <1>3, <1>4, <1>5 DEF Next, Arrive, NoElement, NoMember, Misread, vars

LEMMA EndedRightly ==
  ASSUME IInv, Next
  PROVE  Ended'
<1> USE DEF IInv
<1>1. UNCHANGED <<InDoc, Parts>>
  BY DEF Next, Arrive, IntoElement, NoElement, IntoMember, NoMember, Misread, vars
<1>2. Denoted' = Denoted /\ WellAddressed' = WellAddressed
  BY <1>1, DenotedStays
<1> SUFFICES ASSUME WellAddressed, value' # "none" PROVE Ended'
  BY <1>2 DEF Ended
<1>3. CASE Arrive
  BY <1>2, <1>3 DEF Arrive, Ended, PathUsedUp
<1>4. CASE IntoElement \/ IntoMember
  BY <1>4 DEF IntoElement, IntoMember, Walking
<1>5. CASE NoElement
  <2>1. ~InRange(Segment, Len(CurVal.items)) /\ Segment \in Nat
        /\ Denoted[next] = Children(CurVal, Segment)
    BY <1>5, Onward DEF NoElement
  <2>2. CurVal.items \in Seq(Values) /\ CurVal.type = "array"
    BY <1>5, ValuesAssumption DEF NoElement, TypeOK
  <2>3. Denoted[next] = {}
    BY <2>1, <2>2 DEF InRange, Children
  <2> QED
    BY <1>2, <1>5, <2>2, <2>3 DEF NoElement, Walking, PathUsedUp, Ended
<1>6. CASE NoMember
  <2>1. Denoted[next] = {}
    BY <1>6, Onward DEF NoMember, Children
  <2> QED
    BY <1>2, <1>6, <2>1 DEF NoMember, Absent, Walking, PathUsedUp, Ended
<1>7. CASE Misread
  <2>1. Walking /\ (CurVal.type = "array") # (Segment \in Nat)
    BY <1>7 DEF Misread
  <2> QED
    BY <2>1, Onward
<1>8. CASE value # "none" /\ UNCHANGED vars
  BY <1>2, <1>8 DEF Ended, PathUsedUp, vars
<1> QED
  BY <1>3, <1>4, <1>5, <1>6, <1>7, <1>8 DEF Next

LEMMA Invariance == Spec => []IInv
<1>1. Init => IInv
  <2> SUFFICES ASSUME Init PROVE IInv
    OBVIOUS
  <2>1. TypeOK
    BY JsonAssumption DEF Init, TypeOK
  <2>2. Walked
    BY DenotedIs DEF Init, Walked
  <2> QED
    BY <2>1, <2>2 DEF Init, IInv, Ended
<1>2. IInv /\ [Next]_vars => IInv'
  <2> SUFFICES ASSUME IInv, [Next]_vars PROVE IInv'
    OBVIOUS
  <2>1. CASE Next
    BY <2>1, WalkTyped, WalkFollowed, EndedRightly DEF IInv
  <2>2. CASE UNCHANGED vars
    <3>1. Denoted' = Denoted /\ WellAddressed' = WellAddressed
      BY <2>2, DenotedStays DEF vars
    <3> QED
      BY <2>2, <3>1 DEF IInv, TypeOK, Walked, Ended, PathUsedUp, vars
  <2> QED
    BY <2>1, <2>2
<1> QED
  BY <1>1, <1>2, PTL DEF Spec

-----------------------------------------------------------------------------
(* Results.                                                                *)

\* The walk never leaves the document for memory that is no JSON value, and gives a text.
THEOREM TypeCorrect == Spec => []TypeOK
<1>1. IInv => TypeOK
  BY DEF IInv
<1> QED
  BY <1>1, Invariance, PTL

\* Whatever a well-addressed path denotes, in a document of any depth, is found by
\* GetValueFromPath: the filter gets the text of that value.
THEOREM PresentValuesAreFound == Spec => []PresentIsFound
<1>1. IInv => PresentIsFound
  <2> SUFFICES ASSUME IInv, value # "none", WellAddressed, Present(Len(Parts))
               PROVE  value = GetValueString(Here(Len(Parts)))
    BY DEF PresentIsFound
  <2>1. Len(Parts) \in Nat /\ next \in 1 .. Len(Parts) + 1
    BY JsonAssumption DEF IInv, TypeOK
  <2>2. ASSUME next <= Len(Parts), Denoted[next] = {} PROVE FALSE
    <3>1. next \in 0 .. Len(Parts) /\ Len(Parts) \in next .. Len(Parts)
      BY <2>1, <2>2
    <3> QED
      BY <2>2, <3>1, EmptyStays DEF Present, IInv, TypeOK
  <2>3. CASE PathUsedUp
    <3>1. next - 1 = Len(Parts)
      BY <2>1, <2>3 DEF PathUsedUp
    <3> QED
      BY <2>3, <3>1, Following DEF IInv, Ended
  <2>4. CASE ~PathUsedUp /\ CurVal.type \notin Containers
    <3>1. next <= Len(Parts) /\ next \in 1 .. Len(Parts)
      BY <2>1, <2>4 DEF PathUsedUp
    <3>2. Denoted[next] = Step(Denoted, next)
      BY <3>1, DenotedIs DEF IInv, TypeOK
    <3>3. Denoted[next] = {}
      BY <2>4, <3>2, Following DEF IInv, Step, Children, Containers
    <3> QED
      BY <2>2, <3>1, <3>3
  <2>5. CASE ~PathUsedUp /\ CurVal.type \in Containers
    BY <2>1, <2>2, <2>5 DEF IInv, Ended, PathUsedUp
  <2> QED
    BY <2>3, <2>4, <2>5
<1> QED
  BY <1>1, Invariance, PTL

\* A filter that allows certain values only never lets an answer pass in which its path, whose
\* segments address objects and arrays as the code expects, leads through objects and arrays to
\* a member or element that is missing. It says nothing of a path that meets a number or a text
\* before its end, where the code returns what it has met, nor of an object read as an array.
THEOREM AbsentValuesAreDenied == Spec => []AbsentIsDenied
<1>1. IInv => AbsentIsDenied
  <2> SUFFICES ASSUME IInv, value # "none", Missing,
                      NEW allowed \in (SUBSET (Text \ {EmptyText})) \ {{}}
               PROVE  ~Permits([Path |-> Parts, AllowOnly |-> allowed, AllowNone |-> {}], value)
    BY DEF AbsentIsDenied
  <2>1. Len(Parts) \in Nat /\ next \in 1 .. Len(Parts) + 1 /\ WellAddressed
    BY JsonAssumption DEF IInv, TypeOK, Missing
  <2>2. ~PathUsedUp
    BY <2>1, Following DEF IInv, PathUsedUp, Missing
  <2>3. CurVal.type \in Containers
    BY <2>1, Following DEF IInv, Missing
  <2>4. value = EmptyText
    BY <2>1, <2>2, <2>3 DEF IInv, Ended
  <2> QED
    BY <2>4 DEF Permits
<1> QED
  BY <1>1, Invariance, PTL
=============================================================================
