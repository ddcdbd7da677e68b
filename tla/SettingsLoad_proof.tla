------------------------- MODULE SettingsLoad_proof -------------------------
(***************************************************************************)
(* What holds of SettingsLoad for every settings file.                     *)
(***************************************************************************)
EXTENDS SettingsLoad, TLAPS

-----------------------------------------------------------------------------
(* Where the loading is: the cursor points into the file, and at a part of *)
(* it that has been found to be right.                                     *)

Last == Servers[Len(Servers)]

Typed ==
  /\ SetDoc \in Files
  /\ pc \in {"open", "servers", "client", "filters", "allow_only", "allow_none", "done"}
  /\ x \in Nat \ {0} /\ y \in Nat \ {0} /\ o \in Nat \ {0}
  /\ HasLoaded \in BOOLEAN
  /\ Servers \in Seq(Server)
  /\ loaded \in {"none", "true", "false", "thrown"}

Loading   == SetDoc.is = "right" /\ HasLoaded = TRUE /\ loaded = "none"
AtServers == Loading /\ x <= Len(SetDoc.of) + 1
InServer  == Loading /\ x <= Len(SetDoc.of) /\ IsUsable(ThisServer) /\ Servers # <<>>
InFilters == InServer /\ ThisServer.of.filters.is = "right"
AtFilters == InFilters /\ y <= Len(Filters) + 1
InFilter  == InFilters /\ y <= Len(Filters) /\ HasPath(ThisFilter) /\ Last.Filters # <<>>
AtList    == InFilter /\ (List.is = "right" => o <= Len(List.of) + 1)

Placed ==
  /\ pc = "open" => Servers = <<>> /\ x = 1 /\ HasLoaded = FALSE /\ loaded = "none"
  /\ pc = "servers" => AtServers
  /\ pc = "client" => InServer
  /\ pc = "filters" => AtFilters
  /\ InList => AtList
  /\ pc # "done" => loaded = "none"

-----------------------------------------------------------------------------
(* Types of what the file holds.                                           *)

\* A right member carries a value of its type.
LEMMA RightHolds ==
  ASSUME NEW S, NEW field \in Field(S) \cup {Unreadable}, field.is = "right"
  PROVE  field.of \in S
BY DEF Field, Absent, Wrong, Unreadable, Right

LEMMA RightElement ==
  ASSUME NEW S, NEW field \in {Wrong} \cup Right(S), field.is = "right"
  PROVE  field.of \in S
BY DEF Wrong, Right

LEMMA DocType ==
  ASSUME SetDoc \in Files, SetDoc.is = "right"
  PROVE  SetDoc.of \in Seq({Wrong} \cup Right(Entry))
<1> DEFINE S == Seq({Wrong} \cup Right(Entry))
<1>1. SetDoc \in Field(S) \cup {Unreadable}
  BY LoadAssumption DEF File
<1> QED BY <1>1, RightHolds

\* The entry the loading is at, with the types of its members.
LEMMA ServerType ==
  ASSUME Typed, SetDoc.is = "right", x <= Len(SetDoc.of), IsUsable(ThisServer)
  PROVE  /\ ThisServer.of \in Entry
         /\ ThisServer.of.url.of \in Urls
         /\ ThisServer.of.filters.is = "right" =>
              Filters \in Seq({Wrong} \cup Right(FilterEntry))
<1>1. SetDoc.of \in Seq({Wrong} \cup Right(Entry)) /\ x \in 1 .. Len(SetDoc.of)
  BY DocType DEF Typed
<1>2. ThisServer \in {Wrong} \cup Right(Entry)
  BY <1>1 DEF ThisServer
<1>3. ThisServer.of \in Entry
  BY <1>2, RightElement DEF IsUsable
<1>4. ThisServer.of.url \in Field(Urls) /\ ThisServer.of.url.is = "right"
  BY <1>3 DEF Entry, IsUsable
<1>5. ThisServer.of.url.of \in Urls
  BY <1>4, RightHolds
<1>6. ThisServer.of.filters \in Field(Seq({Wrong} \cup Right(FilterEntry)))
  BY <1>3 DEF Entry
<1>7. ThisServer.of.filters.is = "right" =>
        Filters \in Seq({Wrong} \cup Right(FilterEntry))
  BY <1>6, RightHolds DEF Filters
<1> QED BY <1>3, <1>5, <1>7

\* The filter the loading is at, with the types of its members.
LEMMA FilterType ==
  ASSUME Typed, SetDoc.is = "right", x <= Len(SetDoc.of), IsUsable(ThisServer),
         ThisServer.of.filters.is = "right", y <= Len(Filters), HasPath(ThisFilter)
  PROVE  /\ ThisFilter.of \in FilterEntry
         /\ ThisFilter.of.path.of \in Path
         /\ List.is = "right" => List.of \in Values
<1>1. Filters \in Seq({Wrong} \cup Right(FilterEntry)) /\ y \in 1 .. Len(Filters)
  BY ServerType DEF Typed
<1>2. ThisFilter \in {Wrong} \cup Right(FilterEntry)
  BY <1>1 DEF ThisFilter
<1>3. ThisFilter.of \in FilterEntry
  BY <1>2, RightElement DEF HasPath
<1>4. ThisFilter.of.path \in Field(Path) /\ ThisFilter.of.path.is = "right"
  BY <1>3 DEF FilterEntry, HasPath
<1>5. ThisFilter.of.path.of \in Path
  BY <1>4, RightHolds
<1>6. List \in Field(Values)
  BY <1>3 DEF FilterEntry, List
<1>7. List.is = "right" => List.of \in Values
  BY <1>6, RightHolds
<1> QED BY <1>3, <1>5, <1>7

\* The value the loading is at.
LEMMA ValueType ==
  ASSUME Typed, List.is = "right", List.of \in Values, o <= Len(List.of),
         List.of[o].is = "right"
  PROVE  List.of[o].of \in Text
<1>1. o \in 1 .. Len(List.of) /\ List.of \in Seq({Wrong} \cup Right(Text))
  BY DEF Typed, Values
<1>2. List.of[o] \in {Wrong} \cup Right(Text)
  BY <1>1
<1> QED BY <1>2, RightElement

\* A conversion keeps the type, for the empty text is of every type; it loses nothing of a
\* list of texts but what may be lost.
LEMMA ConvertedType ==
  ASSUME NEW S, Empty \in S, NEW t \in S, NEW u \in Converted(t)
  PROVE  u \in S
BY DEF Converted, Loss

LEMMA KeptMore ==
  ASSUME NEW T, NEW P, KeptAll(T, P), NEW t, NEW u \in Converted(t)
  PROVE  KeptAll(T \cup {u}, P \cup {t})
<1>1. CASE u = t
  BY <1>1 DEF KeptAll
<1>2. CASE u \in Loss
  BY <1>2 DEF KeptAll
<1> QED BY <1>1, <1>2 DEF Converted

-----------------------------------------------------------------------------
(* What the steps that change the list do to it.                           *)

LEMMA TakeServerEffect ==
  ASSUME Typed, Placed, TakeServer
  PROVE  /\ Servers' \in Seq(Server)
         /\ Len(Servers') = Len(Servers) + 1
         /\ \A i \in 1 .. Len(Servers) : Servers'[i] = Servers[i]
         /\ Last'.URL \in Converted(ThisServer.of.url.of)
         /\ Last'.Filters = <<>>
<1>1. SetDoc.is = "right" /\ x <= Len(SetDoc.of) /\ IsUsable(ThisServer)
  BY DEF TakeServer, Placed, AtServers, Loading
<1>2. ThisServer.of.url.of \in Urls
  BY <1>1, ServerType
<1>3. PICK url \in Converted(ThisServer.of.url.of) :
        Servers' = Append(Servers, [URL |-> url, WebClient |-> FALSE, Filters |-> <<>>])
  BY DEF TakeServer
<1> DEFINE new == [URL |-> url, WebClient |-> FALSE, Filters |-> <<>>]
<1>4. url \in Urls
  BY <1>2, ConvertedType, LoadAssumption
<1>5. <<>> \in Seq(Filter)
  OBVIOUS
<1>6. new \in Server
  BY <1>4, <1>5 DEF Server
<1>7. new.URL = url /\ new.Filters = <<>>
  OBVIOUS
<1>8. Servers' = Append(Servers, new) /\ Servers \in Seq(Server)
  BY <1>3 DEF Typed
<1> HIDE DEF new
<1>9. /\ Append(Servers, new) \in Seq(Server)
      /\ Len(Append(Servers, new)) = Len(Servers) + 1
      /\ \A i \in 1 .. Len(Servers) : Append(Servers, new)[i] = Servers[i]
      /\ Append(Servers, new)[Len(Servers) + 1] = new
  BY <1>6, <1>8
<1>10. Last' = new
  BY <1>8, <1>9 DEF Last
<1> QED BY <1>7, <1>8, <1>9, <1>10

\* A step that replaces the last server keeps all others.
LEMMA SeqUpdate ==
  ASSUME NEW S, NEW s \in Seq(S), s # <<>>, NEW new \in S
  PROVE  /\ [s EXCEPT ![Len(s)] = new] \in Seq(S)
         /\ Len([s EXCEPT ![Len(s)] = new]) = Len(s)
         /\ [s EXCEPT ![Len(s)] = new] # <<>>
         /\ \A i \in 1 .. Len(s) - 1 : [s EXCEPT ![Len(s)] = new][i] = s[i]
         /\ [s EXCEPT ![Len(s)] = new][Len(s)] = new
<1> DEFINE t == [s EXCEPT ![Len(s)] = new]
<1>1. s \in [1 .. Len(s) -> S]
  OBVIOUS
<1>0. Len(s) \in Nat /\ Len(s) # 0
  OBVIOUS
<1>2. t \in [1 .. Len(s) -> S]
  BY <1>1
<1>3. t \in Seq(S) /\ Len(t) = Len(s)
  BY <1>0, <1>2
<1>4. ASSUME NEW i \in 1 .. Len(s) - 1
      PROVE  t[i] = s[i]
  <2>1. i \in 1 .. Len(s) /\ i # Len(s)
    BY <1>0
  <2> QED BY <1>1, <2>1
<1>5. t[Len(s)] = new
  BY <1>0, <1>1
<1>6. t # <<>>
  BY <1>0, <1>3
<1> QED BY <1>3, <1>4, <1>5, <1>6

LEMMA LastReplaced ==
  ASSUME NEW STATE new, new \in Server, Servers \in Seq(Server), Servers # <<>>,
         Servers' = [Servers EXCEPT ![Len(Servers)] = new]
  PROVE  /\ Servers' \in Seq(Server)
         /\ Len(Servers') = Len(Servers)
         /\ Servers' # <<>>
         /\ \A i \in 1 .. Len(Servers) - 1 : Servers'[i] = Servers[i]
         /\ Last' = new
BY SeqUpdate DEF Last

LEMMA BuildClientEffect ==
  ASSUME Typed, Placed, BuildClient
  PROVE  /\ Last \in Server
         /\ [Last EXCEPT !.WebClient = TRUE] \in Server
         /\ Servers' = [Servers EXCEPT ![Len(Servers)] = [Last EXCEPT !.WebClient = TRUE]]
<1>1. Servers \in Seq(Server) /\ Servers # <<>>
  BY DEF Typed, Placed, BuildClient, InServer
<1>2. Len(Servers) \in 1 .. Len(Servers)
  BY <1>1
<1>3. Last \in Server
  BY <1>1, <1>2 DEF Last
<1> QED BY <1>1, <1>2, <1>3 DEF Last, Server, BuildClient

NoValues(path) == [Path |-> path, AllowOnly |-> {}, AllowNone |-> {}]

WithNewFilter(path) == [Last EXCEPT !.Filters = Append(@, NoValues(path))]

LEMMA TakeFilterEffect ==
  ASSUME Typed, Placed, TakeFilter
  PROVE  /\ Last \in Server
         /\ \E path \in Converted(ThisFilter.of.path.of) :
              /\ path \in Path
              /\ WithNewFilter(path) \in Server
              /\ Servers' = [Servers EXCEPT ![Len(Servers)] = WithNewFilter(path)]
<1>1. Servers \in Seq(Server) /\ Servers # <<>>
  BY DEF Typed, Placed, TakeFilter, AtFilters, InFilters, InServer
<1>2. Len(Servers) \in 1 .. Len(Servers)
  BY <1>1
<1>3. Last \in Server
  BY <1>1, <1>2 DEF Last
<1>4. ThisFilter.of.path.of \in Path
  BY FilterType DEF Placed, TakeFilter, AtFilters, InFilters, InServer, Loading
<1>5. PICK path \in Converted(ThisFilter.of.path.of) :
        Servers' = [Servers EXCEPT ![Len(Servers)].Filters = Append(@, NoValues(path))]
  BY DEF TakeFilter, NoValues
<1>6. path \in Path
  BY <1>4, ConvertedType, LoadAssumption
<1>7. NoValues(path) \in Filter
  BY <1>6 DEF Filter, NoValues
<1>8. Last.Filters \in Seq(Filter)
  BY <1>3 DEF Server
<1>9. WithNewFilter(path) \in Server
  BY <1>3, <1>7, <1>8 DEF WithNewFilter, Server
<1>10. Servers' = [Servers EXCEPT ![Len(Servers)] = WithNewFilter(path)]
  BY <1>1, <1>2, <1>5 DEF WithNewFilter, Last
<1> QED BY <1>3, <1>6, <1>9, <1>10

LastFilter == Last.Filters[Len(Last.Filters)]

WithNewValue(text) ==
  [Last EXCEPT !.Filters[Len(Last.Filters)] = WithValue(@, pc, text)]

LEMMA TakeValueEffect ==
  ASSUME Typed, Placed, TakeValue
  PROVE  /\ Last \in Server
         /\ LastFilter \in Filter
         /\ \E text \in Converted(List.of[o].of) :
              /\ WithNewValue(text) \in Server
              /\ WithValue(LastFilter, pc, text) \in Filter
              /\ Servers' = [Servers EXCEPT ![Len(Servers)] = WithNewValue(text)]
<1>1. Servers \in Seq(Server) /\ Servers # <<>>
  BY DEF Typed, Placed, TakeValue, InList, AtList, InFilter, InFilters, InServer
<1>2. Len(Servers) \in 1 .. Len(Servers)
  BY <1>1
<1>3. Last \in Server
  BY <1>1, <1>2 DEF Last
<1>4. List.of[o].of \in Text
  <2>1. List.of \in Values
    BY FilterType DEF Placed, TakeValue, InList, AtList, InFilter, InFilters, InServer, Loading
  <2> QED BY <2>1, ValueType DEF TakeValue
<1>5. Last.Filters \in Seq(Filter) /\ Last.Filters # <<>>
  BY <1>3 DEF Server, Placed, TakeValue, InList, AtList, InFilter
<1>6. Len(Last.Filters) \in 1 .. Len(Last.Filters) /\ LastFilter \in Filter
  BY <1>5 DEF LastFilter
<1>7. PICK text \in Converted(List.of[o].of) :
        Servers' = [Servers EXCEPT ![Len(Servers)].Filters[NewFilter(Servers[Len(Servers)])] =
                      WithValue(@, pc, text)]
  BY DEF TakeValue
<1>8. text \in Text
  BY <1>4, ConvertedType, LoadAssumption
<1>9. WithValue(LastFilter, pc, text) \in Filter
  BY <1>6, <1>8 DEF WithValue, Filter
<1>10. [Last.Filters EXCEPT ![Len(Last.Filters)] = WithValue(LastFilter, pc, text)]
         \in Seq(Filter)
  BY <1>5, <1>6, <1>9
<1>11. WithNewValue(text) = [Last EXCEPT !.Filters = [Last.Filters EXCEPT
                              ![Len(Last.Filters)] = WithValue(LastFilter, pc, text)]]
  BY <1>3, <1>6 DEF WithNewValue, LastFilter, Server
<1>12. WithNewValue(text) \in Server
  BY <1>3, <1>10, <1>11 DEF Server
<1>13. Servers' = [Servers EXCEPT ![Len(Servers)] = WithNewValue(text)]
  BY <1>1, <1>2, <1>3, <1>7 DEF WithNewValue, Last, NewFilter, Server
<1> QED BY <1>3, <1>6, <1>9, <1>12, <1>13
-----------------------------------------------------------------------------
(* The cursor is where it should be.                                       *)

IInv == Typed /\ Placed

LEMMA InitIInv == Init => IInv
<1>1. <<>> \in Seq(Server)
  OBVIOUS
<1>2. Init => Typed
  <2> SUFFICES ASSUME Init PROVE Typed
    OBVIOUS
  <2>1. Servers \in Seq(Server)
    BY <1>1, Zenon DEF Init
  <2>2. HasLoaded \in BOOLEAN
    BY DEF Init
  <2> QED BY <2>1, <2>2 DEF Init, Typed
<1>3. Init => Placed
  BY DEF Init, Placed, InList
<1> QED BY <1>2, <1>3 DEF IInv

\* Where the cursor stays on the same server, or on the same filter, what was found out
\* about it stays true.
LEMMA StaysInServer ==
  ASSUME InServer, UNCHANGED <<SetDoc, x, HasLoaded, loaded>>, Servers' # <<>>
  PROVE  InServer' /\ UNCHANGED <<ThisServer, Filters>> /\ (InFilters => InFilters')
BY DEF InServer, InFilters, Loading, ThisServer, Filters

LEMMA StaysInFilter ==
  ASSUME InFilter, UNCHANGED <<SetDoc, x, y, HasLoaded, loaded>>,
         Servers' # <<>>, Last'.Filters # <<>>
  PROVE  InFilter' /\ UNCHANGED ThisFilter
<1>1. InServer
  BY DEF InFilter, InFilters
<1> QED BY <1>1, StaysInServer DEF InFilter, ThisFilter, Filters, InFilters

LEMMA StaysInLists ==
  ASSUME InFilter, UNCHANGED <<SetDoc, x, y, pc, HasLoaded, loaded>>,
         Servers' # <<>>, Last'.Filters # <<>>
  PROVE  InFilter' /\ UNCHANGED List
BY StaysInFilter DEF List

LEMMA NextFilterInv ==
  ASSUME Typed, InFilter, NextFilter, UNCHANGED <<SetDoc, HasLoaded, Servers, loaded>>
  PROVE  Typed' /\ Placed'
<1>1. Len(Filters) \in Nat
  BY ServerType DEF InFilter, InFilters, InServer, Loading
<1>2. InFilters' /\ UNCHANGED Filters
  BY StaysInServer DEF NextFilter, InFilter, InFilters, InServer
<1>3. AtFilters'
  BY <1>1, <1>2 DEF NextFilter, InFilter, AtFilters, Typed
<1> QED BY <1>2, <1>3 DEF NextFilter, Typed, Placed, InList, InFilters, InServer, Loading

LEMMA NextIInv == IInv /\ [Next]_vars => IInv'
<1> SUFFICES ASSUME Typed, Placed, [Next]_vars PROVE Typed' /\ Placed'
  BY DEF IInv
<1>1. CASE UNCHANGED vars
  BY <1>1 DEF vars, cursor, Typed, Placed, Loading, AtServers, InServer, InFilters, AtFilters,
    InFilter, AtList, InList, List, ThisServer, Filters, ThisFilter, Last
<1>2. CASE LoadNothing
  BY <1>2 DEF LoadNothing, Finish, cursor, Typed, Placed, InList
<1>3. CASE FindServers
  <2>1. Len(SetDoc.of) \in Nat
    BY <1>3, DocType DEF Typed, FindServers
  <2>2. AtServers'
    BY <1>3, <2>1 DEF FindServers, cursor, Placed, AtServers, Loading
  <2> QED BY <1>3, <2>2 DEF FindServers, cursor, Typed, Placed, InList
<1>4. CASE ThrowEarly
  BY <1>4 DEF ThrowEarly, Finish, cursor, Typed, Placed, InList
<1>5. CASE SkipServer
  <2>1. Len(SetDoc.of) \in Nat /\ AtServers
    BY <1>5, DocType DEF Typed, Placed, SkipServer, AtServers, Loading
  <2>2. AtServers'
    BY <1>5, <2>1 DEF SkipServer, NextServer, AtServers, Loading, Typed
  <2> QED BY <1>5, <2>2 DEF SkipServer, NextServer, Typed, Placed, InList, AtServers, Loading
<1>6. CASE TakeServer
  <2>1. Servers' \in Seq(Server) /\ Servers' # <<>>
    BY <1>6, TakeServerEffect DEF Typed
  <2>2. InServer'
    BY <1>6, <2>1 DEF TakeServer, cursor, Placed, AtServers, InServer, Loading, ThisServer
  <2> QED BY <1>6, <2>1, <2>2 DEF TakeServer, cursor, Typed, Placed, InList, InServer, Loading
<1>7. CASE BuildClient
  <2>1. Servers' \in Seq(Server) /\ Servers' # <<>>
    BY <1>7, BuildClientEffect, LastReplaced DEF Typed, Placed, BuildClient, InServer
  <2>2. InServer
    BY <1>7 DEF Placed, BuildClient
  <2>3. Len(SetDoc.of) \in Nat
    BY <2>2, DocType DEF Typed, InServer, Loading
  <2>4. CASE ThisServer.of.filters.is = "right"
    <3>1. Len(Filters) \in Nat
      BY <2>2, <2>4, ServerType DEF InServer, Loading
    <3>2. pc' = "filters" /\ y' = 1 /\ UNCHANGED <<SetDoc, x, o, HasLoaded, loaded>>
      BY <1>7, <2>4 DEF BuildClient
    <3>3. AtFilters'
      BY <2>1, <2>2, <2>4, <3>1, <3>2, StaysInServer DEF AtFilters, InFilters
    <3> QED BY <2>1, <3>2, <3>3 DEF Typed, Placed, InList, AtFilters, InFilters, InServer, Loading
  <2>5. CASE ThisServer.of.filters.is # "right"
    <3>1. NextServer /\ UNCHANGED <<SetDoc, HasLoaded, loaded>>
      BY <1>7, <2>5 DEF BuildClient
    <3>2. AtServers'
      BY <2>2, <2>3, <3>1 DEF NextServer, AtServers, InServer, Loading, Typed
    <3> QED BY <2>1, <3>1, <3>2 DEF NextServer, Typed, Placed, InList, AtServers, Loading
  <2> QED BY <2>4, <2>5
<1>8. CASE Throw
  BY <1>8 DEF Throw, GiveUp, Finish, cursor, Typed, Placed, InList
<1>9. CASE EndServers
  BY <1>9 DEF EndServers, Finish, cursor, Typed, Placed, InList
<1>10. CASE SkipFilter
  <2>1. InFilters /\ Len(Filters) \in Nat
    BY <1>10, ServerType DEF Placed, SkipFilter, AtFilters, InFilters, InServer, Loading
  <2>2. InFilters' /\ UNCHANGED Filters
    BY <1>10, <2>1, StaysInServer DEF SkipFilter, NextFilter, InFilters, InServer
  <2>3. AtFilters'
    BY <1>10, <2>1, <2>2 DEF SkipFilter, NextFilter, AtFilters, Typed
  <2> QED BY <1>10, <2>2, <2>3 DEF SkipFilter, NextFilter, Typed, Placed, InList, InFilters,
        InServer, Loading
<1>11. CASE TakeFilter
  <2>1. InFilters /\ Typed
    BY <1>11 DEF Placed, TakeFilter, AtFilters
  <2>11. Last \in Server
    BY <1>11, TakeFilterEffect
  <2>12. PICK path \in Path :
           /\ WithNewFilter(path) \in Server
           /\ Servers' = [Servers EXCEPT ![Len(Servers)] = WithNewFilter(path)]
    BY <1>11, TakeFilterEffect
  <2>2. Servers' \in Seq(Server) /\ Servers' # <<>> /\ Last' = WithNewFilter(path)
    BY <2>1, <2>12, LastReplaced DEF Typed, InFilters, InServer
  <2>3. WithNewFilter(path).Filters # <<>>
    BY <2>11 DEF WithNewFilter, Server
  <2>4. InFilters' /\ UNCHANGED <<ThisServer, Filters>>
    BY <1>11, <2>1, <2>2, StaysInServer DEF TakeFilter, InFilters
  <2>5. UNCHANGED ThisFilter
    BY <1>11, <2>4 DEF TakeFilter, ThisFilter
  <2>6. InFilter'
    BY <1>11, <2>2, <2>3, <2>4, <2>5 DEF TakeFilter, InFilter, HasPath
  <2>7. ThisFilter.of \in FilterEntry
    BY <1>11, <2>1, FilterType DEF TakeFilter, InFilters, InServer, Loading
  <2>8. List' = ThisFilter.of.allow_only
    BY <1>11, <2>5 DEF TakeFilter, List
  <2>9. List'.is = "right" => Len(List'.of) \in Nat
    BY <2>7, <2>8, RightHolds DEF FilterEntry, Values
  <2>10. AtList'
    BY <1>11, <2>6, <2>9 DEF TakeFilter, AtList
  <2> QED BY <1>11, <2>2, <2>6, <2>10 DEF TakeFilter, Typed, Placed, InList, InFilter, InFilters,
        InServer, Loading
<1>12. CASE EndFilters
  <2>1. InServer /\ Len(SetDoc.of) \in Nat
    BY <1>12, DocType DEF Typed, Placed, EndFilters, AtFilters, InFilters, InServer, Loading
  <2>2. AtServers'
    BY <1>12, <2>1 DEF EndFilters, NextServer, AtServers, InServer, Loading, Typed
  <2> QED BY <1>12, <2>2 DEF EndFilters, NextServer, Typed, Placed, InList, AtServers, Loading
<1>13. CASE WrongList
  <2>1. InFilter
    BY <1>13 DEF WrongList, Placed, AtList
  <2> QED BY <1>13, <2>1, NextFilterInv DEF WrongList
<1>14. CASE SkipValue
  <2>1. InFilter
    BY <1>14 DEF SkipValue, Placed, AtList
  <2>2. List.is = "right" => Len(List.of) \in Nat
    BY <2>1, FilterType DEF InFilter, InFilters, InServer, Loading, Values
  <2>3. Last' = Last
    BY <1>14 DEF SkipValue, Last
  <2>4. InFilter' /\ UNCHANGED List
    BY <1>14, <2>1, <2>3, StaysInLists DEF SkipValue, InFilter, InFilters, InServer
  <2>5. AtList'
    BY <1>14, <2>2, <2>4 DEF SkipValue, AtList, Typed
  <2> QED BY <1>14, <2>4, <2>5 DEF SkipValue, Typed, Placed, InList, InFilter, InFilters,
        InServer, Loading
<1>15. CASE TakeValue
  <2>1. InFilter
    BY <1>15 DEF TakeValue, Placed, AtList
  <2>8. PICK text :
          /\ WithNewValue(text) \in Server
          /\ WithValue(LastFilter, pc, text) \in Filter
          /\ Servers' = [Servers EXCEPT ![Len(Servers)] = WithNewValue(text)]
    BY <1>15, TakeValueEffect
  <2>2. Servers' \in Seq(Server) /\ Servers' # <<>> /\ Last' = WithNewValue(text)
    BY <2>1, <2>8, LastReplaced DEF Typed, InFilter, InFilters, InServer
  <2>3. Last.Filters \in Seq(Filter) /\ Last.Filters # <<>>
    BY <1>15, <2>1, TakeValueEffect DEF Server, InFilter
  <2>4. WithNewValue(text).Filters # <<>>
    BY <1>15, <2>3, <2>8, TakeValueEffect, SeqUpdate DEF WithNewValue, Server, LastFilter
  <2>5. Len(List.of) \in Nat
    BY <1>15, <2>1, FilterType DEF TakeValue, InFilter, InFilters, InServer, Loading, Values
  <2>6. InFilter' /\ UNCHANGED List
    BY <1>15, <2>1, <2>2, <2>4, StaysInLists DEF TakeValue
  <2>7. AtList'
    BY <1>15, <2>5, <2>6 DEF TakeValue, AtList, Typed
  <2> QED BY <1>15, <2>2, <2>6, <2>7 DEF TakeValue, Typed, Placed, InList, InFilter, InFilters,
        InServer, Loading
<1>16. CASE EndList
  <2>1. InFilter
    BY <1>16 DEF EndList, Placed, AtList
  <2>2. CASE pc = "allow_only"
    <3>1. pc' = "allow_none" /\ o' = 1 /\ UNCHANGED <<SetDoc, x, y, HasLoaded, Servers, loaded>>
      BY <1>16, <2>2 DEF EndList, FirstValue
    <3>2. Last' = Last
      BY <3>1 DEF Last
    <3>3. InFilter' /\ UNCHANGED ThisFilter
      BY <2>1, <3>1, <3>2, StaysInFilter DEF InFilter, InFilters, InServer
    <3>4. List' = ThisFilter.of.allow_none
      BY <3>1, <3>3 DEF List
    <3>5. ThisFilter.of \in FilterEntry
      BY <2>1, FilterType DEF InFilter, InFilters, InServer, Loading
    <3>6. List'.is = "right" => Len(List'.of) \in Nat
      BY <3>4, <3>5, RightHolds DEF FilterEntry, Values
    <3>7. AtList'
      BY <3>1, <3>3, <3>6 DEF AtList
    <3> QED BY <3>1, <3>3, <3>7 DEF Typed, Placed, InList, InFilter, InFilters, InServer, Loading
  <2>3. CASE pc # "allow_only"
    BY <1>16, <2>1, <2>3, NextFilterInv DEF EndList
  <2> QED BY <2>2, <2>3
<1> QED BY <1>1, <1>2, <1>3, <1>4, <1>5, <1>6, <1>7, <1>8, <1>9, <1>10, <1>11, <1>12, <1>13,
      <1>14, <1>15, <1>16 DEF Next

LEMMA Invariance == Spec => []IInv
BY InitIInv, NextIInv, PTL DEF Spec

\* In whatever state the file is, the variables keep their types, and the loops stay
\* within the arrays of the file.
THEOREM TypeCorrect == Spec => []TypeOK
<1>1. IInv => TypeOK
  BY DEF IInv, Typed, Placed, TypeOK, AtServers, AtFilters, AtList
<1> QED BY <1>1, Invariance, PTL
-----------------------------------------------------------------------------
(* A client for every server but the one that is being loaded.             *)

\* Four steps change the list; these do not.
OtherStep ==
  \/ UNCHANGED vars \/ LoadNothing \/ FindServers \/ ThrowEarly \/ SkipServer \/ Throw
  \/ EndServers \/ SkipFilter \/ EndFilters \/ WrongList \/ SkipValue \/ EndList

LEMMA StepKinds ==
  [Next]_vars => TakeServer \/ BuildClient \/ TakeFilter \/ TakeValue \/ OtherStep
BY DEF Next, OtherStep

InBody == pc \in {"client", "filters", "allow_only", "allow_none"}

\* They neither enter the body of the loop over the servers nor turn to another server or
\* filter in it.
LEMMA OtherStepKeeps ==
  ASSUME OtherStep
  PROVE  /\ UNCHANGED <<SetDoc, Servers>>
         /\ pc' = "client" => pc = "client"
         /\ pc = "client" => pc' \in {"client", "done"}
         /\ InBody' => InBody /\ x' = x
         /\ InList' => InList /\ x' = x /\ y' = y
         /\ pc = "done" => pc' = "done" /\ loaded' = loaded
         /\ pc' = "done" /\ loaded' = "true" => pc \in {"open", "servers", "done"}
BY DEF OtherStep, vars, cursor, LoadNothing, FindServers, ThrowEarly, SkipServer, Throw, EndServers,
  SkipFilter, EndFilters, WrongList, SkipValue, EndList, NextServer, NextFilter, Finish, GiveUp,
  InBody, InList

Clients ==
  /\ \A i \in 1 .. Len(Servers) - 1 : Servers[i].WebClient = TRUE
  /\ pc \notin {"client", "done"} /\ Servers # <<>> => Last.WebClient = TRUE
  /\ pc = "client" => Last.Filters = <<>>
  /\ pc = "done" /\ Servers # <<>> => \/ Last.WebClient = TRUE
                                      \/ loaded # "true" /\ Last.Filters = <<>>

LEMMA InitClients == Init => Clients
<1>1. Init => Len(Servers) = 0
  BY DEF Init
<1> QED BY <1>1 DEF Init, Clients

LEMMA NextClients == IInv /\ Clients /\ [Next]_vars => Clients'
<1> SUFFICES ASSUME Typed, Placed, Clients, [Next]_vars PROVE Clients'
  BY DEF IInv
<1>1. CASE TakeServer
  <2>1. /\ Len(Servers') = Len(Servers) + 1 /\ Len(Servers) \in Nat
        /\ \A i \in 1 .. Len(Servers) : Servers'[i] = Servers[i]
        /\ Last'.Filters = <<>>
    BY <1>1, TakeServerEffect DEF Typed
  <2>2. \A i \in 1 .. Len(Servers) : Servers[i].WebClient = TRUE
    <3> SUFFICES ASSUME NEW i \in 1 .. Len(Servers) PROVE Servers[i].WebClient = TRUE
      OBVIOUS
    <3>1. Servers # <<>>
      BY <2>1
    <3>2. CASE i = Len(Servers)
      BY <1>1, <3>1, <3>2 DEF Clients, TakeServer, Last
    <3>3. CASE i # Len(Servers)
      BY <2>1, <3>3 DEF Clients
    <3> QED BY <3>2, <3>3
  <2>3. \A i \in 1 .. Len(Servers') - 1 : Servers'[i].WebClient = TRUE
    BY <2>1, <2>2
  <2> QED BY <1>1, <2>1, <2>3 DEF TakeServer, Clients
<1>2. CASE BuildClient
  <2>1. /\ Len(Servers') = Len(Servers)
        /\ \A i \in 1 .. Len(Servers) - 1 : Servers'[i] = Servers[i]
        /\ Last' = [Last EXCEPT !.WebClient = TRUE] /\ Last \in Server
    BY <1>2, BuildClientEffect, LastReplaced DEF Typed, Placed, BuildClient, InServer
  <2>2. Last'.WebClient = TRUE
    BY <2>1 DEF Server
  <2>3. pc' \in {"filters", "servers"}
    BY <1>2 DEF BuildClient, NextServer
  <2> QED BY <2>1, <2>2, <2>3 DEF Clients
<1>3. CASE TakeFilter
  <2>0. PICK path \in Path :
          /\ WithNewFilter(path) \in Server
          /\ Servers' = [Servers EXCEPT ![Len(Servers)] = WithNewFilter(path)]
    BY <1>3, TakeFilterEffect
  <2>1. /\ Len(Servers') = Len(Servers)
        /\ \A i \in 1 .. Len(Servers) - 1 : Servers'[i] = Servers[i]
        /\ Last' = WithNewFilter(path) /\ Last \in Server
    BY <1>3, <2>0, TakeFilterEffect, LastReplaced DEF Typed, Placed, TakeFilter, AtFilters,
      InFilters, InServer
  <2>2. Last'.WebClient = Last.WebClient
    BY <2>1 DEF Server, WithNewFilter
  <2>3. Last.WebClient = TRUE /\ pc' = "allow_only"
    BY <1>3 DEF Clients, TakeFilter, Placed, AtFilters, InFilters, InServer
  <2> QED BY <2>1, <2>2, <2>3 DEF Clients
<1>4. CASE TakeValue
  <2>0. PICK text :
          /\ WithNewValue(text) \in Server
          /\ Servers' = [Servers EXCEPT ![Len(Servers)] = WithNewValue(text)]
    BY <1>4, TakeValueEffect
  <2>1. /\ Len(Servers') = Len(Servers)
        /\ \A i \in 1 .. Len(Servers) - 1 : Servers'[i] = Servers[i]
        /\ Last' = WithNewValue(text) /\ Last \in Server
    BY <1>4, <2>0, TakeValueEffect, LastReplaced DEF Typed, Placed, TakeValue, InList, AtList,
      InFilter, InFilters, InServer
  <2>2. Last'.WebClient = Last.WebClient
    BY <2>1 DEF Server, WithNewValue
  <2>3. Last.WebClient = TRUE /\ pc' \in {"allow_only", "allow_none"}
    BY <1>4 DEF Clients, TakeValue, InList, Placed, AtList, InFilter, InFilters, InServer
  <2> QED BY <2>1, <2>2, <2>3 DEF Clients
<1>5. CASE OtherStep
  <2>1. UNCHANGED Last
    BY <1>5, OtherStepKeeps DEF Last
  <2>2. CASE pc = "open"
    BY <1>5, <2>2, OtherStepKeeps DEF Clients, Placed, Typed
  <2>3. CASE pc # "open"
    BY <1>5, <2>1, <2>3, OtherStepKeeps DEF Clients
  <2> QED BY <2>2, <2>3
<1> QED BY <1>1, <1>2, <1>3, <1>4, <1>5, StepKinds

LEMMA ClientsSuffice == IInv /\ Clients => OnlyLastLacksClient
<1> SUFFICES ASSUME Typed, Placed, Clients, NEW i \in DOMAIN Servers, ~Servers[i].WebClient
             PROVE  i = Len(Servers) /\ loaded # "true" /\ Servers[i].Filters = <<>>
  BY DEF IInv, OnlyLastLacksClient
<1>1. i \in 1 .. Len(Servers) /\ Len(Servers) \in Nat
  BY DEF Typed
<1>2. i = Len(Servers)
  BY <1>1 DEF Clients
<1>3. Servers # <<>> /\ Last = Servers[i]
  BY <1>1, <1>2 DEF Last
<1>4. pc \in {"client", "done"} /\ Last.WebClient # TRUE
  BY <1>3 DEF Clients
<1> QED BY <1>2, <1>3, <1>4 DEF Clients, Placed

\* Whatever the file holds, and wherever an exception ended the loading, only the last
\* server of the list can lack a client, and a server that lacks it has no filters.
THEOREM ClientsBuilt == Spec => []OnlyLastLacksClient
<1>1. Spec => []Clients
  BY InitClients, NextClients, Invariance, PTL DEF Spec
<1> QED BY <1>1, ClientsSuffice, Invariance, PTL
-----------------------------------------------------------------------------
(* Nothing in force that the file does not state.                          *)

\* The server and the filter being loaded are those the cursor is at.
Stated ==
  /\ NothingInvented
  /\ InBody => FoundIn(Last, ThisServer)
  /\ InList => StatedBy(LastFilter, ThisFilter)

LEMMA InitStated == Init => Stated
<1>1. Init => DOMAIN Servers = {}
  BY DEF Init
<1> QED BY <1>1 DEF Init, Stated, InBody, InList, NothingInvented

\* Replacing the last server by one that the current entry describes keeps the list justified.
LEMMA LastIsFound ==
  ASSUME Typed, InServer, NothingInvented, UNCHANGED SetDoc,
         Len(Servers') = Len(Servers), Servers' \in Seq(Server),
         \A i \in 1 .. Len(Servers) - 1 : Servers'[i] = Servers[i],
         FoundIn(Last', ThisServer)
  PROVE  NothingInvented'
<1>1. SetDoc.of \in Seq({Wrong} \cup Right(Entry)) /\ x \in DOMAIN SetDoc.of
  <2>1. SetDoc.of \in Seq({Wrong} \cup Right(Entry))
    BY DocType DEF Typed, InServer, Loading
  <2> QED BY <2>1 DEF Typed, InServer
<1> SUFFICES ASSUME NEW i \in DOMAIN Servers'
             PROVE  \E s \in DOMAIN SetDoc.of : FoundIn(Servers'[i], SetDoc.of[s])
  BY DEF NothingInvented
<1>2. Len(Servers) \in Nat /\ i \in 1 .. Len(Servers) /\ i \in DOMAIN Servers
  BY DEF Typed
<1>3. CASE i = Len(Servers)
  <2>1. Servers'[i] = Last'
    BY <1>3 DEF Last
  <2> QED BY <1>1, <2>1 DEF ThisServer
<1>4. CASE i # Len(Servers)
  <2>1. Servers'[i] = Servers[i]
    BY <1>2, <1>4
  <2> QED BY <1>2, <2>1 DEF NothingInvented
<1> QED BY <1>3, <1>4

\* Appending a value to the newest filter keeps the server and its other filters.
LEMMA NewValueAt ==
  ASSUME Typed, Placed, TakeValue, NEW text, WithValue(LastFilter, pc, text) \in Filter,
         Last' = WithNewValue(text)
  PROVE  /\ Last'.URL = Last.URL /\ Last'.WebClient = Last.WebClient
         /\ Len(Last.Filters) \in Nat /\ Len(Last'.Filters) = Len(Last.Filters)
         /\ DOMAIN Last'.Filters = 1 .. Len(Last.Filters)
         /\ DOMAIN Last.Filters = 1 .. Len(Last.Filters)
         /\ \A j \in 1 .. Len(Last.Filters) :
              j # Len(Last.Filters) => Last'.Filters[j] = Last.Filters[j]
         /\ Last'.Filters[Len(Last.Filters)] = WithValue(LastFilter, pc, text)
         /\ LastFilter' = WithValue(LastFilter, pc, text)
<1> DEFINE new == WithValue(LastFilter, pc, text)
           n == Len(Last.Filters)
<1>1. Last \in Server /\ new \in Filter /\ LastFilter \in Filter
  BY TakeValueEffect
<1>2. Last.Filters \in Seq(Filter) /\ Last.Filters # <<>>
  BY <1>1 DEF Server, Placed, TakeValue, InList, AtList, InFilter
<1> HIDE DEF new
<1>3. Last'.Filters = [Last.Filters EXCEPT ![n] = new]
  BY <1>1, <1>2 DEF WithNewValue, Server, LastFilter, new
<1>4. Last'.URL = Last.URL /\ Last'.WebClient = Last.WebClient
  BY <1>1 DEF WithNewValue, Server
<1>5. n \in Nat /\ n \in 1 .. n /\ DOMAIN Last.Filters = 1 .. n
  BY <1>2
<1>6. Last'.Filters \in Seq(Filter) /\ Len(Last'.Filters) = n /\ Last'.Filters[n] = new
  BY <1>1, <1>2, <1>3, SeqUpdate
<1>7. DOMAIN Last'.Filters = 1 .. n
  BY <1>6
<1>8. \A j \in 1 .. n : j # n => Last'.Filters[j] = Last.Filters[j]
  BY <1>3, <1>5
<1>9. LastFilter' = new
  BY <1>6 DEF LastFilter
<1> QED BY <1>4, <1>5, <1>6, <1>7, <1>8, <1>9 DEF new

LEMMA NextStated == IInv /\ Stated /\ [Next]_vars => Stated'
<1> SUFFICES ASSUME Typed, Placed, Stated, [Next]_vars PROVE Stated'
  BY DEF IInv
<1>1. CASE TakeServer
  <2>1. /\ Servers' \in Seq(Server) /\ Len(Servers') = Len(Servers) + 1 /\ Len(Servers) \in Nat
        /\ \A i \in 1 .. Len(Servers) : Servers'[i] = Servers[i]
        /\ Last'.Filters = <<>> /\ Last'.URL \in Converted(ThisServer.of.url.of)
    BY <1>1, TakeServerEffect DEF Typed
  <2>2. UNCHANGED <<SetDoc, x, ThisServer>> /\ IsUsable(ThisServer) /\ pc' = "client"
    BY <1>1 DEF TakeServer, cursor, ThisServer
  <2>3. DOMAIN Last'.Filters = {}
    BY <2>1
  <2>4. FoundIn(Last', ThisServer)
    BY <2>1, <2>2, <2>3 DEF FoundIn
  <2>5. x \in DOMAIN SetDoc.of
    <3>1. SetDoc.of \in Seq({Wrong} \cup Right(Entry)) /\ x <= Len(SetDoc.of)
      BY <1>1, DocType DEF Typed, Placed, AtServers, Loading, TakeServer
    <3> QED BY <3>1 DEF Typed
  <2>6. ASSUME NEW i \in DOMAIN Servers'
        PROVE  \E s \in DOMAIN SetDoc.of : FoundIn(Servers'[i], SetDoc.of[s])
    <3>1. i \in 1 .. Len(Servers) + 1
      BY <2>1
    <3>2. CASE i = Len(Servers) + 1
      BY <2>1, <2>4, <2>5, <3>2 DEF Last, ThisServer
    <3>3. CASE i \in 1 .. Len(Servers)
      <4>1. i \in DOMAIN Servers /\ Servers'[i] = Servers[i]
        BY <2>1, <3>3 DEF Typed
      <4> QED BY <4>1 DEF Stated, NothingInvented
    <3> QED BY <2>1, <3>1, <3>2, <3>3
  <2>7. NothingInvented'
    BY <2>2, <2>6 DEF NothingInvented
  <2>8. FoundIn(Last, ThisServer)'
    BY <2>2, <2>4 DEF FoundIn
  <2> QED BY <2>2, <2>7, <2>8 DEF Stated, InBody, InList
<1>2. CASE BuildClient
  <2>1. /\ Servers' \in Seq(Server) /\ Len(Servers') = Len(Servers)
        /\ \A i \in 1 .. Len(Servers) - 1 : Servers'[i] = Servers[i]
        /\ Last' = [Last EXCEPT !.WebClient = TRUE] /\ Last \in Server
    BY <1>2, BuildClientEffect, LastReplaced DEF Typed, Placed, BuildClient, InServer
  <2>2. Last'.URL = Last.URL /\ Last'.Filters = Last.Filters
    BY <2>1 DEF Server
  <2>3. InServer /\ FoundIn(Last, ThisServer)
    BY <1>2 DEF Placed, BuildClient, Stated, InBody
  <2>4. FoundIn(Last', ThisServer)
    BY <2>2, <2>3 DEF FoundIn
  <2>5. UNCHANGED SetDoc /\ pc' \in {"filters", "servers"} /\ (pc' = "filters" => x' = x)
    BY <1>2 DEF BuildClient, NextServer
  <2>6. NothingInvented'
    BY <2>1, <2>3, <2>4, <2>5, LastIsFound DEF Stated
  <2>7. pc' = "filters" => FoundIn(Last, ThisServer)'
    BY <2>4, <2>5 DEF FoundIn, ThisServer
  <2> QED BY <2>5, <2>6, <2>7 DEF Stated, InBody, InList
<1>3. CASE TakeFilter
  <2>0. PICK path \in Converted(ThisFilter.of.path.of) :
          /\ WithNewFilter(path) \in Server
          /\ Servers' = [Servers EXCEPT ![Len(Servers)] = WithNewFilter(path)]
    BY <1>3, TakeFilterEffect
  <2>1. /\ Servers' \in Seq(Server) /\ Len(Servers') = Len(Servers)
        /\ \A i \in 1 .. Len(Servers) - 1 : Servers'[i] = Servers[i]
        /\ Last' = WithNewFilter(path) /\ Last \in Server
    BY <1>3, <2>0, TakeFilterEffect, LastReplaced DEF Typed, Placed, TakeFilter, AtFilters,
      InFilters, InServer
  <2>2. InFilters /\ FoundIn(Last, ThisServer)
    BY <1>3 DEF Placed, TakeFilter, AtFilters, Stated, InBody
  <2>3. UNCHANGED <<SetDoc, x, y>> /\ pc' = "allow_only"
    BY <1>3 DEF TakeFilter
  <2>4. Filters \in Seq({Wrong} \cup Right(FilterEntry)) /\ y \in DOMAIN Filters
    <3>1. Filters \in Seq({Wrong} \cup Right(FilterEntry)) /\ y <= Len(Filters)
      BY <1>3, <2>2, ServerType DEF TakeFilter, InFilters, InServer, Loading
    <3> QED BY <3>1 DEF Typed
  <2> DEFINE n == Len(Last.Filters)
             new == NoValues(path)
  <2>5. /\ Last'.URL = Last.URL
        /\ n \in Nat /\ DOMAIN Last'.Filters = 1 .. n + 1
        /\ \A j \in 1 .. n : Last'.Filters[j] = Last.Filters[j]
        /\ Last'.Filters[n + 1] = new
        /\ LastFilter' = new
    <3>1. Last.Filters \in Seq(Filter) /\ Last'.Filters = Append(Last.Filters, new)
      BY <2>1 DEF Server, WithNewFilter
    <3>2. Last'.URL = Last.URL
      BY <2>1 DEF Server, WithNewFilter
    <3> HIDE DEF new
    <3> QED BY <3>1, <3>2 DEF LastFilter
  <2>6. StatedBy(new, ThisFilter)
    BY <1>3, <2>0 DEF TakeFilter, StatedBy, NoValues
  <2>7. FoundIn(Last', ThisServer)
    <3> SUFFICES ASSUME NEW j \in DOMAIN Last'.Filters
                 PROVE  \E f \in DOMAIN Filters : StatedBy(Last'.Filters[j], Filters[f])
      BY <2>2, <2>5 DEF FoundIn, Filters, InFilters
    <3>1. CASE j = n + 1
      BY <2>4, <2>5, <2>6, <3>1 DEF ThisFilter
    <3>2. CASE j \in 1 .. n
      <4>1. j \in DOMAIN Last.Filters /\ Last'.Filters[j] = Last.Filters[j]
        BY <2>1, <2>5, <3>2 DEF Server
      <4> QED BY <2>2, <4>1 DEF FoundIn, Filters
    <3> QED BY <2>5, <3>1, <3>2
  <2>8. NothingInvented'
    BY <2>1, <2>2, <2>3, <2>7, LastIsFound DEF Stated, InFilters
  <2>9. UNCHANGED <<ThisServer, ThisFilter>>
    BY <2>3 DEF ThisServer, ThisFilter, Filters
  <2>10. FoundIn(Last, ThisServer)'
    BY <2>7, <2>9 DEF FoundIn
  <2>11. StatedBy(LastFilter, ThisFilter)'
    BY <2>5, <2>6, <2>9 DEF StatedBy
  <2> QED BY <2>8, <2>10, <2>11 DEF Stated
<1>4. CASE TakeValue
  <2>0. PICK text \in Converted(List.of[o].of) :
          /\ WithNewValue(text) \in Server
          /\ WithValue(LastFilter, pc, text) \in Filter
          /\ Servers' = [Servers EXCEPT ![Len(Servers)] = WithNewValue(text)]
    BY <1>4, TakeValueEffect
  <2>1. /\ Servers' \in Seq(Server) /\ Len(Servers') = Len(Servers)
        /\ \A i \in 1 .. Len(Servers) - 1 : Servers'[i] = Servers[i]
        /\ Last' = WithNewValue(text) /\ Last \in Server
    BY <1>4, <2>0, TakeValueEffect, LastReplaced DEF Typed, Placed, TakeValue, InList, AtList,
      InFilter, InFilters, InServer
  <2>2. InFilter /\ FoundIn(Last, ThisServer) /\ StatedBy(LastFilter, ThisFilter)
    BY <1>4 DEF Placed, TakeValue, AtList, Stated, InBody, InList
  <2>3. UNCHANGED <<SetDoc, x, y, pc>> /\ InList
    BY <1>4 DEF TakeValue
  <2>4. Filters \in Seq({Wrong} \cup Right(FilterEntry)) /\ y \in DOMAIN Filters
    <3>1. Filters \in Seq({Wrong} \cup Right(FilterEntry)) /\ y <= Len(Filters)
      BY <2>2, ServerType DEF InFilter, InFilters, InServer, Loading
    <3> QED BY <3>1 DEF Typed
  <2> DEFINE n == Len(Last.Filters)
             new == WithValue(LastFilter, pc, text)
  <2>5. /\ Last'.URL = Last.URL
        /\ n \in Nat /\ DOMAIN Last'.Filters = 1 .. n /\ DOMAIN Last.Filters = 1 .. n
        /\ \A j \in 1 .. n : j # n => Last'.Filters[j] = Last.Filters[j]
        /\ Last'.Filters[n] = new
        /\ LastFilter' = new
    BY <1>4, <2>0, <2>1, <2>2, TakeValueEffect, NewValueAt DEF InFilter
  <2>6. StatedBy(new, ThisFilter)
    <3>1. text \in TextsOf(List) \cup Loss
      <4>1. List.of \in Values /\ o \in DOMAIN List.of
        <5>1. List.of \in Values /\ o <= Len(List.of)
          BY <1>4, <2>2, FilterType DEF TakeValue, InFilter, InFilters, InServer, Loading
        <5> QED BY <5>1 DEF Values, Typed
      <4>2. List.of[o].of \in TextsOf(List)
        BY <1>4, <4>1 DEF TakeValue, TextsOf
      <4> QED BY <2>0, <4>2 DEF Converted
    <3>2. LastFilter \in Filter
      BY <1>4, TakeValueEffect
    <3> QED BY <2>2, <2>3, <3>1, <3>2 DEF StatedBy, WithValue, List, InList, Filter
  <2>7. FoundIn(Last', ThisServer)
    <3> SUFFICES ASSUME NEW j \in DOMAIN Last'.Filters
                 PROVE  \E f \in DOMAIN Filters : StatedBy(Last'.Filters[j], Filters[f])
      BY <2>2, <2>5 DEF FoundIn, Filters, InFilter, InFilters
    <3>1. CASE j = n
      BY <2>4, <2>5, <2>6, <3>1 DEF ThisFilter
    <3>2. CASE j # n
      BY <2>2, <2>5, <3>2 DEF FoundIn, Filters
    <3> QED BY <3>1, <3>2
  <2>8. NothingInvented'
    BY <2>1, <2>2, <2>3, <2>7, LastIsFound DEF Stated, InFilter, InFilters
  <2>9. UNCHANGED <<ThisServer, ThisFilter>>
    BY <2>3 DEF ThisServer, ThisFilter, Filters
  <2>10. FoundIn(Last, ThisServer)'
    BY <2>7, <2>9 DEF FoundIn
  <2>11. StatedBy(LastFilter, ThisFilter)'
    BY <2>5, <2>6, <2>9 DEF StatedBy
  <2> QED BY <2>8, <2>10, <2>11 DEF Stated
<1>5. CASE OtherStep
  <2>1. UNCHANGED <<SetDoc, Servers, Last, LastFilter>>
    BY <1>5, OtherStepKeeps DEF Last, LastFilter
  <2>2. NothingInvented'
    BY <2>1 DEF Stated, NothingInvented
  <2>3. InBody' => FoundIn(Last, ThisServer)'
    BY <1>5, <2>1, OtherStepKeeps DEF Stated, ThisServer
  <2>4. InList' => StatedBy(LastFilter, ThisFilter)'
    BY <1>5, <2>1, OtherStepKeeps DEF Stated, ThisFilter, Filters, ThisServer
  <2> QED BY <2>2, <2>3, <2>4 DEF Stated
<1> QED BY <1>1, <1>2, <1>3, <1>4, <1>5, StepKinds

\* Whatever the defects of the file, wherever an exception ended the loading and whatever
\* memory lacked, a filter in force is one the file states for that server, with none but its
\* values, and with empty texts for those that were lost.
THEOREM NothingIsInvented == Spec => []NothingInvented
<1>1. Spec => []Stated
  BY InitStated, NextStated, Invariance, PTL DEF Spec
<1>2. Stated => NothingInvented
  BY DEF Stated
<1> QED BY <1>1, <1>2, PTL
-----------------------------------------------------------------------------
(* A file without defects is in force as it was written.                   *)

\* The first n servers of the list, and the first n filters of the last one, are those of
\* the file.
ServersRead(n) == \A i \in 1 .. n : ServerAsStated(Servers[i], ServerOf(SetDoc.of[i].of))
FiltersRead(n) == \A j \in 1 .. n : AsStated(Last.Filters[j], FilterOf(Filters[j].of))

\* The texts of the list being read that the cursor has passed.
Passed == IF List.is = "right" THEN {List.of[i].of : i \in 1 .. o - 1} ELSE {}

ReadSoFar ==
  /\ pc = "servers" => Len(Servers) = x - 1 /\ ServersRead(x - 1)
  /\ InBody => Len(Servers) = x /\ ServersRead(x - 1)
  /\ pc = "client" => Last.URL \in Converted(ThisServer.of.url.of) /\ Last.Filters = <<>>
  /\ InBody /\ pc # "client" => Last.URL = ThisServer.of.url.of
  /\ pc = "filters" => Len(Last.Filters) = y - 1 /\ FiltersRead(y - 1)
  /\ InList => /\ Len(Last.Filters) = y /\ FiltersRead(y - 1)
               /\ LastFilter.Path \in Converted(ThisFilter.of.path.of)
  /\ pc = "allow_only" => KeptAll(LastFilter.AllowOnly, Passed) /\ LastFilter.AllowNone = {}
  /\ pc = "allow_none" => /\ KeptAll(LastFilter.AllowOnly, TextsOf(ThisFilter.of.allow_only))
                          /\ KeptAll(LastFilter.AllowNone, Passed)
  /\ pc = "done" /\ loaded = "true" =>
       HasLoaded = TRUE /\ Len(Servers) = Len(SetDoc.of) /\ ServersRead(Len(SetDoc.of))

\* What the cursor is at is without defects.
LEMMA CleanHere ==
  ASSUME Typed, Clean
  PROVE  /\ InServer => CleanServer(ThisServer)
         /\ AtServers /\ x <= Len(SetDoc.of) => CleanServer(ThisServer)
         /\ InFilters /\ y <= Len(Filters) => CleanFilter(ThisFilter)
         /\ InFilter => CleanList(List) /\ CleanList(ThisFilter.of.allow_only)
<1>1. SetDoc.is = "right" /\ SetDoc.of \in Seq({Wrong} \cup Right(Entry))
  BY DocType DEF Typed, Clean
<1>2. x <= Len(SetDoc.of) => CleanServer(ThisServer)
  BY <1>1 DEF Clean, ThisServer, Typed
<1>3. InFilters /\ y <= Len(Filters) => CleanFilter(ThisFilter)
  <2> SUFFICES ASSUME InFilters, y <= Len(Filters) PROVE CleanFilter(ThisFilter)
    OBVIOUS
  <2>1. Filters \in Seq({Wrong} \cup Right(FilterEntry)) /\ y \in 1 .. Len(Filters)
    BY ServerType DEF InFilters, InServer, Loading, Typed
  <2> QED BY <1>2, <2>1 DEF CleanServer, ThisFilter, Filters, InFilters, InServer
<1>4. InFilter => CleanList(List) /\ CleanList(ThisFilter.of.allow_only)
  BY <1>3 DEF InFilter, CleanFilter, List
<1> QED BY <1>2, <1>3, <1>4 DEF InServer

\* A server all of whose filters have been read is as the file describes it.
LEMMA ServerIsRead ==
  ASSUME NEW server \in Server, NEW entry, entry.filters.is = "right",
         server.URL = entry.url.of, server.WebClient = TRUE,
         Len(server.Filters) = Len(entry.filters.of),
         entry.filters.of \in Seq({Wrong} \cup Right(FilterEntry)),
         \A j \in 1 .. Len(server.Filters) :
           AsStated(server.Filters[j], FilterOf(entry.filters.of[j].of))
  PROVE  ServerAsStated(server, ServerOf(entry))
<1>1. server.Filters \in Seq(Filter)
  BY DEF Server
<1>2. /\ DOMAIN entry.filters.of = DOMAIN server.Filters
      /\ DOMAIN server.Filters = 1 .. Len(server.Filters)
  BY <1>1
<1> DEFINE stated == ServerOf(entry)
<1>3. /\ stated.URL = entry.url.of
      /\ DOMAIN stated.Filters = DOMAIN entry.filters.of
      /\ \A j \in DOMAIN entry.filters.of : stated.Filters[j] = FilterOf(entry.filters.of[j].of)
  BY DEF ServerOf
<1> QED BY <1>2, <1>3 DEF ServerAsStated

LEMMA InitReadSoFar == Init => ReadSoFar
BY DEF Init, ReadSoFar, InBody, InList

LEMMA NextReadSoFar == IInv /\ Clients /\ ReadSoFar /\ Clean /\ [Next]_vars => ReadSoFar'
<1> SUFFICES ASSUME Typed, Placed, Clients, ReadSoFar, Clean, [Next]_vars PROVE ReadSoFar'
  BY DEF IInv
<1>0. SetDoc.of \in Seq({Wrong} \cup Right(Entry))
  BY DocType DEF Typed, Clean
<1>1. CASE FindServers
  <2>1. x' = 1 /\ Servers' = <<>> /\ pc' = "servers"
    BY <1>1 DEF FindServers, cursor, Placed
  <2>2. Len(Servers') = 0
    BY <2>1
  <2> QED BY <2>1, <2>2 DEF ReadSoFar, ServersRead, InBody, InList
<1>2. CASE TakeServer
  <2>1. /\ Len(Servers') = Len(Servers) + 1 /\ Len(Servers) \in Nat
        /\ \A i \in 1 .. Len(Servers) : Servers'[i] = Servers[i]
        /\ Last'.URL \in Converted(ThisServer.of.url.of) /\ Last'.Filters = <<>>
    BY <1>2, TakeServerEffect DEF Typed
  <2>2. UNCHANGED <<SetDoc, x, ThisServer>> /\ pc' = "client"
    BY <1>2 DEF TakeServer, cursor, ThisServer
  <2>3. Len(Servers) = x - 1 /\ ServersRead(x - 1)
    BY <1>2 DEF TakeServer, ReadSoFar
  <2>4. Len(Servers') = x /\ ServersRead(x - 1)'
    BY <2>1, <2>2, <2>3 DEF ServersRead, Typed
  <2> QED BY <2>1, <2>2, <2>4 DEF ReadSoFar, InBody, InList
<1>3. CASE BuildClient
  <2>1. /\ Len(Servers') = Len(Servers)
        /\ \A i \in 1 .. Len(Servers) - 1 : Servers'[i] = Servers[i]
        /\ Last' = [Last EXCEPT !.WebClient = TRUE] /\ Last \in Server
    BY <1>3, BuildClientEffect, LastReplaced DEF Typed, Placed, BuildClient, InServer
  <2>2. Last'.URL = Last.URL /\ Last'.Filters = Last.Filters
    BY <2>1 DEF Server
  <2>3. InServer /\ CleanServer(ThisServer)
    BY <1>3, CleanHere DEF Placed, BuildClient
  <2>4. UNCHANGED <<SetDoc, x, ThisServer>> /\ pc' = "filters" /\ y' = 1
    BY <1>3, <2>3 DEF BuildClient, CleanServer, ThisServer
  <2>5. /\ Len(Servers) = x /\ ServersRead(x - 1) /\ Last.Filters = <<>>
        /\ Last.URL \in Converted(ThisServer.of.url.of) /\ Last.URL \notin BadUrls
    BY <1>3 DEF BuildClient, ReadSoFar, InBody, Last
  <2>8. Last.URL = ThisServer.of.url.of
    BY <2>5, LoadAssumption DEF Converted, Loss
  <2>6. ServersRead(x - 1)'
    BY <2>1, <2>4, <2>5 DEF ServersRead
  <2>7. Len(Last'.Filters) = y' - 1 /\ FiltersRead(y - 1)'
    BY <2>2, <2>4, <2>5 DEF FiltersRead
  <2> QED BY <2>1, <2>2, <2>4, <2>5, <2>6, <2>7, <2>8 DEF ReadSoFar, InBody, InList
<1>4. CASE EndServers
  <2>1. Len(Servers) = x - 1 /\ ServersRead(x - 1) /\ AtServers /\ x > Len(SetDoc.of)
    BY <1>4 DEF EndServers, ReadSoFar, Placed
  <2>2. x - 1 = Len(SetDoc.of)
    BY <1>0, <2>1 DEF AtServers, Typed
  <2>3. UNCHANGED <<SetDoc, Servers, HasLoaded>> /\ pc' = "done"
    BY <1>4 DEF EndServers, Finish
  <2>4. ServersRead(Len(SetDoc.of))'
    BY <2>1, <2>2, <2>3 DEF ServersRead
  <2> QED BY <2>1, <2>2, <2>3, <2>4 DEF ReadSoFar, InBody, InList, AtServers, Loading
<1>5. CASE TakeFilter
  <2>0. PICK path \in Converted(ThisFilter.of.path.of) :
          /\ WithNewFilter(path) \in Server
          /\ Servers' = [Servers EXCEPT ![Len(Servers)] = WithNewFilter(path)]
    BY <1>5, TakeFilterEffect
  <2>1. /\ Len(Servers') = Len(Servers)
        /\ \A i \in 1 .. Len(Servers) - 1 : Servers'[i] = Servers[i]
        /\ Last' = WithNewFilter(path) /\ Last \in Server
    BY <1>5, <2>0, TakeFilterEffect, LastReplaced DEF Typed, Placed, TakeFilter, AtFilters,
      InFilters, InServer
  <2>2. InFilters /\ Len(Servers) = x /\ ServersRead(x - 1) /\ Last.URL = ThisServer.of.url.of
        /\ Len(Last.Filters) = y - 1 /\ FiltersRead(y - 1)
    BY <1>5 DEF Placed, TakeFilter, AtFilters, ReadSoFar, InBody
  <2>3. UNCHANGED <<SetDoc, x, y, ThisServer, Filters, ThisFilter>> /\ pc' = "allow_only" /\ o' = 1
    BY <1>5 DEF TakeFilter, ThisServer, Filters, ThisFilter
  <2> DEFINE new == NoValues(path)
  <2>4. /\ Last'.URL = Last.URL /\ Len(Last'.Filters) = y
        /\ \A j \in 1 .. y - 1 : Last'.Filters[j] = Last.Filters[j]
        /\ LastFilter' = new
    <3>1. Last.Filters \in Seq(Filter) /\ Last'.Filters = Append(Last.Filters, new)
      BY <2>1 DEF Server, WithNewFilter
    <3>2. Last'.URL = Last.URL
      BY <2>1 DEF Server, WithNewFilter
    <3> HIDE DEF new
    <3> QED BY <2>2, <3>1, <3>2 DEF LastFilter, Typed
  <2>5. ServersRead(x - 1)'
    BY <2>1, <2>2, <2>3 DEF ServersRead
  <2>6. FiltersRead(y - 1)'
    BY <2>2, <2>3, <2>4 DEF FiltersRead
  <2>7. Passed' = {}
    BY <2>3 DEF Passed
  <2>8. /\ LastFilter'.Path \in Converted(ThisFilter.of.path.of)
        /\ KeptAll(LastFilter'.AllowOnly, Passed') /\ LastFilter'.AllowNone = {}
    BY <2>0, <2>4, <2>7 DEF NoValues, KeptAll
  <2> HIDE DEF new
  <2> QED BY <2>1, <2>2, <2>3, <2>4, <2>5, <2>6, <2>8 DEF ReadSoFar, InBody, InList
<1>6. CASE EndFilters
  <2>1. /\ AtFilters /\ Len(Servers) = x /\ ServersRead(x - 1) /\ Last.URL = ThisServer.of.url.of
        /\ Len(Last.Filters) = y - 1 /\ FiltersRead(y - 1) /\ Last.WebClient = TRUE
    BY <1>6 DEF Placed, EndFilters, AtFilters, InFilters, InServer, ReadSoFar, InBody, Clients
  <2>2. /\ UNCHANGED <<SetDoc, Servers>> /\ pc' = "servers" /\ x' = x + 1
        /\ ThisServer.of.filters.is = "right"
    BY <1>6, <2>1 DEF EndFilters, NextServer, AtFilters, InFilters
  <2>3. Filters \in Seq({Wrong} \cup Right(FilterEntry)) /\ y - 1 = Len(Filters)
    <3>1. Filters \in Seq({Wrong} \cup Right(FilterEntry))
      BY <2>1, ServerType DEF AtFilters, InFilters, InServer, Loading
    <3> QED BY <1>6, <2>1, <3>1 DEF EndFilters, AtFilters, Typed
  <2>4. Last \in Server
    BY <2>1 DEF Last, Typed, AtFilters, InFilters, InServer
  <2>5. ServerAsStated(Last, ServerOf(ThisServer.of))
    BY <2>1, <2>2, <2>3, <2>4, ServerIsRead DEF Filters, FiltersRead
  <2>6. ServersRead(x)
    BY <2>1, <2>5 DEF ServersRead, Last, ThisServer, Typed
  <2>7. ServersRead(x - 1)'
    BY <2>2, <2>6 DEF ServersRead, Typed
  <2> QED BY <2>1, <2>2, <2>7 DEF ReadSoFar, InBody, InList, Typed
<1>7. CASE TakeValue
  <2>0. PICK text \in Converted(List.of[o].of) :
          /\ WithNewValue(text) \in Server
          /\ WithValue(LastFilter, pc, text) \in Filter
          /\ Servers' = [Servers EXCEPT ![Len(Servers)] = WithNewValue(text)]
    BY <1>7, TakeValueEffect
  <2>1. /\ Len(Servers') = Len(Servers)
        /\ \A i \in 1 .. Len(Servers) - 1 : Servers'[i] = Servers[i]
        /\ Last' = WithNewValue(text)
    BY <1>7, <2>0, LastReplaced DEF Typed, Placed, TakeValue, InList, AtList, InFilter,
      InFilters, InServer
  <2>2. /\ InFilter /\ Len(Servers) = x /\ ServersRead(x - 1) /\ Last.URL = ThisServer.of.url.of
        /\ Len(Last.Filters) = y /\ FiltersRead(y - 1)
        /\ LastFilter.Path \in Converted(ThisFilter.of.path.of)
    BY <1>7 DEF Placed, TakeValue, AtList, ReadSoFar, InBody, InList
  <2>3. /\ UNCHANGED <<SetDoc, x, y, pc, ThisServer, Filters, ThisFilter, List>>
        /\ o' = o + 1 /\ InList /\ List.is = "right"
    BY <1>7 DEF TakeValue, ThisServer, Filters, ThisFilter, List
  <2>4. /\ Last'.URL = Last.URL /\ Len(Last'.Filters) = y
        /\ \A j \in 1 .. y : j # y => Last'.Filters[j] = Last.Filters[j]
        /\ LastFilter' = WithValue(LastFilter, pc, text)
    BY <1>7, <2>0, <2>1, <2>2, NewValueAt
  <2>5. ServersRead(x - 1)'
    BY <2>1, <2>2, <2>3 DEF ServersRead
  <2>6. FiltersRead(y - 1)'
    <3>1. \A j \in 1 .. y - 1 : j \in 1 .. y /\ j # y
      BY DEF Typed
    <3>2. \A j \in 1 .. y - 1 : Last'.Filters[j] = Last.Filters[j]
      BY <2>4, <3>1
    <3> QED BY <2>2, <2>3, <3>2 DEF FiltersRead
  <2>7. Passed' = Passed \cup {List.of[o].of}
    <3>1. 1 .. o' - 1 = (1 .. o - 1) \cup {o}
      BY <2>3 DEF Typed
    <3> QED BY <2>3, <3>1 DEF Passed
  <2>8. LastFilter \in Filter
    BY <1>7, TakeValueEffect
  <2>9. /\ LastFilter'.Path \in Converted(ThisFilter.of.path.of)
        /\ pc = "allow_only" => /\ KeptAll(LastFilter'.AllowOnly, Passed')
                                /\ LastFilter'.AllowNone = {}
        /\ pc = "allow_none" => /\ KeptAll(LastFilter'.AllowOnly, TextsOf(ThisFilter.of.allow_only))
                                /\ KeptAll(LastFilter'.AllowNone, Passed')
    <3>1. CASE pc = "allow_only"
      <4>1. /\ LastFilter'.Path = LastFilter.Path /\ LastFilter'.AllowNone = LastFilter.AllowNone
            /\ LastFilter'.AllowOnly = LastFilter.AllowOnly \cup {text}
        BY <2>4, <2>8, <3>1 DEF WithValue, Filter
      <4>2. KeptAll(LastFilter.AllowOnly, Passed) /\ LastFilter.AllowNone = {}
        BY <3>1 DEF ReadSoFar
      <4>3. KeptAll(LastFilter.AllowOnly \cup {text}, Passed \cup {List.of[o].of})
        BY <2>0, <4>2, KeptMore
      <4> QED BY <2>2, <2>7, <3>1, <4>1, <4>2, <4>3
    <3>2. CASE pc = "allow_none"
      <4>1. /\ LastFilter'.Path = LastFilter.Path /\ LastFilter'.AllowOnly = LastFilter.AllowOnly
            /\ LastFilter'.AllowNone = LastFilter.AllowNone \cup {text}
        BY <2>4, <2>8, <3>2 DEF WithValue, Filter
      <4>2. /\ KeptAll(LastFilter.AllowOnly, TextsOf(ThisFilter.of.allow_only))
            /\ KeptAll(LastFilter.AllowNone, Passed)
        BY <3>2 DEF ReadSoFar
      <4>3. KeptAll(LastFilter.AllowNone \cup {text}, Passed \cup {List.of[o].of})
        BY <2>0, <4>2, KeptMore
      <4> QED BY <2>2, <2>7, <3>2, <4>1, <4>2, <4>3
    <3> QED BY <2>3, <3>1, <3>2 DEF InList
  <2> QED BY <2>1, <2>2, <2>3, <2>4, <2>5, <2>6, <2>9 DEF ReadSoFar, InBody, InList, TextsOf
<1>8. CASE EndList
  <2>1. /\ InFilter /\ Len(Servers) = x /\ ServersRead(x - 1) /\ Last.URL = ThisServer.of.url.of
        /\ Len(Last.Filters) = y /\ FiltersRead(y - 1)
        /\ LastFilter.Path \in Converted(ThisFilter.of.path.of)
    BY <1>8 DEF Placed, EndList, AtList, ReadSoFar, InBody, InList
  <2>2. Passed = TextsOf(List)
    <3>1. CASE List.is = "right"
      <4>1. List.of \in Values /\ Len(List.of) = o - 1
        <5>1. List.of \in Values /\ o <= Len(List.of) + 1
          BY <1>8, <2>1, <3>1, FilterType DEF EndList, Placed, AtList, InFilter, InFilters, InServer,
            Loading
        <5> QED BY <1>8, <3>1, <5>1 DEF EndList, Values, Typed
      <4>2. DOMAIN List.of = 1 .. o - 1
        BY <4>1 DEF Values
      <4>3. \A j \in DOMAIN List.of : List.of[j].is = "right"
        BY <2>1, <3>1, CleanHere DEF CleanList
      <4> QED BY <3>1, <4>2, <4>3 DEF Passed, TextsOf
    <3>2. CASE List.is # "right"
      BY <3>2 DEF Passed, TextsOf
    <3> QED BY <3>1, <3>2
  <2>3. CASE pc = "allow_only"
    <3>1. /\ UNCHANGED <<SetDoc, x, y, Servers, Last, LastFilter, ThisServer, Filters, ThisFilter>>
          /\ pc' = "allow_none" /\ o' = 1
      BY <1>8, <2>3 DEF EndList, FirstValue, Last, LastFilter, ThisServer, Filters, ThisFilter
    <3>2. Passed' = {}
      BY <3>1 DEF Passed
    <3>3. List = ThisFilter.of.allow_only
      BY <2>3 DEF List
    <3>4. /\ KeptAll(LastFilter.AllowOnly, TextsOf(ThisFilter.of.allow_only))
          /\ LastFilter.AllowNone = {}
      BY <2>2, <2>3, <3>3 DEF ReadSoFar
    <3>6. KeptAll({}, {})
      BY DEF KeptAll
    <3>5. ServersRead(x - 1)' /\ FiltersRead(y - 1)'
      BY <2>1, <3>1 DEF ServersRead, FiltersRead
    <3> QED BY <2>1, <3>1, <3>2, <3>4, <3>5, <3>6 DEF ReadSoFar, InBody, InList, TextsOf
  <2>4. CASE pc = "allow_none"
    <3>1. /\ UNCHANGED <<SetDoc, x, Servers, Last, ThisServer, Filters>>
          /\ pc' = "filters" /\ y' = y + 1
      BY <1>8, <2>4 DEF EndList, NextFilter, Last, ThisServer, Filters
    <3>2. AsStated(LastFilter, FilterOf(ThisFilter.of))
      <4>1. List = ThisFilter.of.allow_none
        BY <2>4 DEF List
      <4>2. /\ KeptAll(LastFilter.AllowOnly, TextsOf(ThisFilter.of.allow_only))
            /\ KeptAll(LastFilter.AllowNone, TextsOf(ThisFilter.of.allow_none))
        BY <2>2, <2>4, <4>1 DEF ReadSoFar
      <4> QED BY <2>1, <4>2 DEF FilterOf, AsStated
    <3>3. FiltersRead(y)
      BY <2>1, <3>2 DEF FiltersRead, LastFilter, ThisFilter, Typed
    <3>4. FiltersRead(y - 1)' /\ y' - 1 = y
      BY <3>1, <3>3 DEF FiltersRead, Typed
    <3>5. ServersRead(x - 1)'
      BY <2>1, <3>1 DEF ServersRead
    <3> QED BY <2>1, <3>1, <3>4, <3>5 DEF ReadSoFar, InBody, InList
  <2> QED BY <1>8, <2>3, <2>4 DEF EndList, InList
<1>9. CASE SkipServer \/ SkipFilter \/ WrongList \/ SkipValue
  <2>1. ~SkipServer
    BY CleanHere DEF SkipServer, CleanServer, Placed
  <2>2. ~SkipFilter
    BY CleanHere DEF SkipFilter, CleanFilter, Placed, AtFilters
  <2>3. ~WrongList
    BY CleanHere DEF WrongList, CleanList, Placed, AtList
  <2>4. ~SkipValue
    <3> SUFFICES ASSUME SkipValue PROVE FALSE
      OBVIOUS
    <3>1. InFilter
      BY DEF SkipValue, Placed, AtList
    <3>2. List.of \in Values /\ o \in DOMAIN List.of
      <4>1. List.of \in Values /\ o <= Len(List.of)
        BY <3>1, FilterType DEF SkipValue, InFilter, InFilters, InServer, Loading
      <4> QED BY <4>1 DEF Values, Typed
    <3> QED BY <3>1, <3>2, CleanHere DEF SkipValue, CleanList
  <2> QED BY <1>9, <2>1, <2>2, <2>3, <2>4
<1>10. CASE ThrowEarly \/ Throw \/ LoadNothing
  <2>1. ~LoadNothing
    BY DEF LoadNothing, Clean
  <2>2. pc' = "done" /\ loaded' # "true"
    BY <1>10, <2>1 DEF ThrowEarly, Throw, GiveUp, Finish
  <2> QED BY <2>2 DEF ReadSoFar, InBody, InList
<1>11. CASE UNCHANGED vars
  <2>1. UNCHANGED <<SetDoc, pc, x, y, o, HasLoaded, Servers, loaded>>
    BY <1>11 DEF vars, cursor
  <2>2. UNCHANGED <<Last, LastFilter, ThisServer, Filters, ThisFilter, List, InBody, InList>>
    BY <2>1 DEF Last, LastFilter, ThisServer, Filters, ThisFilter, List, InBody, InList
  <2>3. Passed' = Passed
    BY <2>1, <2>2 DEF Passed
  <2>4. /\ ServersRead(x - 1)' <=> ServersRead(x - 1)
        /\ ServersRead(Len(SetDoc.of))' <=> ServersRead(Len(SetDoc.of))
        /\ FiltersRead(y - 1)' <=> FiltersRead(y - 1)
    BY <2>1, <2>2 DEF ServersRead, FiltersRead
  <2> QED BY <2>1, <2>2, <2>3, <2>4 DEF ReadSoFar, TextsOf
<1> QED BY <1>1, <1>2, <1>3, <1>4, <1>5, <1>6, <1>7, <1>8, <1>9, <1>10, <1>11 DEF Next

Complete == Clean => ReadSoFar

LEMMA InitComplete == Init => Complete
BY InitReadSoFar DEF Complete

LEMMA NextComplete == IInv /\ Clients /\ Complete /\ [Next]_vars => Complete'
<1>1. [Next]_vars => UNCHANGED SetDoc
  BY DEF Next, vars, LoadNothing, FindServers, ThrowEarly, SkipServer, TakeServer, BuildClient,
    Throw, EndServers, SkipFilter, TakeFilter, EndFilters, WrongList, SkipValue, TakeValue, EndList
<1>2. UNCHANGED SetDoc => (Clean' <=> Clean)
  BY DEF Clean
<1> QED BY <1>1, <1>2, NextReadSoFar DEF Complete

LEMMA CompleteSuffices == IInv /\ Complete => CleanIsComplete
<1> SUFFICES ASSUME Typed, Placed, Complete, loaded = "true", Clean
             PROVE  /\ HasLoaded /\ DOMAIN Servers = DOMAIN SetDoc.of
                    /\ \A i \in DOMAIN Servers :
                         ServerAsStated(Servers[i], ServerOf(SetDoc.of[i].of))
  BY DEF IInv, CleanIsComplete
<1>1. HasLoaded = TRUE /\ Len(Servers) = Len(SetDoc.of) /\ ServersRead(Len(SetDoc.of))
  BY DEF Complete, ReadSoFar, Placed
<1>2. SetDoc.of \in Seq({Wrong} \cup Right(Entry)) /\ Servers \in Seq(Server)
  BY DocType DEF Typed, Clean
<1>3. DOMAIN SetDoc.of = 1 .. Len(SetDoc.of) /\ DOMAIN Servers = 1 .. Len(SetDoc.of)
  BY <1>1, <1>2
<1> QED BY <1>1, <1>3 DEF ServersRead

\* Whatever its size, a settings file without defects that is loaded to its end is in force
\* as it was written: all its servers with their URLs and all their filters, of whose paths
\* and values some may have become empty, if memory lacked.
THEOREM CleanFilesAreComplete == Spec => []CleanIsComplete
<1>1. Spec => [](Clients /\ Complete)
  BY InitClients, NextClients, InitComplete, NextComplete, Invariance, PTL DEF Spec
<1> QED BY <1>1, CompleteSuffices, Invariance, PTL
-----------------------------------------------------------------------------
(* All of it, for the modules that this one is a part of.                  *)

LoadInv == IInv /\ Clients /\ Stated /\ Complete

LEMMA InitLoadInv == Init => LoadInv
BY InitIInv, InitClients, InitStated, InitComplete DEF LoadInv

LEMMA NextLoadInv == LoadInv /\ [Next]_vars => LoadInv'
BY NextIInv, NextClients, NextStated, NextComplete DEF LoadInv

LEMMA LoadInvSuffices ==
  LoadInv => TypeOK /\ OnlyLastLacksClient /\ NothingInvented /\ CleanIsComplete
<1>1. IInv => TypeOK
  BY DEF IInv, Typed, Placed, TypeOK, AtServers, AtFilters, AtList
<1> QED BY <1>1, ClientsSuffice, CompleteSuffices DEF LoadInv, Stated
=============================================================================
